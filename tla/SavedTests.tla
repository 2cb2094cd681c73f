----------------------------- MODULE SavedTests -----------------------------
(***************************************************************************)
(* Tests, favourites and environments (master/services.go, auth/           *)
(* bookmarks.go, auth/env.go).  A test is started from a configuration     *)
(* with {{tokens}}; the ocean keeps it as it came (rawConf) and sends the  *)
(* workers a copy in which the variables of the active environment are     *)
(* substituted.  Resume takes the configuration afresh, from a favourite   *)
(* of the same name if there is one.                                       *)
(*                                                                         *)
(* Tests are in memory, under the ocean's mutex.  Favourites, environments *)
(* and the active environment are rows of a database, which the mutex does *)
(* not protect: a handler reads them one by one while others write.  Each  *)
(* SQL statement is atomic, and is assumed not to fail.                    *)
(*                                                                         *)
(* How concurrency is distributed is in Ocean; whether it can be is a free *)
(* choice here.                                                            *)
(***************************************************************************)
EXTENDS Naturals, FiniteSets

CONSTANTS
    Names,      \* of tests and favourites
    Texts,      \* configurations as a client writes them, with tokens
    Hosted,     \* those of them that name a host and a port instead of a URL
    Envs,       \* names of environments
    Versions,   \* Versions[e]: the sets of variables that e may be saved with
    Calls,      \* requests that may be under way at once
    Blank,      \* a configuration without a target, as in a request that has only a name
    NoVars, NoEnv, NoRow, NoJob, Nobody   \* for what is not there

Values == {<<e, v>> : e \in Envs, v \in UNION {Versions[x] : x \in Envs}}

ASSUME SavedTestsAssumption ==
    /\ Blank \notin Texts
    /\ Hosted \subseteq Texts
    /\ NoVars \notin Values
    /\ NoEnv \notin Envs
    /\ Nobody \notin Calls

\* A configuration, and the variables that have been substituted in it.
Config == [text : Texts \cup {Blank}, vars : Values \cup {NoVars}]
Plain(t) == [text |-> t, vars |-> NoVars]

VARIABLES
    bookmarks,  \* bookmarks[n]: the favourite n, or NoRow
    envs,       \* envs[e]: the variables of e, or NoRow
    active,     \* the setting active_env
    jobs,       \* jobs[n]: rawConf and conf of test n, or NoJob
    mu,         \* the request that holds the ocean's mutex between two steps
    call,       \* call[c]: what request c has still to do, and has read so far
    seen        \* seen[c]: what was active, and stored, since the Start or Resume c began (history)

database == <<bookmarks, envs, active>>
vars     == <<database, jobs, mu, call, seen>>

\* What a favourite keeps of a test: its URL, but neither host nor port.
Copy(conf) == IF conf.text \in Hosted THEN [conf EXCEPT !.text = Blank] ELSE conf

NoCall == [at |-> "idle", op |-> "none", name |-> "none",
           raw |-> Plain(Blank), env |-> NoEnv, vars |-> NoVars]

-----------------------------------------------------------------------------

\* applyEnv: texts have tokens for the variables of every environment, so the
\* first substitution leaves none for a second.
Apply(conf, v) ==
    IF v = NoVars \/ conf.vars # NoVars \/ conf.text = Blank
    THEN conf ELSE [conf EXCEPT !.vars = v]

\* envVars: no variables for an environment that does not exist.
EnvVars(e) == IF e \in Envs /\ envs[e] # NoRow THEN envs[e] ELSE NoVars

Begin(c, r) == call[c] = NoCall /\ call' = [call EXCEPT ![c] = r]

End(c) == call' = [call EXCEPT ![c] = NoCall]

-----------------------------------------------------------------------------
(* Start: the active environment and its variables, then the mutex.        *)

StartBegin(c, n, t) ==
    /\ Begin(c, [NoCall EXCEPT !.at = "vars", !.op = "start", !.name = n,
                               !.raw = Plain(t), !.env = active])
    /\ UNCHANGED <<database, jobs, mu>>

\* A test of that name may run already, or there may be no capacity for it.
StartCommit(c) ==
    /\ call[c].at = "commit" /\ call[c].op = "start"
    /\ mu = Nobody
    /\ LET n == call[c].name IN
        \/ UNCHANGED jobs
        \/ /\ jobs[n] = NoJob
           /\ jobs' = [jobs EXCEPT ![n] =
                [raw |-> call[c].raw, conf |-> Apply(call[c].raw, call[c].vars)]]
    /\ End(c)
    /\ UNCHANGED <<database, mu>>

-----------------------------------------------------------------------------
(* Resume: all of it under the mutex.                                      *)

\* The configuration to resume with.
Latest(n) == IF bookmarks[n] # NoRow THEN bookmarks[n] ELSE jobs[n].raw

\* BUG VARIANT of ResumeBegin: the mutex is taken only for the update at the end.
ResumeBegin_Unlocked(c, n) ==
    /\ mu = Nobody
    /\ jobs[n] # NoJob
    /\ Begin(c, [NoCall EXCEPT !.at = "env", !.op = "resume", !.name = n, !.raw = Latest(n)])
    /\ UNCHANGED <<database, jobs, mu>>

\* BUG VARIANT of ResumeBegin: without a favourite, the configuration as last sent is taken.
ResumeBegin_Sent(c, n) ==
    /\ mu = Nobody
    /\ jobs[n] # NoJob
    /\ mu' = c
    /\ Begin(c, [NoCall EXCEPT !.at = "env", !.op = "resume", !.name = n,
                               !.raw = IF bookmarks[n] # NoRow THEN bookmarks[n] ELSE jobs[n].conf])
    /\ UNCHANGED <<database, jobs>>

ResumeBegin(c, n) ==
    /\ mu = Nobody
    /\ jobs[n] # NoJob
    /\ mu' = c
    /\ Begin(c, [NoCall EXCEPT !.at = "env", !.op = "resume", !.name = n, !.raw = Latest(n)])
    /\ UNCHANGED <<database, jobs>>

ReadActive(c) ==
    /\ call[c].at = "env"
    /\ call' = [call EXCEPT ![c].at = "vars", ![c].env = active]
    /\ UNCHANGED <<database, jobs, mu>>

\* Of Start and Resume.
ReadVars(c) ==
    /\ call[c].at = "vars"
    /\ call' = [call EXCEPT ![c].at = "commit", ![c].vars = EnvVars(call[c].env), ![c].env = NoEnv]
    /\ UNCHANGED <<database, jobs, mu>>

\* BUG VARIANT of ResumeCommit: rawConf is not replaced.
ResumeCommit_KeepsRaw(c) ==
    /\ call[c].at = "commit" /\ call[c].op = "resume"
    /\ LET n == call[c].name IN
        \/ UNCHANGED jobs
        \/ jobs' = [jobs EXCEPT ![n] = IF @ = NoJob THEN NoJob ELSE
                [raw |-> @.raw, conf |-> Apply(call[c].raw, call[c].vars)]]
    /\ mu' = Nobody
    /\ End(c)
    /\ UNCHANGED database

\* BUG VARIANT of ResumeCommit: a rejection returns without unlocking.
ResumeCommit_StaysLocked(c) ==
    /\ call[c].at = "commit" /\ call[c].op = "resume"
    /\ LET n == call[c].name IN
        \/ UNCHANGED <<jobs, mu>>
        \/ /\ jobs' = [jobs EXCEPT ![n] = IF @ = NoJob THEN NoJob ELSE
                [raw |-> call[c].raw, conf |-> Apply(call[c].raw, call[c].vars)]]
           /\ mu' = Nobody
    /\ End(c)
    /\ UNCHANGED database

\* There may be no capacity for an edited concurrency.  What is written is the
\* job that was found at the beginning: one that had gone would not come back.
ResumeCommit(c) ==
    /\ call[c].at = "commit" /\ call[c].op = "resume"
    /\ LET n == call[c].name IN
        \/ UNCHANGED jobs
        \/ jobs' = [jobs EXCEPT ![n] = IF @ = NoJob THEN NoJob ELSE
                [raw |-> call[c].raw, conf |-> Apply(call[c].raw, call[c].vars)]]
    /\ mu' = Nobody
    /\ End(c)
    /\ UNCHANGED database

-----------------------------------------------------------------------------
(* Stop.  Pause changes nothing here.                                       *)

Stop(n) ==
    /\ mu = Nobody
    /\ jobs[n] # NoJob
    /\ jobs' = [jobs EXCEPT ![n] = NoJob]
    /\ UNCHANGED <<database, mu, call>>

-----------------------------------------------------------------------------
(* Favourites.                                                             *)

\* BUG VARIANT of Favourite: the configuration as sent to the workers is saved.
Favourite_Sent(c, n) ==
    /\ mu = Nobody
    /\ Begin(c, [NoCall EXCEPT !.at = "save", !.op = "favourite", !.name = n,
                    !.raw = IF jobs[n] # NoJob THEN Copy(jobs[n].conf) ELSE Plain(Blank)])
    /\ UNCHANGED <<database, jobs, mu>>

\* SaveBookmark without a URL: a copy of the running test's configuration, ...
Favourite(c, n) ==
    /\ mu = Nobody
    /\ Begin(c, [NoCall EXCEPT !.at = "save", !.op = "favourite", !.name = n,
                    !.raw = IF jobs[n] # NoJob THEN Copy(jobs[n].raw) ELSE Plain(Blank)])
    /\ UNCHANGED <<database, jobs, mu>>

\* ... which is written after the mutex has been released.
Save(c) ==
    /\ call[c].at = "save"
    /\ bookmarks' = [bookmarks EXCEPT ![call[c].name] = call[c].raw]
    /\ End(c)
    /\ UNCHANGED <<envs, active, jobs, mu>>

\* SaveBookmark with a URL: an edit.
SaveBookmark(n, t) ==
    /\ bookmarks' = [bookmarks EXCEPT ![n] = Plain(t)]
    /\ UNCHANGED <<envs, active, jobs, mu, call>>

DeleteBookmark(n) ==
    /\ bookmarks[n] # NoRow
    /\ bookmarks' = [bookmarks EXCEPT ![n] = NoRow]
    /\ UNCHANGED <<envs, active, jobs, mu, call>>

-----------------------------------------------------------------------------
(* Environments.                                                           *)

SaveEnv(e, v) ==
    /\ envs' = [envs EXCEPT ![e] = <<e, v>>]
    /\ UNCHANGED <<bookmarks, active, jobs, mu, call>>

DeleteEnv(e) ==
    /\ envs[e] # NoRow
    /\ envs' = [envs EXCEPT ![e] = NoRow]
    /\ UNCHANGED <<bookmarks, active, jobs, mu, call>>

\* The name is not checked: it may be of an environment that does not exist.
SetActiveEnv(e) ==
    /\ active' = e
    /\ UNCHANGED <<bookmarks, envs, jobs, mu, call>>

\* The ocean's process: its memory is lost, the database is not.
Crash ==
    /\ jobs' = [n \in Names |-> NoJob]
    /\ mu' = Nobody
    /\ call' = [c \in Calls |-> NoCall]
    /\ UNCHANGED database

-----------------------------------------------------------------------------

Init ==
    /\ bookmarks = [n \in Names |-> NoRow]
    /\ envs = [e \in Envs |-> NoRow]
    /\ active = NoEnv
    /\ jobs = [n \in Names |-> NoJob]
    /\ mu = Nobody
    /\ call = [c \in Calls |-> NoCall]
    /\ seen = [c \in Calls |-> {}]

CallBegins(c) ==
    \E n \in Names : \/ ResumeBegin(c, n) \/ Favourite(c, n)
                     \/ \E t \in Texts : StartBegin(c, n, t)

CallGoesOn(c) ==
    ReadActive(c) \/ ReadVars(c) \/ StartCommit(c) \/ ResumeCommit(c) \/ Save(c)

\* Requests of one step.
OneStep ==
    \/ \E n \in Names : \/ Stop(n) \/ DeleteBookmark(n)
                        \/ \E t \in Texts \ Hosted : SaveBookmark(n, t)
    \/ \E e \in Envs : DeleteEnv(e) \/ \E v \in Versions[e] : SaveEnv(e, v)
    \/ \E e \in Envs \cup {NoEnv} : SetActiveEnv(e)

\* What there is to see: the name of the active environment, and all values.
InSight == {active} \cup {envs[e] : e \in Envs}

Watch == seen' = [c \in Calls |-> IF call'[c].at \in {"idle", "save"} THEN {}
                                  ELSE seen[c] \cup InSight \cup InSight']

Next ==
    /\ \/ \E c \in Calls : CallBegins(c) \/ CallGoesOn(c)
       \/ OneStep
       \/ Crash
    /\ Watch

Spec == Init /\ [][Next]_vars

-----------------------------------------------------------------------------
(* Properties.                                                             *)

Job == [raw : Config, conf : Config]

\* Types; and the mutex is held between steps by a Resume, and by every Resume,
\* so each way out of Resume gives it back (services.go:671-733).
TypeOK ==
    /\ bookmarks \in [Names -> Config \cup {NoRow}]
    /\ envs \in [Envs -> Values \cup {NoRow}]
    /\ active \in Envs \cup {NoEnv}
    /\ jobs \in [Names -> Job \cup {NoJob}]
    /\ mu \in Calls \cup {Nobody}
    /\ call \in [Calls -> [at : {"idle", "env", "vars", "commit", "save"},
                           op : {"none", "start", "resume", "favourite"},
                           name : Names \cup {"none"}, raw : Config,
                           env : Envs \cup {NoEnv}, vars : Values \cup {NoVars}]]
    /\ \A c \in Calls : mu = c <=> call[c].op = "resume"

\* "The untouched original keeps its {{tokens}}, so a different env can be
\* applied later" (services.go:522-523): nothing that is kept for later, in
\* memory or in the database, has ever been substituted.
TokensKept ==
    \A n \in Names : /\ jobs[n] # NoJob => jobs[n].raw.vars = NoVars
                     /\ bookmarks[n] # NoRow => bookmarks[n].vars = NoVars

\* What was sent to the workers is always the configuration that is kept, with
\* an environment applied: a favourite saved from a test is made of what runs,
\* also when the test was resumed after an edit (services.go:729-731).
ConfFollowsRaw ==
    \A n \in Names : jobs[n] # NoJob => \E v \in Values \cup {NoVars} :
                                            jobs[n].conf = Apply(jobs[n].raw, v)

\* A test never runs with variables from before the request that started or
\* resumed it: they were stored, and their environment active, while the
\* request was under way, though not necessarily at the same time
\* (services.go:552, 680-686).
FreshEnvironment ==
    [][\A c \in Calls, n \in Names :
            call[c].at = "commit" /\ call[c].name = n /\ call'[c] = NoCall
                /\ jobs'[n] \notin {jobs[n], NoJob} /\ jobs'[n].conf.vars # NoVars
            => /\ jobs'[n].conf.vars \in seen[c]
               /\ jobs'[n].conf.vars[1] \in seen[c]]_vars

\* A Resume under way has its test: nobody can stop the test between the
\* look-up and the commands.  Otherwise workers would be told to start a test
\* that no later Stop knows of (services.go:671-733).
ResumedRuns ==
    \A c \in Calls : call[c].op = "resume"
        => call[c].name \in Names /\ jobs[call[c].name] # NoJob
=============================================================================
