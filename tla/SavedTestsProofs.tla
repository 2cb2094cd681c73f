-------------------------- MODULE SavedTestsProofs --------------------------
(***************************************************************************)
(* For any number of names, environments and requests: SavedTests is type  *)
(* correct, nothing that is kept has ever been substituted, what runs      *)
(* follows from what is kept, a Resume under way has its test, and no test *)
(* runs with variables from before its request.                            *)
(***************************************************************************)
EXTENDS SavedTests, TLAPS

\* What a request carries has not been substituted either: it was written by
\* a client, or read from what is kept (services.go:325-334, 678-685).
CallsCarryTokens == \A c \in Calls : call[c].raw.vars = NoVars

\* A request is for a name, and only a favourite by name writes a row at its end.
NamedCalls ==
    \A c \in Calls : /\ call[c].at # "idle" => call[c].name \in Names
                     /\ call[c].at = "save" => call[c].op = "favourite"

KeepInv == TypeOK /\ TokensKept /\ ConfFollowsRaw /\ CallsCarryTokens /\ NamedCalls

CallType == [at : {"idle", "env", "vars", "commit", "save"},
             op : {"none", "start", "resume", "favourite"},
             name : Names \cup {"none"}, raw : Config,
             env : Envs \cup {NoEnv}, vars : Values \cup {NoVars}]

-----------------------------------------------------------------------------
(* Configurations.                                                         *)

\* What a client writes has not been substituted.
LEMMA PlainType == \A t \in Texts \cup {Blank} : Plain(t) \in Config /\ Plain(t).vars = NoVars
BY DEF Plain, Config

\* Substituting in a configuration gives a configuration.
LEMMA ApplyType ==
    ASSUME NEW conf \in Config, NEW v \in Values \cup {NoVars}
    PROVE  Apply(conf, v) \in Config
BY DEF Apply, Config

\* What a favourite keeps of a configuration is one, and substituted in as little.
LEMMA CopyType ==
    ASSUME NEW conf \in Config
    PROVE  Copy(conf) \in Config /\ Copy(conf).vars = conf.vars
BY DEF Copy, Config

\* An environment has variables that could be saved with it, or none.
LEMMA EnvVarsType ==
    ASSUME TypeOK, NEW e \in Envs \cup {NoEnv}
    PROVE  EnvVars(e) \in Values \cup {NoVars}
BY DEF TypeOK, EnvVars

\* What is known of a request that is not under way.
LEMMA NoCallType ==
    /\ NoCall \in CallType /\ NoCall.raw.vars = NoVars
    /\ NoCall.op = "none" /\ NoCall.at = "idle"
BY PlainType DEF NoCall, CallType

-----------------------------------------------------------------------------

\* Initially nothing is kept and no request is under way.
LEMMA KeepInit == Init => KeepInv
<1> SUFFICES ASSUME Init PROVE KeepInv
  OBVIOUS
<1>1. TypeOK
  BY NoCallType, SavedTestsAssumption DEF Init, TypeOK, CallType
<1>2. TokensKept /\ ConfFollowsRaw /\ CallsCarryTokens /\ NamedCalls
  BY NoCallType DEF Init, TokensKept, ConfFollowsRaw, CallsCarryTokens, NamedCalls
<1> QED BY <1>1, <1>2 DEF KeepInv

-----------------------------------------------------------------------------
(* The steps of a request that takes several.                              *)

\* A request that begins carries a plain configuration.
LEMMA BeginKeeps ==
    ASSUME KeepInv, NEW c \in Calls, NEW r \in CallType, Begin(c, r),
           r.raw.vars = NoVars, r.name \in Names, r.at = "save" => r.op = "favourite",
           UNCHANGED <<database, jobs>>,
           mu' = IF r.op = "resume" THEN c ELSE mu,
           r.op = "resume" => mu = Nobody
    PROVE  KeepInv'
<1> USE DEF KeepInv, Begin, database
<1>1. TypeOK'
  BY NoCallType, SavedTestsAssumption DEF TypeOK, CallType
<1>2. TokensKept' /\ ConfFollowsRaw'
  BY DEF TokensKept, ConfFollowsRaw
<1>3. CallsCarryTokens' /\ NamedCalls'
  BY DEF CallsCarryTokens, NamedCalls, TypeOK
<1> QED BY <1>1, <1>2, <1>3

\* A request that ends gives the mutex back if it held it.
LEMMA EndType ==
    ASSUME TypeOK, NEW c \in Calls, End(c),
           mu' = IF call[c].op = "resume" THEN Nobody ELSE mu
    PROVE  /\ call' \in [Calls -> CallType]
           /\ mu' \in Calls \cup {Nobody}
           /\ \A d \in Calls : mu' = d <=> call'[d].op = "resume"
           /\ CallsCarryTokens => CallsCarryTokens'
           /\ NamedCalls => NamedCalls'
BY NoCallType, SavedTestsAssumption DEF TypeOK, End, CallType, CallsCarryTokens, NamedCalls

\* A configuration and what is sent for it make a job.
LEMMA JobType ==
    ASSUME NEW conf \in Config, conf.vars = NoVars, NEW v \in Values \cup {NoVars}
    PROVE  [raw |-> conf, conf |-> Apply(conf, v)] \in Job
BY ApplyType DEF Job

\* A job made of what a request carries and has read.
LEMMA NewJobKeeps ==
    ASSUME KeepInv, NEW c \in Calls, NEW n \in Names,
           jobs' = [jobs EXCEPT ![n] =
                      [raw |-> call[c].raw, conf |-> Apply(call[c].raw, call[c].vars)]],
           UNCHANGED database
    PROVE  /\ jobs' \in [Names -> Job \cup {NoJob}]
           /\ TokensKept' /\ ConfFollowsRaw'
<1>1. call[c].raw \in Config /\ call[c].raw.vars = NoVars /\ call[c].vars \in Values \cup {NoVars}
  BY DEF KeepInv, TypeOK, CallsCarryTokens
<1> DEFINE j == [raw |-> call[c].raw, conf |-> Apply(call[c].raw, call[c].vars)]
<1>2. j \in Job
  BY <1>1, JobType
<1>3. jobs' \in [Names -> Job \cup {NoJob}] /\ jobs'[n] = j
      /\ \A m \in Names \ {n} : jobs'[m] = jobs[m]
  BY <1>2 DEF KeepInv, TypeOK
<1>4. TokensKept'
  BY <1>1, <1>3 DEF KeepInv, TokensKept, database
<1>5. ConfFollowsRaw'
  <2>1. j.conf = Apply(j.raw, call[c].vars)
    OBVIOUS
  <2> QED BY <1>1, <1>3, <2>1 DEF KeepInv, ConfFollowsRaw
<1> QED BY <1>3, <1>4, <1>5

-----------------------------------------------------------------------------

\* A Start, a Resume or a favourite by name begins.
LEMMA CallBeginsKeeps == ASSUME KeepInv, NEW c \in Calls, CallBegins(c) PROVE KeepInv'
<1>1. ASSUME NEW n \in Names, NEW t \in Texts, StartBegin(c, n, t) PROVE KeepInv'
  <2> DEFINE r == [NoCall EXCEPT !.at = "vars", !.op = "start", !.name = n,
                                 !.raw = Plain(t), !.env = active]
  <2>1. r \in CallType /\ r.raw.vars = NoVars /\ r.op = "start" /\ r.at = "vars" /\ r.name = n
    BY NoCallType, PlainType DEF NoCall, CallType, KeepInv, TypeOK
  <2>2. Begin(c, r) /\ UNCHANGED <<database, jobs, mu>>
    BY <1>1 DEF StartBegin
  <2> HIDE DEF r
  <2> QED BY <2>1, <2>2, BeginKeeps
<1>2. ASSUME NEW n \in Names, ResumeBegin(c, n) PROVE KeepInv'
  <2> DEFINE r == [NoCall EXCEPT !.at = "env", !.op = "resume", !.name = n, !.raw = Latest(n)]
  <2>1. Latest(n) \in Config /\ Latest(n).vars = NoVars
    BY <1>2 DEF ResumeBegin, Latest, KeepInv, TypeOK, TokensKept, Job
  <2>2. r \in CallType /\ r.raw.vars = NoVars /\ r.op = "resume" /\ r.at = "env" /\ r.name = n
    BY <2>1, NoCallType DEF NoCall, CallType
  <2>3. Begin(c, r) /\ mu = Nobody /\ mu' = c /\ UNCHANGED <<database, jobs>>
    BY <1>2 DEF ResumeBegin
  <2> HIDE DEF r
  <2> QED BY <2>2, <2>3, BeginKeeps
<1>3. ASSUME NEW n \in Names, Favourite(c, n) PROVE KeepInv'
  <2> DEFINE conf == IF jobs[n] # NoJob THEN Copy(jobs[n].raw) ELSE Plain(Blank)
             r == [NoCall EXCEPT !.at = "save", !.op = "favourite", !.name = n, !.raw = conf]
  <2>1. conf \in Config /\ conf.vars = NoVars
    BY PlainType, CopyType DEF KeepInv, TypeOK, TokensKept, Job
  <2>2. Begin(c, r) /\ UNCHANGED <<database, jobs, mu>>
    BY <1>3 DEF Favourite
  <2> HIDE DEF conf
  <2>3. r \in CallType /\ r.raw.vars = NoVars /\ r.op = "favourite" /\ r.name = n
    BY <2>1, NoCallType DEF NoCall, CallType
  <2> HIDE DEF r
  <2> QED BY <2>2, <2>3, BeginKeeps
<1> QED BY <1>1, <1>2, <1>3 DEF CallBegins

\* A request that goes on keeps what it is for and what it carries.
LEMMA MovesOnKeeps ==
    ASSUME KeepInv, NEW c \in Calls, NEW r \in CallType,
           call' = [call EXCEPT ![c] = r],
           r.op = call[c].op, r.name = call[c].name, r.raw = call[c].raw,
           call[c].at # "idle", r.at # "save",
           UNCHANGED <<database, jobs, mu>>
    PROVE  KeepInv'
<1> USE DEF KeepInv, database
<1>1. TypeOK'
  <2>1. call' \in [Calls -> CallType] /\ \A d \in Calls : call'[d].op = call[d].op
    BY DEF TypeOK, CallType
  <2> QED BY <2>1 DEF TypeOK, CallType
<1>2. TokensKept' /\ ConfFollowsRaw'
  BY DEF TokensKept, ConfFollowsRaw
<1>3. CallsCarryTokens' /\ NamedCalls'
  BY DEF CallsCarryTokens, NamedCalls, TypeOK
<1> QED BY <1>1, <1>2, <1>3

\* It reads the database, changes a job, or writes a favourite.
LEMMA CallGoesOnKeeps == ASSUME KeepInv, NEW c \in Calls, CallGoesOn(c) PROVE KeepInv'
<1>0. call \in [Calls -> CallType]
  BY DEF KeepInv, TypeOK, CallType
<1>1. CASE ReadActive(c)
  <2> DEFINE r == [call[c] EXCEPT !.at = "vars", !.env = active]
  <2>1. /\ r \in CallType /\ r.at = "vars"
        /\ r.op = call[c].op /\ r.name = call[c].name /\ r.raw = call[c].raw
    BY <1>0 DEF CallType, KeepInv, TypeOK
  <2>2. /\ call[c].at = "env" /\ call' = [call EXCEPT ![c] = r]
        /\ UNCHANGED <<database, jobs, mu>>
    BY <1>1 DEF ReadActive
  <2> HIDE DEF r
  <2> QED BY <2>1, <2>2, MovesOnKeeps
<1>2. CASE ReadVars(c)
  <2> DEFINE r == [call[c] EXCEPT !.at = "commit", !.vars = EnvVars(call[c].env), !.env = NoEnv]
  <2>1. EnvVars(call[c].env) \in Values \cup {NoVars}
    BY EnvVarsType DEF KeepInv, TypeOK
  <2>2. /\ r \in CallType /\ r.at = "commit"
        /\ r.op = call[c].op /\ r.name = call[c].name /\ r.raw = call[c].raw
    BY <1>0, <2>1 DEF CallType
  <2>3. /\ call[c].at = "vars" /\ call' = [call EXCEPT ![c] = r]
        /\ UNCHANGED <<database, jobs, mu>>
    BY <1>2 DEF ReadVars
  <2> HIDE DEF r
  <2> QED BY <2>2, <2>3, MovesOnKeeps
<1>3. CASE StartCommit(c) \/ ResumeCommit(c)
  <2>1. /\ End(c) /\ UNCHANGED database
        /\ mu' = IF call[c].op = "resume" THEN Nobody ELSE mu
        /\ call[c].at = "commit"
    <3>1. CASE StartCommit(c)
      BY <3>1 DEF StartCommit
    <3>2. CASE ResumeCommit(c)
      BY <3>2 DEF ResumeCommit
    <3> QED BY <1>3, <3>1, <3>2
  <2>2. call[c].name \in Names
    BY <2>1 DEF KeepInv, NamedCalls
  <2>3. /\ jobs' \in [Names -> Job \cup {NoJob}]
        /\ TokensKept' /\ ConfFollowsRaw'
    <3>1. CASE UNCHANGED jobs
      BY <2>1, <3>1 DEF KeepInv, TypeOK, TokensKept, ConfFollowsRaw, database
    <3>2. CASE jobs' = [jobs EXCEPT ![call[c].name] =
                  [raw |-> call[c].raw, conf |-> Apply(call[c].raw, call[c].vars)]]
      BY <2>1, <2>2, <3>2, NewJobKeeps
    <3>3. CASE /\ ResumeCommit(c)
               /\ jobs[call[c].name] = NoJob
      <4>1. UNCHANGED jobs
        BY <2>2, <3>3 DEF ResumeCommit, KeepInv, TypeOK
      <4> QED BY <3>1, <4>1
    <3>4. CASE ResumeCommit(c) /\ jobs[call[c].name] # NoJob
      BY <3>1, <3>2, <3>4 DEF ResumeCommit
    <3> QED BY <1>3, <3>1, <3>2, <3>3, <3>4 DEF StartCommit
  <2>4. TypeOK' /\ CallsCarryTokens' /\ NamedCalls'
    BY <2>1, <2>3, EndType DEF KeepInv, TypeOK, CallType, database
  <2> QED BY <2>3, <2>4 DEF KeepInv
<1>4. CASE Save(c)
  <2>1. End(c) /\ call[c].at = "save" /\ UNCHANGED <<envs, active, jobs, mu>>
        /\ bookmarks' = [bookmarks EXCEPT ![call[c].name] = call[c].raw]
    BY <1>4 DEF Save
  <2>2. call[c].op = "favourite" /\ call[c].name \in Names
    BY <2>1 DEF KeepInv, NamedCalls
  <2>3. call[c].raw \in Config /\ call[c].raw.vars = NoVars
    BY <1>0 DEF CallType, KeepInv, CallsCarryTokens
  <2>4. /\ call' \in [Calls -> CallType] /\ CallsCarryTokens' /\ NamedCalls'
        /\ \A d \in Calls : mu' = d <=> call'[d].op = "resume"
    BY <2>1, <2>2, EndType DEF KeepInv
  <2>5. TypeOK'
    BY <2>1, <2>2, <2>3, <2>4 DEF KeepInv, TypeOK, CallType
  <2>6. TokensKept' /\ ConfFollowsRaw'
    BY <2>1, <2>2, <2>3 DEF KeepInv, TypeOK, TokensKept, ConfFollowsRaw
  <2> QED BY <2>4, <2>5, <2>6 DEF KeepInv
<1> QED BY <1>1, <1>2, <1>3, <1>4 DEF CallGoesOn

-----------------------------------------------------------------------------
(* The other steps.                                                        *)

\* Requests of one step keep the invariant.
LEMMA OneStepKeeps == ASSUME KeepInv, OneStep PROVE KeepInv'
<1> USE DEF KeepInv, database
<1>0. UNCHANGED <<mu, call>>
  BY DEF OneStep, Stop, DeleteBookmark, SaveBookmark, DeleteEnv, SaveEnv, SetActiveEnv
<1>1. CallsCarryTokens' /\ NamedCalls'
  BY <1>0 DEF CallsCarryTokens, NamedCalls
<1>2. ASSUME NEW n \in Names, Stop(n) PROVE TypeOK' /\ TokensKept' /\ ConfFollowsRaw'
  BY <1>2 DEF Stop, TypeOK, TokensKept, ConfFollowsRaw
<1>3. ASSUME NEW n \in Names, NEW b \in Config \cup {NoRow}, b # NoRow => b.vars = NoVars,
             bookmarks' = [bookmarks EXCEPT ![n] = b], UNCHANGED <<envs, active, jobs>>
      PROVE  TypeOK' /\ TokensKept' /\ ConfFollowsRaw'
  BY <1>0, <1>3 DEF TypeOK, TokensKept, ConfFollowsRaw
<1>4. ASSUME NEW n \in Names, DeleteBookmark(n) PROVE TypeOK' /\ TokensKept' /\ ConfFollowsRaw'
  BY <1>3, <1>4 DEF DeleteBookmark
<1>5. ASSUME NEW n \in Names, NEW t \in Texts, SaveBookmark(n, t)
      PROVE  TypeOK' /\ TokensKept' /\ ConfFollowsRaw'
  BY <1>3, <1>5, PlainType DEF SaveBookmark
<1>6. ASSUME NEW e \in Envs, NEW v \in Values \cup {NoRow},
             envs' = [envs EXCEPT ![e] = v], UNCHANGED <<bookmarks, active, jobs>>
      PROVE  TypeOK' /\ TokensKept' /\ ConfFollowsRaw'
  BY <1>0, <1>6 DEF TypeOK, TokensKept, ConfFollowsRaw
<1>7. ASSUME NEW e \in Envs, NEW v \in Versions[e], SaveEnv(e, v)
      PROVE  TypeOK' /\ TokensKept' /\ ConfFollowsRaw'
  <2>1. <<e, v>> \in Values
    BY DEF Values
  <2> QED BY <1>6, <1>7, <2>1 DEF SaveEnv
<1>8. ASSUME NEW e \in Envs, DeleteEnv(e) PROVE TypeOK' /\ TokensKept' /\ ConfFollowsRaw'
  BY <1>6, <1>8 DEF DeleteEnv
<1>9. ASSUME NEW e \in Envs \cup {NoEnv}, SetActiveEnv(e)
      PROVE  TypeOK' /\ TokensKept' /\ ConfFollowsRaw'
  BY <1>9 DEF SetActiveEnv, TypeOK, TokensKept, ConfFollowsRaw
<1> QED BY <1>1, <1>2, <1>4, <1>5, <1>7, <1>8, <1>9 DEF OneStep

\* A crash of the ocean loses jobs and requests, and no row.
LEMMA CrashKeeps == ASSUME KeepInv, Crash PROVE KeepInv'
<1> USE DEF KeepInv, Crash, database
<1>1. TypeOK'
  BY NoCallType, SavedTestsAssumption DEF TypeOK, CallType
<1>2. TokensKept' /\ ConfFollowsRaw' /\ CallsCarryTokens' /\ NamedCalls'
  BY NoCallType DEF TokensKept, ConfFollowsRaw, CallsCarryTokens, NamedCalls
<1> QED BY <1>1, <1>2

\* The invariant is inductive.
LEMMA KeepStep == KeepInv /\ [Next]_vars => KeepInv'
<1> SUFFICES ASSUME KeepInv, [Next]_vars PROVE KeepInv'
  OBVIOUS
<1>1. CASE Next
  BY <1>1, CallBeginsKeeps, CallGoesOnKeeps, OneStepKeeps, CrashKeeps DEF Next
<1>2. CASE UNCHANGED vars
  BY <1>2 DEF vars, database, KeepInv, TypeOK, TokensKept, ConfFollowsRaw,
         CallsCarryTokens, NamedCalls
<1> QED BY <1>1, <1>2

\* Hence it always holds.
LEMMA KeepAlways == Spec => []KeepInv
BY KeepInit, KeepStep, PTL DEF Spec

-----------------------------------------------------------------------------

\* Tests, favourites and environments have their types, and the mutex that
\* Resume takes is held by a request under way, for as long as it is.
THEOREM SavedTypeCorrect == Spec => []TypeOK
<1>1. KeepInv => TypeOK
  BY DEF KeepInv
<1> QED BY <1>1, KeepAlways, PTL

\* However favourites, resumes and environments interleave, what is kept for
\* later still has its tokens (services.go:522-523).
THEOREM TokensAreKept == Spec => []TokensKept
<1>1. KeepInv => TokensKept
  BY DEF KeepInv
<1> QED BY <1>1, KeepAlways, PTL

\* What was sent for a test is what is kept of it, with one environment
\* applied, or none (services.go:729-731).
THEOREM SentFollowsKept == Spec => []ConfFollowsRaw
<1>1. KeepInv => ConfFollowsRaw
  BY DEF KeepInv
<1> QED BY <1>1, KeepAlways, PTL

-----------------------------------------------------------------------------
(* What happens while a request is under way.                              *)

\* The variables of an environment are stored with its name (auth/env.go:58-69).
RowsNamed == \A e \in Envs : envs[e] # NoRow => envs[e][1] = e

\* What a request has read of the environments was there since it began.
ReadsSeen ==
    \A c \in Calls :
        /\ call[c].at = "vars" => call[c].env \in seen[c]
        /\ call[c].at = "commit" /\ call[c].vars # NoVars
               => call[c].vars \in seen[c] /\ call[c].vars[1] \in seen[c]

RequestInv == KeepInv /\ ResumedRuns /\ RowsNamed /\ ReadsSeen

\* Requests are not taken for what is there when there is none.
LEMMA RequestInit == Init => RequestInv
<1> SUFFICES ASSUME Init PROVE RequestInv
  OBVIOUS
<1>1. ResumedRuns /\ ReadsSeen
  BY NoCallType DEF Init, ResumedRuns, ReadsSeen
<1>2. RowsNamed
  BY DEF Init, RowsNamed
<1> QED BY <1>1, <1>2, KeepInit DEF RequestInv

\* Only the holder of the mutex resumes.
LEMMA OneResume ==
    ASSUME KeepInv, NEW c \in Calls, NEW d \in Calls,
           call[c].op = "resume", mu = Nobody \/ call[d].op = "resume"
    PROVE  mu = c /\ d = c
BY SavedTestsAssumption DEF KeepInv, TypeOK

\* A Stop waits for the mutex, and a crash ends the Resume as well.
LEMMA ResumedRunsStays == ASSUME RequestInv, Next PROVE ResumedRuns'
<1>0. KeepInv /\ call \in [Calls -> CallType] /\ jobs \in [Names -> Job \cup {NoJob}]
  BY DEF RequestInv, KeepInv, TypeOK, CallType
<1> SUFFICES ASSUME NEW c \in Calls, call'[c].op = "resume"
             PROVE  call'[c].name \in Names /\ jobs'[call'[c].name] # NoJob
  BY DEF ResumedRuns
<1> DEFINE Stays == /\ call[c].op = "resume" /\ call'[c].name = call[c].name
                    /\ UNCHANGED jobs
<1>1. Stays => call'[c].name \in Names /\ jobs'[call'[c].name] # NoJob
  BY DEF RequestInv, ResumedRuns
<1>2. ASSUME NEW d \in Calls, CallBegins(d)
      PROVE  call'[c].name \in Names /\ jobs'[call'[c].name] # NoJob
  <2>1. CASE d # c
    BY <1>0, <1>1, <1>2, <2>1 DEF CallBegins, StartBegin, ResumeBegin, Favourite, Begin
  <2>2. ASSUME NEW n \in Names, ResumeBegin(c, n)
        PROVE  call'[c].name = n /\ jobs'[n] # NoJob
    BY <1>0, <2>2 DEF ResumeBegin, Begin, NoCall
  <2>3. ASSUME NEW n \in Names, Favourite(c, n) PROVE FALSE
    BY <1>0, <2>3 DEF Favourite, Begin, NoCall
  <2>4. ASSUME NEW n \in Names, NEW t \in Texts, StartBegin(c, n, t) PROVE FALSE
    BY <1>0, <2>4 DEF StartBegin, Begin, NoCall
  <2> QED BY <1>2, <2>1, <2>2, <2>3, <2>4 DEF CallBegins
<1>3. ASSUME NEW d \in Calls, CallGoesOn(d)
      PROVE  call'[c].name \in Names /\ jobs'[call'[c].name] # NoJob
  <2>1. CASE ReadActive(d) \/ ReadVars(d)
    <3>1. Stays
      BY <1>0, <2>1 DEF ReadActive, ReadVars, CallType
    <3> QED BY <3>1, <1>1
  <2>2. CASE StartCommit(d) \/ ResumeCommit(d)
    <3>1. End(d) /\ (mu = Nobody \/ call[d].op = "resume")
      BY <2>2 DEF StartCommit, ResumeCommit
    <3>2. d # c /\ call'[c] = call[c]
      BY <1>0, <3>1, NoCallType DEF End
    <3> QED BY <1>0, <3>1, <3>2, OneResume
  <2>3. CASE Save(d)
    <3>1. Stays
      BY <1>0, <2>3, NoCallType DEF Save, End
    <3> QED BY <3>1, <1>1
  <2> QED BY <1>3, <2>1, <2>2, <2>3 DEF CallGoesOn
<1>4. ASSUME OneStep
      PROVE  call'[c].name \in Names /\ jobs'[call'[c].name] # NoJob
  <2>1. ASSUME NEW n \in Names, Stop(n) PROVE FALSE
    BY <1>0, <2>1, OneResume, SavedTestsAssumption DEF Stop
  <2>2. Stays
    BY <1>4, <2>1 DEF OneStep, DeleteBookmark, SaveBookmark, DeleteEnv, SaveEnv, SetActiveEnv
  <2> QED BY <2>2, <1>1
<1>5. ~ Crash
  BY NoCallType DEF Crash
<1> QED BY <1>2, <1>3, <1>4, <1>5 DEF Next

\* A row of the environments is written only by SaveEnv.
LEMMA RowsNamedStays == ASSUME RequestInv, Next PROVE RowsNamed'
<1>1. CASE UNCHANGED envs
  BY <1>1 DEF RequestInv, RowsNamed
<1>2. ASSUME NEW e \in Envs, NEW v \in Versions[e], SaveEnv(e, v) PROVE RowsNamed'
  BY <1>2 DEF SaveEnv, RequestInv, KeepInv, TypeOK, RowsNamed
<1>3. ASSUME NEW e \in Envs, DeleteEnv(e) PROVE RowsNamed'
  BY <1>3 DEF DeleteEnv, RequestInv, KeepInv, TypeOK, RowsNamed
<1>4. (\E c \in Calls : CallBegins(c) \/ CallGoesOn(c)) \/ Crash => UNCHANGED envs
  BY DEF CallBegins, CallGoesOn, StartBegin, ResumeBegin, Favourite, ReadActive, ReadVars,
         StartCommit, ResumeCommit, Save, Crash, database
<1>5. OneStep => \/ UNCHANGED envs
                 \/ \E e \in Envs : DeleteEnv(e) \/ \E v \in Versions[e] : SaveEnv(e, v)
  BY DEF OneStep, Stop, DeleteBookmark, SaveBookmark, SetActiveEnv, database
<1> QED BY <1>1, <1>2, <1>3, <1>4, <1>5 DEF Next

\* What is there to be seen by a request that is under way has been seen.
LEMMA WatchSees ==
    ASSUME Watch, NEW c \in Calls, call'[c].at \notin {"idle", "save"}
    PROVE  seen[c] \subseteq seen'[c] /\ InSight \subseteq seen'[c]
BY DEF Watch

\* What is read is in sight.
LEMMA ReadsSeenStays == ASSUME RequestInv, Next PROVE ReadsSeen'
<1>0. KeepInv /\ call \in [Calls -> CallType]
  BY DEF RequestInv, KeepInv, TypeOK, CallType
<1>w. Watch
  BY DEF Next
<1> SUFFICES ASSUME NEW c \in Calls
             PROVE  /\ call'[c].at = "vars" => call'[c].env \in seen'[c]
                    /\ call'[c].at = "commit" /\ call'[c].vars # NoVars
                         => call'[c].vars \in seen'[c] /\ call'[c].vars[1] \in seen'[c]
  BY DEF ReadsSeen
<1> DEFINE Seen == /\ call'[c].at = "vars" => call'[c].env \in seen'[c]
                   /\ call'[c].at = "commit" /\ call'[c].vars # NoVars
                        => call'[c].vars \in seen'[c] /\ call'[c].vars[1] \in seen'[c]
<1>1. active \in InSight /\ \A e \in Envs : envs[e] \in InSight
  BY DEF InSight
<1>2. CASE call'[c] = call[c]
  BY <1>2, <1>w, WatchSees DEF RequestInv, ReadsSeen
<1>3. CASE call'[c].at \notin {"vars", "commit"}
  BY <1>3
<1>4. CASE StartBegin(c, call'[c].name, call'[c].raw.text)
  BY <1>0, <1>1, <1>4, <1>w, WatchSees DEF StartBegin, Begin, NoCall
<1>5. CASE ReadActive(c)
  BY <1>0, <1>1, <1>5, <1>w, WatchSees DEF ReadActive, CallType
<1>6. CASE ReadVars(c)
  <2>1. call'[c].at = "commit" /\ call'[c].vars = EnvVars(call[c].env)
    BY <1>0, <1>6 DEF ReadVars, CallType
  <2>2. call[c].env \in seen[c]
    BY <1>6 DEF ReadVars, RequestInv, ReadsSeen
  <2>3. ASSUME call'[c].vars # NoVars
        PROVE  call'[c].vars \in InSight /\ call'[c].vars[1] = call[c].env
    BY <2>1, <2>3, <1>1 DEF EnvVars, RequestInv, RowsNamed
  <2> QED BY <2>1, <2>2, <2>3, <1>w, WatchSees
<1>7. ASSUME NEW d \in Calls, CallBegins(d) PROVE Seen
  <2>1. CASE d # c
    BY <1>0, <1>2, <1>7, <2>1 DEF CallBegins, StartBegin, ResumeBegin, Favourite, Begin
  <2>2. ASSUME NEW n \in Names, NEW t \in Texts, StartBegin(c, n, t) PROVE Seen
    BY <1>0, <1>1, <2>2, <1>w, WatchSees DEF StartBegin, Begin, NoCall
  <2>3. ASSUME NEW n \in Names, ResumeBegin(c, n) \/ Favourite(c, n) PROVE Seen
    BY <1>0, <2>3 DEF ResumeBegin, Favourite, Begin, NoCall
  <2> QED BY <1>7, <2>1, <2>2, <2>3 DEF CallBegins
<1>8. ASSUME NEW d \in Calls, CallGoesOn(d) PROVE Seen
  <2>1. CASE d # c
    BY <1>0, <1>2, <1>8, <2>1 DEF CallGoesOn, ReadActive, ReadVars, StartCommit, ResumeCommit,
                                  Save, End
  <2>2. CASE d = c /\ End(d)
    BY <1>0, <2>2, NoCallType DEF End
  <2> QED BY <1>5, <1>6, <1>8, <2>1, <2>2 DEF CallGoesOn, StartCommit, ResumeCommit, Save
<1>9. OneStep => call' = call
  BY DEF OneStep, Stop, DeleteBookmark, SaveBookmark, DeleteEnv, SaveEnv, SetActiveEnv
<1>10. Crash => call'[c].at = "idle"
  BY NoCallType DEF Crash
<1> QED BY <1>2, <1>7, <1>8, <1>9, <1>10 DEF Next

\* The invariant is inductive.
LEMMA RequestStep == RequestInv /\ [Next]_vars => RequestInv'
<1> SUFFICES ASSUME RequestInv, [Next]_vars PROVE RequestInv'
  OBVIOUS
<1>1. KeepInv'
  BY KeepStep DEF RequestInv
<1>2. CASE Next
  BY <1>1, <1>2, ResumedRunsStays, RowsNamedStays, ReadsSeenStays DEF RequestInv
<1>3. CASE UNCHANGED vars
  BY <1>1, <1>3 DEF vars, database, RequestInv, ResumedRuns, RowsNamed, ReadsSeen
<1> QED BY <1>2, <1>3

\* Hence it always holds.
LEMMA RequestAlways == Spec => []RequestInv
BY RequestInit, RequestStep, PTL DEF Spec

\* How a job changes: a request commits, or the job goes.
LEMMA JobChanges ==
    ASSUME KeepInv, Next, NEW n \in Names, jobs'[n] \notin {jobs[n], NoJob}
    PROVE  \E c \in Calls :
               /\ StartCommit(c) \/ ResumeCommit(c)
               /\ call[c].name = n
               /\ jobs'[n] = [raw |-> call[c].raw, conf |-> Apply(call[c].raw, call[c].vars)]
<1>0. jobs \in [Names -> Job \cup {NoJob}]
  BY DEF KeepInv, TypeOK
<1>1. ~ Crash
  BY DEF Crash
<1>2. ~ OneStep
  BY <1>0 DEF OneStep, Stop, DeleteBookmark, SaveBookmark, DeleteEnv, SaveEnv, SetActiveEnv
<1>3. PICK c \in Calls : CallBegins(c) \/ CallGoesOn(c)
  BY <1>1, <1>2 DEF Next
<1>4. StartCommit(c) \/ ResumeCommit(c)
  BY <1>3 DEF CallBegins, StartBegin, ResumeBegin, Favourite,
              CallGoesOn, ReadActive, ReadVars, Save
<1>5. jobs' = [jobs EXCEPT ![call[c].name] =
                  [raw |-> call[c].raw, conf |-> Apply(call[c].raw, call[c].vars)]]
  BY <1>0, <1>4 DEF StartCommit, ResumeCommit
<1>6. call[c].name = n
  BY <1>0, <1>5
<1> QED BY <1>0, <1>4, <1>5, <1>6

\* However Start, Resume, Stop and crashes interleave, the test that a Resume
\* is under way for stays until the Resume has ended: whoever could stop it
\* waits for the mutex (services.go:671-733).
THEOREM ResumesHaveTests == Spec => []ResumedRuns
<1>1. RequestInv => ResumedRuns
  BY DEF RequestInv
<1> QED BY <1>1, RequestAlways, PTL

\* A test never runs with the variables of an environment that was not active,
\* or not stored so, since the request began (services.go:552, 680-686).
THEOREM EnvironmentIsFresh == Spec => FreshEnvironment
<1> DEFINE Fresh ==
        \A c \in Calls, n \in Names :
            call[c].at = "commit" /\ call[c].name = n /\ call'[c] = NoCall
                /\ jobs'[n] \notin {jobs[n], NoJob} /\ jobs'[n].conf.vars # NoVars
            => /\ jobs'[n].conf.vars \in seen[c]
               /\ jobs'[n].conf.vars[1] \in seen[c]
<1>1. RequestInv /\ [Next]_vars => Fresh
  <2> SUFFICES ASSUME RequestInv, [Next]_vars, NEW c \in Calls, NEW n \in Names,
                      call[c].at = "commit", call[c].name = n, call'[c] = NoCall,
                      jobs'[n] \notin {jobs[n], NoJob}, jobs'[n].conf.vars # NoVars
               PROVE  jobs'[n].conf.vars \in seen[c] /\ jobs'[n].conf.vars[1] \in seen[c]
    OBVIOUS
  <2>0. Next /\ KeepInv /\ call \in [Calls -> CallType]
    BY DEF vars, RequestInv, KeepInv, TypeOK, CallType
  <2>1. PICK d \in Calls :
            /\ StartCommit(d) \/ ResumeCommit(d)
            /\ jobs'[n] = [raw |-> call[d].raw, conf |-> Apply(call[d].raw, call[d].vars)]
    BY <2>0, JobChanges
  <2>2. call'[d] = NoCall /\ \A b \in Calls \ {d} : call'[b] = call[b]
    BY <2>0, <2>1 DEF StartCommit, ResumeCommit, End
  <2>3. d = c
    BY <2>2, NoCallType
  <2>4. call[c].raw.vars = NoVars
    BY <2>0 DEF KeepInv, CallsCarryTokens
  <2>5. call[c].raw \in Config
    BY <2>0 DEF CallType
  <2>6. Apply(call[c].raw, call[c].vars).vars \in {NoVars, call[c].vars}
    BY <2>4, <2>5 DEF Apply, Config
  <2>7. jobs'[n].conf.vars = call[c].vars
    BY <2>1, <2>3, <2>6
  <2> QED BY <2>7 DEF RequestInv, ReadsSeen
<1>2. Fresh => [Fresh]_vars
  OBVIOUS
<1> QED BY <1>1, RequestAlways, PTL DEF Spec, FreshEnvironment
=============================================================================
