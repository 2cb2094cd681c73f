------------------------------ MODULE Sessions ------------------------------
(***************************************************************************)
(* Login sessions of the ocean's HTTP API (master/auth).  A login issues a *)
(* random token; the server keeps a row for it with a hard expiry, the     *)
(* browser keeps it in a cookie.  The middleware lets a request through    *)
(* only with a token whose row exists and has not expired; a logout        *)
(* deletes the row.  The first start of the ocean creates the only user.   *)
(*                                                                         *)
(* A request is served in several steps, each of them one SQL statement    *)
(* or one message, and requests interleave.  The database outlives a crash *)
(* of the ocean; requests under way do not.                                *)
(*                                                                         *)
(* Only the hash of a token is stored; two tokens never share one, so a    *)
(* row is known by its token here.  A CORS preflight, and a request        *)
(* without a cookie, are answered without any change of state.             *)
(***************************************************************************)
EXTENDS Naturals, FiniteSets

CONSTANTS
    Clients,      \* browsers, each with one cookie jar for all its tabs
    Requests,     \* requests that may be under way at once
    Tokens,       \* bound: what genToken may return, once each
    AdminNames,   \* what auth.bootstrap_admin.username may be set to
    Ttl,          \* auth.session_ttl, in ticks of the clock
    MaxTime,      \* bound: the clock stops there
    MaxCrashes,   \* bound: crashes of the ocean
    Failing,      \* SQL statements that may fail, of "insert", "select" and "delete"
    NoCookie, NoToken, Nobody   \* for what is not there

\* Whenever a token is issued or a cookie is set, its lifetime has begun.
Time == 0..MaxTime + Ttl

\* The session cookie, and when the browser drops it.
SessionCookie == [token : Tokens, until : Time]

\* A row of table sessions.
Row == [token : Tokens, expires : Time]

ASSUME SessionsAssumption ==
    /\ Ttl \in Nat \ {0}
    /\ MaxTime \in Nat
    /\ MaxCrashes \in Nat
    /\ NoCookie \notin SessionCookie
    /\ NoToken \notin Tokens
    /\ Nobody \notin Clients

VARIABLES
    clock,
    users,      \* table users: names
    sessions,   \* table sessions: rows
    ocean,      \* "down", "counted" between the two statements of SeedAdmin, or "up"
    crashes,
    jar,        \* jar[c]: the session cookie of client c
    req,        \* req[r]: what request r is for, and where it is
    issued,     \* the tokens that have been generated
    born,       \* born[t]: when t was (history)
    out         \* the tokens that a logout has revoked (history)

database == <<users, sessions>>
server   == <<ocean, crashes>>
history  == <<issued, born, out>>
vars     == <<clock, database, server, jar, req, history>>

Request(where, kind, c, t) ==
    [at |-> where, kind |-> kind, client |-> c, token |-> t, expires |-> 0]

Free == Request("free", "none", Nobody, NoToken)

-----------------------------------------------------------------------------

Init ==
    /\ clock = 0
    /\ users = {}
    /\ sessions = {}
    /\ ocean = "down"
    /\ crashes = 0
    /\ jar = [c \in Clients |-> NoCookie]
    /\ req = [r \in Requests |-> Free]
    /\ issued = {}
    /\ born = [t \in Tokens |-> 0]
    /\ out = {}

\* The wall clock, assumed not to be set back.
Tick ==
    /\ clock < MaxTime
    /\ clock' = clock + 1
    /\ UNCHANGED <<database, server, jar, req, history>>

\* Request r goes on to its next step, or ends.
Goes(r, rec) == req' = [req EXCEPT ![r] = rec]
Reaches(r, where) == Goes(r, [req[r] EXCEPT !.at = where])

-----------------------------------------------------------------------------
(* Start of the ocean: SeedAdmin.                                          *)

\* BUG VARIANT of CountUsers: only the configured user is looked for, not any user.
CountUsers_ByName ==
    /\ ocean = "down"
    /\ \E n \in AdminNames : ocean' = IF n \in users THEN "up" ELSE "counted"
    /\ UNCHANGED <<clock, database, crashes, jar, req, history>>

CountUsers ==
    /\ ocean = "down"
    /\ ocean' = IF users # {} THEN "up" ELSE "counted"
    /\ UNCHANGED <<clock, database, crashes, jar, req, history>>

\* A second local user would break UNIQUE(auth_provider, provider_subject).
CreateUser ==
    /\ ocean = "counted"
    /\ users = {}
    /\ \E n \in AdminNames : users' = {n}
    /\ ocean' = "up"
    /\ UNCHANGED <<clock, sessions, crashes, jar, req, history>>

\* The insert is rejected, or fails: the process ends.
CreateUserFails ==
    /\ ocean = "counted"
    /\ users # {} \/ "insert" \in Failing
    /\ ocean' = "down"
    /\ UNCHANGED <<clock, database, crashes, jar, req, history>>

\* Answers that have left the ocean may still arrive; other requests are lost.
Crash ==
    /\ ocean # "down"
    /\ crashes < MaxCrashes
    /\ ocean' = "down"
    /\ crashes' = crashes + 1
    /\ req' = [r \in Requests |-> IF req[r].at \in {"welcome", "goodbye"} THEN req[r] ELSE Free]
    /\ UNCHANGED <<clock, database, jar, history>>

-----------------------------------------------------------------------------
(* Login, which the middleware lets through.                               *)

AskLogin(r, c) ==
    /\ ocean = "up"
    /\ req[r] = Free
    /\ Goes(r, Request("login", "login", c, NoToken))
    /\ UNCHANGED <<clock, database, server, jar, history>>

\* An unknown provider or user, or a wrong password.
LoginRefused(r) ==
    /\ req[r].at = "login"
    /\ Goes(r, Free)
    /\ UNCHANGED <<clock, database, server, jar, history>>

\* Some name and password are right: there is a user.
Authenticate == users # {}

\* BUG VARIANT of Issue: the generator of tokens repeats itself.
Issue_Repeats(r) ==
    /\ req[r].at = "login"
    /\ Authenticate
    /\ \E t \in Tokens :
           /\ issued' = issued \cup {t}
           /\ born' = [born EXCEPT ![t] = clock]
           /\ Goes(r, [req[r] EXCEPT !.at = "issue", !.token = t, !.expires = clock + Ttl])
    /\ UNCHANGED <<clock, database, server, jar, out>>

\* The credentials are right; Issue makes a token and reads the clock.
Issue(r) ==
    /\ req[r].at = "login"
    /\ Authenticate
    /\ \E t \in Tokens \ issued :
           /\ issued' = issued \cup {t}
           /\ born' = [born EXCEPT ![t] = clock]
           /\ Goes(r, [req[r] EXCEPT !.at = "issue", !.token = t, !.expires = clock + Ttl])
    /\ UNCHANGED <<clock, database, server, jar, out>>

CreateSession(r) ==
    /\ req[r].at = "issue"
    /\ sessions' = sessions \cup {[token |-> req[r].token, expires |-> req[r].expires]}
    /\ Reaches(r, "welcome")
    /\ UNCHANGED <<clock, users, server, jar, history>>

\* The client is told that no session could be created.
CreateSessionFails(r) ==
    /\ req[r].at = "issue"
    /\ "insert" \in Failing
    /\ Goes(r, Free)
    /\ UNCHANGED <<clock, database, server, jar, history>>

\* The answer arrives.  Of the cookie's MaxAge and Expires, browsers follow MaxAge.
Welcome(r) ==
    /\ req[r].at = "welcome"
    /\ jar' = [jar EXCEPT ![req[r].client] = [token |-> req[r].token, until |-> clock + Ttl]]
    /\ Goes(r, Free)
    /\ UNCHANGED <<clock, database, server, history>>

-----------------------------------------------------------------------------
(* Every other request goes through the middleware.                        *)

Send(r, c, kind) ==
    /\ ocean = "up"
    /\ req[r] = Free
    /\ jar[c] # NoCookie
    /\ clock < jar[c].until
    /\ Goes(r, Request("gate", kind, c, jar[c].token))
    /\ UNCHANGED <<clock, database, server, jar, history>>

\* GetValidSession finds a row.
Valid(t) == \E s \in sessions : s.token = t /\ s.expires > clock

Admit(r) ==
    /\ req[r].at = "gate"
    /\ Valid(req[r].token)
    /\ Reaches(r, req[r].kind)
    /\ UNCHANGED <<clock, database, server, jar, history>>

\* No row, or an error of the database.
Refuse(r) ==
    /\ req[r].at = "gate"
    /\ ~Valid(req[r].token) \/ "select" \in Failing
    /\ Goes(r, Free)
    /\ UNCHANGED <<clock, database, server, jar, history>>

\* A handler of the API does what it does, and answers.
Work(r) ==
    /\ req[r].at = "work"
    /\ Goes(r, Free)
    /\ UNCHANGED <<clock, database, server, jar, history>>

\* BUG VARIANT of Revoke: the sessions of the user are deleted, not this one.
Revoke_OfUser(r) ==
    /\ req[r].at = "logout"
    /\ sessions' = {}
    /\ out' = out \cup {req[r].token}
    /\ Reaches(r, "goodbye")
    /\ UNCHANGED <<clock, users, server, jar, issued, born>>

\* BUG VARIANT of Revoke: the session is marked as expired by now, one tick too late.
Revoke_Marks(r) ==
    /\ req[r].at = "logout"
    /\ sessions' = {IF s.token = req[r].token /\ s.expires > clock
                    THEN [s EXCEPT !.expires = clock + 1] ELSE s : s \in sessions}
    /\ out' = out \cup {req[r].token}
    /\ Reaches(r, "goodbye")
    /\ UNCHANGED <<clock, users, server, jar, issued, born>>

\* Logout deletes the row, if it is still there.
Revoke(r) ==
    /\ req[r].at = "logout"
    /\ sessions' = {s \in sessions : s.token # req[r].token}
    /\ out' = out \cup {req[r].token}
    /\ Reaches(r, "goodbye")
    /\ UNCHANGED <<clock, users, server, jar, issued, born>>

\* An error of the database is ignored: the client is told that it is logged out.
RevokeFails(r) ==
    /\ req[r].at = "logout"
    /\ "delete" \in Failing
    /\ Reaches(r, "goodbye")
    /\ UNCHANGED <<clock, database, server, jar, history>>

\* The answer of a logout arrives, whatever cookie the client has by now.
Goodbye(r) ==
    /\ req[r].at = "goodbye"
    /\ jar' = [jar EXCEPT ![req[r].client] = NoCookie]
    /\ Goes(r, Free)
    /\ UNCHANGED <<clock, database, server, history>>

\* The connection of the client breaks: an answer never arrives.
AnswerLost(r) ==
    /\ req[r].at \in {"welcome", "goodbye"}
    /\ Goes(r, Free)
    /\ UNCHANGED <<clock, database, server, jar, history>>

-----------------------------------------------------------------------------

Handle(r) ==
    \/ LoginRefused(r) \/ Issue(r) \/ CreateSession(r) \/ CreateSessionFails(r)
    \/ Admit(r) \/ Refuse(r) \/ Work(r) \/ Revoke(r) \/ RevokeFails(r)

ClientStep(r) ==
    \/ \E c \in Clients : AskLogin(r, c) \/ \E kind \in {"work", "logout"} : Send(r, c, kind)
    \/ Welcome(r) \/ Goodbye(r) \/ AnswerLost(r)

Next ==
    \/ Tick \/ CountUsers \/ CreateUser \/ CreateUserFails \/ Crash
    \/ \E r \in Requests : Handle(r) \/ ClientStep(r)

Spec == Init /\ [][Next]_vars

-----------------------------------------------------------------------------

\* Types; and no two rows have the same token, so that the primary key of table
\* sessions (store.go:73) never rejects what CreateSession inserts.
TypeOK ==
    /\ clock \in 0..MaxTime
    /\ users \subseteq AdminNames
    /\ sessions \subseteq Row
    /\ ocean \in {"down", "counted", "up"}
    /\ crashes \in 0..MaxCrashes
    /\ jar \in [Clients -> SessionCookie \cup {NoCookie}]
    /\ req \in [Requests ->
         [at      : {"free", "login", "issue", "welcome", "gate", "work", "logout", "goodbye"},
          kind    : {"none", "login", "work", "logout"},
          client  : Clients \cup {Nobody},
          token   : Tokens \cup {NoToken},
          expires : Time]]
    /\ issued \subseteq Tokens
    /\ born \in [Tokens -> Time]
    /\ out \subseteq issued
    /\ \A s1, s2 \in sessions : s1.token = s2.token => s1 = s2

\* Past the middleware (middleware.go:57-67) only gets a request whose token
\* no logout has revoked and was issued less than the "hard TTL" (store.go:2)
\* ago, whatever requests, crashes and answers came in between.
OnlyLiveAdmitted ==
    [][\A r \in Requests :
          req[r].at = "gate" /\ req'[r].at \in {"work", "logout"}
              => /\ req[r].token \notin out
                 /\ clock < born[req[r].token] + Ttl]_vars

\* SeedAdmin is "Idempotent (safe to call on every startup)" (auth.go:123-124):
\* after a crash between its two statements, or under another name, a later
\* start neither leaves the ocean without a user nor tries to insert a second
\* one, which would be rejected and end the process (store.go:70, ocean.go:166).
OneAdmin ==
    /\ Cardinality(users) <= 1
    /\ ocean = "up" => users # {}
    /\ ocean = "counted" => users = {}

\* The browser sends a cookie, and the middleware will take it.
LoggedIn(c) == jar[c] # NoCookie /\ clock < jar[c].until /\ Valid(jar[c].token)

\* A browser that is logged in stays so, whatever others do, until that very
\* session is logged out (services.go:249-261), an answer to the browser's own
\* login or logout takes its cookie away (ClearCookie), or session_ttl is over
\* since its token was issued: row and cookie both last that long (auth.go:49-70,
\* 96-108).  An ocean that crashes logs nobody out.
LoginLasts ==
    [][\A c \in Clients :
          LoggedIn(c) /\ ~LoggedIn(c)' =>
              \/ \E r \in Requests : /\ req[r].at = "logout" /\ req'[r].at = "goodbye"
                                     /\ req[r].token = jar[c].token
              \/ \E r \in Requests : /\ req[r].at \in {"welcome", "goodbye"} /\ req'[r] = Free
                                     /\ req[r].client = c /\ jar'[c] # jar[c]
              \/ clock' >= born[jar[c].token] + Ttl]_vars
=============================================================================
