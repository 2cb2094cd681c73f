--------------------------- MODULE SessionsProofs ---------------------------
(***************************************************************************)
(* For any number of browsers, requests and tokens: what the middleware    *)
(* lets through is a token that no logout has revoked and whose hard       *)
(* lifetime has not passed; there is one user; and a browser that is       *)
(* logged in stays so until a logout, an answer of its own or its age ends *)
(* that.                                                                   *)
(***************************************************************************)
EXTENDS Sessions, FiniteSetTheorems, TLAPS

\* Every token that is anywhere has been generated, and its lifetime has begun.
Known ==
    /\ \A r \in Requests : req[r].token # NoToken => req[r].token \in issued
    /\ \A c \in Clients : jar[c] # NoCookie => jar[c].token \in issued
    /\ \A s \in sessions : s.token \in issued
    /\ \A t \in Tokens : born[t] <= clock

\* A request that has a token to itself: its row is still to be written.
Issuing(r) == req[r].at = "issue"

\* Nobody else has the token of such a request, and nobody has revoked it.
Fresh ==
    \A r \in Requests : Issuing(r) =>
        /\ req[r].token # NoToken
        /\ req[r].expires = born[req[r].token] + Ttl
        /\ req[r].token \notin out
        /\ \A q \in Requests \ {r} : req[q].token # req[r].token
        /\ \A c \in Clients : jar[c] # NoCookie => jar[c].token # req[r].token
        /\ \A s \in sessions : s.token # req[r].token

\* A request that is past the sending has a token and a handler.
Carries ==
    \A r \in Requests :
        /\ req[r].at \in {"welcome", "gate", "work", "logout", "goodbye"} => req[r].token # NoToken
        /\ req[r].at = "gate" => req[r].kind \in {"work", "logout"}

\* A row lasts for Ttl after its token was generated, and no revoked token has one.
HardRows == \A s \in sessions : s.expires = born[s.token] + Ttl /\ s.token \notin out

\* A cookie lasts at least as long.
LongCookies == \A c \in Clients : jar[c] # NoCookie => born[jar[c].token] + Ttl <= jar[c].until

\* SeedAdmin writes only what it has found missing.
Seeding ==
    /\ users = {} \/ \E n \in AdminNames : users = {n}
    /\ ocean = "counted" => users = {}
    /\ ocean = "up" => users # {}

SessionInv == TypeOK /\ Known /\ Fresh /\ Carries /\ HardRows /\ LongCookies /\ Seeding

Places == {"free", "login", "issue", "welcome", "gate", "work", "logout", "goodbye"}
Kinds  == {"none", "login", "work", "logout"}

RequestType == [at : Places, kind : Kinds, client : Clients \cup {Nobody},
                token : Tokens \cup {NoToken}, expires : Time]

-----------------------------------------------------------------------------

LEMMA FreeType == Free \in RequestType /\ Free.token = NoToken /\ Free.at = "free"
BY SessionsAssumption DEF Free, Request, RequestType, Places, Kinds, Time

LEMMA ReqType == TypeOK => req \in [Requests -> RequestType]
BY DEF TypeOK, RequestType, Places, Kinds

\* Initially there is nothing.
LEMMA SessionInit == Init => SessionInv
<1> SUFFICES ASSUME Init PROVE SessionInv
  OBVIOUS
<1>1. TypeOK
  BY FreeType, SessionsAssumption DEF Init, TypeOK, RequestType, Places, Kinds, Time
<1>2. Known /\ Fresh /\ Carries
  BY FreeType, SessionsAssumption DEF Init, Known, Fresh, Issuing, Carries
<1>3. HardRows /\ LongCookies /\ Seeding
  BY DEF Init, HardRows, LongCookies, Seeding
<1> QED BY <1>1, <1>2, <1>3 DEF SessionInv

-----------------------------------------------------------------------------
(* Requests that move on without anything else changing.                   *)

\* A request that reaches another place keeps its token.
LEMMA ReachType ==
    ASSUME TypeOK, NEW r \in Requests, NEW where \in Places, Reaches(r, where)
    PROVE  /\ req' \in [Requests -> RequestType]
           /\ req'[r].at = where
           /\ \A q \in Requests : /\ req'[q].token = req[q].token
                                  /\ req'[q].expires = req[q].expires
                                  /\ q # r => req'[q] = req[q]
BY ReqType DEF Reaches, Goes, RequestType

\* One that ends has none.
LEMMA EndType ==
    ASSUME TypeOK, NEW r \in Requests, Goes(r, Free)
    PROVE  /\ req' \in [Requests -> RequestType]
           /\ req'[r] = Free
           /\ \A q \in Requests \ {r} : req'[q] = req[q]
BY FreeType, ReqType DEF Goes

LEMMA ReachKeeps ==
    ASSUME SessionInv, NEW r \in Requests, NEW where \in {"work", "logout", "goodbye"},
           Reaches(r, where), req[r].token # NoToken,
           UNCHANGED <<clock, database, server, jar, history>>
    PROVE  SessionInv'
<1> USE DEF SessionInv, database, server, history
<1>0. /\ req' \in [Requests -> RequestType]
      /\ req'[r].at = where
      /\ \A q \in Requests : /\ req'[q].token = req[q].token
                             /\ req'[q].expires = req[q].expires
                             /\ q # r => req'[q] = req[q]
  BY ReachType DEF Places
<1>1. TypeOK'
  BY <1>0 DEF TypeOK, RequestType, Places, Kinds
<1>2. Known'
  BY <1>0 DEF Known
<1>3. Fresh'
  BY <1>0 DEF Fresh, Issuing
<1>4. Carries'
  BY <1>0 DEF Carries
<1>5. HardRows' /\ LongCookies' /\ Seeding'
  BY DEF HardRows, LongCookies, Seeding
<1> QED BY <1>1, <1>2, <1>3, <1>4, <1>5

LEMMA EndKeeps ==
    ASSUME SessionInv, NEW r \in Requests, Goes(r, Free),
           UNCHANGED <<clock, database, server, jar, history>>
    PROVE  SessionInv'
<1> USE DEF SessionInv, database, server, history
<1>0. /\ req' \in [Requests -> RequestType]
      /\ req'[r] = Free
      /\ \A q \in Requests \ {r} : req'[q] = req[q]
  BY EndType
<1>1. TypeOK'
  BY <1>0 DEF TypeOK, RequestType, Places, Kinds
<1>2. Known' /\ Fresh' /\ Carries'
  BY <1>0, FreeType DEF Known, Fresh, Issuing, Carries
<1>3. HardRows' /\ LongCookies' /\ Seeding'
  BY DEF HardRows, LongCookies, Seeding
<1> QED BY <1>1, <1>2, <1>3

-----------------------------------------------------------------------------
(* The clock and the ocean's starts and crashes.                           *)

LEMMA TickKeeps == SessionInv /\ Tick => SessionInv'
<1> SUFFICES ASSUME SessionInv, Tick PROVE SessionInv'
  OBVIOUS
<1> USE DEF SessionInv, Tick, database, server, history
<1>1. TypeOK'
  BY SessionsAssumption DEF TypeOK
<1>2. Known'
  BY SessionsAssumption DEF Known, TypeOK, Time
<1>3. Fresh' /\ Carries' /\ HardRows' /\ LongCookies' /\ Seeding'
  BY DEF Fresh, Issuing, Carries, HardRows, LongCookies, Seeding
<1> QED BY <1>1, <1>2, <1>3

LEMMA SeedKeeps == SessionInv /\ (CountUsers \/ CreateUser \/ CreateUserFails) => SessionInv'
<1> SUFFICES ASSUME SessionInv, CountUsers \/ CreateUser \/ CreateUserFails PROVE SessionInv'
  OBVIOUS
<1> USE DEF SessionInv, CountUsers, CreateUser, CreateUserFails, database, server, history
<1>1. TypeOK'
  BY DEF TypeOK
<1>2. Known' /\ Fresh' /\ Carries' /\ HardRows' /\ LongCookies'
  BY DEF Known, Fresh, Issuing, Carries, HardRows, LongCookies
<1>3. Seeding'
  BY DEF Seeding
<1> QED BY <1>1, <1>2, <1>3

LEMMA CrashKeeps == SessionInv /\ Crash => SessionInv'
<1> SUFFICES ASSUME SessionInv, Crash PROVE SessionInv'
  OBVIOUS
<1> USE DEF SessionInv, Crash, database, server, history
<1>0. /\ req' \in [Requests -> RequestType]
      /\ \A q \in Requests : req'[q] = Free \/ (req'[q] = req[q] /\ ~Issuing(q))
  BY FreeType DEF TypeOK, RequestType, Places, Kinds, Issuing
<1>1. TypeOK'
  BY <1>0, SessionsAssumption DEF TypeOK, RequestType, Places, Kinds
<1>2. Known' /\ Fresh' /\ Carries'
  BY <1>0, FreeType DEF Known, Fresh, Issuing, Carries
<1>3. HardRows' /\ LongCookies' /\ Seeding'
  BY DEF HardRows, LongCookies, Seeding
<1> QED BY <1>1, <1>2, <1>3

-----------------------------------------------------------------------------
(* Logging in.                                                             *)

LEMMA AskKeeps ==
    ASSUME SessionInv, NEW r \in Requests, NEW c \in Clients,
           AskLogin(r, c) \/ \E kind \in {"work", "logout"} : Send(r, c, kind)
    PROVE  SessionInv'
<1> USE DEF SessionInv, database, server, history
<1>0. PICK rec \in RequestType :
        /\ req' = [req EXCEPT ![r] = rec]
        /\ rec.at \in {"login", "gate"}
        /\ rec.at = "login" => rec.token = NoToken
        /\ rec.at = "gate" => /\ rec.kind \in {"work", "logout"}
                             /\ jar[c] # NoCookie /\ rec.token = jar[c].token
  <2>1. ASSUME AskLogin(r, c)
        PROVE  \E rec \in RequestType :
                  /\ req' = [req EXCEPT ![r] = rec]
                  /\ rec.at = "login" /\ rec.token = NoToken
    <3> DEFINE rec == Request("login", "login", c, NoToken)
    <3>1. rec \in RequestType /\ rec.at = "login" /\ rec.token = NoToken
      BY SessionsAssumption DEF Request, RequestType, Places, Kinds, Time
    <3> QED BY <2>1, <3>1 DEF AskLogin, Goes
  <2>2. ASSUME NEW kind \in {"work", "logout"}, Send(r, c, kind)
        PROVE  \E rec \in RequestType :
                  /\ req' = [req EXCEPT ![r] = rec]
                  /\ rec.at = "gate" /\ rec.kind \in {"work", "logout"}
                  /\ jar[c] # NoCookie /\ rec.token = jar[c].token
    <3>1. jar[c] # NoCookie /\ jar[c] \in SessionCookie
      BY <2>2 DEF Send, TypeOK
    <3> DEFINE rec == Request("gate", kind, c, jar[c].token)
    <3>2. /\ rec \in RequestType
          /\ rec.at = "gate" /\ rec.kind = kind /\ rec.token = jar[c].token
      BY <3>1, SessionsAssumption DEF Request, RequestType, Places, Kinds, Time, SessionCookie
    <3> QED BY <2>2, <3>1, <3>2 DEF Send, Goes
  <2> QED BY <2>1, <2>2
<1>1. UNCHANGED <<clock, database, server, jar, history>>
  BY DEF AskLogin, Send
<1>2. TypeOK'
  BY <1>0, <1>1 DEF TypeOK, RequestType, Places, Kinds
<1>3. /\ req'[r] = rec
      /\ \A q \in Requests \ {r} : req'[q] = req[q]
      /\ jar[c] # NoCookie => jar[c].token # NoToken
  BY <1>0, SessionsAssumption DEF TypeOK, SessionCookie
<1>4. Known'
  BY <1>0, <1>1, <1>3 DEF Known
<1>5. Fresh'
  BY <1>0, <1>1, <1>3 DEF Fresh, Issuing
<1>6. Carries'
  BY <1>0, <1>1, <1>3 DEF Carries
<1>7. HardRows' /\ LongCookies' /\ Seeding'
  BY <1>1 DEF HardRows, LongCookies, Seeding
<1> QED BY <1>2, <1>4, <1>5, <1>6, <1>7

\* A token that has just been generated is nowhere else.
LEMMA IssueKeeps ==
    ASSUME SessionInv, NEW r \in Requests, Issue(r)
    PROVE  SessionInv'
<1> USE DEF SessionInv, database, server, history
<1>0. PICK t \in Tokens \ issued :
        /\ issued' = issued \cup {t}
        /\ born' = [born EXCEPT ![t] = clock]
        /\ Goes(r, [req[r] EXCEPT !.at = "issue", !.token = t, !.expires = clock + Ttl])
  BY DEF Issue
<1>1. UNCHANGED <<clock, users, sessions, ocean, crashes, jar, out>>
  BY DEF Issue
<1>2. /\ req' \in [Requests -> RequestType]
      /\ req'[r].at = "issue" /\ req'[r].token = t /\ req'[r].expires = clock + Ttl
      /\ \A q \in Requests \ {r} : req'[q] = req[q]
  <2> DEFINE rec == [req[r] EXCEPT !.at = "issue", !.token = t, !.expires = clock + Ttl]
  <2>1. req[r] \in RequestType /\ clock + Ttl \in Time
    BY ReqType, SessionsAssumption DEF TypeOK, Time
  <2>2. rec \in RequestType /\ rec.at = "issue" /\ rec.token = t /\ rec.expires = clock + Ttl
    BY <2>1 DEF RequestType, Places
  <2> QED BY <1>0, <2>2, ReqType DEF Goes
<1>3. /\ born' \in [Tokens -> Time] /\ born'[t] = clock
      /\ \A u \in Tokens \ {t} : born'[u] = born[u]
  BY <1>0, SessionsAssumption DEF TypeOK, Time
<1>4. TypeOK'
  BY <1>0, <1>1, <1>2, <1>3 DEF TypeOK, RequestType, Places, Kinds
<1>5. Known'
  BY <1>0, <1>1, <1>2, <1>3 DEF Known, TypeOK, Time
<1>6. t # NoToken /\ t \notin out
  BY SessionsAssumption DEF TypeOK
<1>7. Fresh'
  <2> SUFFICES ASSUME NEW q \in Requests, Issuing(q)'
               PROVE  /\ req'[q].token # NoToken
                      /\ req'[q].expires = born'[req'[q].token] + Ttl
                      /\ req'[q].token \notin out'
                      /\ \A p \in Requests \ {q} : req'[p].token # req'[q].token
                      /\ \A c \in Clients : jar'[c] # NoCookie => jar'[c].token # req'[q].token
                      /\ \A s \in sessions' : s.token # req'[q].token
    BY DEF Fresh
  <2>1. CASE q = r
    BY <2>1, <1>0, <1>1, <1>2, <1>3, <1>6 DEF Known
  <2>2. CASE q # r
    <3>1. Issuing(q) /\ req'[q] = req[q] /\ req[q].token \in issued /\ req[q].token # t
      BY <2>2, <1>0, <1>2 DEF Issuing, Known, Fresh
    <3>2. req[q].token \in Tokens
      BY <3>1 DEF TypeOK
    <3> QED BY <3>1, <3>2, <1>1, <1>2, <1>3 DEF Fresh
  <2> QED BY <2>1, <2>2
<1>8. Carries'
  BY <1>2 DEF Carries
<1>9. HardRows' /\ LongCookies'
  BY <1>0, <1>1, <1>3 DEF HardRows, LongCookies, Known, TypeOK, Row, SessionCookie
<1>10. Seeding'
  BY <1>1 DEF Seeding
<1> QED BY <1>4, <1>5, <1>7, <1>8, <1>9, <1>10

LEMMA CreateSessionKeeps ==
    ASSUME SessionInv, NEW r \in Requests, CreateSession(r)
    PROVE  SessionInv'
<1> USE DEF SessionInv, database, server, history
<1> DEFINE new == [token |-> req[r].token, expires |-> req[r].expires]
<1>0. /\ UNCHANGED <<clock, users, server, jar, history>>
      /\ sessions' = sessions \cup {new}
      /\ Issuing(r)
  BY DEF CreateSession, Issuing
<1>1. /\ req' \in [Requests -> RequestType]
      /\ req'[r].at = "welcome"
      /\ \A q \in Requests : /\ req'[q].token = req[q].token
                             /\ req'[q].expires = req[q].expires
                             /\ q # r => req'[q] = req[q]
  BY ReachType DEF CreateSession, Places
<1>2. new \in Row /\ new.token \in issued /\ new.token \notin out
      /\ new.expires = born[new.token] + Ttl
      /\ \A s \in sessions : s.token # new.token
      /\ \A q \in Requests \ {r} : req[q].token # new.token
  BY <1>0 DEF Fresh, Known, TypeOK, Row
<1>3. TypeOK'
  BY <1>0, <1>1, <1>2 DEF TypeOK, RequestType, Places, Kinds
<1>4. Known'
  BY <1>0, <1>1, <1>2 DEF Known
<1>5. Fresh'
  BY <1>0, <1>1, <1>2 DEF Fresh, Issuing
<1>6. Carries'
  BY <1>0, <1>1 DEF Carries, Fresh
<1>7. HardRows'
  BY <1>0, <1>2 DEF HardRows
<1>8. LongCookies' /\ Seeding'
  BY <1>0 DEF LongCookies, Seeding
<1> QED BY <1>3, <1>4, <1>5, <1>6, <1>7, <1>8

LEMMA WelcomeKeeps ==
    ASSUME SessionInv, NEW r \in Requests, Welcome(r)
    PROVE  SessionInv'
<1> USE DEF SessionInv, database, server, history
<1> DEFINE cookie == [token |-> req[r].token, until |-> clock + Ttl]
<1>0. /\ req' \in [Requests -> RequestType]
      /\ req'[r] = Free
      /\ \A q \in Requests \ {r} : req'[q] = req[q]
  BY EndType DEF Welcome
<1>1. /\ req[r].at = "welcome"
      /\ jar' = [jar EXCEPT ![req[r].client] = cookie]
      /\ UNCHANGED <<clock, database, server, history>>
  BY DEF Welcome
<1>2. req[r].token \in Tokens /\ req[r].token \in issued
  BY <1>1 DEF Known, Carries, TypeOK
<1>3. cookie \in SessionCookie /\ born[cookie.token] + Ttl <= cookie.until
  BY <1>2, SessionsAssumption DEF TypeOK, SessionCookie, Time, Known
<1>4. /\ jar' \in [Clients -> SessionCookie \cup {NoCookie}]
      /\ \A c \in Clients : jar'[c] = jar[c] \/ jar'[c] = cookie
  BY <1>1, <1>3 DEF TypeOK
<1>5. TypeOK'
  BY <1>0, <1>1, <1>4 DEF TypeOK, RequestType, Places, Kinds
<1>6. Known'
  BY <1>0, <1>1, <1>2, <1>4, FreeType DEF Known
<1>7. Fresh'
  BY <1>0, <1>1, <1>4, FreeType DEF Fresh, Issuing
<1>8. Carries'
  BY <1>0, FreeType DEF Carries
<1>9. HardRows' /\ LongCookies' /\ Seeding'
  BY <1>1, <1>3, <1>4 DEF HardRows, LongCookies, Seeding
<1> QED BY <1>5, <1>6, <1>7, <1>8, <1>9

-----------------------------------------------------------------------------
(* Being let in and logging out.                                           *)

\* A request is let in, or has done its work, or its revocation has failed.
LEMMA AdmitKeeps ==
    ASSUME SessionInv, NEW r \in Requests, Admit(r) \/ RevokeFails(r)
    PROVE  SessionInv'
<1>1. CASE Admit(r)
  <2>1. req[r].kind \in {"work", "logout"} /\ req[r].token # NoToken
    BY <1>1 DEF Admit, SessionInv, Carries
  <2> QED BY <1>1, <2>1, ReachKeeps DEF Admit
<1>2. CASE RevokeFails(r)
  <2>1. req[r].token # NoToken
    BY <1>2 DEF RevokeFails, SessionInv, Carries
  <2> QED BY <1>2, <2>1, ReachKeeps DEF RevokeFails
<1> QED BY <1>1, <1>2

LEMMA RevokeKeeps ==
    ASSUME SessionInv, NEW r \in Requests, Revoke(r)
    PROVE  SessionInv'
<1> USE DEF SessionInv, database, server, history
<1>0. /\ UNCHANGED <<clock, users, server, jar, issued, born>>
      /\ sessions' = {s \in sessions : s.token # req[r].token}
      /\ out' = out \cup {req[r].token}
      /\ req[r].at = "logout"
  BY DEF Revoke
<1>1. /\ req' \in [Requests -> RequestType]
      /\ req'[r].at = "goodbye"
      /\ \A q \in Requests : /\ req'[q].token = req[q].token
                             /\ req'[q].expires = req[q].expires
                             /\ q # r => req'[q] = req[q]
  BY ReachType DEF Revoke, Places
<1>2. req[r].token # NoToken /\ req[r].token \in issued
  BY <1>0 DEF Carries, Known
<1>3. TypeOK'
  BY <1>0, <1>1, <1>2 DEF TypeOK, RequestType, Places, Kinds
<1>4. Known'
  BY <1>0, <1>1 DEF Known
<1>5. Fresh'
  BY <1>0, <1>1 DEF Fresh, Issuing
<1>6. Carries'
  BY <1>0, <1>1, <1>2 DEF Carries
<1>7. HardRows' /\ LongCookies' /\ Seeding'
  BY <1>0 DEF HardRows, LongCookies, Seeding
<1> QED BY <1>3, <1>4, <1>5, <1>6, <1>7

LEMMA GoodbyeKeeps ==
    ASSUME SessionInv, NEW r \in Requests, Goodbye(r)
    PROVE  SessionInv'
<1> USE DEF SessionInv, database, server, history
<1>0. /\ req' \in [Requests -> RequestType]
      /\ req'[r] = Free
      /\ \A q \in Requests \ {r} : req'[q] = req[q]
  BY EndType DEF Goodbye
<1>1. UNCHANGED <<clock, database, server, history>>
  BY DEF Goodbye
<1>2. /\ jar' \in [Clients -> SessionCookie \cup {NoCookie}]
      /\ \A c \in Clients : jar'[c] = jar[c] \/ jar'[c] = NoCookie
  BY DEF Goodbye, TypeOK
<1>3. TypeOK'
  BY <1>0, <1>1, <1>2 DEF TypeOK, RequestType, Places, Kinds
<1>4. Known' /\ Fresh' /\ Carries'
  BY <1>0, <1>1, <1>2, FreeType DEF Known, Fresh, Issuing, Carries
<1>5. HardRows' /\ LongCookies' /\ Seeding'
  BY <1>1, <1>2 DEF HardRows, LongCookies, Seeding
<1> QED BY <1>3, <1>4, <1>5

-----------------------------------------------------------------------------

LEMMA SessionStep == SessionInv /\ [Next]_vars => SessionInv'
<1> SUFFICES ASSUME SessionInv, [Next]_vars PROVE SessionInv'
  OBVIOUS
<1>1. CASE Tick \/ CountUsers \/ CreateUser \/ CreateUserFails \/ Crash
  BY <1>1, TickKeeps, SeedKeeps, CrashKeeps
<1>2. ASSUME NEW r \in Requests, Handle(r) PROVE SessionInv'
  <2>1. CASE LoginRefused(r) \/ CreateSessionFails(r) \/ Refuse(r) \/ Work(r)
    BY <2>1, EndKeeps DEF LoginRefused, CreateSessionFails, Refuse, Work
  <2>2. CASE Issue(r) \/ CreateSession(r)
    BY <2>2, IssueKeeps, CreateSessionKeeps
  <2>3. CASE Admit(r) \/ Revoke(r) \/ RevokeFails(r)
    BY <2>3, AdmitKeeps, RevokeKeeps
  <2> QED BY <1>2, <2>1, <2>2, <2>3 DEF Handle
<1>3. ASSUME NEW r \in Requests, ClientStep(r) PROVE SessionInv'
  <2>1. CASE \E c \in Clients : AskLogin(r, c) \/ \E kind \in {"work", "logout"} : Send(r, c, kind)
    BY <2>1, AskKeeps
  <2>2. CASE Welcome(r) \/ Goodbye(r)
    BY <2>2, WelcomeKeeps, GoodbyeKeeps
  <2>3. CASE AnswerLost(r)
    BY <2>3, EndKeeps DEF AnswerLost
  <2> QED BY <1>3, <2>1, <2>2, <2>3 DEF ClientStep
<1>4. CASE UNCHANGED vars
  BY <1>4 DEF vars, database, server, history, SessionInv, TypeOK, Known, Fresh, Issuing, Carries,
              HardRows, LongCookies, Seeding
<1> QED BY <1>1, <1>2, <1>3, <1>4 DEF Next

\* It holds always.
THEOREM SessionInvariant == Spec => []SessionInv
BY SessionInit, SessionStep, PTL DEF Spec

\* Types; and table sessions never holds two rows with one token
\* (CreateSession, store.go:143-149).
THEOREM SessionTypes == Spec => []TypeOK
<1>1. SessionInv => TypeOK
  BY DEF SessionInv
<1> QED BY <1>1, SessionInvariant, PTL

\* However many requests, crashes and lost answers there are, the middleware
\* admits no token that has been revoked or is older than Ttl
\* (middleware.go:57-67).
THEOREM OnlyLiveAreAdmitted == Spec => OnlyLiveAdmitted
<1> DEFINE A == \A r \in Requests :
                  req[r].at = "gate" /\ req'[r].at \in {"work", "logout"}
                      => /\ req[r].token \notin out
                         /\ clock < born[req[r].token] + Ttl
<1>1. SessionInv /\ [Next]_vars => [A]_vars
  <2> SUFFICES ASSUME SessionInv, Next, NEW r \in Requests,
                      req[r].at = "gate", req'[r].at \in {"work", "logout"}
               PROVE  req[r].token \notin out /\ clock < born[req[r].token] + Ttl
    BY DEF A
  <2>1. Valid(req[r].token) => req[r].token \notin out /\ clock < born[req[r].token] + Ttl
    BY DEF SessionInv, HardRows, Valid
  <2>2. req \in [Requests -> RequestType] /\ req'[r] # req[r] /\ Free.at # "gate"
    BY FreeType DEF SessionInv, TypeOK, RequestType, Places, Kinds
  <2>3. CASE Tick \/ CountUsers \/ CreateUser \/ CreateUserFails
    BY <2>2, <2>3 DEF Tick, CountUsers, CreateUser, CreateUserFails
  <2>4. CASE Crash
    BY <2>2, <2>4, FreeType DEF Crash
  <2>5. ASSUME NEW q \in Requests, Handle(q) \/ ClientStep(q)
        PROVE  q = r
    <3>1. PICK rec : req' = [req EXCEPT ![q] = rec]
      BY <2>5 DEF Handle, ClientStep, LoginRefused, Issue, CreateSession, CreateSessionFails, Admit,
                  Refuse, Work, Revoke, RevokeFails, AskLogin, Send, Welcome, Goodbye, AnswerLost,
                  Goes, Reaches
    <3> QED BY <2>2, <3>1
  <2>6. CASE Handle(r)
    <3>1. CASE Admit(r)
      BY <2>1, <3>1 DEF Admit
    <3>2. CASE Refuse(r)
      BY <2>2, <3>2, FreeType DEF Refuse, Goes
    <3> QED BY <2>6, <3>1, <3>2 DEF Handle, LoginRefused, Issue, CreateSession, CreateSessionFails,
                                   Work, Revoke, RevokeFails
  <2>7. CASE ClientStep(r)
    BY <2>7, FreeType DEF ClientStep, AskLogin, Send, Welcome, Goodbye, AnswerLost
  <2> QED BY <2>3, <2>4, <2>5, <2>6, <2>7 DEF Next
<1>2. Spec => [][A]_vars
  BY <1>1, SessionInvariant, PTL DEF Spec
<1> QED BY <1>2 DEF OnlyLiveAdmitted

\* There is one user as soon as the ocean serves, never another, and no start
\* fails because there is one already (SeedAdmin, auth.go:123-158).
THEOREM OneAdminOnly == Spec => []OneAdmin
<1>1. SessionInv => OneAdmin
  <2> SUFFICES ASSUME SessionInv PROVE OneAdmin
    OBVIOUS
  <2>1. Cardinality({}) = 0 /\ \A n \in AdminNames : Cardinality({n}) = 1
    BY FS_EmptySet, FS_Singleton
  <2> QED BY <2>1 DEF SessionInv, Seeding, OneAdmin
<1> QED BY <1>1, SessionInvariant, PTL

\* The part of the state that decides whether somebody is logged in.
LEMMA StaysLoggedIn ==
    ASSUME NEW c \in Clients, LoggedIn(c),
           jar' = jar, clock' = clock, sessions \subseteq sessions'
    PROVE  LoggedIn(c)'
BY DEF LoggedIn, Valid

\* The clock ends a login only when the token's lifetime is over.
LEMMA TickEndsOld ==
    ASSUME SessionInv, Tick, NEW c \in Clients, LoggedIn(c), ~LoggedIn(c)'
    PROVE  clock' >= born[jar[c].token] + Ttl
<1>1. /\ clock' \in Nat /\ jar' = jar /\ sessions' = sessions
      /\ jar[c] # NoCookie /\ jar[c] \in SessionCookie
  BY SessionsAssumption DEF Tick, database, SessionInv, TypeOK, LoggedIn
<1>2. born[jar[c].token] + Ttl \in Nat /\ jar[c].until \in Nat
  BY <1>1, SessionsAssumption DEF SessionInv, TypeOK, SessionCookie, Time
<1>3. CASE clock' >= jar[c].until
  BY <1>1, <1>2, <1>3 DEF SessionInv, LongCookies
<1>4. CASE ~(clock' >= jar[c].until)
  <2>1. PICK s \in sessions : s.token = jar[c].token
    BY DEF LoggedIn, Valid
  <2>2. s.expires = born[jar[c].token] + Ttl
    BY <2>1 DEF SessionInv, HardRows
  <2>3. ~(s.expires > clock')
    BY <1>1, <1>2, <1>4, <2>1 DEF LoggedIn, Valid
  <2> QED BY <1>1, <1>2, <2>2, <2>3
<1> QED BY <1>3, <1>4

\* Whatever logins, logouts, crashes, lost and late answers interleave, nobody is
\* logged out but by a logout of that very session, an answer to a login or logout
\* of the same browser, or the age of the token (auth.go:49-121, store.go:143-170).
THEOREM LoginsLast == Spec => LoginLasts
<1> DEFINE Ended(c) == \E r \in Requests : /\ req[r].at = "logout" /\ req'[r].at = "goodbye"
                                           /\ req[r].token = jar[c].token
           Answered(c) == \E r \in Requests : /\ req[r].at \in {"welcome", "goodbye"}
                                              /\ req'[r] = Free
                                              /\ req[r].client = c /\ jar'[c] # jar[c]
           A == \A c \in Clients : LoggedIn(c) /\ ~LoggedIn(c)' =>
                  \/ \E r \in Requests : /\ req[r].at = "logout" /\ req'[r].at = "goodbye"
                                         /\ req[r].token = jar[c].token
                  \/ \E r \in Requests : /\ req[r].at \in {"welcome", "goodbye"} /\ req'[r] = Free
                                         /\ req[r].client = c /\ jar'[c] # jar[c]
                  \/ clock' >= born[jar[c].token] + Ttl
<1>1. SessionInv /\ [Next]_vars => [A]_vars
  <2> SUFFICES ASSUME SessionInv, Next, NEW c \in Clients, LoggedIn(c), ~LoggedIn(c)'
               PROVE  Ended(c) \/ Answered(c) \/ clock' >= born[jar[c].token] + Ttl
    OBVIOUS
  <2>0. req \in [Requests -> RequestType] /\ jar \in [Clients -> SessionCookie \cup {NoCookie}]
    BY ReqType DEF SessionInv, TypeOK
  <2>1. CASE Tick
    BY <2>1, TickEndsOld
  <2>2. CASE CountUsers \/ CreateUser \/ CreateUserFails \/ Crash
    <3>1. UNCHANGED <<jar, clock, sessions>>
      BY <2>2 DEF CountUsers, CreateUser, CreateUserFails, Crash, database
    <3> QED BY <3>1, StaysLoggedIn
  <2>3. ASSUME NEW r \in Requests, Handle(r)
        PROVE  Ended(c)
    <3>1. CASE ~Revoke(r)
      <4>1. jar' = jar /\ clock' = clock /\ sessions \subseteq sessions'
        BY <2>3, <3>1 DEF Handle, LoginRefused, Issue, CreateSession, CreateSessionFails, Admit,
                          Refuse, Work, RevokeFails, database
      <4> QED BY <4>1, StaysLoggedIn
    <3>2. CASE Revoke(r)
      <4>1. jar' = jar /\ clock' = clock /\ sessions' = {s \in sessions : s.token # req[r].token}
        BY <3>2 DEF Revoke
      <4>2. req[r].token = jar[c].token
        BY <4>1 DEF LoggedIn, Valid
      <4>3. req[r].at = "logout" /\ req'[r].at = "goodbye"
        BY <2>0, <3>2 DEF Revoke, Reaches, Goes, RequestType
      <4> QED BY <4>2, <4>3
    <3> QED BY <3>1, <3>2
  <2>4. ASSUME NEW r \in Requests, ClientStep(r)
        PROVE  Answered(c)
    <3>1. UNCHANGED <<clock, sessions>>
      BY <2>4 DEF ClientStep, AskLogin, Send, Welcome, Goodbye, AnswerLost, database
    <3>2. jar'[c] # jar[c]
      BY <3>1 DEF LoggedIn, Valid
    <3>3. Welcome(r) \/ Goodbye(r)
      BY <2>4, <3>2 DEF ClientStep, AskLogin, Send, AnswerLost
    <3>4. req'[r] = Free /\ req[r].at \in {"welcome", "goodbye"} /\ req[r].client = c
      BY <2>0, <3>2, <3>3 DEF Welcome, Goodbye, Goes
    <3> QED BY <3>2, <3>4
  <2> QED BY <2>1, <2>2, <2>3, <2>4 DEF Next
<1>2. Spec => [][A]_vars
  BY <1>1, SessionInvariant, PTL DEF Spec
<1> QED BY <1>2 DEF LoginLasts
=============================================================================
