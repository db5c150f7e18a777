--------------------------- MODULE Session_proofs ---------------------------
(***************************************************************************)
(* Proofs about Session, for any number of requests under way.             *)
(***************************************************************************)
EXTENDS Session, FiniteSetTheorems, TLAPS

\* A token that a login or a refresh has brought is one, and no request holds
\* more than one.
Holds(c) ==
  /\ c.pc = "answered" /\ c.kind = "login" /\ c.answer = "ok" => c.data \in Tokens
  /\ c.pc = "refreshed" /\ c.answer = "ok" => c.data \in Tokens
  /\ c.pc = "sent" => c.data = NoToken
  /\ c.pc # "sent" => c.bearer = NoToken

RequestsHold == \A r \in Requests : Holds(req[r])

\* The profile is asked for with a token, before anything else is.
StartsAlone ==
  \A r \in Requests : req[r].pc # "idle" =>
    IF req[r].kind = "profile"
    THEN /\ ~isInitialized
         /\ accessToken # NoToken
         /\ \A s \in Requests \ {r} : req[s].pc = "idle"
    ELSE isInitialized

\* A refresh begun after the logout has no cookie to show.
RefreshEnded(c) ==
  /\ c.pc = "refresh" /\ ~c.late => ~c.cookie
  /\ c.pc = "refreshed" /\ ~c.late => c.answer # "ok"

Ended ==
  ended => /\ accessToken = NoToken
           /\ ~cookie
           /\ \A r \in Requests : RefreshEnded(req[r])

Shown == isAuthenticated => accessToken # NoToken

IInv == TypeOK /\ RequestsHold /\ StartsAlone /\ Shown /\ Ended

-----------------------------------------------------------------------------
LEMMA BecomesOnly ==
  ASSUME TypeOK, NEW r \in Requests, NEW c \in Request, Becomes(r, c)
  PROVE  /\ req' \in [Requests -> Request]
         /\ req'[r] = c
         /\ \A s \in Requests \ {r} : req'[s] = req[s]
BY DEF TypeOK, Becomes

LEMMA IdleType == Idle \in Request /\ Idle.pc = "idle" /\ Holds(Idle) /\ RefreshEnded(Idle)
BY DEF Idle, Request, Holds, RefreshEnded

\* The server always finds a token to sign: each request but r's own holds at
\* most one, and the tab one more.
LEMMA TokenToSign ==
  ASSUME TypeOK, RequestsHold, NEW r \in Requests
  PROVE  /\ NewToken(r) \in Tokens
         /\ NewToken(r) # NoToken
PROOF
  <1> DEFINE held[s \in Requests] ==
        IF s = r THEN accessToken
        ELSE IF req[s].bearer # NoToken THEN req[s].bearer ELSE req[s].data
  <1>1. \E t \in Tokens : \A s \in Requests : held[s] # t
    <2> SUFFICES ASSUME \A t \in Tokens : \E s \in Requests : held[s] = t
                 PROVE  FALSE
      OBVIOUS
    <2> DEFINE holder == [t \in Tokens |-> CHOOSE s \in Requests : held[s] = t]
    <2>1. holder \in [Tokens -> Requests] /\ \A t \in Tokens : held[holder[t]] = t
      <3> HIDE DEF held
      <3> QED OBVIOUS
    <2>2. Cardinality(Requests) < Cardinality(Tokens)
      <3>1. Cardinality(Requests) \in Nat /\ Cardinality(Tokens) \in Nat
        BY FS_CardinalityType, SessionAssumption
      <3> QED BY <3>1, SessionAssumption
    <2> HIDE DEF held, holder
    <2>3. \E x, y \in Tokens : x # y /\ holder[x] = holder[y]
      BY <2>1, <2>2, FS_PigeonHole, SessionAssumption
    <2> QED BY <2>1, <2>3
  <1>2. PICK t \in Tokens : \A s \in Requests : held[s] # t
    BY <1>1
  <1>3. t # accessToken
    BY <1>2
  <1>4. \A s \in Requests \ {r} : t \notin {req[s].bearer, req[s].data}
    <2> SUFFICES ASSUME NEW s \in Requests \ {r}
                 PROVE  t \notin {req[s].bearer, req[s].data}
      OBVIOUS
    <2>1. t # (IF req[s].bearer # NoToken THEN req[s].bearer ELSE req[s].data)
      BY <1>2
    <2>2. t # NoToken
      BY SessionAssumption
    <2>3. req[s].bearer = NoToken \/ req[s].data = NoToken
      BY DEF RequestsHold, Holds
    <2> QED BY <2>1, <2>2, <2>3
  <1> QED BY <1>3, <1>4, SessionAssumption DEF NewToken

-----------------------------------------------------------------------------
LEMMA Initially == Init => IInv
BY IdleType DEF Init, IInv, TypeOK, RequestsHold, StartsAlone, Shown, Ended

LEMMA SendKeeps ==
  ASSUME IInv, NEW r \in Requests, NEW kind \in {"page", "login", "logout"},
         isInitialized, Send(r, kind)
  PROVE  IInv'
PROOF
  <1>1. Sent(kind) \in Request /\ Holds(Sent(kind)) /\ RefreshEnded(Sent(kind))
        /\ Sent(kind).kind = kind
    BY DEF Sent, Idle, Request, Holds, RefreshEnded, IInv, TypeOK
  <1>2. /\ req' \in [Requests -> Request]
        /\ req'[r] = Sent(kind)
        /\ \A s \in Requests \ {r} : req'[s] = req[s]
    BY <1>1, BecomesOnly DEF IInv, Send
  <1>3. TypeOK'
    BY <1>2 DEF IInv, TypeOK, Send
  <1>4. RequestsHold' /\ Ended' /\ Shown'
    BY <1>1, <1>2 DEF IInv, RequestsHold, Ended, Shown, Send
  <1>5. StartsAlone'
    BY <1>1, <1>2 DEF IInv, StartsAlone, Send
  <1> QED BY <1>3, <1>4, <1>5 DEF IInv

LEMMA InitializeKeeps ==
  ASSUME IInv, NEW r \in Requests, Initialize(r)
  PROVE  IInv'
PROOF
  <1>1. CASE accessToken = NoToken
    BY <1>1 DEF Initialize, IInv, TypeOK, RequestsHold, StartsAlone, Shown, Ended
  <1>2. CASE accessToken # NoToken
    <2>1. Send(r, "profile")
      BY <1>2 DEF Initialize
    <2>2. Sent("profile") \in Request /\ Holds(Sent("profile"))
          /\ Sent("profile").kind = "profile"
      BY DEF Sent, Idle, Request, Holds, IInv, TypeOK
    <2>3. /\ req' \in [Requests -> Request]
          /\ req'[r] = Sent("profile")
          /\ \A s \in Requests \ {r} : req'[s] = req[s]
      BY <2>1, <2>2, BecomesOnly DEF IInv, Send
    <2>4. \A s \in Requests \ {r} : req'[s].pc = "idle"
      BY <2>3 DEF Initialize
    <2>5. StartsAlone'
      BY <1>2, <2>1, <2>2, <2>3, <2>4 DEF StartsAlone, Send, Initialize
    <2> QED
      BY <1>2, <2>1, <2>2, <2>3, <2>5
      DEF IInv, TypeOK, RequestsHold, Shown, Ended, Send
  <1> QED BY <1>1, <1>2

LEMMA ReloadKeeps ==
  ASSUME IInv, Reload
  PROVE  IInv'
BY IdleType DEF Reload, IInv, TypeOK, RequestsHold, StartsAlone, Shown, Ended

(* A step of request r that only changes what r holds, or the tokens the    *)
(* server accepts: its answers, the start of a refresh.                     *)
LEMMA QuietKeeps ==
  ASSUME IInv, NEW r \in Requests, NEW c \in Request, Becomes(r, c),
         Holds(c), req[r].pc # "idle", c.pc # "idle" => c.kind = req[r].kind,
         ended => RefreshEnded(c),
         UNCHANGED <<accessToken, isAuthenticated, isInitialized, cookie, ended>>,
         expired' \subseteq Tokens
  PROVE  IInv'
PROOF
  <1>1. /\ req' \in [Requests -> Request]
        /\ req'[r] = c
        /\ \A s \in Requests \ {r} : req'[s] = req[s]
    BY BecomesOnly DEF IInv
  <1>2. TypeOK'
    BY <1>1 DEF IInv, TypeOK
  <1>3. RequestsHold' /\ Ended' /\ Shown'
    BY <1>1 DEF IInv, RequestsHold, Ended, Shown
  <1>4. StartsAlone'
    BY <1>1 DEF IInv, StartsAlone
  <1> QED BY <1>2, <1>3, <1>4 DEF IInv

LEMMA AnswersKeeps ==
  ASSUME IInv, NEW r \in Requests, NEW answer \in {"ok", "unauthorized", "error"},
         NEW token \in Tokens \cup {NoToken}, Answers(r, answer, token),
         req[r].kind = "login" /\ answer = "ok" => token \in Tokens
  PROVE  IInv'
PROOF
  <1> DEFINE c == [req[r] EXCEPT !.pc = "answered", !.answer = answer, !.data = token,
                                 !.bearer = NoToken]
  <1>0. req[r] \in Request
    BY DEF IInv, TypeOK
  <1>1. c \in Request /\ Holds(c) /\ RefreshEnded(c) /\ c.kind = req[r].kind
    BY <1>0 DEF Request, Holds, RefreshEnded
  <1>2. Becomes(r, c) /\ req[r].pc # "idle" /\ expired' \subseteq Tokens
    BY DEF Answers, IInv, TypeOK
  <1> HIDE DEF c
  <1> QED BY <1>1, <1>2, QuietKeeps DEF Answers

LEMMA RefreshAnswersKeeps ==
  ASSUME IInv, NEW r \in Requests, NEW answer \in {"ok", "unauthorized", "error"},
         NEW token \in Tokens \cup {NoToken}, RefreshAnswers(r, answer, token),
         answer = "ok" => token \in Tokens /\ req[r].cookie
  PROVE  IInv'
PROOF
  <1> DEFINE c == [req[r] EXCEPT !.pc = "refreshed", !.answer = answer, !.data = token]
  <1>0. req[r] \in Request /\ req[r].pc = "refresh" /\ req[r].bearer = NoToken
    BY DEF IInv, TypeOK, RequestsHold, Holds, RefreshAnswers
  <1>1. c \in Request /\ Holds(c) /\ c.kind = req[r].kind
    BY <1>0 DEF Request, Holds
  <1>2. ended => RefreshEnded(c)
    BY <1>0 DEF IInv, Ended, RefreshEnded, Request
  <1>3. Becomes(r, c) /\ req[r].pc # "idle" /\ expired' \subseteq Tokens
    BY <1>0 DEF RefreshAnswers, IInv, TypeOK
  <1> HIDE DEF c
  <1> QED BY <1>1, <1>2, <1>3, QuietKeeps DEF RefreshAnswers

LEMMA AnswerKeeps ==
  ASSUME IInv, NEW r \in Requests, Answer(r)
  PROVE  IInv'
PROOF
  <1>1. NewToken(r) \in Tokens
    BY TokenToSign DEF IInv
  <1>2. CASE Serve(r)
    BY <1>2, AnswersKeeps DEF Serve
  <1>3. CASE ServeLogin(r)
    BY <1>1, <1>3, AnswersKeeps DEF ServeLogin
  <1>4. CASE Disturb(r)
    BY <1>4, AnswersKeeps DEF Disturb
  <1>5. CASE ServeRefresh(r)
    BY <1>1, <1>5, RefreshAnswersKeeps DEF ServeRefresh
  <1>6. CASE DisturbRefresh(r)
    BY <1>6, RefreshAnswersKeeps DEF DisturbRefresh
  <1> QED BY <1>2, <1>3, <1>4, <1>5, <1>6 DEF Answer

-----------------------------------------------------------------------------
LEMMA RefreshKeeps ==
  ASSUME IInv, NEW r \in Requests, Refresh(r)
  PROVE  IInv'
PROOF
  <1> DEFINE c == [req[r] EXCEPT !.pc = "refresh", !.retry = TRUE, !.answer = "none",
                                 !.cookie = cookie]
  <1>0. req[r] \in Request /\ req[r].pc = "answered" /\ req[r].bearer = NoToken
    BY DEF IInv, TypeOK, RequestsHold, Holds, Refresh
  <1>1. c \in Request /\ Holds(c) /\ c.kind = req[r].kind
    BY <1>0 DEF Request, Holds, IInv, TypeOK
  <1>2. ended => RefreshEnded(c)
    BY <1>0 DEF IInv, Ended, RefreshEnded, Request
  <1>3. Becomes(r, c) /\ req[r].pc # "idle" /\ expired' \subseteq Tokens
    BY <1>0 DEF Refresh, IInv, TypeOK
  <1> HIDE DEF c
  <1> QED BY <1>1, <1>2, <1>3, QuietKeeps DEF Refresh

LEMMA PageDoneKeeps ==
  ASSUME IInv, NEW r \in Requests, PageDone(r)
  PROVE  IInv'
BY QuietKeeps, IdleType DEF PageDone, IInv, TypeOK

LEMMA LoginDoneKeeps ==
  ASSUME IInv, NEW r \in Requests, LoginDone(r)
  PROVE  IInv'
PROOF
  <1>1. /\ req' \in [Requests -> Request]
        /\ req'[r] = Idle
        /\ \A s \in Requests \ {r} : req'[s] = req[s]
    BY BecomesOnly, IdleType DEF IInv, LoginDone
  <1>2. accessToken' \in Tokens /\ accessToken' # NoToken
    BY SessionAssumption DEF IInv, RequestsHold, Holds, LoginDone, SetAccessToken
  <1>3. TypeOK' /\ RequestsHold' /\ Ended' /\ Shown'
    BY <1>1, <1>2, IdleType DEF IInv, TypeOK, RequestsHold, Ended, Shown, LoginDone
  <1>4. StartsAlone'
    BY <1>1, <1>2, IdleType DEF IInv, StartsAlone, LoginDone
  <1> QED BY <1>3, <1>4 DEF IInv

LEMMA LogoutDoneKeeps ==
  ASSUME IInv, NEW r \in Requests, LogoutDone(r)
  PROVE  IInv'
PROOF
  <1>1. /\ req' \in [Requests -> Request]
        /\ req'[r] = Idle
        /\ \A s \in Requests \ {r} :
             /\ req'[s].pc = req[s].pc /\ req'[s].kind = req[s].kind
             /\ req'[s].answer = req[s].answer
             /\ req'[s].data = req[s].data /\ req'[s].bearer = req[s].bearer
             /\ req[s].pc \in {"refresh", "refreshed"} => req'[s].late
    <2> SUFFICES ASSUME NEW s \in Requests
                 PROVE  /\ req'[s] \in Request
                        /\ s = r => req'[s] = Idle
                        /\ s # r =>
                             /\ req'[s].pc = req[s].pc /\ req'[s].kind = req[s].kind
                             /\ req'[s].answer = req[s].answer
                             /\ req'[s].data = req[s].data /\ req'[s].bearer = req[s].bearer
                             /\ req[s].pc \in {"refresh", "refreshed"} => req'[s].late
      BY DEF LogoutDone, Logout
    <2>1. req[s] \in Request
      BY DEF IInv, TypeOK
    <2>2. req'[s] = IF s = r THEN Idle
                    ELSE IF req[s].pc \in {"refresh", "refreshed"}
                         THEN [req[s] EXCEPT !.late = TRUE] ELSE req[s]
      BY DEF LogoutDone, Logout
    <2> QED BY <2>1, <2>2, IdleType DEF Request
  <1>2. TypeOK'
    BY <1>1 DEF IInv, TypeOK, LogoutDone, ClearAccessToken
  <1>3. RequestsHold'
    <2> SUFFICES ASSUME NEW s \in Requests PROVE Holds(req[s])'
      BY DEF RequestsHold
    <2> QED BY <1>1, IdleType DEF IInv, RequestsHold, Holds
  <1>4. Ended'
    <2>1. \A s \in Requests : RefreshEnded(req[s])'
      BY <1>1, IdleType DEF RefreshEnded
    <2> QED BY <2>1 DEF Ended, LogoutDone, ClearAccessToken
  <1>5. StartsAlone'
    BY <1>1, IdleType DEF IInv, StartsAlone, LogoutDone
  <1>6. Shown'
    BY DEF Shown, LogoutDone
  <1> QED BY <1>2, <1>3, <1>4, <1>5, <1>6 DEF IInv

LEMMA ProfileDoneKeeps ==
  ASSUME IInv, NEW r \in Requests, ProfileDone(r)
  PROVE  IInv'
PROOF
  <1>1. /\ req' \in [Requests -> Request]
        /\ req'[r] = Idle
        /\ \A s \in Requests \ {r} : req'[s] = req[s]
    BY BecomesOnly, IdleType DEF IInv, ProfileDone
  <1>2. accessToken # NoToken /\ \A s \in Requests \ {r} : req[s].pc = "idle"
    BY DEF IInv, StartsAlone, ProfileDone
  <1>3. \A s \in Requests : req'[s].pc = "idle"
    BY <1>1, <1>2, IdleType
  <1>4. StartsAlone'
    BY <1>3 DEF StartsAlone
  <1> QED
    BY <1>1, <1>2, <1>4, IdleType
    DEF IInv, TypeOK, RequestsHold, Ended, Shown, ProfileDone

LEMMA RefusedKeeps ==
  ASSUME IInv, NEW r \in Requests, Refused(r)
  PROVE  IInv'
PROOF
  <1>1. CASE req[r].kind # "profile"
    BY <1>1, QuietKeeps, IdleType DEF Refused, Rejected, IInv, TypeOK
  <1>2. CASE req[r].kind = "profile"
    <2>1. /\ req' \in [Requests -> Request]
          /\ req'[r] = Idle
          /\ \A s \in Requests \ {r} : req'[s] = req[s]
      BY BecomesOnly, IdleType DEF IInv, Refused, Rejected
    <2>2. \A s \in Requests \ {r} : req[s].pc = "idle"
      BY <1>2 DEF IInv, StartsAlone, Refused
    <2>3. StartsAlone'
      BY <2>1, <2>2, IdleType DEF StartsAlone
    <2> QED
      BY <1>2, <2>1, <2>3, IdleType
      DEF IInv, TypeOK, RequestsHold, Ended, Shown, Refused, Rejected, ClearAccessToken
  <1> QED BY <1>1, <1>2

LEMMA RefreshedKeeps ==
  ASSUME IInv, NEW r \in Requests, Refreshed(r)
  PROVE  IInv'
PROOF
  <1> DEFINE c == [Sent(req[r].kind) EXCEPT !.retry = TRUE, !.bearer = req[r].data]
  <1>0. req[r] \in Request /\ req[r].data \in Tokens /\ req[r].data # NoToken
    BY SessionAssumption DEF IInv, TypeOK, RequestsHold, Holds, Refreshed
  <1>1. c \in Request /\ Holds(c) /\ c.kind = req[r].kind /\ RefreshEnded(c)
    BY <1>0 DEF Sent, Idle, Request, Holds, RefreshEnded, IInv, TypeOK
  <1>2. Becomes(r, c)
    BY DEF Refreshed
  <1> HIDE DEF c
  <1>3. /\ req' \in [Requests -> Request]
        /\ req'[r] = c
        /\ \A s \in Requests \ {r} : req'[s] = req[s]
    BY <1>1, <1>2, BecomesOnly DEF IInv
  <1>4. TypeOK' /\ RequestsHold' /\ Shown'
    BY <1>0, <1>1, <1>3
    DEF IInv, TypeOK, RequestsHold, Shown, Refreshed, SetAccessToken, Request
  <1>5. StartsAlone'
    BY <1>0, <1>1, <1>3 DEF IInv, StartsAlone, Refreshed, SetAccessToken
  <1>6. ~ended'
    BY <1>0 DEF IInv, Ended, RefreshEnded, Refreshed, Request
  <1> QED BY <1>4, <1>5, <1>6 DEF IInv, Ended

LEMMA RefreshFailedKeeps ==
  ASSUME IInv, NEW r \in Requests, RefreshFailed(r)
  PROVE  IInv'
PROOF
  <1>1. /\ req' \in [Requests -> Request]
        /\ req'[r] = Idle
        /\ \A s \in Requests \ {r} : req'[s] = req[s]
    BY BecomesOnly, IdleType DEF IInv, RefreshFailed
  <1>2. TypeOK' /\ RequestsHold' /\ Shown' /\ Ended'
    BY <1>1, IdleType
    DEF IInv, TypeOK, RequestsHold, Shown, Ended, RefreshFailed, ClearAccessToken
  <1>3. StartsAlone'
    BY <1>1, IdleType DEF IInv, StartsAlone, RefreshFailed, ClearAccessToken
  <1> QED BY <1>2, <1>3 DEF IInv

LEMMA EnvironmentKeeps ==
  ASSUME IInv, Expire \/ CookieExpires \/ UNCHANGED vars
  PROVE  IInv'
PROOF
  <1>1. CASE Expire
    <2>1. expired' \subseteq Tokens
      <3>1. InUse \ {NoToken} \subseteq Tokens
        BY DEF InUse, IInv, TypeOK, Request
      <3> QED BY <1>1, <3>1 DEF Expire, IInv, TypeOK
    <2> QED
      BY <1>1, <2>1 DEF Expire, IInv, TypeOK, RequestsHold, StartsAlone, Shown, Ended
  <1>2. CASE CookieExpires
    BY <1>2 DEF CookieExpires, IInv, TypeOK, RequestsHold, StartsAlone, Shown, Ended
  <1>3. CASE UNCHANGED vars
    BY <1>3 DEF vars, IInv, TypeOK, RequestsHold, StartsAlone, Shown, Ended
  <1> QED BY <1>1, <1>2, <1>3

LEMMA Step ==
  ASSUME IInv, [Next]_vars
  PROVE  IInv'
PROOF
  <1>1. ASSUME NEW r \in Requests, SendPage(r) \/ SendLogin(r) \/ SendLogout(r)
        PROVE  IInv'
    BY <1>1, SendKeeps DEF SendPage, SendLogin, SendLogout
  <1>2. ASSUME NEW r \in Requests, Receive(r)
        PROVE  IInv'
    BY <1>2, PageDoneKeeps, LoginDoneKeeps, LogoutDoneKeeps, ProfileDoneKeeps, RefreshKeeps,
       RefusedKeeps, RefreshedKeeps, RefreshFailedKeeps
    DEF Receive
  <1> QED
    BY <1>1, <1>2, InitializeKeeps, AnswerKeeps, ReloadKeeps, EnvironmentKeeps DEF Next

LEMMA Always == Spec => []IInv
  <1>1. IInv /\ [Next]_vars => IInv'
    BY Step
  <1> QED BY Initially, <1>1, PTL DEF Spec

(* Every variable of the tab keeps its type: in particular a token is found *)
(* for every login and refresh, so nothing undefined is ever stored.        *)
THEOREM TypeCorrect == Spec => []TypeOK
BY Always, PTL DEF IInv

(* Whatever the requests under way and the answers they get, a user who is  *)
(* shown as logged in has a token (authStore.ts).                           *)
THEOREM ShownHasToken == Spec => []AuthenticatedHasToken
  <1>1. IInv => AuthenticatedHasToken
    BY DEF IInv, Shown, AuthenticatedHasToken
  <1> QED BY Always, <1>1, PTL

(* After a logout no request under way brings a token back, unless its      *)
(* refresh had been sent with the cookie before (client.ts, auth.ts).       *)
THEOREM LogoutHolds == Spec => []LogoutEndsSession
  <1>1. IInv => LogoutEndsSession
    BY DEF IInv, Ended, LogoutEndsSession
  <1> QED BY Always, <1>1, PTL
=============================================================================
