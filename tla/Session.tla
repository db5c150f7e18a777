------------------------------ MODULE Session ------------------------------
(***************************************************************************)
(* The session of one browser tab: ApiClient with its interceptors,        *)
(* authApi, the auth store and the pages that use them, against the        *)
(* server's access tokens and refresh cookie.  The tab runs one callback   *)
(* at a time: a step is a request sent, answered, or its answer received.  *)
(***************************************************************************)
EXTENDS FiniteSets, Naturals

CONSTANTS
  Requests,     \* the requests under way in the tab
  Tokens,       \* access tokens; one that nobody holds any more may be signed anew
  NoToken       \* null

ASSUME SessionAssumption ==
  /\ IsFiniteSet(Requests) /\ IsFiniteSet(Tokens)
  /\ Cardinality(Tokens) > Cardinality(Requests)
  /\ NoToken \notin Tokens

VARIABLES
  accessToken,      \* ApiClient.accessToken, and its copy in localStorage
  isAuthenticated,  \* the auth store: a user is set
  isInitialized,    \* the auth store: initialize is done
  cookie,           \* the browser holds a refresh token
  req,              \* the requests
  expired,          \* the tokens the server no longer accepts
  ended             \* history: nothing has come since a logout was completed

vars == <<accessToken, isAuthenticated, isInitialized, cookie, req, expired, ended>>

\* bearer: the token a request carries; data: the one its answer brings;
\* cookie: a refresh carries a refresh token; late: a logout was completed
\* while the refresh was under way.
Request == [pc : {"idle", "sent", "answered", "refresh", "refreshed"},
            kind : {"profile", "page", "login", "logout"},
            retry : BOOLEAN,
            bearer : Tokens \cup {NoToken}, data : Tokens \cup {NoToken},
            answer : {"none", "ok", "unauthorized", "error"},
            cookie : BOOLEAN, late : BOOLEAN]

Idle == [pc |-> "idle", kind |-> "page", retry |-> FALSE, bearer |-> NoToken,
         data |-> NoToken, answer |-> "none", cookie |-> FALSE, late |-> FALSE]

TypeOK ==
  /\ accessToken \in Tokens \cup {NoToken}
  /\ {isAuthenticated, isInitialized, cookie, ended} \subseteq BOOLEAN
  /\ req \in [Requests -> Request]
  /\ expired \subseteq Tokens

Init ==
  /\ accessToken = NoToken
  /\ isAuthenticated = FALSE
  /\ isInitialized = FALSE
  /\ cookie = FALSE
  /\ req = [r \in Requests |-> Idle]
  /\ expired = {}
  /\ ended = FALSE

-----------------------------------------------------------------------------
InUse == {accessToken} \cup {req[r].bearer : r \in Requests}
           \cup {req[r].data : r \in Requests}

\* generateTokens, for request r: a token nobody else has.
NewToken(r) ==
  CHOOSE t \in Tokens :
    /\ t # accessToken
    /\ \A s \in Requests \ {r} : t \notin {req[s].bearer, req[s].data}

Becomes(r, c) == req' = [req EXCEPT ![r] = c]

\* The request interceptor adds the token.
Sent(kind) == [Idle EXCEPT !.pc = "sent", !.kind = kind, !.bearer = accessToken]

Send(r, kind) ==
  /\ req[r].pc = "idle"
  /\ Becomes(r, Sent(kind))
  /\ UNCHANGED <<accessToken, isAuthenticated, isInitialized, cookie, expired, ended>>

\* The pages behind ProtectedRoute; the button of MainLayout; LoginPage.
SendPage(r) == isInitialized /\ isAuthenticated /\ Send(r, "page")
SendLogout(r) == isInitialized /\ isAuthenticated /\ Send(r, "logout")
SendLogin(r) ==
  /\ isInitialized
  /\ \A s \in Requests : req[s].pc = "idle" \/ req[s].kind # "login"
  /\ Send(r, "login")

\* initialize, when the application has been loaded.
Initialize(r) ==
  /\ ~isInitialized
  /\ \A s \in Requests : req[s].pc = "idle"
  /\ IF accessToken = NoToken
     THEN /\ isInitialized' = TRUE
          /\ UNCHANGED <<accessToken, isAuthenticated, cookie, req, expired, ended>>
     ELSE Send(r, "profile")

\* The tab is loaded again: what was under way is lost, localStorage is not.
Reload ==
  /\ isAuthenticated' = FALSE
  /\ isInitialized' = FALSE
  /\ req' = [s \in Requests |-> Idle]
  /\ UNCHANGED <<accessToken, cookie, expired, ended>>

-----------------------------------------------------------------------------
\* The server's answer to a request.
Answers(r, answer, token) ==
  /\ req[r].pc = "sent"
  /\ Becomes(r, [req[r] EXCEPT !.pc = "answered", !.answer = answer, !.data = token,
                               !.bearer = NoToken])
  /\ expired' = expired \ {token}
  /\ UNCHANGED <<accessToken, isAuthenticated, isInitialized, cookie, ended>>

\* JwtAuthGuard.
Serve(r) ==
  /\ req[r].kind # "login"
  /\ IF req[r].bearer \in Tokens \ expired
     THEN Answers(r, "ok", NoToken)
     ELSE Answers(r, "unauthorized", NoToken)

\* login: the password is right, or it is not.
ServeLogin(r) ==
  /\ req[r].kind = "login"
  /\ Answers(r, "ok", NewToken(r)) \/ Answers(r, "unauthorized", NoToken)

\* No answer, or one that is neither of these.
Disturb(r) == Answers(r, "error", NoToken)

RefreshAnswers(r, answer, token) ==
  /\ req[r].pc = "refresh"
  /\ Becomes(r, [req[r] EXCEPT !.pc = "refreshed", !.answer = answer, !.data = token])
  /\ expired' = expired \ {token}
  /\ UNCHANGED <<accessToken, isAuthenticated, isInitialized, cookie, ended>>

\* JwtRefreshGuard.
ServeRefresh(r) ==
  IF req[r].cookie THEN RefreshAnswers(r, "ok", NewToken(r))
  ELSE RefreshAnswers(r, "unauthorized", NoToken)

DisturbRefresh(r) == RefreshAnswers(r, "error", NoToken)

-----------------------------------------------------------------------------
SetAccessToken(t) == accessToken' = t

ClearAccessToken == accessToken' = NoToken

\* Answers to what the pages ask for.
PageDone(r) ==
  /\ req[r].pc = "answered" /\ req[r].kind = "page" /\ req[r].answer = "ok"
  /\ Becomes(r, Idle)
  /\ UNCHANGED <<accessToken, isAuthenticated, isInitialized, cookie, expired, ended>>

\* authApi.login, setUser.
LoginDone(r) ==
  /\ req[r].pc = "answered" /\ req[r].kind = "login" /\ req[r].answer = "ok"
  /\ Becomes(r, Idle)
  /\ SetAccessToken(req[r].data)
  /\ cookie' = TRUE
  /\ isAuthenticated' = TRUE
  /\ ended' = FALSE
  /\ UNCHANGED <<isInitialized, expired>>

\* Every refresh under way is late once a logout is completed.
Logout(r) ==
  req' = [s \in Requests |->
            IF s = r THEN Idle
            ELSE IF req[s].pc \in {"refresh", "refreshed"} THEN [req[s] EXCEPT !.late = TRUE]
            ELSE req[s]]

\* Mutant: the server leaves the cookie.
LogoutKeepsCookie(r) ==
  /\ req[r].pc = "answered" /\ req[r].kind = "logout" /\ req[r].answer = "ok"
  /\ Logout(r)
  /\ ClearAccessToken
  /\ isAuthenticated' = FALSE
  /\ ended' = TRUE
  /\ UNCHANGED <<isInitialized, cookie, expired>>

\* authApi.logout, the store's logout.
LogoutDone(r) ==
  /\ req[r].pc = "answered" /\ req[r].kind = "logout" /\ req[r].answer = "ok"
  /\ Logout(r)
  /\ ClearAccessToken
  /\ cookie' = FALSE
  /\ isAuthenticated' = FALSE
  /\ ended' = TRUE
  /\ UNCHANGED <<isInitialized, expired>>

\* initialize.
ProfileDone(r) ==
  /\ req[r].pc = "answered" /\ req[r].kind = "profile" /\ req[r].answer = "ok"
  /\ Becomes(r, Idle)
  /\ isAuthenticated' = TRUE
  /\ isInitialized' = TRUE
  /\ UNCHANGED <<accessToken, cookie, expired, ended>>

\* Mutant: whatever is unauthorized is tried again.
RefreshAlways(r) ==
  /\ req[r].pc = "answered" /\ req[r].answer = "unauthorized"
  /\ Becomes(r, [req[r] EXCEPT !.pc = "refresh", !.retry = TRUE, !.answer = "none",
                               !.cookie = cookie])
  /\ UNCHANGED <<accessToken, isAuthenticated, isInitialized, cookie, expired, ended>>

\* The response interceptor: the first 401 of a request starts a refresh.
Refresh(r) ==
  /\ req[r].pc = "answered" /\ req[r].answer = "unauthorized" /\ ~req[r].retry
  /\ Becomes(r, [req[r] EXCEPT !.pc = "refresh", !.retry = TRUE, !.answer = "none",
                               !.cookie = cookie])
  /\ UNCHANGED <<accessToken, isAuthenticated, isInitialized, cookie, expired, ended>>

\* The promise of request r is rejected; initialize catches and clears.
Rejected(r) ==
  /\ Becomes(r, Idle)
  /\ IF req[r].kind = "profile"
     THEN ClearAccessToken /\ isAuthenticated' = FALSE /\ isInitialized' = TRUE
     ELSE UNCHANGED <<accessToken, isAuthenticated, isInitialized>>
  /\ UNCHANGED <<cookie, expired, ended>>

\* A second 401, or any other error, is passed on.
Refused(r) ==
  /\ req[r].pc = "answered"
  /\ req[r].answer = "error" \/ (req[r].answer = "unauthorized" /\ req[r].retry)
  /\ Rejected(r)

\* Mutant: the answer's token is not where the client looks for it.
RefreshedUndefined(r) ==
  /\ req[r].pc = "refreshed" /\ req[r].answer = "ok"
  /\ SetAccessToken("undefined")
  /\ Becomes(r, [Sent(req[r].kind) EXCEPT !.retry = TRUE, !.bearer = req[r].data])
  /\ UNCHANGED <<isAuthenticated, isInitialized, cookie, expired, ended>>

\* The refresh brings a token and a cookie; the request is sent again.
Refreshed(r) ==
  /\ req[r].pc = "refreshed" /\ req[r].answer = "ok"
  /\ SetAccessToken(req[r].data)
  /\ cookie' = TRUE
  /\ ended' = (ended /\ ~req[r].late)
  /\ Becomes(r, [Sent(req[r].kind) EXCEPT !.retry = TRUE, !.bearer = req[r].data])
  /\ UNCHANGED <<isAuthenticated, isInitialized, expired>>

\* Mutant: nobody tells the store.
RefreshFailedSilently(r) ==
  /\ req[r].pc = "refreshed" /\ req[r].answer # "ok"
  /\ ClearAccessToken
  /\ Becomes(r, Idle)
  /\ isInitialized' = TRUE
  /\ UNCHANGED <<isAuthenticated, cookie, expired, ended>>

\* It fails: the token is cleared, and auth:logout makes the store forget the
\* user; then the request is rejected.
RefreshFailed(r) ==
  /\ req[r].pc = "refreshed" /\ req[r].answer # "ok"
  /\ ClearAccessToken
  /\ isAuthenticated' = FALSE
  /\ isInitialized' = (isInitialized \/ req[r].kind = "profile")
  /\ Becomes(r, Idle)
  /\ UNCHANGED <<cookie, expired, ended>>

-----------------------------------------------------------------------------
\* Fifteen minutes are over for a token, seven days for the cookie.
Expire ==
  /\ \E t \in InUse \ {NoToken} : expired' = expired \cup {t}
  /\ UNCHANGED <<accessToken, isAuthenticated, isInitialized, cookie, req, ended>>

CookieExpires ==
  /\ cookie' = FALSE
  /\ UNCHANGED <<accessToken, isAuthenticated, isInitialized, req, expired, ended>>

Answer(r) ==
  \/ Serve(r)
  \/ ServeLogin(r)
  \/ Disturb(r)
  \/ ServeRefresh(r)
  \/ DisturbRefresh(r)

Receive(r) ==
  \/ PageDone(r)
  \/ LoginDone(r)
  \/ LogoutDone(r)
  \/ ProfileDone(r)
  \/ Refresh(r)
  \/ Refused(r)
  \/ Refreshed(r)
  \/ RefreshFailed(r)

Next ==
  \/ \E r \in Requests : \/ SendPage(r)
                         \/ SendLogin(r)
                         \/ SendLogout(r)
                         \/ Initialize(r)
                         \/ Answer(r)
                         \/ Receive(r)
  \/ Reload
  \/ Expire
  \/ CookieExpires

Spec == Init /\ [][Next]_vars

(* Every request is answered or fails (the network reports a loss), and the *)
(* tab's event loop takes up every answer.                                  *)
Fairness == \A r \in Requests : WF_vars(Answer(r)) /\ WF_vars(Receive(r))

LiveSpec == Spec /\ Fairness

-----------------------------------------------------------------------------
(* A user who is shown as logged in has a token to send: whatever clears    *)
(* the token also tells the auth store.                                     *)
AuthenticatedHasToken == isAuthenticated => accessToken # NoToken

(* After a logout the tab holds neither token nor cookie until the next     *)
(* login, but for what the answer of a refresh brings that was under way    *)
(* when the logout was completed.                                           *)
LogoutEndsSession == ended => accessToken = NoToken /\ ~cookie

(* Every request comes to an end: unauthorized, it is refreshed and sent    *)
(* again once (client.ts:44, "무한 루프 방지").                               *)
EveryRequestSettles == \A r \in Requests : req[r].pc # "idle" ~> req[r].pc = "idle"
=============================================================================
