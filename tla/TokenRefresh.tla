---------------------------- MODULE TokenRefresh ----------------------------
(***************************************************************************)
(* One tab of the web client: the calls made through the axios instance,   *)
(* the response interceptor that refreshes the access token after a 401    *)
(* and holds back the calls refused meanwhile, and the WebSocket client,   *)
(* which refreshes it on its own.  Both share the browser's refresh-token  *)
(* cookie, which the API rotates.                                          *)
(*                                                                         *)
(* Tokens are numbered as the API issues them: an access token and the     *)
(* refresh token it comes with have the same number, 0 is none.            *)
(***************************************************************************)
EXTENDS Naturals

CONSTANTS
    Calls,      \* the calls the pages make
    MaxTokens   \* bound: the pairs of tokens the API issues

ASSUME TokenAssumption == MaxTokens \in Nat

VARIABLES
    call,         \* the state of each call, the access token it carries, _retry
    isRefreshing, \* the interceptor's flag
    token,        \* the access token in localStorage
    refresh,      \* the refresh requests in flight, by who sent them
    leaving,      \* whether an authService.logout nobody awaits is in flight
    cookie,       \* the refresh token in the cookie
    live,         \* API: the refresh tokens it would still exchange
    issued,       \* API: the pairs of tokens issued
    expired,      \* the access tokens up to this one have expired
    ended         \* history: since the last login the session was ended, or a
                  \* new refresh token lost on its way; also when the login itself
                  \* overlapped with a refresh, whose answer may come after it

clientVars == <<call, isRefreshing, token, refresh, leaving, cookie>>
serverVars == <<live, issued, expired, ended>>
tokenVars  == <<clientVars, serverVars>>

-----------------------------------------------------------------------------
Tokens     == 0..MaxTokens
Refreshers == {"interceptor", "socket"}

CallState == [state   : {"idle", "sent", "queued", "refreshing", "loggingOut", "done"},
              token   : Tokens,
              retried : BOOLEAN]

\* alone: no other refresh and no login has overlapped with it.
RefreshState == [state  : {"none", "asked", "granted", "refused", "lost"},
                 cookie : Tokens,
                 new    : Tokens,
                 alone  : BOOLEAN]

NoRefresh == [state |-> "none", cookie |-> 0, new |-> 0, alone |-> TRUE]

Finished  == [state |-> "done", token |-> 0, retried |-> FALSE]

In(c, state)      == call[c].state = state
Asking(w)         == refresh[w].state # "none"
Outcome(w, state) == refresh[w].state = state
Failed(w)         == Outcome(w, "refused") \/ Outcome(w, "lost")
Ended(w)          == refresh' = [refresh EXCEPT ![w] = NoRefresh]

\* failedQueue
Queued(c) == In(c, "queued")

\* authService.refresh: the request leaves with the cookie.
Ask(w) ==
    /\ ~ Asking(w)
    /\ LET overlap == \E v \in Refreshers : Asking(v)
       IN  refresh' = [v \in Refreshers |->
                         IF v = w THEN [state |-> "asked", cookie |-> cookie,
                                        new |-> 0, alone |-> ~ overlap]
                         ELSE IF Asking(v) THEN [refresh[v] EXCEPT !.alone = FALSE]
                         ELSE refresh[v]]

-----------------------------------------------------------------------------
(* Calls and the interceptor                                               *)

\* The request interceptor attaches the stored token.
Send(c) ==
    /\ In(c, "idle")
    /\ call' = [call EXCEPT ![c] = [state |-> "sent", token |-> token, retried |-> FALSE]]
    /\ UNCHANGED <<isRefreshing, token, refresh, leaving, cookie, serverVars>>

\* An answer, a network error, or an error other than 401: handed to the page.
Settled(c) ==
    /\ In(c, "sent")
    /\ call' = [call EXCEPT ![c] = Finished]
    /\ UNCHANGED <<isRefreshing, token, refresh, leaving, cookie, serverVars>>

\* The answer to the call is 401.
Unauthorized(c) == In(c, "sent") /\ call[c].token <= expired

\* A call that was already retried is handed to the page, which shows the login.
RefusedAgain(c) ==
    /\ Unauthorized(c)
    /\ call[c].retried
    /\ call' = [call EXCEPT ![c] = Finished]
    /\ UNCHANGED <<isRefreshing, token, refresh, leaving, cookie, serverVars>>

Queue(c) ==
    /\ Unauthorized(c)
    /\ ~ call[c].retried
    /\ isRefreshing
    /\ call' = [call EXCEPT ![c].state = "queued"]
    /\ UNCHANGED <<isRefreshing, token, refresh, leaving, cookie, serverVars>>

Lead(c) ==
    /\ Unauthorized(c)
    /\ ~ call[c].retried
    /\ ~ isRefreshing
    /\ call' = [call EXCEPT ![c].state = "refreshing", ![c].retried = TRUE]
    /\ isRefreshing' = TRUE
    /\ Ask("interceptor")
    /\ UNCHANGED <<token, leaving, cookie, serverVars>>

\* processQueue(null, token) and the two calls of api().
Released(c, with) ==
    call' = [d \in Calls |-> IF d = c \/ Queued(d)
                             THEN [call[d] EXCEPT !.state = "sent", !.token = with]
                             ELSE call[d]]

\* Mutant of RefreshOK: the new token is not stored, and the request
\* interceptor puts the stored one on the calls sent again.
RefreshNotStored(c) ==
    /\ In(c, "refreshing")
    /\ Outcome("interceptor", "granted")
    /\ cookie' = refresh["interceptor"].new
    /\ Released(c, token)
    /\ isRefreshing' = FALSE
    /\ Ended("interceptor")
    /\ UNCHANGED <<token, leaving, serverVars>>

\* Mutant of RefreshOK: the answer sets no cookie.
RefreshKeepsCookie(c) ==
    /\ In(c, "refreshing")
    /\ Outcome("interceptor", "granted")
    /\ token' = refresh["interceptor"].new
    /\ Released(c, token')
    /\ isRefreshing' = FALSE
    /\ Ended("interceptor")
    /\ UNCHANGED <<leaving, cookie, serverVars>>

\* The answer sets the cookie; the call is sent again, not awaited, so the
\* finally block clears the flag in the same turn.
RefreshOK(c) ==
    /\ In(c, "refreshing")
    /\ Outcome("interceptor", "granted")
    /\ token' = refresh["interceptor"].new
    /\ cookie' = refresh["interceptor"].new
    /\ Released(c, token')
    /\ isRefreshing' = FALSE
    /\ Ended("interceptor")
    /\ UNCHANGED <<leaving, serverVars>>

\* Mutant of RefreshFails: the queue is not rejected.
RefreshFailsAlone(c) ==
    /\ In(c, "refreshing")
    /\ Failed("interceptor")
    /\ call' = [call EXCEPT ![c].state = "loggingOut"]
    /\ Ended("interceptor")
    /\ UNCHANGED <<isRefreshing, token, leaving, cookie, serverVars>>

\* Mutant of RefreshFails: the flag is cleared before the logout is awaited.
RefreshFailsEarly(c) ==
    /\ In(c, "refreshing")
    /\ Failed("interceptor")
    /\ call' = [d \in Calls |-> IF d = c THEN [call[d] EXCEPT !.state = "loggingOut"]
                                ELSE IF Queued(d) THEN Finished
                                ELSE call[d]]
    /\ isRefreshing' = FALSE
    /\ Ended("interceptor")
    /\ UNCHANGED <<token, leaving, cookie, serverVars>>

\* processQueue(err) rejects the queue; the logout is awaited with the flag set.
RefreshFails(c) ==
    /\ In(c, "refreshing")
    /\ Failed("interceptor")
    /\ call' = [d \in Calls |-> IF d = c THEN [call[d] EXCEPT !.state = "loggingOut"]
                                ELSE IF Queued(d) THEN Finished
                                ELSE call[d]]
    /\ Ended("interceptor")
    /\ UNCHANGED <<isRefreshing, token, leaving, cookie, serverVars>>

\* authService.logout: the API revokes the cookie's token and clears the cookie,
\* or the call fails; the access token is removed either way.
SignOut ==
    /\ token' = 0
    /\ \/ cookie # 0 /\ cookie' = 0 /\ live' = live \ {cookie} /\ ended' = TRUE
       \/ UNCHANGED <<cookie, live, ended>>
    /\ UNCHANGED <<issued, expired>>

\* Nobody looks at what was queued during the logout.
LogoutDone(c) ==
    /\ In(c, "loggingOut")
    /\ SignOut
    /\ call' = [call EXCEPT ![c] = Finished]
    /\ isRefreshing' = FALSE
    /\ UNCHANGED <<refresh, leaving>>

-----------------------------------------------------------------------------
(* The WebSocket client and the pages                                      *)

\* onclose with a code it takes for an expired token.
SocketClosed ==
    /\ IF Asking("socket")
       THEN leaving' = TRUE /\ UNCHANGED refresh  \* refreshAccessToken returns false
       ELSE Ask("socket") /\ UNCHANGED leaving
    /\ UNCHANGED <<call, isRefreshing, token, cookie, serverVars>>

SocketRefreshOK ==
    /\ Outcome("socket", "granted")
    /\ token' = refresh["socket"].new
    /\ cookie' = refresh["socket"].new
    /\ Ended("socket")
    /\ UNCHANGED <<call, isRefreshing, leaving, serverVars>>

SocketRefreshFails ==
    /\ Failed("socket")
    /\ leaving' = TRUE
    /\ Ended("socket")
    /\ UNCHANGED <<call, isRefreshing, token, cookie, serverVars>>

\* useLogout
UserLogout ==
    /\ leaving' = TRUE
    /\ UNCHANGED <<call, isRefreshing, token, refresh, cookie, serverVars>>

LeavingDone ==
    /\ leaving
    /\ leaving' = FALSE
    /\ SignOut
    /\ UNCHANGED <<call, isRefreshing, refresh>>

Login ==
    /\ issued < MaxTokens
    /\ issued' = issued + 1
    /\ live' = live \cup {issued'}
    /\ token' = issued'
    /\ cookie' = issued'
    /\ ended' = \E w \in Refreshers : Asking(w)
    /\ refresh' = [w \in Refreshers |-> IF Asking(w) THEN [refresh[w] EXCEPT !.alone = FALSE]
                                                     ELSE refresh[w]]
    /\ UNCHANGED <<call, isRefreshing, leaving, expired>>

-----------------------------------------------------------------------------
(* The API and the network                                                 *)

\* AuthService.refresh exchanges the token for a new pair.
Grant(w) ==
    /\ Outcome(w, "asked")
    /\ refresh[w].cookie \in live
    /\ issued < MaxTokens
    /\ issued' = issued + 1
    /\ live' = (live \ {refresh[w].cookie}) \cup {issued'}
    /\ refresh' = [refresh EXCEPT ![w].state = "granted", ![w].cookie = 0,
                                  ![w].new = issued']
    /\ UNCHANGED <<call, isRefreshing, token, leaving, cookie, expired, ended>>

Refuse(w) ==
    /\ Outcome(w, "asked")
    /\ refresh[w].cookie \notin live
    /\ refresh' = [refresh EXCEPT ![w].state = "refused"]
    /\ UNCHANGED <<call, isRefreshing, token, leaving, cookie, serverVars>>

\* The request or its answer is lost.
Lose(w) ==
    /\ Outcome(w, "asked") \/ Outcome(w, "granted")
    /\ ended' = (ended \/ Outcome(w, "granted"))
    /\ refresh' = [refresh EXCEPT ![w] = [NoRefresh EXCEPT !.state = "lost"]]
    /\ UNCHANGED <<call, isRefreshing, token, leaving, cookie, live, issued, expired>>

\* The sessions expire or are revoked at the API.
SessionEnds ==
    /\ live # {}
    /\ live' = {}
    /\ ended' = TRUE
    /\ UNCHANGED <<clientVars, issued, expired>>

TokenExpires ==
    /\ expired < issued
    /\ expired' = expired + 1
    /\ UNCHANGED <<clientVars, live, issued, ended>>

-----------------------------------------------------------------------------
\* A page is opened without a stored access token; the cookie may still hold a
\* live refresh token.
TokenInit ==
    /\ call = [c \in Calls |-> [state |-> "idle", token |-> 0, retried |-> FALSE]]
    /\ isRefreshing = FALSE
    /\ token = 0
    /\ refresh = [w \in Refreshers |-> NoRefresh]
    /\ leaving = FALSE
    /\ cookie \in {0, 1} \cap Tokens
    /\ live = {cookie} \ {0}
    /\ issued = cookie
    /\ expired = 0
    /\ ended = FALSE

TokenNext ==
    \/ \E c \in Calls :
          \/ Send(c) \/ Settled(c)
          \/ RefusedAgain(c) \/ Queue(c) \/ Lead(c)
          \/ RefreshOK(c) \/ RefreshFails(c) \/ LogoutDone(c)
    \/ \E w \in Refreshers : Grant(w) \/ Refuse(w) \/ Lose(w)
    \/ SocketClosed \/ SocketRefreshOK \/ SocketRefreshFails
    \/ UserLogout \/ LeavingDone \/ Login
    \/ SessionEnds \/ TokenExpires

TokenSpec == TokenInit /\ [][TokenNext]_tokenVars

\* A refresh request is answered or fails, and the interceptor goes on.
TokenFairness ==
    /\ WF_tokenVars(Grant("interceptor") \/ Refuse("interceptor") \/ Lose("interceptor"))
    /\ \A c \in Calls : WF_tokenVars(RefreshOK(c) \/ RefreshFails(c))

-----------------------------------------------------------------------------
(* Properties                                                              *)

\* Every token held anywhere has been issued, and a call that has led a refresh
\* waits for no other.
TokenTypeOK ==
    /\ call \in [Calls -> CallState]
    /\ isRefreshing \in BOOLEAN
    /\ refresh \in [Refreshers -> RefreshState]
    /\ leaving \in BOOLEAN
    /\ issued \in Tokens
    /\ {token, cookie, expired} \cup live \subseteq 0..issued
    /\ ended \in BOOLEAN
    /\ \A c \in Calls : call[c].token <= issued /\ (Queued(c) => ~ call[c].retried)

\* One call at a time refreshes or logs out on behalf of all, as long as the
\* flag is set, and it is the one whose refresh request is in flight.
SingleFlight ==
    LET leaders == {c \in Calls : In(c, "refreshing") \/ In(c, "loggingOut")}
    IN  /\ \A c, d \in leaders : c = d
        /\ isRefreshing <=> leaders # {}
        /\ Asking("interceptor") <=> \E c \in leaders : In(c, "refreshing")

\* A call sent again after a refresh that nothing overlapped carries a newer
\* token than the one it was refused with.
RetriedWithNewerToken ==
    [][\A c \in Calls :
          /\ Queued(c) \/ In(c, "refreshing")
          /\ In(c, "sent")'
          /\ refresh["interceptor"].alone
          => call'[c].token > call[c].token]_tokenVars

\* A refresh that nothing overlapped is refused only when the session has been
\* ended: the rotation alone never logs the user out.
RefusedOnlyIfEnded ==
    \A w \in Refreshers :
        Outcome(w, "refused") /\ refresh[w].alone /\ refresh[w].cookie # 0 => ended

\* A call held back behind a refresh is sent again or rejected.
QueuedIsReleased ==
    \A c \in Calls : Queued(c) /\ (\E d \in Calls : In(d, "refreshing")) ~> ~ Queued(c)
=============================================================================
