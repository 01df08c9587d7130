------------------------------ MODULE Realtime ------------------------------
(***************************************************************************)
(* The socket of one tab of the dashboard, from WebSocketProvider to the   *)
(* WebSocketManager of the API, and the realtime messages of its user on   *)
(* their way from Redis.  The client makes a new socket when one closes:   *)
(* at once for a socket made by connect(), and after a refresh and a timer *)
(* for one made by such a close.                                           *)
(*                                                                         *)
(* How long a timer runs, and so reconnectAttempts, is left out.           *)
(***************************************************************************)
EXTENDS Naturals, FiniteSets

CONSTANTS
    MaxSockets,       \* bound: sockets at one time
    MaxMounts,        \* bound: times the dashboard is entered
    MaxInterruptions, \* bound: connections lost, ends of the API
    MaxAccessTokens   \* bound: access tokens issued

ASSUME RealtimeAssumption ==
    /\ MaxSockets \in Nat /\ MaxMounts \in Nat
    /\ MaxInterruptions \in Nat /\ MaxAccessTokens \in Nat \ {0}

VARIABLES
    mounted,       \* the provider is on the page
    url,           \* this.url is set
    timer,         \* this.reconnectTimer is set
    manual,        \* this.manuallyDisconnected
    current,       \* this.socket; 0 is null
    refreshing,    \* this.refreshing
    signingOut,    \* an authService.logout nobody awaits is in flight
    socket,        \* the sockets of the tab, and what the handlers of each do
    accessToken,   \* the token in localStorage; 0 is none
    expiredUpTo,   \* access tokens up to this one have expired
    up,            \* the API runs
    connections,   \* WebSocketManager: the sockets of the user
    copies,        \* how often the API sent the last message to the tab
    mounts, interruptions,  \* counted for their bounds
    mishaps        \* history, see Mishaps

providerVars == <<mounted, url, timer, manual, current>>
tokenState   == <<refreshing, signingOut, accessToken, expiredUpTo>>
apiVars      == <<up, connections>>
realtimeVars == <<providerVars, tokenState, socket, apiVars, copies,
                  mounts, interruptions, mishaps>>

Sockets == 1 .. MaxSockets

\* made: by connect(), or by the close of such a socket.
SocketState ==
    [state : {"connecting", "open", "closing", "refreshing"},
     made : {"connect", "close"}, token : 1 .. MaxAccessTokens, code : {"unauthorized", "other"}]

NoSocket == [state |-> "none", made |-> "connect", token |-> 1, code |-> "other"]

\* A close that opens another socket although the provider has left the page; a
\* provider that enters the page before there is a token; a refresh that fails, after
\* which the client signs out and makes no other socket.
Mishaps == {"strayed", "tokenless", "gaveUp"}

Is(s, state) == socket[s].state = state
Alive        == {s \in Sockets : Is(s, "connecting") \/ Is(s, "open")}
Free         == {s \in Sockets : socket[s] = NoSocket}

\* The table with a new socket in it, which becomes this.socket.
Opening(table, made, token) ==
    LET s == CHOOSE s \in Sockets : table[s] = NoSocket
    IN  /\ socket' = [table EXCEPT ![s] = [state |-> "connecting", made |-> made,
                                           token |-> token, code |-> "other"]]
        /\ current' = s

-----------------------------------------------------------------------------
(* The provider and connect()                                              *)

\* Mutant of Connect: what this.socket does is not looked at.
ConnectAlways ==
    /\ url' = TRUE
    /\ manual' = FALSE
    /\ IF accessToken = 0 THEN UNCHANGED <<socket, current>>
       ELSE Free # {} /\ Opening(socket, "connect", accessToken)

\* Mutant of Connect: manuallyDisconnected is not reset.
ConnectStaysManual ==
    IF current \in Alive THEN UNCHANGED <<url, manual, socket, current>>
    ELSE /\ url' = TRUE
         /\ UNCHANGED manual
         /\ IF accessToken = 0 THEN UNCHANGED <<socket, current>>
            ELSE Free # {} /\ Opening(socket, "connect", accessToken)

\* connect() does nothing while this.socket is alive, and no more than remember
\* the address while there is no token.
Connect ==
    IF current \in Alive THEN UNCHANGED <<url, manual, socket, current>>
    ELSE /\ url' = TRUE
         /\ manual' = FALSE
         /\ IF accessToken = 0 THEN UNCHANGED <<socket, current>>
            ELSE Free # {} /\ Opening(socket, "connect", accessToken)

Mount ==
    /\ ~ mounted
    /\ mounts < MaxMounts
    /\ mounts' = mounts + 1
    /\ mounted' = TRUE
    /\ Connect
    /\ mishaps' = mishaps \cup (IF accessToken = 0 THEN {"tokenless"} ELSE {})
    /\ UNCHANGED <<timer, tokenState, apiVars, copies, interruptions>>

\* disconnect(), when the provider leaves the page.
Disconnect ==
    /\ mounted
    /\ mounted' = FALSE
    /\ manual' = TRUE /\ url' = FALSE /\ timer' = FALSE /\ current' = 0
    /\ socket' = IF current \in Alive
                 THEN [socket EXCEPT ![current].state = "closing", ![current].code = "other"]
                 ELSE socket
    /\ UNCHANGED <<tokenState, apiVars, copies, mounts, interruptions, mishaps>>

\* reconnect()
Reconnect == timer' = (timer \/ url)

TimerFires ==
    /\ timer
    /\ timer' = FALSE
    /\ Connect
    /\ UNCHANGED <<mounted, tokenState, apiVars, copies, mounts, interruptions, mishaps>>

-----------------------------------------------------------------------------
(* The API                                                                 *)

\* The handshake succeeds; the handler of /ws then verifies the token, and the
\* manager adds the socket or the connection is ended.
Accept(s) ==
    /\ Is(s, "connecting")
    /\ up
    /\ IF socket[s].token > expiredUpTo
       THEN /\ socket' = [socket EXCEPT ![s].state = "open"]
            /\ connections' = connections \cup {s}
       ELSE /\ socket' = [socket EXCEPT ![s].state = "closing", ![s].code = "unauthorized"]
            /\ UNCHANGED connections
    /\ UNCHANGED <<providerVars, tokenState, up, copies, mounts, interruptions, mishaps>>

Unreachable(s) ==
    /\ Is(s, "connecting")
    /\ ~ up
    /\ socket' = [socket EXCEPT ![s].state = "closing", ![s].code = "unauthorized"]
    /\ UNCHANGED <<providerVars, tokenState, apiVars, copies, mounts, interruptions, mishaps>>

\* The manager forgets a socket when the API sees its end, which may be later
\* than the client does.
Remove(s) ==
    /\ s \in connections
    /\ ~ Is(s, "open")
    /\ connections' = connections \ {s}
    /\ UNCHANGED <<providerVars, tokenState, socket, up, copies, mounts, interruptions, mishaps>>

\* The subscriber of Redis sends a message about the user to all their sockets.
SendToUser ==
    /\ up
    /\ copies' = Cardinality({s \in connections : Is(s, "open")})
    /\ UNCHANGED <<providerVars, tokenState, socket, apiVars, mounts, interruptions, mishaps>>

\* The connection breaks: code 1006 to the client, as for a token refused.
Lost(s) ==
    /\ Is(s, "open")
    /\ interruptions < MaxInterruptions
    /\ interruptions' = interruptions + 1
    /\ socket' = [socket EXCEPT ![s].state = "closing", ![s].code = "unauthorized"]
    /\ UNCHANGED <<providerVars, tokenState, apiVars, copies, mounts, mishaps>>

ApiStops ==
    /\ up
    /\ interruptions < MaxInterruptions
    /\ interruptions' = interruptions + 1
    /\ up' = FALSE
    /\ connections' = {}
    /\ socket' = [s \in Sockets |->
                    IF Is(s, "open") THEN [socket[s] EXCEPT !.state = "closing", !.code = "unauthorized"]
                    ELSE socket[s]]
    /\ UNCHANGED <<providerVars, tokenState, copies, mounts, mishaps>>

ApiStarts ==
    /\ ~ up
    /\ up' = TRUE
    /\ UNCHANGED <<providerVars, tokenState, socket, connections, copies, mounts,
                   interruptions, mishaps>>

-----------------------------------------------------------------------------
(* The handlers of onclose                                                 *)

Without(s) == [socket EXCEPT ![s] = NoSocket]

\* The first handler opens the next socket, with the same token, whatever else
\* has happened.
ClosedOnce(s) ==
    /\ Is(s, "closing")
    /\ socket[s].made = "connect"
    /\ Opening(Without(s), "close", socket[s].token)
    /\ mishaps' = mishaps \cup (IF ~ mounted \/ current # s THEN {"strayed"} ELSE {})
    /\ UNCHANGED <<mounted, url, timer, manual, tokenState, apiVars, copies,
                   mounts, interruptions>>

\* authService.logout, which is not awaited.
GiveUp ==
    /\ signingOut' = TRUE
    /\ mishaps' = mishaps \cup {"gaveUp"}

\* The second handler: a manual disconnect ends it, and so does a refresh that
\* is already under way, with a logout.
ClosedAgain(s) ==
    /\ Is(s, "closing")
    /\ socket[s].made = "close"
    /\ current' = IF current = s THEN 0 ELSE current
    /\ \/ /\ manual
          /\ socket' = Without(s)
          /\ UNCHANGED <<timer, refreshing, signingOut, mishaps>>
       \/ /\ ~ manual
          /\ socket[s].code = "other"
          /\ Reconnect
          /\ socket' = Without(s)
          /\ UNCHANGED <<refreshing, signingOut, mishaps>>
       \/ /\ ~ manual
          /\ socket[s].code = "unauthorized"
          /\ IF refreshing
             THEN GiveUp /\ socket' = Without(s) /\ UNCHANGED refreshing
             ELSE /\ refreshing' = TRUE
                  /\ socket' = [socket EXCEPT ![s].state = "refreshing"]
                  /\ UNCHANGED <<signingOut, mishaps>>
          /\ UNCHANGED timer
    /\ UNCHANGED <<mounted, url, manual, accessToken, expiredUpTo, apiVars, copies,
                   mounts, interruptions>>

\* A new access token is stored.
Issue ==
    LET latest == IF accessToken > expiredUpTo THEN accessToken ELSE expiredUpTo
    IN  latest < MaxAccessTokens /\ accessToken' = latest + 1

\* refreshAccessToken() ends; a refusal and a failed call are the same to it.
SocketRefreshed(s) ==
    /\ Is(s, "refreshing")
    /\ refreshing' = FALSE
    /\ socket' = Without(s)
    /\ \/ /\ up
          /\ Issue
          /\ Reconnect
          /\ UNCHANGED <<signingOut, mishaps>>
       \/ GiveUp /\ UNCHANGED <<accessToken, timer>>
    /\ UNCHANGED <<mounted, url, manual, current, expiredUpTo, apiVars, copies,
                   mounts, interruptions>>

\* The logout clears the token, however it ends.
SignedOut ==
    /\ signingOut
    /\ signingOut' = FALSE
    /\ accessToken' = 0
    /\ UNCHANGED <<providerVars, refreshing, socket, expiredUpTo, apiVars, copies,
                   mounts, interruptions, mishaps>>

\* The calls of the page refresh on their own (TokenRefresh); the socket is not told.
RefreshedByCall ==
    /\ mounted /\ up
    /\ Issue
    /\ UNCHANGED <<providerVars, refreshing, signingOut, expiredUpTo, socket, apiVars,
                   copies, mounts, interruptions, mishaps>>

AccessTokenExpires ==
    /\ accessToken > expiredUpTo
    /\ expiredUpTo' = accessToken
    /\ UNCHANGED <<providerVars, refreshing, signingOut, accessToken, socket, apiVars,
                   copies, mounts, interruptions, mishaps>>

-----------------------------------------------------------------------------
RealtimeInit ==
    /\ mounted = FALSE /\ url = FALSE /\ timer = FALSE /\ manual = FALSE /\ current = 0
    /\ refreshing = FALSE /\ signingOut = FALSE
    /\ socket = [s \in Sockets |-> NoSocket]
    /\ accessToken \in {0, 1} /\ expiredUpTo = 0
    /\ up = TRUE /\ connections = {}
    /\ copies = 0 /\ mounts = 0 /\ interruptions = 0
    /\ mishaps = {}

\* What the browser and its event loop do with a socket.
Goes(s) == Accept(s) \/ Unreachable(s) \/ ClosedOnce(s) \/ ClosedAgain(s) \/ SocketRefreshed(s)

RealtimeNext ==
    \/ Mount \/ Disconnect \/ TimerFires \/ SignedOut \/ AccessTokenExpires \/ RefreshedByCall
    \/ SendToUser \/ ApiStops \/ ApiStarts
    \/ \E s \in Sockets : Goes(s) \/ Remove(s) \/ Lost(s)

\* Connections are made or fail, handlers and timers run; of several sockets only
\* one may go on.
RealtimeFairness ==
    /\ WF_realtimeVars(\E s \in Sockets : Goes(s))
    /\ WF_realtimeVars(TimerFires)

RealtimeSpec == RealtimeInit /\ [][RealtimeNext]_realtimeVars /\ RealtimeFairness

-----------------------------------------------------------------------------
(* Properties                                                              *)

\* A tab has one socket and is sent a message once, however closes, refreshes and
\* timers follow each other, until a close is handled after the provider has left
\* the page: the first handler does not look at manuallyDisconnected.
OneSocket ==
    "strayed" \notin mishaps => Cardinality(Alive) <= 1 /\ copies <= 1

Connected == current \in connections /\ Is(current, "open")

\* Until then, a tab whose socket is gone gets one again as long as it has a
\* token, through lost connections and expired tokens, unless a refresh of the
\* client fails (it also fails when the API is away) or the provider found no token
\* when it came: it is not told when there is one.
SocketComesBack ==
    mounted /\ accessToken # 0 ~> \/ Connected
                                  \/ ~ mounted \/ accessToken = 0
                                  \/ mishaps # {}
=============================================================================
