------------------------- MODULE TokenRefreshProofs -------------------------
(***************************************************************************)
(* Theorems about TokenRefresh, for any set of calls and any number of     *)
(* pairs of tokens.                                                        *)
(***************************************************************************)
EXTENDS TokenRefresh, TLAPS

-----------------------------------------------------------------------------
(* Types                                                                   *)

\* What a refresh request carries has been issued too.
TypeInv ==
    /\ TokenTypeOK
    /\ \A w \in Refreshers : refresh[w].cookie <= issued /\ refresh[w].new <= issued

\* The request that is sent has the cookie; every other one keeps its fields,
\* and is no longer alone if it was in flight.
LEMMA AskFields ==
    ASSUME refresh \in [Refreshers -> RefreshState], cookie \in Tokens,
           NEW w \in Refreshers, Ask(w)
    PROVE  /\ refresh' \in [Refreshers -> RefreshState]
           /\ ~ Asking(w)
           /\ refresh'[w].state = "asked"
           /\ refresh'[w].cookie = cookie
           /\ refresh'[w].new = 0
           /\ refresh'[w].alone => \A v \in Refreshers : ~ Asking(v)
           /\ \A v \in Refreshers \ {w} :
                 /\ refresh'[v].state = refresh[v].state
                 /\ refresh'[v].cookie = refresh[v].cookie
                 /\ refresh'[v].new = refresh[v].new
                 /\ Asking(v) => ~ refresh'[v].alone
<1> DEFINE overlap == \E v \in Refreshers : Asking(v)
<1> DEFINE Sent == [state |-> "asked", cookie |-> cookie, new |-> 0, alone |-> ~ overlap]
<1>1. /\ ~ Asking(w)
      /\ refresh' = [v \in Refreshers |->
                       IF v = w THEN Sent
                       ELSE IF Asking(v) THEN [refresh[v] EXCEPT !.alone = FALSE]
                       ELSE refresh[v]]
  BY DEF Ask
<1>2. 0 \in Tokens
  BY TokenAssumption DEF Tokens
<1>3. Sent \in RefreshState
  BY <1>2 DEF RefreshState
<1>4. refresh'[w] = Sent
  BY <1>1
<1>5. ASSUME NEW v \in Refreshers \ {w}
      PROVE  /\ refresh'[v] \in RefreshState
             /\ refresh'[v].state = refresh[v].state
             /\ refresh'[v].cookie = refresh[v].cookie
             /\ refresh'[v].new = refresh[v].new
             /\ Asking(v) => ~ refresh'[v].alone
  <2>1. CASE Asking(v)
    <3>1. refresh'[v] = [refresh[v] EXCEPT !.alone = FALSE]
      BY <1>1, <2>1
    <3>2. refresh[v] \in RefreshState
      OBVIOUS
    <3> QED BY <3>1, <3>2 DEF RefreshState
  <2>2. CASE ~ Asking(v)
    <3>1. refresh'[v] = refresh[v]
      BY <1>1, <2>2
    <3> QED BY <3>1, <2>2
  <2> QED BY <2>1, <2>2
<1>6. refresh' \in [Refreshers -> RefreshState]
  <2>1. \A v \in Refreshers : refresh'[v] \in RefreshState
    BY <1>3, <1>4, <1>5
  <2>2. refresh' = [v \in Refreshers |-> refresh'[v]]
    BY <1>1
  <2> QED BY <2>1, <2>2
<1> QED BY <1>1, <1>4, <1>5, <1>6

\* The access token is removed; a session that is revoked is noted in ended.
LEMMA SignOutFields ==
    ASSUME TypeInv, SignOut
    PROVE  /\ token' = 0 /\ issued' = issued /\ expired' = expired
           /\ cookie' \in {0, cookie}
           /\ live' \subseteq live
           /\ ended' \in BOOLEAN
           /\ ended => ended'
           /\ ~ ended' => cookie' = cookie /\ live' = live
  BY DEF SignOut, TypeInv, TokenTypeOK

LEMMA TypeOfInit == TokenInit => TypeInv
<1> SUFFICES ASSUME TokenInit PROVE TypeInv
  OBVIOUS
<1>1. 0 \in Tokens /\ cookie \in Tokens /\ issued = cookie /\ 0 <= cookie
  BY TokenAssumption DEF TokenInit, Tokens
<1>2. NoRefresh \in RefreshState /\ NoRefresh.cookie = 0 /\ NoRefresh.new = 0
  BY <1>1 DEF NoRefresh, RefreshState
<1>3. refresh \in [Refreshers -> RefreshState]
  BY <1>2 DEF TokenInit
<1>4. [state |-> "idle", token |-> 0, retried |-> FALSE] \in CallState
  BY <1>1 DEF CallState
<1>5. call \in [Calls -> CallState]
  BY <1>4 DEF TokenInit
<1>6. {token, cookie, expired} \cup live \subseteq 0..issued
  BY <1>1 DEF TokenInit, Tokens
<1>7. \A c \in Calls : call[c].token <= issued /\ ~ Queued(c)
  BY <1>1 DEF TokenInit, Queued, In
<1>8. \A w \in Refreshers : refresh[w].cookie <= issued /\ refresh[w].new <= issued
  BY <1>1, <1>2 DEF TokenInit
<1> QED BY <1>1, <1>3, <1>5, <1>6, <1>7, <1>8 DEF TokenInit, TypeInv, TokenTypeOK

\* A step that leaves the tokens alone.
LEMMA TypeOfCalls ==
    ASSUME TypeInv, UNCHANGED <<token, refresh, cookie, serverVars>>,
           leaving' \in BOOLEAN, isRefreshing' \in BOOLEAN,
           call' \in [Calls -> CallState],
           \A c \in Calls : /\ call'[c].token <= issued
                            /\ Queued(c)' => ~ call'[c].retried
    PROVE  TypeInv'
  BY DEF TypeInv, TokenTypeOK, serverVars

LEMMA TypeOfCall ==
    ASSUME TypeInv, NEW c \in Calls,
           Send(c) \/ Settled(c) \/ RefusedAgain(c) \/ Queue(c)
    PROVE  TypeInv'
<1>0. /\ call \in [Calls -> CallState]
      /\ 0 \in Tokens /\ token \in Tokens /\ issued \in Tokens /\ token <= issued
      /\ 0 <= issued
  BY TokenAssumption DEF TypeInv, TokenTypeOK, Tokens
<1>1. \E new \in CallState :
         /\ call' = [call EXCEPT ![c] = new]
         /\ new.token <= issued
         /\ new.state = "queued" => ~ new.retried
  <2>1. CASE Send(c)
    <3> DEFINE new == [state |-> "sent", token |-> token, retried |-> FALSE]
    <3>1. new \in CallState /\ new.token = token /\ new.state = "sent"
      BY <1>0 DEF CallState
    <3>2. call' = [call EXCEPT ![c] = new]
      BY <2>1 DEF Send
    <3> QED BY <3>1, <3>2, <1>0
  <2>2. CASE Settled(c) \/ RefusedAgain(c)
    <3>1. Finished \in CallState /\ Finished.token = 0 /\ Finished.state = "done"
      BY <1>0 DEF Finished, CallState
    <3> QED BY <2>2, <3>1, <1>0 DEF Settled, RefusedAgain
  <2>3. CASE Queue(c)
    <3>1. [call[c] EXCEPT !.state = "queued"] \in CallState
      BY <1>0 DEF CallState
    <3>2. call' = [call EXCEPT ![c] = [call[c] EXCEPT !.state = "queued"]]
      BY <2>3 DEF Queue
    <3> QED BY <2>3, <3>1, <3>2, <1>0 DEF Queue, TypeInv, TokenTypeOK, CallState
  <2> QED BY <2>1, <2>2, <2>3
<1>2. PICK new \in CallState : /\ call' = [call EXCEPT ![c] = new]
                               /\ new.token <= issued
                               /\ new.state = "queued" => ~ new.retried
  BY <1>1
<1>3. call' \in [Calls -> CallState]
  BY <1>0, <1>2
<1>4. ASSUME NEW d \in Calls
      PROVE  call'[d].token <= issued /\ (Queued(d)' => ~ call'[d].retried)
  BY <1>0, <1>2 DEF TypeInv, TokenTypeOK, Queued, In
<1>5. /\ UNCHANGED <<token, refresh, cookie, serverVars>>
      /\ leaving' \in BOOLEAN /\ isRefreshing' \in BOOLEAN
  BY DEF Send, Settled, RefusedAgain, Queue, TypeInv, TokenTypeOK
<1> QED BY <1>3, <1>4, <1>5, TypeOfCalls

LEMMA TypeOfLead ==
    ASSUME TypeInv, NEW c \in Calls, Lead(c)
    PROVE  TypeInv'
<1>0. /\ call \in [Calls -> CallState] /\ refresh \in [Refreshers -> RefreshState]
      /\ 0 \in Tokens /\ cookie \in Tokens /\ issued \in Tokens /\ cookie <= issued
  BY TokenAssumption DEF TypeInv, TokenTypeOK, Tokens
<1>1. call' = [call EXCEPT ![c].state = "refreshing", ![c].retried = TRUE]
  BY DEF Lead
<1>2. call' \in [Calls -> CallState]
  BY <1>0, <1>1 DEF CallState
<1>3. ASSUME NEW d \in Calls
      PROVE  call'[d].token <= issued /\ (Queued(d)' => ~ call'[d].retried)
  BY <1>0, <1>1 DEF TypeInv, TokenTypeOK, Queued, In, CallState
<1>4. "interceptor" \in Refreshers /\ Ask("interceptor")
  BY DEF Lead, Refreshers
<1>5. refresh' \in [Refreshers -> RefreshState]
  BY <1>0, <1>4, AskFields
<1>6. \A w \in Refreshers : refresh'[w].cookie <= issued /\ refresh'[w].new <= issued
  <2>1. 0 <= issued
    BY <1>0 DEF Tokens
  <2>2. ASSUME NEW w \in Refreshers \ {"interceptor"}
        PROVE  refresh'[w].cookie = refresh[w].cookie /\ refresh'[w].new = refresh[w].new
    BY <1>0, <1>4, AskFields
  <2>3. refresh'["interceptor"].cookie = cookie /\ refresh'["interceptor"].new = 0
    BY <1>0, <1>4, AskFields
  <2> QED BY <1>0, <2>1, <2>2, <2>3 DEF TypeInv
<1> QED BY <1>2, <1>3, <1>5, <1>6 DEF Lead, TypeInv, TokenTypeOK, serverVars

\* A refresh request that has ended is forgotten.
LEMMA EndedFields ==
    ASSUME refresh \in [Refreshers -> RefreshState], NEW w \in Refreshers, Ended(w)
    PROVE  /\ refresh' \in [Refreshers -> RefreshState]
           /\ ~ Asking(w)'
           /\ refresh'[w].cookie = 0 /\ refresh'[w].new = 0
           /\ \A v \in Refreshers \ {w} : refresh'[v] = refresh[v]
<1>1. 0 \in Tokens
  BY TokenAssumption DEF Tokens
<1>2. /\ NoRefresh \in RefreshState
      /\ NoRefresh.state = "none" /\ NoRefresh.cookie = 0 /\ NoRefresh.new = 0
  BY <1>1 DEF NoRefresh, RefreshState
<1> QED BY <1>2 DEF Ended, Asking

\* What a continuation does to the calls: each is well-formed, has a token that
\* has been issued, and none is queued anew.
CallsGoOn(top) ==
    /\ call' \in [Calls -> CallState]
    /\ \A d \in Calls : /\ call'[d].token <= top
                        /\ Queued(d)' => Queued(d) /\ call'[d] = call[d]

LEMMA ReleasedFields ==
    ASSUME TypeInv, NEW c \in Calls, NEW with \in Tokens, with <= issued,
           Released(c, with)
    PROVE  CallsGoOn(issued)
<1>0. call \in [Calls -> CallState] /\ \A d \in Calls : call[d].token <= issued
  BY DEF TypeInv, TokenTypeOK
<1>1. ASSUME NEW d \in Calls
      PROVE  /\ call'[d] \in CallState
             /\ call'[d].token <= issued
             /\ Queued(d)' => Queued(d) /\ call'[d] = call[d]
  <2>1. CASE d = c \/ Queued(d)
    <3>1. call'[d] = [call[d] EXCEPT !.state = "sent", !.token = with]
      BY <2>1 DEF Released
    <3>2. call[d] \in CallState
      BY <1>0
    <3> QED BY <3>1, <3>2 DEF CallState, Queued, In
  <2>2. CASE ~ (d = c \/ Queued(d))
    <3>1. call'[d] = call[d]
      BY <2>2 DEF Released
    <3> QED BY <3>1, <2>2, <1>0 DEF Queued, In
  <2> QED BY <2>1, <2>2
<1>2. call' = [d \in Calls |-> call'[d]]
  BY DEF Released
<1> QED BY <1>1, <1>2 DEF CallsGoOn

LEMMA FailureFields ==
    ASSUME TypeInv, NEW c \in Calls, RefreshFails(c)
    PROVE  CallsGoOn(issued)
<1>0. call \in [Calls -> CallState] /\ \A d \in Calls : call[d].token <= issued
  BY DEF TypeInv, TokenTypeOK
<1>1. 0 \in Tokens /\ 0 <= issued
  BY TokenAssumption DEF TypeInv, TokenTypeOK, Tokens
<1>2. Finished \in CallState /\ Finished.token = 0 /\ Finished.state = "done"
  BY <1>1 DEF Finished, CallState
<1>3. ASSUME NEW d \in Calls
      PROVE  /\ call'[d] \in CallState
             /\ call'[d].token <= issued
             /\ Queued(d)' => Queued(d) /\ call'[d] = call[d]
  <2>1. CASE d = c
    <3>1. call'[d] = [call[d] EXCEPT !.state = "loggingOut"]
      BY <2>1 DEF RefreshFails
    <3>2. call[d] \in CallState
      BY <1>0
    <3> QED BY <3>1, <3>2, <1>0 DEF CallState, Queued, In
  <2>2. CASE d # c /\ Queued(d)
    <3>1. call'[d] = Finished
      BY <2>2 DEF RefreshFails
    <3> QED BY <3>1, <1>1, <1>2 DEF Queued, In
  <2>3. CASE d # c /\ ~ Queued(d)
    <3>1. call'[d] = call[d]
      BY <2>3 DEF RefreshFails
    <3> QED BY <3>1, <2>3, <1>0 DEF Queued, In
  <2> QED BY <2>1, <2>2, <2>3
<1>4. call' = [d \in Calls |-> call'[d]]
  BY DEF RefreshFails
<1> QED BY <1>3, <1>4 DEF CallsGoOn

LEMMA TypeOfContinuation ==
    ASSUME TypeInv, NEW c \in Calls, RefreshOK(c) \/ RefreshFails(c) \/ LogoutDone(c)
    PROVE  TypeInv'
<1>0. /\ call \in [Calls -> CallState] /\ refresh \in [Refreshers -> RefreshState]
      /\ 0 \in Tokens /\ issued \in Tokens /\ 0 <= issued
      /\ "interceptor" \in Refreshers
  BY TokenAssumption DEF TypeInv, TokenTypeOK, Tokens, Refreshers
<1>1. CASE RefreshOK(c)
  <2>1. /\ refresh["interceptor"].new \in Tokens
        /\ refresh["interceptor"].new <= issued
    BY <1>0 DEF TypeInv, RefreshState
  <2>2. Released(c, refresh["interceptor"].new) /\ Ended("interceptor")
    BY <1>1 DEF RefreshOK
  <2>3. CallsGoOn(issued)
    BY <2>1, <2>2, ReleasedFields
  <2>4. refresh' \in [Refreshers -> RefreshState]
    BY <1>0, <2>2, EndedFields
  <2>5. \A w \in Refreshers : refresh'[w].cookie <= issued /\ refresh'[w].new <= issued
    BY <1>0, <2>2, EndedFields DEF TypeInv
  <2>6. /\ token' = refresh["interceptor"].new /\ cookie' = refresh["interceptor"].new
        /\ isRefreshing' = FALSE /\ UNCHANGED <<leaving, serverVars>>
    BY <1>1 DEF RefreshOK
  <2>7. {token', cookie', expired'} \cup live' \subseteq 0..issued'
    BY <2>1, <2>6 DEF TypeInv, TokenTypeOK, serverVars, Tokens
  <2>8. \A d \in Calls : call'[d].token <= issued /\ (Queued(d)' => ~ call'[d].retried)
    BY <2>3 DEF CallsGoOn, TypeInv, TokenTypeOK
  <2> QED BY <2>3, <2>4, <2>5, <2>6, <2>7, <2>8
          DEF CallsGoOn, TypeInv, TokenTypeOK, serverVars
<1>2. CASE RefreshFails(c)
  <2>1. CallsGoOn(issued) /\ Ended("interceptor")
    BY <1>2, FailureFields DEF RefreshFails
  <2>2. refresh' \in [Refreshers -> RefreshState]
    BY <1>0, <2>1, EndedFields
  <2>3. \A w \in Refreshers : refresh'[w].cookie <= issued /\ refresh'[w].new <= issued
    BY <1>0, <2>1, EndedFields DEF TypeInv
  <2> QED BY <1>2, <2>1, <2>2, <2>3
          DEF RefreshFails, CallsGoOn, TypeInv, TokenTypeOK, serverVars
<1>3. CASE LogoutDone(c)
  <2>1. Finished \in CallState /\ Finished.token = 0 /\ Finished.state = "done"
    BY <1>0 DEF Finished, CallState
  <2>2. call' = [call EXCEPT ![c] = Finished]
    BY <1>3 DEF LogoutDone
  <2>3. CallsGoOn(issued)
    BY <1>0, <2>1, <2>2 DEF CallsGoOn, TypeInv, TokenTypeOK, Queued, In
  <2>4. SignOut /\ UNCHANGED <<refresh, leaving>> /\ isRefreshing' = FALSE
    BY <1>3 DEF LogoutDone
  <2>5. /\ token' = 0 /\ issued' = issued /\ expired' = expired
        /\ cookie' \in {0, cookie} /\ live' \subseteq live /\ ended' \in BOOLEAN
    BY <2>4, SignOutFields
  <2>6. {token', cookie', expired'} \cup live' \subseteq 0..issued'
    BY <1>0, <2>5 DEF TypeInv, TokenTypeOK, Tokens
  <2>7. \A d \in Calls : call'[d].token <= issued' /\ (Queued(d)' => ~ call'[d].retried)
    BY <2>3, <2>5 DEF CallsGoOn, TypeInv, TokenTypeOK
  <2> QED BY <2>3, <2>4, <2>5, <2>6, <2>7 DEF CallsGoOn, TypeInv, TokenTypeOK
<1> QED BY <1>1, <1>2, <1>3

\* The WebSocket client, the pages and the API leave the calls alone.
LEMMA TypeOfRest ==
    ASSUME TypeInv, UNCHANGED <<call, isRefreshing>>, leaving' \in BOOLEAN,
           ended' \in BOOLEAN, issued' \in Tokens, issued <= issued',
           refresh' \in [Refreshers -> RefreshState],
           {token', cookie', expired'} \cup live' \subseteq 0..issued',
           \A w \in Refreshers : refresh'[w].cookie <= issued' /\ refresh'[w].new <= issued'
    PROVE  TypeInv'
<1>1. ASSUME NEW c \in Calls
      PROVE  call'[c].token <= issued' /\ (Queued(c)' => ~ call'[c].retried)
  BY DEF TypeInv, TokenTypeOK, CallState, Tokens, Queued, In
<1> QED BY <1>1 DEF TypeInv, TokenTypeOK

LEMMA TypeOfSocket ==
    ASSUME TypeInv, SocketClosed \/ SocketRefreshOK \/ SocketRefreshFails
    PROVE  TypeInv'
<1>0. /\ refresh \in [Refreshers -> RefreshState] /\ "socket" \in Refreshers
      /\ cookie \in Tokens /\ issued \in Tokens /\ cookie <= issued /\ 0 <= issued
      /\ issued <= issued
      /\ {token, cookie, expired} \cup live \subseteq 0..issued
      /\ \A w \in Refreshers : refresh[w].cookie <= issued /\ refresh[w].new <= issued
      /\ leaving \in BOOLEAN /\ ended \in BOOLEAN
  BY TokenAssumption DEF TypeInv, TokenTypeOK, Refreshers, Tokens
<1>1. CASE SocketClosed
  <2>1. UNCHANGED <<call, isRefreshing, token, cookie, serverVars>> /\ leaving' \in BOOLEAN
    BY <1>0, <1>1 DEF SocketClosed
  <2>2. CASE Asking("socket")
    BY <1>0, <1>1, <2>1, <2>2, TypeOfRest DEF SocketClosed, serverVars
  <2>3. CASE ~ Asking("socket")
    <3>1. Ask("socket")
      BY <1>1, <2>3 DEF SocketClosed
    <3>2. refresh' \in [Refreshers -> RefreshState]
      BY <1>0, <3>1, AskFields
    <3>3. ASSUME NEW w \in Refreshers
          PROVE  refresh'[w].cookie <= issued /\ refresh'[w].new <= issued
      <4>1. CASE w = "socket"
        <5>1. refresh'["socket"].cookie = cookie /\ refresh'["socket"].new = 0
          BY <1>0, <3>1, AskFields
        <5> QED BY <1>0, <4>1, <5>1
      <4>2. CASE w # "socket"
        <5>1. refresh'[w].cookie = refresh[w].cookie /\ refresh'[w].new = refresh[w].new
          BY <1>0, <3>1, <4>2, AskFields
        <5> QED BY <1>0, <5>1
      <4> QED BY <4>1, <4>2
    <3> QED BY <1>0, <2>1, <3>2, <3>3, TypeOfRest DEF serverVars
  <2> QED BY <2>2, <2>3
<1>2. CASE SocketRefreshOK \/ SocketRefreshFails
  <2>1. Ended("socket") /\ UNCHANGED <<call, isRefreshing, serverVars>> /\ leaving' \in BOOLEAN
    BY <1>0, <1>2 DEF SocketRefreshOK, SocketRefreshFails
  <2>2. refresh' \in [Refreshers -> RefreshState]
    BY <1>0, <2>1, EndedFields
  <2>3. \A w \in Refreshers : refresh'[w].cookie <= issued /\ refresh'[w].new <= issued
    BY <1>0, <2>1, EndedFields
  <2>4. /\ token' \in {token, refresh["socket"].new}
        /\ cookie' \in {cookie, refresh["socket"].new}
    BY <1>2 DEF SocketRefreshOK, SocketRefreshFails
  <2>5. refresh["socket"].new \in 0..issued
    BY <1>0 DEF RefreshState, Tokens
  <2>6. {token', cookie', expired'} \cup live' \subseteq 0..issued
    BY <1>0, <2>1, <2>4, <2>5 DEF serverVars
  <2> QED BY <1>0, <2>1, <2>2, <2>3, <2>6, TypeOfRest DEF serverVars
<1> QED BY <1>1, <1>2

LEMMA TypeOfSession ==
    ASSUME TypeInv,
           UserLogout \/ LeavingDone \/ Login \/ SessionEnds \/ TokenExpires
    PROVE  TypeInv'
<1>0. /\ refresh \in [Refreshers -> RefreshState]
      /\ issued \in Tokens /\ 0 <= issued /\ issued <= issued
      /\ {token, cookie, expired} \cup live \subseteq 0..issued
      /\ \A w \in Refreshers : refresh[w].cookie <= issued /\ refresh[w].new <= issued
      /\ leaving \in BOOLEAN /\ ended \in BOOLEAN
  BY DEF TypeInv, TokenTypeOK, Tokens
<1>1. CASE UserLogout
  BY <1>0, <1>1, TypeOfRest DEF UserLogout, serverVars
<1>2. CASE LeavingDone
  <2>1. SignOut /\ UNCHANGED <<call, isRefreshing, refresh>> /\ leaving' = FALSE
    BY <1>2 DEF LeavingDone
  <2>2. /\ token' = 0 /\ issued' = issued /\ expired' = expired
        /\ cookie' \in {0, cookie} /\ live' \subseteq live /\ ended' \in BOOLEAN
    BY <2>1, SignOutFields
  <2>3. {token', cookie', expired'} \cup live' \subseteq 0..issued'
    BY <1>0, <2>2 DEF Tokens
  <2> QED BY <1>0, <2>1, <2>2, <2>3, TypeOfRest
<1>3. CASE Login
  <2>1. /\ issued' = issued + 1 /\ issued' \in Tokens /\ issued <= issued'
    BY <1>0, <1>3, TokenAssumption DEF Login, Tokens
  <2>2. {token', cookie', expired'} \cup live' \subseteq 0..issued'
    BY <1>0, <1>3, <2>1 DEF Login, Tokens
  <2>3. ASSUME NEW w \in Refreshers
        PROVE  /\ refresh'[w] \in RefreshState
               /\ refresh'[w].cookie <= issued' /\ refresh'[w].new <= issued'
    <3>0. /\ refresh[w] \in RefreshState
          /\ refresh[w].cookie \in Nat /\ refresh[w].new \in Nat /\ issued \in Nat
      BY <1>0, TokenAssumption DEF RefreshState, Tokens
    <3>1. CASE Asking(w)
      <4>1. refresh'[w] = [refresh[w] EXCEPT !.alone = FALSE]
        BY <1>3, <3>1 DEF Login
      <4>2. /\ refresh'[w] \in RefreshState
            /\ refresh'[w].cookie = refresh[w].cookie /\ refresh'[w].new = refresh[w].new
        BY <3>0, <4>1 DEF RefreshState
      <4> QED BY <1>0, <2>1, <3>0, <4>2
    <3>2. CASE ~ Asking(w)
      <4>1. refresh'[w] = refresh[w]
        BY <1>3, <3>2 DEF Login
      <4> QED BY <1>0, <2>1, <3>0, <4>1
    <3> QED BY <3>1, <3>2
  <2>4. refresh' = [w \in Refreshers |-> refresh'[w]]
    BY <1>3 DEF Login
  <2>5. refresh' \in [Refreshers -> RefreshState]
    BY <2>3, <2>4
  <2>6. UNCHANGED <<call, isRefreshing, leaving>> /\ ended' \in BOOLEAN
    BY <1>3 DEF Login
  <2> QED BY <1>0, <2>1, <2>2, <2>3, <2>5, <2>6, TypeOfRest
<1>4. CASE SessionEnds
  BY <1>0, <1>4, TypeOfRest DEF SessionEnds, clientVars
<1>5. CASE TokenExpires
  <2>1. {token', cookie', expired'} \cup live' \subseteq 0..issued'
    BY <1>0, <1>5 DEF TokenExpires, clientVars, Tokens
  <2> QED BY <1>0, <1>5, <2>1, TypeOfRest DEF TokenExpires, clientVars
<1> QED BY <1>1, <1>2, <1>3, <1>4, <1>5

LEMMA TypeOfAnswer ==
    ASSUME TypeInv, NEW w \in Refreshers, Grant(w) \/ Refuse(w) \/ Lose(w)
    PROVE  TypeInv'
<1>0. /\ refresh \in [Refreshers -> RefreshState] /\ 0 \in Tokens
      /\ issued \in Tokens /\ 0 <= issued /\ issued <= issued
      /\ {token, cookie, expired} \cup live \subseteq 0..issued
      /\ \A v \in Refreshers : refresh[v].cookie <= issued /\ refresh[v].new <= issued
      /\ leaving \in BOOLEAN /\ ended \in BOOLEAN
  BY TokenAssumption DEF TypeInv, TokenTypeOK, Tokens
<1>1. ASSUME NEW new \in RefreshState, refresh' = [refresh EXCEPT ![w] = new],
             issued' \in Tokens, issued <= issued',
             new.cookie <= issued', new.new <= issued'
      PROVE  /\ refresh' \in [Refreshers -> RefreshState]
             /\ \A v \in Refreshers : refresh'[v].cookie <= issued' /\ refresh'[v].new <= issued'
  <2>1. refresh' \in [Refreshers -> RefreshState]
    BY <1>0, <1>1
  <2>2. ASSUME NEW v \in Refreshers
        PROVE  refresh'[v].cookie <= issued' /\ refresh'[v].new <= issued'
    <3>1. CASE v = w
      BY <1>0, <1>1, <3>1
    <3>2. CASE v # w
      BY <1>0, <1>1, <3>2 DEF RefreshState, Tokens
    <3> QED BY <3>1, <3>2
  <2> QED BY <2>1, <2>2
<1>2. CASE Grant(w)
  <2> DEFINE new == [refresh[w] EXCEPT !.state = "granted", !.cookie = 0, !.new = issued']
  <2>1. issued' = issued + 1 /\ issued' \in Tokens /\ issued <= issued' /\ 0 <= issued'
    BY <1>0, <1>2, TokenAssumption DEF Grant, Tokens
  <2>2. refresh[w] \in RefreshState
    BY <1>0
  <2>3. new \in RefreshState /\ new.cookie = 0 /\ new.new = issued'
    BY <1>0, <2>1, <2>2 DEF RefreshState
  <2>4. refresh' = [refresh EXCEPT ![w] = new]
    BY <1>2 DEF Grant
  <2>5. issued' <= issued'
    BY <2>1 DEF Tokens
  <2>6. /\ refresh' \in [Refreshers -> RefreshState]
        /\ \A v \in Refreshers : refresh'[v].cookie <= issued' /\ refresh'[v].new <= issued'
    BY <1>1, <2>1, <2>3, <2>4, <2>5
  <2>7. {token', cookie', expired'} \cup live' \subseteq 0..issued'
    BY <1>0, <1>2, <2>1 DEF Grant, Tokens
  <2> QED BY <1>0, <1>2, <2>1, <2>6, <2>7, TypeOfRest DEF Grant
<1>3. CASE Refuse(w)
  <2>1. refresh[w] \in RefreshState
    BY <1>0
  <2>2. /\ [refresh[w] EXCEPT !.state = "refused"] \in RefreshState
        /\ refresh' = [refresh EXCEPT ![w] = [refresh[w] EXCEPT !.state = "refused"]]
    BY <1>3, <2>1 DEF RefreshState, Refuse
  <2>3. /\ [refresh[w] EXCEPT !.state = "refused"].cookie <= issued
        /\ [refresh[w] EXCEPT !.state = "refused"].new <= issued
    BY <1>0, <2>1 DEF RefreshState
  <2>4. issued' = issued /\ issued <= issued'
    BY <1>0, <1>3 DEF Refuse, serverVars, Tokens
  <2>5. /\ refresh' \in [Refreshers -> RefreshState]
        /\ \A v \in Refreshers : refresh'[v].cookie <= issued' /\ refresh'[v].new <= issued'
    BY <1>0, <1>1, <2>2, <2>3, <2>4
  <2> QED BY <1>0, <1>3, <2>4, <2>5, TypeOfRest DEF Refuse, serverVars
<1>4. CASE Lose(w)
  <2> DEFINE new == [NoRefresh EXCEPT !.state = "lost"]
  <2>1. new \in RefreshState /\ new.cookie = 0 /\ new.new = 0
    BY <1>0 DEF NoRefresh, RefreshState
  <2>2. refresh' = [refresh EXCEPT ![w] = new]
    BY <1>4 DEF Lose
  <2>3. issued' = issued /\ issued <= issued'
    BY <1>0, <1>4 DEF Lose, Tokens
  <2>4. /\ refresh' \in [Refreshers -> RefreshState]
        /\ \A v \in Refreshers : refresh'[v].cookie <= issued' /\ refresh'[v].new <= issued'
    BY <1>0, <1>1, <2>1, <2>2, <2>3
  <2>5. ended' \in BOOLEAN
    BY <1>0, <1>4 DEF Lose
  <2> QED BY <1>0, <1>4, <2>3, <2>4, <2>5, TypeOfRest DEF Lose
<1> QED BY <1>2, <1>3, <1>4

LEMMA TypeOfNext ==
    ASSUME TypeInv, [TokenNext]_tokenVars
    PROVE  TypeInv'
<1>1. CASE TokenNext
  <2>1. ASSUME NEW c \in Calls, \/ Send(c) \/ Settled(c) \/ RefusedAgain(c) \/ Queue(c)
                                \/ Lead(c)
                                \/ RefreshOK(c) \/ RefreshFails(c) \/ LogoutDone(c)
        PROVE  TypeInv'
    BY <2>1, TypeOfCall, TypeOfLead, TypeOfContinuation
  <2>2. ASSUME NEW w \in Refreshers, Grant(w) \/ Refuse(w) \/ Lose(w)
        PROVE  TypeInv'
    BY <2>2, TypeOfAnswer
  <2> QED BY <1>1, <2>1, <2>2, TypeOfSocket, TypeOfSession DEF TokenNext
<1>2. CASE UNCHANGED tokenVars
  BY <1>2 DEF tokenVars, clientVars, serverVars, TypeInv, TokenTypeOK, Queued, In
<1> QED BY <1>1, <1>2

\* The state of the tab and of its sessions stays well-formed, whatever the
\* order of answers, logins and logouts.
THEOREM TokenTypeCorrect == TokenSpec => []TokenTypeOK
<1>1. TypeInv => TokenTypeOK
  BY DEF TypeInv
<1>2. TypeInv /\ [TokenNext]_tokenVars => TypeInv'
  BY TypeOfNext
<1> QED BY <1>1, <1>2, TypeOfInit, PTL DEF TokenSpec

-----------------------------------------------------------------------------
(* What the steps do to the refresh requests                               *)

\* An answer, or its loss, changes the request it belongs to.
LEMMA AnswerFields ==
    ASSUME TypeInv, NEW w \in Refreshers, Grant(w) \/ Refuse(w) \/ Lose(w)
    PROVE  /\ \A v \in Refreshers \ {w} : refresh'[v] = refresh[v]
           /\ Asking(w) /\ Asking(w)'
           /\ Grant(w) => /\ refresh'[w].state = "granted"
                          /\ refresh'[w].new = issued'
                          /\ refresh'[w].alone = refresh[w].alone
           /\ Refuse(w) => /\ refresh'[w].state = "refused"
                           /\ refresh'[w].cookie = refresh[w].cookie
                           /\ refresh'[w].alone = refresh[w].alone
           /\ Lose(w) => refresh'[w].state = "lost"
<1>1. refresh \in [Refreshers -> RefreshState] /\ refresh[w] \in RefreshState
  BY DEF TypeInv, TokenTypeOK
<1>2. CASE Grant(w)
  <2>1. refresh' = [refresh EXCEPT ![w] = [refresh[w] EXCEPT !.state = "granted",
                                                !.cookie = 0, !.new = issued']]
    BY <1>2 DEF Grant
  <2> QED BY <1>1, <1>2, <2>1 DEF Grant, Refuse, Lose, Outcome, Asking, RefreshState
<1>3. CASE Refuse(w)
  <2>1. refresh' = [refresh EXCEPT ![w] = [refresh[w] EXCEPT !.state = "refused"]]
    BY <1>3 DEF Refuse
  <2> QED BY <1>1, <1>3, <2>1 DEF Grant, Refuse, Lose, Outcome, Asking, RefreshState
<1>4. CASE Lose(w)
  <2>1. refresh' = [refresh EXCEPT ![w] = [NoRefresh EXCEPT !.state = "lost"]]
    BY <1>4 DEF Lose
  <2> QED BY <1>1, <1>4, <2>1 DEF Grant, Refuse, Lose, Outcome, Asking, NoRefresh
<1> QED BY <1>2, <1>3, <1>4

\* A login marks the requests in flight.
LEMMA LoginFields ==
    ASSUME TypeInv, Login, NEW w \in Refreshers
    PROVE  /\ refresh'[w].state = refresh[w].state
           /\ refresh'[w].cookie = refresh[w].cookie
           /\ refresh'[w].new = refresh[w].new
           /\ Asking(w) => ~ refresh'[w].alone
<1>1. refresh[w] \in RefreshState
  BY DEF TypeInv, TokenTypeOK
<1>2. CASE Asking(w)
  <2>1. refresh'[w] = [refresh[w] EXCEPT !.alone = FALSE]
    BY <1>2 DEF Login
  <2> QED BY <1>1, <2>1 DEF RefreshState
<1>3. CASE ~ Asking(w)
  <2>1. refresh'[w] = refresh[w]
    BY <1>3 DEF Login
  <2> QED BY <1>3, <2>1
<1> QED BY <1>2, <1>3

-----------------------------------------------------------------------------
(* Single flight                                                           *)

Leader(c) == In(c, "refreshing") \/ In(c, "loggingOut")

LEMMA FlightMeaning ==
    SingleFlight <=>
      /\ \A c, d \in Calls : Leader(c) /\ Leader(d) => c = d
      /\ isRefreshing <=> \E c \in Calls : Leader(c)
      /\ Asking("interceptor") <=> \E c \in Calls : In(c, "refreshing")
  BY DEF SingleFlight, Leader

\* A step that keeps the leaders, and whether the interceptor's refresh is in flight.
LEMMA FlightKept ==
    ASSUME SingleFlight, UNCHANGED isRefreshing,
           Asking("interceptor")' <=> Asking("interceptor"),
           \A c \in Calls : /\ In(c, "refreshing")' <=> In(c, "refreshing")
                            /\ In(c, "loggingOut")' <=> In(c, "loggingOut")
    PROVE  SingleFlight'
  BY DEF SingleFlight

LEMMA FlightOfCall ==
    ASSUME TypeInv, SingleFlight, NEW c \in Calls,
           \/ Send(c) \/ Settled(c) \/ RefusedAgain(c) \/ Queue(c) \/ Lead(c)
           \/ RefreshOK(c) \/ RefreshFails(c) \/ LogoutDone(c)
    PROVE  SingleFlight'
<1>0. /\ call \in [Calls -> CallState] /\ refresh \in [Refreshers -> RefreshState]
      /\ "interceptor" \in Refreshers
  BY DEF TypeInv, TokenTypeOK, Refreshers
<1>1. CASE Send(c) \/ Settled(c) \/ RefusedAgain(c) \/ Queue(c)
  <2>1. UNCHANGED <<isRefreshing, refresh>> /\ (In(c, "idle") \/ In(c, "sent"))
    BY <1>1 DEF Send, Settled, RefusedAgain, Queue, Unauthorized
  <2>2. In(c, "sent")' \/ In(c, "done")' \/ In(c, "queued")'
    BY <1>0, <1>1 DEF Send, Settled, RefusedAgain, Queue, Finished, In, CallState
  <2>3. \A d \in Calls \ {c} : call'[d] = call[d]
    BY <1>0, <1>1 DEF Send, Settled, RefusedAgain, Queue
  <2> QED BY <2>1, <2>2, <2>3, FlightKept DEF In, Asking
<1>2. CASE Lead(c)
  <2>1. ~ isRefreshing /\ isRefreshing' /\ Ask("interceptor")
    BY <1>2 DEF Lead
  <2>2. cookie \in Tokens
    BY TokenAssumption DEF TypeInv, TokenTypeOK, Tokens
  <2>3. Asking("interceptor")'
    BY <1>0, <2>1, <2>2, AskFields DEF Asking
  <2>4. \A d \in Calls : ~ Leader(d)
    BY <2>1, FlightMeaning
  <2>5. In(c, "refreshing")' /\ \A d \in Calls \ {c} : call'[d] = call[d]
    BY <1>0, <1>2 DEF Lead, In, CallState
  <2>6. \A d \in Calls \ {c} : ~ Leader(d)'
    BY <2>4, <2>5 DEF Leader, In
  <2>7. \A d, e \in Calls : Leader(d)' /\ Leader(e)' => d = e
    BY <2>6
  <2> QED BY <2>1, <2>3, <2>5, <2>6, <2>7 DEF SingleFlight, Leader
<1>3. CASE RefreshOK(c)
  <2>1. \A d \in Calls \ {c} : ~ Leader(d)
    BY <1>3, FlightMeaning DEF RefreshOK, Leader
  <2>2. ~ isRefreshing' /\ Ended("interceptor") /\ Released(c, token')
    BY <1>3 DEF RefreshOK
  <2>3. ~ Asking("interceptor")'
    BY <1>0, <2>2, EndedFields
  <2>4. ASSUME NEW d \in Calls
        PROVE  ~ Leader(d)'
    <3>1. CASE d = c \/ Queued(d)
      <4>1. call'[d] = [call[d] EXCEPT !.state = "sent", !.token = token']
        BY <2>2, <3>1 DEF Released
      <4>2. call[d] \in CallState
        BY <1>0
      <4> QED BY <4>1, <4>2 DEF Leader, In, CallState
    <3>2. CASE ~ (d = c \/ Queued(d))
      <4>1. call'[d] = call[d]
        BY <2>2, <3>2 DEF Released
      <4> QED BY <2>1, <3>2, <4>1 DEF Leader, In
    <3> QED BY <3>1, <3>2
  <2> QED BY <2>2, <2>3, <2>4 DEF SingleFlight, Leader
<1>4. CASE RefreshFails(c)
  <2>1. isRefreshing /\ \A d \in Calls \ {c} : ~ Leader(d)
    BY <1>4, FlightMeaning DEF RefreshFails, Leader
  <2>2. UNCHANGED isRefreshing /\ Ended("interceptor")
    BY <1>4 DEF RefreshFails
  <2>3. ~ Asking("interceptor")'
    BY <1>0, <2>2, EndedFields
  <2>4. In(c, "loggingOut")'
    <3>1. call'[c] = [call[c] EXCEPT !.state = "loggingOut"]
      BY <1>4 DEF RefreshFails
    <3>2. call[c] \in CallState
      BY <1>0
    <3> QED BY <3>1, <3>2 DEF In, CallState
  <2>5. ASSUME NEW d \in Calls \ {c}
        PROVE  ~ Leader(d)'
    <3>1. call'[d] = Finished \/ call'[d] = call[d]
      BY <1>4 DEF RefreshFails
    <3> QED BY <2>1, <3>1 DEF Leader, In, Finished
  <2>6. \A d, e \in Calls : Leader(d)' /\ Leader(e)' => d = e
    BY <2>5
  <2>7. \A d \in Calls : ~ In(d, "refreshing")'
    BY <2>4, <2>5 DEF Leader, In
  <2> QED BY <2>1, <2>2, <2>3, <2>4, <2>6, <2>7 DEF SingleFlight, Leader
<1>5. CASE LogoutDone(c)
  <2>1. /\ \A d \in Calls \ {c} : ~ Leader(d)
        /\ \A d \in Calls : ~ In(d, "refreshing")
    BY <1>5, FlightMeaning DEF LogoutDone, Leader, In
  <2>2. ~ isRefreshing' /\ UNCHANGED refresh /\ ~ Asking("interceptor")
    BY <1>5, <2>1, FlightMeaning DEF LogoutDone
  <2>3. call' = [call EXCEPT ![c] = Finished]
    BY <1>5 DEF LogoutDone
  <2>4. \A d \in Calls : ~ Leader(d)'
    BY <1>0, <2>1, <2>3 DEF Leader, In, Finished
  <2> QED BY <2>2, <2>4 DEF SingleFlight, Leader, Asking
<1> QED BY <1>1, <1>2, <1>3, <1>4, <1>5

LEMMA FlightOfRest ==
    ASSUME TypeInv, SingleFlight,
           \/ SocketClosed \/ SocketRefreshOK \/ SocketRefreshFails
           \/ UserLogout \/ LeavingDone \/ Login \/ SessionEnds \/ TokenExpires
           \/ \E w \in Refreshers : Grant(w) \/ Refuse(w) \/ Lose(w)
    PROVE  SingleFlight'
<1>0. /\ refresh \in [Refreshers -> RefreshState] /\ cookie \in Tokens
      /\ "interceptor" \in Refreshers \ {"socket"} /\ "socket" \in Refreshers
  BY TokenAssumption DEF TypeInv, TokenTypeOK, Refreshers, Tokens
<1>1. UNCHANGED <<call, isRefreshing>>
  BY DEF SocketClosed, SocketRefreshOK, SocketRefreshFails, UserLogout, LeavingDone,
         Login, SessionEnds, TokenExpires, Grant, Refuse, Lose, clientVars
<1>2. Asking("interceptor")' <=> Asking("interceptor")
  <2>1. CASE SocketClosed
    <3>1. UNCHANGED refresh \/ Ask("socket")
      BY <2>1 DEF SocketClosed
    <3> QED BY <1>0, <3>1, AskFields DEF Asking
  <2>2. CASE SocketRefreshOK \/ SocketRefreshFails
    <3>1. Ended("socket")
      BY <2>2 DEF SocketRefreshOK, SocketRefreshFails
    <3> QED BY <1>0, <3>1, EndedFields DEF Asking
  <2>3. CASE UserLogout \/ LeavingDone \/ SessionEnds \/ TokenExpires
    BY <2>3 DEF UserLogout, LeavingDone, SessionEnds, TokenExpires, clientVars, Asking
  <2>4. CASE Login
    BY <1>0, <2>4, LoginFields DEF Asking
  <2>5. ASSUME NEW w \in Refreshers, Grant(w) \/ Refuse(w) \/ Lose(w)
        PROVE  Asking("interceptor")' <=> Asking("interceptor")
    BY <1>0, <2>5, AnswerFields DEF Asking
  <2> QED BY <2>1, <2>2, <2>3, <2>4, <2>5
<1> QED BY <1>1, <1>2, FlightKept DEF In

LEMMA FlightOfNext ==
    ASSUME TypeInv, SingleFlight, [TokenNext]_tokenVars
    PROVE  SingleFlight'
<1>1. CASE TokenNext
  BY <1>1, FlightOfCall, FlightOfRest DEF TokenNext
<1>2. CASE UNCHANGED tokenVars
  BY <1>2 DEF tokenVars, clientVars, SingleFlight, In, Asking
<1> QED BY <1>1, <1>2

\* However many calls are refused at once, one of them refreshes for all.
THEOREM OneCallRefreshes == TokenSpec => []SingleFlight
<1>1. TokenInit => TypeInv /\ SingleFlight
  <2>1. ASSUME TokenInit PROVE SingleFlight
    BY <2>1 DEF TokenInit, SingleFlight, In, Asking, NoRefresh, Refreshers
  <2> QED BY <2>1, TypeOfInit
<1>2. TypeInv /\ SingleFlight /\ [TokenNext]_tokenVars => (TypeInv /\ SingleFlight)'
  BY TypeOfNext, FlightOfNext
<1> QED BY <1>1, <1>2, PTL DEF TokenSpec

-----------------------------------------------------------------------------
(* Rotation                                                                *)

\* A step that may change the refresh requests does it in one of these ways.
LEMMA RefreshMoves ==
    ASSUME TypeInv, TokenNext
    PROVE  \/ UNCHANGED refresh
           \/ Login
           \/ \E w \in Refreshers :
                 \/ Ask(w) /\ UNCHANGED <<token, cookie, serverVars>>
                 \/ /\ Ended(w)
                    /\ UNCHANGED serverVars
                    /\ \/ /\ Outcome(w, "granted")
                          /\ token' = refresh[w].new /\ cookie' = refresh[w].new
                       \/ Failed(w) /\ UNCHANGED <<token, cookie>>
                 \/ Grant(w) \/ Refuse(w) \/ Lose(w)
<1>1. "interceptor" \in Refreshers /\ "socket" \in Refreshers
  BY DEF Refreshers
<1>2. ASSUME NEW c \in Calls, \/ Send(c) \/ Settled(c) \/ RefusedAgain(c) \/ Queue(c)
                              \/ LogoutDone(c)
      PROVE  UNCHANGED refresh
  BY <1>2 DEF Send, Settled, RefusedAgain, Queue, LogoutDone
<1>3. ASSUME NEW c \in Calls, Lead(c)
      PROVE  Ask("interceptor") /\ UNCHANGED <<token, cookie, serverVars>>
  BY <1>3 DEF Lead
<1>4. ASSUME NEW c \in Calls, RefreshOK(c) \/ RefreshFails(c)
      PROVE  /\ Ended("interceptor")
             /\ UNCHANGED serverVars
             /\ \/ /\ Outcome("interceptor", "granted")
                   /\ token' = refresh["interceptor"].new
                   /\ cookie' = refresh["interceptor"].new
                \/ Failed("interceptor") /\ UNCHANGED <<token, cookie>>
  BY <1>4 DEF RefreshOK, RefreshFails
<1>5. ASSUME SocketClosed
      PROVE  UNCHANGED refresh \/ (Ask("socket") /\ UNCHANGED <<token, cookie, serverVars>>)
  BY <1>5 DEF SocketClosed
<1>6. ASSUME SocketRefreshOK \/ SocketRefreshFails
      PROVE  /\ Ended("socket")
             /\ UNCHANGED serverVars
             /\ \/ /\ Outcome("socket", "granted")
                   /\ token' = refresh["socket"].new /\ cookie' = refresh["socket"].new
                \/ Failed("socket") /\ UNCHANGED <<token, cookie>>
  BY <1>6 DEF SocketRefreshOK, SocketRefreshFails
<1>7. ASSUME UserLogout \/ LeavingDone \/ SessionEnds \/ TokenExpires
      PROVE  UNCHANGED refresh
  BY <1>7 DEF UserLogout, LeavingDone, SessionEnds, TokenExpires, clientVars
<1> QED BY <1>1, <1>2, <1>3, <1>4, <1>5, <1>6, <1>7 DEF TokenNext

InFlight(w) == Outcome(w, "asked") \/ Outcome(w, "granted") \/ Outcome(w, "refused")

\* A refresh that is alone is the only one in flight.
Apart ==
    \A w, v \in Refreshers :
        w # v /\ InFlight(w) /\ refresh[w].alone => ~ Asking(v)

LEMMA ApartOfNext ==
    ASSUME TypeInv, Apart, [TokenNext]_tokenVars
    PROVE  Apart'
<1>0. refresh \in [Refreshers -> RefreshState] /\ cookie \in Tokens
  <2>1. cookie \in 0..issued /\ issued \in Tokens
    BY DEF TypeInv, TokenTypeOK
  <2> QED BY <2>1, TokenAssumption DEF TypeInv, TokenTypeOK, Tokens
<1>1. CASE UNCHANGED refresh
  BY <1>1 DEF Apart, InFlight, Outcome, Asking
<1>2. CASE Login
  <2>1. ASSUME NEW w \in Refreshers, InFlight(w)'
        PROVE  ~ refresh'[w].alone
    BY <1>2, <2>1, LoginFields DEF InFlight, Outcome, Asking
  <2> QED BY <2>1 DEF Apart
<1>3. ASSUME NEW w \in Refreshers, Ask(w)
      PROVE  Apart'
  <2>1. /\ refresh'[w].alone => \A v \in Refreshers : ~ Asking(v)
        /\ \A v \in Refreshers \ {w} : /\ refresh'[v].state = refresh[v].state
                                       /\ Asking(v) => ~ refresh'[v].alone
    BY <1>0, <1>3, AskFields
  <2>2. ASSUME NEW u \in Refreshers, NEW v \in Refreshers, u # v,
               InFlight(u)', refresh'[u].alone
        PROVE  ~ Asking(v)'
    <3>1. CASE u = w
      BY <2>1, <2>2, <3>1 DEF Asking
    <3>2. CASE u # w
      BY <2>1, <2>2, <3>2 DEF InFlight, Outcome, Asking
    <3> QED BY <3>1, <3>2
  <2> QED BY <2>2 DEF Apart
<1>4. ASSUME NEW w \in Refreshers, Ended(w)
      PROVE  Apart'
  <2>1. /\ ~ Asking(w)'
        /\ \A v \in Refreshers \ {w} : refresh'[v] = refresh[v]
    BY <1>0, <1>4, EndedFields
  <2>2. ASSUME NEW u \in Refreshers, NEW v \in Refreshers, u # v,
               InFlight(u)', refresh'[u].alone
        PROVE  ~ Asking(v)'
    BY <2>1, <2>2 DEF Apart, InFlight, Outcome, Asking
  <2> QED BY <2>2 DEF Apart
<1>5. ASSUME NEW w \in Refreshers, Grant(w) \/ Refuse(w) \/ Lose(w)
      PROVE  Apart'
  <2>1. /\ \A v \in Refreshers \ {w} : refresh'[v] = refresh[v]
        /\ Asking(w)
        /\ Lose(w) => refresh'[w].state = "lost"
        /\ ~ Lose(w) => refresh'[w].alone = refresh[w].alone
    BY <1>5, AnswerFields
  <2>2. ~ Lose(w) => InFlight(w)
    BY <1>5 DEF Grant, Refuse, InFlight
  <2>3. ASSUME NEW u \in Refreshers, NEW v \in Refreshers, u # v,
               InFlight(u)', refresh'[u].alone
        PROVE  ~ Asking(v)'
    <3>1. CASE u = w
      BY <2>1, <2>2, <2>3, <3>1 DEF Apart, InFlight, Outcome, Asking
    <3>2. CASE u # w
      BY <2>1, <2>3, <3>2 DEF Apart, InFlight, Outcome, Asking
    <3> QED BY <3>1, <3>2
  <2> QED BY <2>3 DEF Apart
<1>6. CASE UNCHANGED tokenVars
  BY <1>1, <1>6 DEF tokenVars, clientVars
<1> QED BY <1>1, <1>2, <1>3, <1>4, <1>5, <1>6, RefreshMoves

\* As long as the session has not been ended, the token that would be exchanged
\* is in one place: in the cookie, or in the one answer on its way.
Custody ==
    ~ ended =>
      /\ \A w \in Refreshers :
            Outcome(w, "granted") =>
              /\ refresh[w].new \in live
              /\ cookie \notin live
              /\ \A v \in Refreshers : /\ Outcome(v, "asked") => refresh[v].cookie \notin live
                                       /\ Outcome(v, "granted") => v = w
      /\ (\A w \in Refreshers : ~ Outcome(w, "granted")) => cookie = 0 \/ cookie \in live
      /\ \A w \in Refreshers :
            Outcome(w, "asked") =>
              /\ refresh[w].cookie \in live => refresh[w].cookie = cookie
              /\ refresh[w].alone => refresh[w].cookie = 0 \/ refresh[w].cookie \in live

RotationInv == TypeInv /\ Apart /\ Custody /\ RefusedOnlyIfEnded

LEMMA CustodyOfLogin ==
    ASSUME RotationInv, Login
    PROVE  Custody' /\ RefusedOnlyIfEnded'
<1>1. \A w \in Refreshers : /\ refresh'[w].state = refresh[w].state
                            /\ Asking(w) => ~ refresh'[w].alone
  BY LoginFields DEF RotationInv
<1>2. cookie' = issued' /\ issued' \in live' /\ (~ ended' => \A w \in Refreshers : ~ Asking(w))
  BY DEF Login
<1>3. ASSUME ~ ended', NEW w \in Refreshers
      PROVE  ~ Outcome(w, "granted")' /\ ~ Outcome(w, "asked")'
  BY <1>1, <1>2, <1>3 DEF Outcome, Asking
<1>4. Custody'
  BY <1>2, <1>3 DEF Custody
<1>5. RefusedOnlyIfEnded'
  BY <1>1 DEF RefusedOnlyIfEnded, Outcome, Asking
<1> QED BY <1>4, <1>5

LEMMA CustodyOfAsk ==
    ASSUME RotationInv, NEW w \in Refreshers, Ask(w), UNCHANGED <<cookie, serverVars>>
    PROVE  Custody' /\ RefusedOnlyIfEnded'
<1>0. refresh \in [Refreshers -> RefreshState] /\ cookie \in Tokens
  BY TokenAssumption DEF RotationInv, TypeInv, TokenTypeOK, Tokens
<1>1. /\ ~ Asking(w)
      /\ refresh'[w].state = "asked"
      /\ refresh'[w].cookie = cookie
      /\ refresh'[w].alone => \A v \in Refreshers : ~ Asking(v)
      /\ \A v \in Refreshers \ {w} :
            /\ refresh'[v].state = refresh[v].state
            /\ refresh'[v].cookie = refresh[v].cookie
            /\ refresh'[v].new = refresh[v].new
            /\ Asking(v) => ~ refresh'[v].alone
  BY <1>0, AskFields
<1>2. UNCHANGED <<cookie, live, ended>>
  BY DEF serverVars
<1>3. \A v \in Refreshers : Outcome(v, "granted")' <=> Outcome(v, "granted")
  BY <1>1 DEF Outcome, Asking
<1>4. ASSUME ~ ended', NEW v \in Refreshers, Outcome(v, "granted")'
      PROVE  /\ refresh'[v].new \in live'
             /\ cookie' \notin live'
             /\ \A u \in Refreshers :
                   /\ Outcome(u, "asked")' => refresh'[u].cookie \notin live'
                   /\ Outcome(u, "granted")' => u = v
  <2>1. v # w /\ Outcome(v, "granted") /\ refresh'[v].new = refresh[v].new
    BY <1>1, <1>3, <1>4 DEF Outcome
  <2>2. /\ refresh[v].new \in live /\ cookie \notin live
        /\ \A u \in Refreshers : /\ Outcome(u, "asked") => refresh[u].cookie \notin live
                                 /\ Outcome(u, "granted") => u = v
    BY <1>2, <1>4, <2>1 DEF RotationInv, Custody
  <2> QED BY <1>1, <1>2, <1>3, <2>1, <2>2 DEF Outcome
<1>5. ASSUME ~ ended', NEW v \in Refreshers, Outcome(v, "asked")'
      PROVE  /\ refresh'[v].cookie \in live' => refresh'[v].cookie = cookie'
             /\ refresh'[v].alone => refresh'[v].cookie = 0 \/ refresh'[v].cookie \in live'
  <2>1. CASE v = w
    <3>1. refresh'[w].alone => \A u \in Refreshers : ~ Outcome(u, "granted")
      BY <1>1 DEF Outcome, Asking
    <3> QED BY <1>1, <1>2, <1>5, <2>1, <3>1 DEF RotationInv, Custody
  <2>2. CASE v # w
    <3>1. Outcome(v, "asked") /\ ~ refresh'[v].alone
      BY <1>1, <1>5, <2>2 DEF Outcome, Asking
    <3> QED BY <1>1, <1>2, <1>5, <2>2, <3>1 DEF RotationInv, Custody
  <2> QED BY <2>1, <2>2
<1>6. (~ ended' /\ \A v \in Refreshers : ~ Outcome(v, "granted")')
         => cookie' = 0 \/ cookie' \in live'
  BY <1>2, <1>3 DEF RotationInv, Custody
<1>7. Custody'
  BY <1>4, <1>5, <1>6 DEF Custody
<1>8. RefusedOnlyIfEnded'
  <2>1. ASSUME NEW v \in Refreshers, Outcome(v, "refused")'
        PROVE  ~ refresh'[v].alone
    BY <1>1, <2>1 DEF Outcome, Asking
  <2> QED BY <2>1 DEF RefusedOnlyIfEnded
<1> QED BY <1>7, <1>8

LEMMA CustodyOfEnd ==
    ASSUME RotationInv, NEW w \in Refreshers, Ended(w), UNCHANGED serverVars,
           \/ Outcome(w, "granted") /\ cookie' = refresh[w].new
           \/ Failed(w) /\ UNCHANGED cookie
    PROVE  Custody' /\ RefusedOnlyIfEnded'
<1>0. refresh \in [Refreshers -> RefreshState]
  BY DEF RotationInv, TypeInv, TokenTypeOK
<1>1. ~ Asking(w)' /\ \A v \in Refreshers \ {w} : refresh'[v] = refresh[v]
  BY <1>0, EndedFields
<1>2. UNCHANGED <<live, ended>>
  BY DEF serverVars
<1>3. RefusedOnlyIfEnded'
  <2>1. ASSUME NEW v \in Refreshers, Outcome(v, "refused")'
        PROVE  v # w
    BY <1>1, <2>1 DEF Outcome, Asking
  <2> QED BY <1>1, <1>2, <2>1 DEF RotationInv, RefusedOnlyIfEnded, Outcome
<1>4. ASSUME NEW v \in Refreshers, Outcome(v, "granted")' \/ Outcome(v, "asked")'
      PROVE  v # w /\ refresh'[v] = refresh[v]
  BY <1>1, <1>4 DEF Outcome, Asking
<1>5. CASE Outcome(w, "granted") /\ cookie' = refresh[w].new
  <2>1. ASSUME ~ ended'
        PROVE  /\ \A v \in Refreshers : ~ Outcome(v, "granted")'
               /\ cookie' \in live'
               /\ \A v \in Refreshers : Outcome(v, "asked")' =>
                     refresh'[v].cookie \notin live' /\ ~ refresh'[v].alone
    <3>1. /\ refresh[w].new \in live
          /\ \A v \in Refreshers : /\ Outcome(v, "asked") => refresh[v].cookie \notin live
                                   /\ Outcome(v, "granted") => v = w
      BY <1>2, <1>5, <2>1 DEF RotationInv, Custody
    <3>2. \A v \in Refreshers : v # w /\ Outcome(v, "asked") => ~ refresh[v].alone
      BY <1>5 DEF RotationInv, Apart, InFlight, Outcome, Asking
    <3> QED BY <1>2, <1>4, <1>5, <3>1, <3>2 DEF Outcome
  <2> QED BY <1>3, <2>1 DEF Custody
<1>6. CASE Failed(w) /\ UNCHANGED cookie
  <2>1. ~ Outcome(w, "granted")
    BY <1>6 DEF Failed, Outcome
  <2>2. \A v \in Refreshers : Outcome(v, "granted")' <=> Outcome(v, "granted")
    BY <1>1, <1>4, <2>1 DEF Outcome
  <2>3. \A v \in Refreshers : Outcome(v, "asked")' =>
            Outcome(v, "asked") /\ refresh'[v] = refresh[v]
    BY <1>4 DEF Outcome
  <2> QED BY <1>2, <1>3, <1>4, <1>6, <2>2, <2>3 DEF RotationInv, Custody
<1> QED BY <1>5, <1>6

LEMMA CustodyOfAnswer ==
    ASSUME RotationInv, NEW w \in Refreshers, Grant(w) \/ Refuse(w) \/ Lose(w)
    PROVE  Custody' /\ RefusedOnlyIfEnded'
<1>0. /\ refresh \in [Refreshers -> RefreshState]
      /\ issued \in Nat /\ cookie \in 0..issued
      /\ \A v \in Refreshers : refresh[v].cookie \in Nat /\ refresh[v].cookie <= issued
  BY TokenAssumption DEF RotationInv, TypeInv, TokenTypeOK, RefreshState, Tokens
<1>1. /\ \A v \in Refreshers \ {w} : refresh'[v] = refresh[v]
      /\ Grant(w) => refresh'[w].state = "granted" /\ refresh'[w].new = issued'
      /\ Refuse(w) => /\ refresh'[w].state = "refused"
                      /\ refresh'[w].cookie = refresh[w].cookie
                      /\ refresh'[w].alone = refresh[w].alone
      /\ Lose(w) => refresh'[w].state = "lost"
  BY AnswerFields DEF RotationInv
<1>2. CASE Grant(w)
  <2>1. /\ Outcome(w, "asked") /\ refresh[w].cookie \in live
        /\ issued' = issued + 1
        /\ live' = (live \ {refresh[w].cookie}) \cup {issued'}
        /\ UNCHANGED <<cookie, ended>>
    BY <1>2 DEF Grant
  <2>2. ASSUME ~ ended'
        PROVE  /\ refresh'[w].new \in live'
               /\ cookie' \notin live'
               /\ \A v \in Refreshers \ {w} :
                     /\ ~ Outcome(v, "granted")'
                     /\ Outcome(v, "asked")' =>
                          refresh'[v].cookie \notin live' /\ ~ refresh'[v].alone
    <3>1. /\ refresh[w].cookie = cookie
          /\ \A v \in Refreshers : /\ ~ Outcome(v, "granted")
                                   /\ Outcome(v, "asked") /\ refresh[v].cookie \in live
                                        => refresh[v].cookie = cookie
      BY <2>1, <2>2 DEF RotationInv, Custody
    <3>2. refresh'[w].new \in live' /\ cookie' \notin live'
      BY <1>0, <1>1, <1>2, <2>1, <3>1
    <3>3. ASSUME NEW v \in Refreshers \ {w}, Outcome(v, "asked")
          PROVE  refresh[v].cookie \notin live' /\ ~ refresh[v].alone
      <4>1. refresh[v].cookie # issued'
        BY <1>0, <2>1
      <4>2. refresh[v].cookie \notin live'
        BY <2>1, <3>1, <3>3, <4>1
      <4>3. ~ refresh[v].alone
        BY <2>1, <3>3 DEF RotationInv, Apart, InFlight, Outcome, Asking
      <4> QED BY <4>2, <4>3
    <3> QED BY <1>1, <3>1, <3>2, <3>3 DEF Outcome
  <2>3. \A v \in Refreshers : /\ Outcome(v, "granted")' /\ ~ ended' => v = w
                              /\ Outcome(v, "asked")' => v # w
    BY <1>1, <1>2, <2>2 DEF Outcome
  <2>4. Outcome(w, "granted")'
    BY <1>1, <1>2 DEF Outcome
  <2>5. Custody'
    BY <2>2, <2>3, <2>4 DEF Custody
  <2>6. RefusedOnlyIfEnded'
    BY <1>1, <1>2, <2>1 DEF RotationInv, RefusedOnlyIfEnded, Outcome
  <2> QED BY <2>5, <2>6
<1>3. CASE Refuse(w)
  <2>1. /\ Outcome(w, "asked") /\ refresh[w].cookie \notin live
        /\ UNCHANGED <<cookie, live, ended>>
    BY <1>3 DEF Refuse, serverVars
  <2>2. \A v \in Refreshers : /\ Outcome(v, "granted")' <=> Outcome(v, "granted")
                              /\ Outcome(v, "granted") \/ Outcome(v, "asked")'
                                   => refresh'[v] = refresh[v]
    BY <1>1, <1>3, <2>1 DEF Outcome
  <2>3. \A v \in Refreshers : Outcome(v, "asked")' => Outcome(v, "asked")
    BY <2>2 DEF Outcome
  <2>4. Custody'
    BY <2>1, <2>2, <2>3 DEF RotationInv, Custody
  <2>5. refresh[w].alone /\ refresh[w].cookie # 0 => ended
    BY <2>1 DEF RotationInv, Custody
  <2>6. RefusedOnlyIfEnded'
    BY <1>1, <1>3, <2>1, <2>5 DEF RotationInv, RefusedOnlyIfEnded, Outcome
  <2> QED BY <2>4, <2>6
<1>4. CASE Lose(w)
  <2>1. /\ ended' = (ended \/ Outcome(w, "granted"))
        /\ UNCHANGED <<cookie, live>>
    BY <1>4 DEF Lose
  <2>2. \A v \in Refreshers : InFlight(v)' => v # w /\ refresh'[v] = refresh[v]
    BY <1>1, <1>4 DEF InFlight, Outcome
  <2>3. \A v \in Refreshers : /\ Outcome(v, "granted")' => Outcome(v, "granted")
                              /\ Outcome(v, "asked")' => Outcome(v, "asked")
                              /\ Outcome(v, "refused")' => Outcome(v, "refused")
    BY <2>2 DEF InFlight, Outcome
  <2>4. \A v \in Refreshers : Outcome(v, "granted") /\ ~ ended' => Outcome(v, "granted")'
    BY <1>1, <2>1 DEF Outcome
  <2>5. Custody'
    BY <2>1, <2>2, <2>3, <2>4 DEF RotationInv, Custody, InFlight
  <2>6. RefusedOnlyIfEnded'
    BY <2>1, <2>2, <2>3 DEF RotationInv, RefusedOnlyIfEnded, InFlight
  <2> QED BY <2>5, <2>6
<1> QED BY <1>2, <1>3, <1>4

\* The other steps keep the requests, and the session too unless it is ended.
LEMMA CustodyOfRest ==
    ASSUME RotationInv, UNCHANGED refresh, ended => ended',
           ~ ended' => UNCHANGED <<cookie, live>>
    PROVE  Custody' /\ RefusedOnlyIfEnded'
<1>1. Custody'
  BY DEF RotationInv, Custody, Outcome
<1>2. RefusedOnlyIfEnded'
  BY DEF RotationInv, RefusedOnlyIfEnded, Outcome
<1> QED BY <1>1, <1>2

LEMMA SessionOfRest ==
    ASSUME TypeInv, UNCHANGED refresh, TokenNext
    PROVE  \/ Login
           \/ (ended => ended') /\ (~ ended' => UNCHANGED <<cookie, live>>)
<1>0. /\ "interceptor" \in Refreshers /\ "socket" \in Refreshers
      /\ refresh \in [Refreshers -> RefreshState] /\ cookie \in Tokens
  <2>1. cookie \in 0..issued /\ issued \in Tokens
    BY DEF TypeInv, TokenTypeOK
  <2> QED BY <2>1, TokenAssumption DEF TypeInv, TokenTypeOK, Tokens, Refreshers
<1>1. ASSUME NEW c \in Calls, \/ Send(c) \/ Settled(c) \/ RefusedAgain(c) \/ Queue(c)
                              \/ Lead(c) \/ RefreshFails(c)
      PROVE  UNCHANGED <<cookie, live, ended>>
  BY <1>1 DEF Send, Settled, RefusedAgain, Queue, Lead, RefreshFails, serverVars
<1>2. ASSUME NEW c \in Calls, LogoutDone(c)
      PROVE  (ended => ended') /\ (~ ended' => UNCHANGED <<cookie, live>>)
  BY <1>2, SignOutFields DEF LogoutDone
<1>3. ASSUME NEW c \in Calls, RefreshOK(c)
      PROVE  FALSE
  <2>1. Ended("interceptor") /\ Asking("interceptor")
    BY <1>3 DEF RefreshOK, Outcome, Asking
  <2> QED BY <1>0, <2>1, EndedFields DEF Asking
<1>4. ASSUME SocketClosed \/ SocketRefreshFails \/ UserLogout
      PROVE  UNCHANGED <<cookie, live, ended>>
  BY <1>4 DEF SocketClosed, SocketRefreshFails, UserLogout, serverVars
<1>5. ASSUME SocketRefreshOK
      PROVE  FALSE
  <2>1. Ended("socket") /\ Asking("socket")
    BY <1>5 DEF SocketRefreshOK, Outcome, Asking
  <2> QED BY <1>0, <2>1, EndedFields DEF Asking
<1>6. ASSUME LeavingDone
      PROVE  (ended => ended') /\ (~ ended' => UNCHANGED <<cookie, live>>)
  BY <1>6, SignOutFields DEF LeavingDone
<1>7. ASSUME SessionEnds \/ TokenExpires
      PROVE  (ended => ended') /\ (~ ended' => UNCHANGED <<cookie, live>>)
  BY <1>7 DEF SessionEnds, TokenExpires, clientVars
<1>8. ASSUME NEW w \in Refreshers, Grant(w) \/ Refuse(w) \/ Lose(w)
      PROVE  Refuse(w) \/ Lose(w)
  <2>1. ~ Grant(w)
    <3>1. ASSUME Grant(w) PROVE FALSE
      <4>1. refresh[w].state = "asked" /\ refresh'[w].state = "granted"
        BY <3>1, AnswerFields DEF Grant, Outcome
      <4> QED BY <4>1
    <3> QED BY <3>1
  <2> QED BY <1>8, <2>1
<1>9. ASSUME NEW w \in Refreshers, Refuse(w) \/ Lose(w)
      PROVE  (ended => ended') /\ (~ ended' => UNCHANGED <<cookie, live>>)
  <2>1. CASE Refuse(w)
    BY <2>1 DEF Refuse, serverVars
  <2>2. CASE Lose(w)
    <3>1. ended' = (ended \/ Outcome(w, "granted")) /\ UNCHANGED <<cookie, live>>
      BY <2>2 DEF Lose
    <3> QED BY <3>1
  <2> QED BY <1>9, <2>1, <2>2
<1> QED BY <1>1, <1>2, <1>3, <1>4, <1>5, <1>6, <1>7, <1>8, <1>9 DEF TokenNext

LEMMA RotationOfNext ==
    ASSUME RotationInv, [TokenNext]_tokenVars
    PROVE  RotationInv'
<1>1. TypeInv' /\ Apart'
  BY TypeOfNext, ApartOfNext DEF RotationInv
<1>2. Custody' /\ RefusedOnlyIfEnded'
  <2>1. CASE UNCHANGED tokenVars
    BY <2>1, CustodyOfRest DEF tokenVars, clientVars, serverVars
  <2>2. CASE TokenNext /\ UNCHANGED refresh
    BY <2>2, SessionOfRest, CustodyOfRest, CustodyOfLogin DEF RotationInv
  <2>3. CASE Login
    BY <2>3, CustodyOfLogin
  <2>4. ASSUME NEW w \in Refreshers, Ask(w), UNCHANGED <<token, cookie, serverVars>>
        PROVE  Custody' /\ RefusedOnlyIfEnded'
    BY <2>4, CustodyOfAsk
  <2>5. ASSUME NEW w \in Refreshers, Ended(w), UNCHANGED serverVars,
               \/ /\ Outcome(w, "granted")
                  /\ token' = refresh[w].new /\ cookie' = refresh[w].new
               \/ Failed(w) /\ UNCHANGED <<token, cookie>>
        PROVE  Custody' /\ RefusedOnlyIfEnded'
    BY <2>5, CustodyOfEnd
  <2>6. ASSUME NEW w \in Refreshers, Grant(w) \/ Refuse(w) \/ Lose(w)
        PROVE  Custody' /\ RefusedOnlyIfEnded'
    BY <2>6, CustodyOfAnswer
  <2> QED BY <2>1, <2>2, <2>3, <2>4, <2>5, <2>6, RefreshMoves DEF RotationInv
<1> QED BY <1>1, <1>2 DEF RotationInv

\* Whatever refreshes, logins and logouts are in flight, a refresh that nothing
\* overlapped is refused only when the session has been ended.
THEOREM RotationNeverLogsOut == TokenSpec => []RefusedOnlyIfEnded
<1>1. TokenInit => RotationInv
  <2> SUFFICES ASSUME TokenInit PROVE RotationInv
    OBVIOUS
  <2>1. \A w \in Refreshers : refresh[w].state = "none"
    BY DEF TokenInit, NoRefresh
  <2>2. Apart /\ RefusedOnlyIfEnded
    BY <2>1 DEF Apart, RefusedOnlyIfEnded, InFlight, Outcome, Asking
  <2>3. Custody
    BY <2>1 DEF TokenInit, Custody, Outcome
  <2> QED BY <2>2, <2>3, TypeOfInit DEF RotationInv
<1>2. RotationInv => RefusedOnlyIfEnded
  BY DEF RotationInv
<1>3. RotationInv /\ [TokenNext]_tokenVars => RotationInv'
  BY RotationOfNext
<1> QED BY <1>1, <1>2, <1>3, PTL DEF TokenSpec

-----------------------------------------------------------------------------
(* Retries                                                                 *)

\* While the interceptor's refresh is alone, what it is granted is newer than
\* any token of the tab.
Fresh ==
    Outcome("interceptor", "granted") /\ refresh["interceptor"].alone =>
        /\ token < refresh["interceptor"].new
        /\ \A c \in Calls : call[c].token < refresh["interceptor"].new

RetryInv == TypeInv /\ Apart /\ Fresh

\* What the tab holds in a step that does not end a refresh.
LEMMA FreshKept ==
    ASSUME RetryInv, TypeInv',
           Outcome("interceptor", "granted")' /\ refresh'["interceptor"].alone =>
              /\ Outcome("interceptor", "granted") /\ refresh["interceptor"].alone
              /\ refresh'["interceptor"].new = refresh["interceptor"].new
              /\ token' \in {token, 0}
              /\ \A c \in Calls : call'[c].token \in {call[c].token, token, 0}
    PROVE  Fresh'
<1> SUFFICES ASSUME Outcome("interceptor", "granted")', refresh'["interceptor"].alone
             PROVE  /\ token' < refresh'["interceptor"].new
                    /\ \A c \in Calls : call'[c].token < refresh'["interceptor"].new
  BY DEF Fresh
<1>1. /\ token < refresh["interceptor"].new
      /\ \A c \in Calls : call[c].token < refresh["interceptor"].new
  BY DEF RetryInv, Fresh
<1>2. token \in Nat /\ refresh["interceptor"].new \in Nat
  <2>1. "interceptor" \in Refreshers
    BY DEF Refreshers
  <2> QED BY <2>1 DEF RetryInv, TypeInv, TokenTypeOK, RefreshState, Tokens
<1> QED BY <1>1, <1>2

LEMMA FreshOfCall ==
    ASSUME RetryInv, TypeInv', NEW c \in Calls,
           \/ Send(c) \/ Settled(c) \/ RefusedAgain(c) \/ Queue(c) \/ Lead(c)
           \/ RefreshOK(c) \/ RefreshFails(c) \/ LogoutDone(c)
    PROVE  Fresh'
<1>0. /\ call \in [Calls -> CallState] /\ refresh \in [Refreshers -> RefreshState]
      /\ "interceptor" \in Refreshers /\ cookie \in Tokens
  <2>1. cookie \in 0..issued /\ issued \in Tokens
    BY DEF RetryInv, TypeInv, TokenTypeOK
  <2> QED BY <2>1, TokenAssumption DEF RetryInv, TypeInv, TokenTypeOK, Tokens, Refreshers
<1>1. CASE Send(c) \/ Settled(c) \/ RefusedAgain(c) \/ Queue(c)
  <2>1. UNCHANGED <<refresh, token>>
    BY <1>1 DEF Send, Settled, RefusedAgain, Queue
  <2>2. \A d \in Calls : call'[d].token \in {call[d].token, token, 0}
    BY <1>0, <1>1 DEF Send, Settled, RefusedAgain, Queue, Finished, CallState
  <2> QED BY <2>1, <2>2, FreshKept DEF Outcome
<1>2. CASE Lead(c)
  <2>1. refresh'["interceptor"].state = "asked"
    BY <1>0, <1>2, AskFields DEF Lead
  <2> QED BY <2>1 DEF Fresh, Outcome
<1>3. CASE RefreshOK(c) \/ RefreshFails(c)
  <2>1. Ended("interceptor")
    BY <1>3 DEF RefreshOK, RefreshFails
  <2> QED BY <1>0, <2>1, EndedFields DEF Fresh, Outcome, Asking
<1>4. CASE LogoutDone(c)
  <2>1. UNCHANGED refresh /\ token' = 0
    BY <1>4 DEF LogoutDone, SignOut
  <2>2. \A d \in Calls : call'[d].token \in {call[d].token, token, 0}
    BY <1>0, <1>4 DEF LogoutDone, Finished, CallState
  <2> QED BY <2>1, <2>2, FreshKept DEF Outcome
<1> QED BY <1>1, <1>2, <1>3, <1>4

LEMMA FreshOfRest ==
    ASSUME RetryInv, TypeInv',
           \/ SocketClosed \/ SocketRefreshOK \/ SocketRefreshFails
           \/ UserLogout \/ LeavingDone \/ Login \/ SessionEnds \/ TokenExpires
           \/ \E w \in Refreshers : Grant(w) \/ Refuse(w) \/ Lose(w)
    PROVE  Fresh'
<1>0. /\ refresh \in [Refreshers -> RefreshState] /\ cookie \in Tokens
      /\ "interceptor" \in Refreshers \ {"socket"} /\ "socket" \in Refreshers
  <2>1. cookie \in 0..issued /\ issued \in Tokens
    BY DEF RetryInv, TypeInv, TokenTypeOK
  <2> QED BY <2>1, TokenAssumption DEF RetryInv, TypeInv, TokenTypeOK, Tokens, Refreshers
<1>1. UNCHANGED call
  BY DEF SocketClosed, SocketRefreshOK, SocketRefreshFails, UserLogout, LeavingDone,
         Login, SessionEnds, TokenExpires, Grant, Refuse, Lose, clientVars
<1>2. CASE SocketClosed
  <2>1. UNCHANGED token /\ (UNCHANGED refresh \/ Ask("socket"))
    BY <1>2 DEF SocketClosed
  <2>2. CASE UNCHANGED refresh
    BY <1>1, <2>1, <2>2, FreshKept DEF Outcome
  <2>3. CASE Ask("socket")
    <3>1. /\ refresh'["interceptor"].state = refresh["interceptor"].state
          /\ Asking("interceptor") => ~ refresh'["interceptor"].alone
      BY <1>0, <2>3, AskFields
    <3> QED BY <3>1 DEF Fresh, Outcome, Asking
  <2> QED BY <2>1, <2>2, <2>3
<1>3. CASE SocketRefreshOK \/ SocketRefreshFails
  <2>1. Ended("socket") /\ Asking("socket") /\ (SocketRefreshFails => UNCHANGED token)
    BY <1>3 DEF SocketRefreshOK, SocketRefreshFails, Failed, Outcome, Asking
  <2>2. refresh'["interceptor"] = refresh["interceptor"]
    BY <1>0, <2>1, EndedFields
  <2>3. ~ (Outcome("interceptor", "granted") /\ refresh["interceptor"].alone)
    BY <1>0, <2>1 DEF RetryInv, Apart, InFlight
  <2> QED BY <2>2, <2>3 DEF Fresh, Outcome
<1>4. CASE UserLogout \/ SessionEnds \/ TokenExpires
  BY <1>1, <1>4, FreshKept DEF UserLogout, SessionEnds, TokenExpires, clientVars, Outcome
<1>5. CASE LeavingDone
  BY <1>1, <1>5, FreshKept DEF LeavingDone, SignOut, Outcome
<1>6. CASE Login
  <2>1. /\ refresh'["interceptor"].state = refresh["interceptor"].state
        /\ Asking("interceptor") => ~ refresh'["interceptor"].alone
    BY <1>0, <1>6, LoginFields DEF RetryInv
  <2> QED BY <2>1 DEF Fresh, Outcome, Asking
<1>7. ASSUME NEW w \in Refreshers, Grant(w) \/ Refuse(w) \/ Lose(w)
      PROVE  Fresh'
  <2>1. UNCHANGED token
    BY <1>7 DEF Grant, Refuse, Lose
  <2>2. CASE w # "interceptor"
    <3>1. refresh'["interceptor"] = refresh["interceptor"]
      BY <1>0, <1>7, <2>2, AnswerFields DEF RetryInv
    <3> QED BY <1>1, <2>1, <3>1, FreshKept DEF Outcome
  <2>3. CASE w = "interceptor" /\ Grant(w)
    <3>1. refresh'["interceptor"].new = issued' /\ issued' = issued + 1
      BY <2>3, AnswerFields DEF RetryInv, Grant
    <3>2. issued \in Nat /\ token \in 0..issued
      BY TokenAssumption DEF RetryInv, TypeInv, TokenTypeOK, Tokens
    <3>3. \A c \in Calls : call[c].token \in Nat /\ call[c].token <= issued
      BY TokenAssumption DEF RetryInv, TypeInv, TokenTypeOK, CallState, Tokens
    <3> QED BY <1>1, <2>1, <3>1, <3>2, <3>3 DEF Fresh
  <2>4. CASE w = "interceptor" /\ ~ Grant(w)
    <3>1. refresh'["interceptor"].state # "granted"
      BY <1>7, <2>4, AnswerFields DEF RetryInv
    <3> QED BY <3>1 DEF Fresh, Outcome
  <2> QED BY <2>2, <2>3, <2>4
<1> QED BY <1>2, <1>3, <1>4, <1>5, <1>6, <1>7

LEMMA RetryOfNext ==
    ASSUME RetryInv, [TokenNext]_tokenVars
    PROVE  RetryInv'
<1>1. TypeInv' /\ Apart'
  BY TypeOfNext, ApartOfNext DEF RetryInv
<1>2. CASE TokenNext
  BY <1>1, <1>2, FreshOfCall, FreshOfRest DEF TokenNext, RetryInv
<1>3. CASE UNCHANGED tokenVars
  <2>1. Fresh'
    BY <1>3 DEF RetryInv, Fresh, Outcome, tokenVars, clientVars
  <2> QED BY <1>1, <2>1 DEF RetryInv
<1> QED BY <1>2, <1>3

RetriedNewer(c) ==
    /\ Queued(c) \/ In(c, "refreshing")
    /\ In(c, "sent")'
    /\ refresh["interceptor"].alone
    => call'[c].token > call[c].token

\* Only the continuation of a refresh sends a call again.
LEMMA RetryStep ==
    ASSUME RetryInv, [TokenNext]_tokenVars, NEW c \in Calls
    PROVE  RetriedNewer(c)
<1>0. call \in [Calls -> CallState]
  BY DEF RetryInv, TypeInv, TokenTypeOK
<1> SUFFICES ASSUME Queued(c) \/ In(c, "refreshing"), In(c, "sent")',
                    refresh["interceptor"].alone
             PROVE  call'[c].token > call[c].token
  BY DEF RetriedNewer
<1>1. call'[c] # call[c]
  BY DEF In, Queued
<1>2. ~ UNCHANGED call
  BY <1>1
<1>3. PICK d \in Calls : \/ Send(d) \/ Settled(d) \/ RefusedAgain(d) \/ Queue(d) \/ Lead(d)
                         \/ RefreshOK(d) \/ RefreshFails(d) \/ LogoutDone(d)
  BY <1>2 DEF TokenNext, tokenVars, clientVars,
              SocketClosed, SocketRefreshOK, SocketRefreshFails, UserLogout, LeavingDone,
              Login, SessionEnds, TokenExpires, Grant, Refuse, Lose
<1>4. ASSUME Send(d) \/ Settled(d) \/ RefusedAgain(d) \/ Queue(d) \/ Lead(d)
      PROVE  FALSE
  <2>1. In(d, "idle") \/ In(d, "sent")
    BY <1>4 DEF Send, Settled, RefusedAgain, Queue, Lead, Unauthorized
  <2>2. \A e \in Calls \ {d} : call'[e] = call[e]
    BY <1>0, <1>4 DEF Send, Settled, RefusedAgain, Queue, Lead
  <2> QED BY <1>1, <2>1, <2>2 DEF In, Queued
<1>5. ASSUME RefreshFails(d) \/ LogoutDone(d)
      PROVE  FALSE
  <2>1. CASE RefreshFails(d)
    <3>1. \/ call'[c] = [call[c] EXCEPT !.state = "loggingOut"]
          \/ call'[c] = Finished \/ call'[c] = call[c]
      BY <2>1 DEF RefreshFails
    <3>2. call[c] \in CallState
      BY <1>0
    <3> QED BY <1>1, <3>1, <3>2 DEF In, Finished, CallState
  <2>2. CASE LogoutDone(d)
    <3>1. call'[c] = Finished \/ call'[c] = call[c]
      BY <1>0, <2>2 DEF LogoutDone
    <3> QED BY <1>1, <3>1 DEF In, Finished
  <2> QED BY <1>5, <2>1, <2>2
<1>6. ASSUME RefreshOK(d)
      PROVE  call'[c].token > call[c].token
  <2>1. /\ Outcome("interceptor", "granted") /\ token' = refresh["interceptor"].new
        /\ Released(d, token')
    BY <1>6 DEF RefreshOK
  <2>2. call[c].token < refresh["interceptor"].new
    BY <2>1 DEF RetryInv, Fresh
  <2>3. call'[c] = [call[c] EXCEPT !.state = "sent", !.token = token']
    BY <1>1, <2>1 DEF Released
  <2>4. call[c] \in CallState
    BY <1>0
  <2>5. call'[c].token = refresh["interceptor"].new
    BY <2>1, <2>3, <2>4 DEF CallState
  <2>6. call[c].token \in Nat /\ refresh["interceptor"].new \in Nat
    <3>1. "interceptor" \in Refreshers
      BY DEF Refreshers
    <3> QED BY <2>4, <3>1 DEF RetryInv, TypeInv, TokenTypeOK, RefreshState, CallState, Tokens
  <2> QED BY <2>2, <2>5, <2>6
<1> QED BY <1>3, <1>4, <1>5, <1>6

\* A call sent again after a refresh that nothing overlapped carries a newer
\* token than the one it was refused with, however many calls were held back.
THEOREM RetriesAreNewer == TokenSpec => RetriedWithNewerToken
<1>1. TokenInit => RetryInv
  <2> SUFFICES ASSUME TokenInit PROVE RetryInv
    OBVIOUS
  <2>1. \A w \in Refreshers : refresh[w].state = "none"
    BY DEF TokenInit, NoRefresh
  <2>2. Apart /\ Fresh
    BY <2>1 DEF Apart, Fresh, InFlight, Outcome, Refreshers
  <2> QED BY <2>2, TypeOfInit DEF RetryInv
<1>2. RetryInv /\ [TokenNext]_tokenVars => RetryInv'
  BY RetryOfNext
<1>3. RetryInv /\ [TokenNext]_tokenVars =>
         [\A c \in Calls :
            /\ Queued(c) \/ In(c, "refreshing")
            /\ In(c, "sent")'
            /\ refresh["interceptor"].alone
            => call'[c].token > call[c].token]_tokenVars
  BY RetryStep DEF RetriedNewer
<1> QED BY <1>1, <1>2, <1>3, PTL DEF TokenSpec, RetriedWithNewerToken

-----------------------------------------------------------------------------
(* Calls held back                                                         *)

\* A call held back behind a refresh is let go by the very step that ends the refresh,
\* sent again or rejected, and by no other: none is left in the queue of a refresh that
\* is over, and none runs ahead of it.
LetGoTogether ==
    [][\A c, d \in Calls : Queued(c) /\ In(d, "refreshing") =>
          IF In(d, "refreshing")' THEN Queued(c)' ELSE In(c, "sent")' \/ In(c, "done")']_tokenVars

\* What a call of the pages does to the calls that wait.
LEMMA HeldByCalls ==
    ASSUME TypeInv, NEW b \in Calls, NEW c \in Calls, NEW d \in Calls,
           Queued(c), In(d, "refreshing"),
           Send(b) \/ Settled(b) \/ RefusedAgain(b) \/ Queue(b) \/ Lead(b)
    PROVE  Queued(c)' /\ In(d, "refreshing")'
<1>1. call \in [Calls -> CallState]
  BY DEF TypeInv, TokenTypeOK
<1>2. b # c /\ b # d
  BY DEF Send, Settled, RefusedAgain, Queue, Lead, Unauthorized, Queued, In
<1>3. call'[c] = call[c] /\ call'[d] = call[d]
  BY <1>1, <1>2 DEF Send, Settled, RefusedAgain, Queue, Lead
<1> QED
  BY <1>3 DEF Queued, In

\* The end of a refresh, and of the logout after one that failed.
LEMMA LetGo ==
    ASSUME TypeInv, SingleFlight, NEW b \in Calls, NEW c \in Calls, NEW d \in Calls,
           Queued(c), In(d, "refreshing"),
           RefreshOK(b) \/ RefreshFails(b) \/ LogoutDone(b)
    PROVE  ~ In(d, "refreshing")' /\ (In(c, "sent")' \/ In(c, "done")')
<1>1. call \in [Calls -> CallState] /\ c # d
  BY DEF TypeInv, TokenTypeOK, Queued, In
<1>2. b = d
  BY DEF SingleFlight, RefreshOK, RefreshFails, LogoutDone
<1>3. CASE RefreshOK(b)
  <2>1. PICK with : Released(d, with)
    BY <1>2, <1>3 DEF RefreshOK
  <2>2. /\ call'[c] = [call[c] EXCEPT !.state = "sent", !.token = with]
        /\ call'[d] = [call[d] EXCEPT !.state = "sent", !.token = with]
    BY <2>1 DEF Released
  <2> QED
    BY <1>1, <2>2 DEF In, CallState
<1>4. CASE RefreshFails(b)
  <2>1. call'[c] = Finished /\ call'[d] = [call[d] EXCEPT !.state = "loggingOut"]
    BY <1>1, <1>2, <1>4 DEF RefreshFails
  <2> QED
    BY <1>1, <2>1 DEF In, Finished, CallState
<1>5. CASE LogoutDone(b)
  BY <1>2, <1>5 DEF LogoutDone, In
<1> QED
  BY <1>3, <1>4, <1>5

\* No call that was held back is forgotten, or sent before the new token is there: what
\* its release rests on, whatever the number of calls and what the socket, the pages and
\* the API do meanwhile.
THEOREM HeldBackIsLetGo == TokenSpec => LetGoTogether
<1>1. TokenInit => TypeInv /\ SingleFlight
  <2>1. ASSUME TokenInit PROVE SingleFlight
    BY <2>1 DEF TokenInit, SingleFlight, In, Asking, NoRefresh, Refreshers
  <2> QED BY <2>1, TypeOfInit
<1>2. TypeInv /\ SingleFlight /\ [TokenNext]_tokenVars => (TypeInv /\ SingleFlight)'
  BY TypeOfNext, FlightOfNext
<1>3. ASSUME TypeInv, SingleFlight, [TokenNext]_tokenVars, NEW c \in Calls, NEW d \in Calls,
             Queued(c), In(d, "refreshing")
      PROVE  IF In(d, "refreshing")' THEN Queued(c)' ELSE In(c, "sent")' \/ In(c, "done")'
  <2>1. CASE UNCHANGED call
    BY <1>3, <2>1 DEF Queued, In
  <2>2. ASSUME NEW b \in Calls, Send(b) \/ Settled(b) \/ RefusedAgain(b) \/ Queue(b) \/ Lead(b)
        PROVE  Queued(c)' /\ In(d, "refreshing")'
    BY <1>3, <2>2, HeldByCalls
  <2>3. ASSUME NEW b \in Calls, RefreshOK(b) \/ RefreshFails(b) \/ LogoutDone(b)
        PROVE  ~ In(d, "refreshing")' /\ (In(c, "sent")' \/ In(c, "done")')
    BY <1>3, <2>3, LetGo
  <2>4. \/ UNCHANGED call
        \/ \E b \in Calls : Send(b) \/ Settled(b) \/ RefusedAgain(b) \/ Queue(b) \/ Lead(b)
        \/ \E b \in Calls : RefreshOK(b) \/ RefreshFails(b) \/ LogoutDone(b)
    BY <1>3 DEF TokenNext, Grant, Refuse, Lose, SocketClosed, SocketRefreshOK, SocketRefreshFails,
           UserLogout, LeavingDone, Login, SessionEnds, TokenExpires, tokenVars, clientVars
  <2> QED
    BY <2>1, <2>2, <2>3, <2>4
<1>4. TypeInv /\ SingleFlight /\ [TokenNext]_tokenVars =>
        [\A c, d \in Calls : Queued(c) /\ In(d, "refreshing") =>
           IF In(d, "refreshing")' THEN Queued(c)' ELSE In(c, "sent")' \/ In(c, "done")']_tokenVars
  BY <1>3
<1> QED
  BY <1>1, <1>2, <1>4, PTL DEF TokenSpec, LetGoTogether
=============================================================================
