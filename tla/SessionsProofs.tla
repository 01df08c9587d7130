--------------------------- MODULE SessionsProofs ---------------------------
(* Theorems about Sessions and SessionsInSeries, for any number of         *)
(* requests, rows and tokens.                                              *)
EXTENDS SessionsInSeries, TLAPS

Requests == Calls \cup {Idle}

-----------------------------------------------------------------------------
(* Type correctness                                                        *)

LEMMA CallsDiffer ==
    /\ Idle \in Requests /\ Idle.step = "idle"
    /\ \A n \in Nat : /\ [step |-> "login", resets |-> n] \in Requests
                      /\ [step |-> "login", resets |-> n].step = "login"
    /\ \A step \in {"refresh", "others"}, s \in SessionIds :
          /\ [step |-> step, session |-> s] \in Requests
          /\ [step |-> step, session |-> s].step = step
    /\ \A old \in SUBSET ResetIds :
          /\ [step |-> "forgot", old |-> old] \in Requests
          /\ [step |-> "forgot", old |-> old].step = "forgot"
    /\ \A t \in ResetIds :
          /\ [step |-> "reset:delete", token |-> t] \in Requests
          /\ [step |-> "reset:delete", token |-> t].step = "reset:delete"
    /\ \A t \in ResetIds, S \in SUBSET SessionIds :
          /\ [step |-> "reset:commit", token |-> t, sessions |-> S] \in Requests
          /\ [step |-> "reset:commit", token |-> t, sessions |-> S].step = "reset:commit"
BY DEF Requests, Calls, Idle

\* What a request at a given step has read.
LEMMA CallFields ==
    ASSUME SessionTypeOK, NEW r \in SessionRequests
    PROVE  /\ pending[r] \in Requests
           /\ At(r, "login") => pending[r].resets \in Nat
           /\ At(r, "refresh") => pending[r].session \in SessionIds
           /\ At(r, "others") => pending[r].session \in SessionIds
           /\ At(r, "reset:delete") => pending[r].token \in ResetIds
           /\ At(r, "reset:commit") => pending[r].token \in ResetIds
BY DEF SessionTypeOK, Requests, Calls, Idle, At

LEMMA PendingMoves ==
    ASSUME SessionTypeOK, NEW r \in SessionRequests, NEW c \in Requests,
           pending' = [pending EXCEPT ![r] = c]
    PROVE  /\ pending' \in [SessionRequests -> Requests]
           /\ pending'[r] = c
           /\ \A q \in SessionRequests : q # r => pending'[q] = pending[q]
BY DEF SessionTypeOK, Requests

\* What a refreshed session inherits.
LEMMA OriginOfChild ==
    ASSUME NEW o \in Origin, NEW p \in SessionIds
    PROVE  /\ [o EXCEPT !.parent = p] \in Origin
           /\ [o EXCEPT !.parent = p].root = o.root
BY SessionAssumption DEF SessionAssumption, Origin, SessionIds

\* A step that leaves the rows of the account alone, or changes them within
\* their types without inserting a session.
LEMMA TypeKept ==
    ASSUME SessionTypeOK,
           pending' \in [SessionRequests -> Requests],
           status' \in UserStates,
           session' \in [SessionIds -> SessionStates],
           \A s \in SessionIds : HasSession(s)' => HasSession(s),
           reset' \in [ResetIds -> ResetStates],
           resets' \in Nat, uses' \in [ResetIds -> Nat],
           UNCHANGED origin
    PROVE  SessionTypeOK'
BY DEF SessionTypeOK, Requests, Inserted

\* A step that inserts session s.
LEMMA TypeInserted ==
    ASSUME SessionTypeOK, NEW s \in SessionIds, NEW from \in Origin, from.root # 0,
           pending' \in [SessionRequests -> Requests],
           session' \in [SessionIds -> SessionStates],
           \A q \in SessionIds : q # s => (HasSession(q)' => HasSession(q)),
           origin' = [origin EXCEPT ![s] = from],
           UNCHANGED <<status, reset, resets, uses>>
    PROVE  SessionTypeOK'
<1>1. origin' \in [SessionIds -> Origin]
  BY DEF SessionTypeOK
<1>2. \A q \in SessionIds : HasSession(q)' => Inserted(q)'
  BY DEF SessionTypeOK, Inserted
<1> QED
  BY <1>1, <1>2 DEF SessionTypeOK, Requests

LEMMA TypeOfReads ==
    ASSUME SessionTypeOK, NEW r \in SessionRequests, NEW c \in Requests,
           pending' = [pending EXCEPT ![r] = c],
           UNCHANGED <<session, reset, origin, resets, uses>>,
           status' \in UserStates
    PROVE  SessionTypeOK'
<1>1. pending' \in [SessionRequests -> Requests]
  BY PendingMoves
<1>2. \A s \in SessionIds : HasSession(s)' => HasSession(s)
  BY DEF HasSession
<1> QED
  BY <1>1, <1>2, TypeKept DEF SessionTypeOK

LEMMA TypeOfSteps ==
    ASSUME SessionTypeOK, SessionAssumption, NEW r \in SessionRequests, SessionStep(r)
    PROVE  SessionTypeOK'
<1>1. ASSUME LoginRead(r) \/ GoogleLoginRead(r) \/ VerifyEmail(r)
      PROVE  SessionTypeOK'
  <2>1. /\ pending' = [pending EXCEPT ![r] = [step |-> "login", resets |-> resets]]
        /\ UNCHANGED <<session, reset, origin, resets, uses>>
        /\ status' \in UserStates
    BY <1>1 DEF LoginRead, GoogleLoginRead, VerifyEmail, Begin, SessionTypeOK, UserStates
  <2>2. [step |-> "login", resets |-> resets] \in Requests
    BY CallsDiffer DEF SessionTypeOK
  <2> QED
    BY <2>1, <2>2, TypeOfReads
<1>2. ASSUME NEW s \in SessionIds, LogoutOthersRequest(r, s)
      PROVE  SessionTypeOK'
  <2>1. [step |-> "others", session |-> s] \in Requests
    BY CallsDiffer
  <2> QED
    BY <1>2, <2>1, TypeOfReads DEF LogoutOthersRequest, Begin, SessionTypeOK
<1>3. ASSUME ForgotRead(r)
      PROVE  SessionTypeOK'
  <2>1. [step |-> "forgot", old |-> {t \in ResetIds : HasReset(t)}] \in Requests
    BY CallsDiffer
  <2> QED
    BY <1>3, <2>1, TypeOfReads DEF ForgotRead, Begin, SessionTypeOK
<1>4. ASSUME NEW t \in ResetIds, ResetRead(r, t)
      PROVE  SessionTypeOK'
  <2>1. [step |-> "reset:delete", token |-> t] \in Requests
    BY CallsDiffer
  <2> QED
    BY <1>4, <2>1, TypeOfReads DEF ResetRead, Begin, SessionTypeOK
<1>5. ASSUME RequestFails(r)
      PROVE  SessionTypeOK'
  BY <1>5, CallsDiffer, TypeOfReads DEF RequestFails, Done, SessionTypeOK
<1>6. ASSUME LogoutOthersCommit(r)
      PROVE  SessionTypeOK'
  <2>1. pending' \in [SessionRequests -> Requests]
    BY <1>6, CallsDiffer, PendingMoves DEF LogoutOthersCommit, Done
  <2>2. /\ session' \in [SessionIds -> SessionStates]
        /\ \A s \in SessionIds : HasSession(s)' => HasSession(s)
    BY <1>6 DEF LogoutOthersCommit, RevokedExcept, HasSession, SessionTypeOK, SessionStates
  <2> QED
    BY <1>6, <2>1, <2>2, TypeKept DEF LogoutOthersCommit, SessionTypeOK
<1>7. ASSUME ResetDelete(r)
      PROVE  SessionTypeOK'
  <2> DEFINE call == [step |-> "reset:commit", token |-> pending[r].token,
                      sessions |-> {s \in SessionIds : HasSession(s)}]
  <2>1. call \in Requests /\ pending[r].token \in ResetIds
    BY <1>7, CallFields, CallsDiffer DEF ResetDelete
  <2>2. pending' \in [SessionRequests -> Requests]
    BY <1>7, <2>1, PendingMoves DEF ResetDelete, Goto
  <2>3. reset' \in [ResetIds -> ResetStates]
    BY <1>7, <2>1 DEF ResetDelete, SessionTypeOK, ResetStates
  <2>4. \A s \in SessionIds : HasSession(s)' => HasSession(s)
    BY <1>7 DEF ResetDelete, HasSession
  <2> QED
    BY <1>7, <2>2, <2>3, <2>4, TypeKept DEF ResetDelete, SessionTypeOK
<1>8. ASSUME ResetCommit(r)
      PROVE  SessionTypeOK'
  <2>1. pending' \in [SessionRequests -> Requests]
    BY <1>8, CallsDiffer, PendingMoves DEF ResetCommit, Done
  <2>2. /\ session' \in [SessionIds -> SessionStates]
        /\ \A s \in SessionIds : HasSession(s)' => HasSession(s)
    BY <1>8 DEF ResetCommit, HasSession, SessionTypeOK, SessionStates
  <2>3. resets' \in Nat /\ uses' \in [ResetIds -> Nat]
    BY <1>8, CallFields DEF ResetCommit, SessionTypeOK
  <2> QED
    BY <1>8, <2>1, <2>2, <2>3, TypeKept DEF ResetCommit, SessionTypeOK
<1>9. ASSUME NEW t \in ResetIds, ForgotCommit(r, t)
      PROVE  SessionTypeOK'
  <2>1. pending' \in [SessionRequests -> Requests]
    BY <1>9, CallsDiffer, PendingMoves DEF ForgotCommit, Done
  <2>2. reset' \in [ResetIds -> ResetStates]
    BY <1>9 DEF ForgotCommit, SessionTypeOK, ResetStates
  <2>3. \A s \in SessionIds : HasSession(s)' => HasSession(s)
    BY <1>9 DEF ForgotCommit, HasSession
  <2> QED
    BY <1>9, <2>1, <2>2, <2>3, TypeKept DEF ForgotCommit, SessionTypeOK
<1>10. ASSUME NEW s \in SessionIds, LoginCommit(r, s)
       PROVE  SessionTypeOK'
  <2> DEFINE from == [root |-> s, parent |-> 0, resets |-> pending[r].resets]
  <2>1. from \in Origin /\ from.root # 0
    BY <1>10, CallFields, SessionAssumption DEF LoginCommit, Origin, SessionIds
  <2>2. pending' \in [SessionRequests -> Requests]
    BY <1>10, CallsDiffer, PendingMoves DEF LoginCommit, Done
  <2>3. /\ session' \in [SessionIds -> SessionStates]
        /\ \A q \in SessionIds : q # s => (HasSession(q)' => HasSession(q))
    BY <1>10 DEF LoginCommit, HasSession, SessionTypeOK, SessionStates
  <2> QED
    BY <1>10, <2>1, <2>2, <2>3, TypeInserted DEF LoginCommit
<1>11. ASSUME NEW s \in SessionIds, RefreshCommit(r, s)
       PROVE  SessionTypeOK'
  <2> DEFINE old  == pending[r].session
             from == [origin[old] EXCEPT !.parent = old]
  <2>1. old \in SessionIds /\ Inserted(old)
    BY <1>11, CallFields DEF RefreshCommit, SessionTypeOK
  <2>2. from \in Origin /\ from.root # 0
    <3>1. origin[old] \in Origin /\ origin[old].root # 0
      BY <2>1 DEF SessionTypeOK, Inserted
    <3> HIDE DEF old
    <3> QED
      BY <2>1, <3>1, OriginOfChild
  <2>3. pending' \in [SessionRequests -> Requests]
    BY <1>11, CallsDiffer, PendingMoves DEF RefreshCommit, Done
  <2>4. /\ session' \in [SessionIds -> SessionStates]
        /\ \A q \in SessionIds : q # s => (HasSession(q)' => HasSession(q))
    BY <1>11, <2>1 DEF RefreshCommit, HasSession, SessionTypeOK, SessionStates
  <2> QED
    BY <1>11, <2>2, <2>3, <2>4, TypeInserted DEF RefreshCommit
<1> QED
  BY <1>1, <1>2, <1>3, <1>4, <1>5, <1>6, <1>7, <1>8, <1>9, <1>10, <1>11
     DEF SessionStep

\* The steps that belong to no request in flight.
Others ==
    \/ \E s \in SessionIds : Logout(s) \/ LogoutSession(s) \/ SessionExpires(s)
    \/ \E t \in ResetIds : ResetTokenExpires(t) \/ ResetExpired(t)
    \/ BanUser \/ UnbanUser \/ RestoreUser \/ DeleteMyAccount \/ DeleteUser

\* They insert nothing, bring nothing back and leave the requests alone.
LEMMA OthersTakeAway ==
    ASSUME SessionTypeOK, Others
    PROVE  /\ UNCHANGED <<pending, origin, resets, uses>>
           /\ status' \in UserStates
           /\ session' \in [SessionIds -> SessionStates]
           /\ \A s \in SessionIds : HasSession(s)' => HasSession(s)
           /\ \A s \in SessionIds : session'[s] = "live" => session[s] = "live"
           /\ reset' \in [ResetIds -> ResetStates]
           /\ \A t \in ResetIds : reset[t] = "deleted" => reset'[t] = "deleted"
<1>1. ASSUME NEW s \in SessionIds, Logout(s) \/ LogoutSession(s) \/ SessionExpires(s)
      PROVE  /\ UNCHANGED <<pending, origin, resets, uses, status, reset>>
             /\ session[s] # "absent"
             /\ \E state \in {"revoked", "expired"} :
                   session' = [session EXCEPT ![s] = state]
  BY <1>1 DEF Logout, LogoutSession, SessionExpires, Handled, HasSession
<1>2. ASSUME NEW t \in ResetIds, ResetTokenExpires(t) \/ ResetExpired(t)
      PROVE  /\ UNCHANGED <<pending, origin, resets, uses, status, session>>
             /\ reset[t] # "deleted"
             /\ \E state \in {"expired", "deleted"} :
                   reset' = [reset EXCEPT ![t] = state]
  BY <1>2 DEF ResetTokenExpires, ResetExpired, Handled
<1>3. ASSUME BanUser \/ UnbanUser \/ RestoreUser \/ DeleteMyAccount
      PROVE  /\ UNCHANGED <<pending, origin, resets, uses, reset>>
             /\ status' \in UserStates
             /\ session' = session \/ session' = RevokedExcept({})
  BY <1>3 DEF BanUser, UnbanUser, RestoreUser, DeleteMyAccount, SetStatus, Handled,
              UserStates
<1>4. ASSUME DeleteUser
      PROVE  /\ UNCHANGED <<pending, origin, resets, uses>>
             /\ status' \in UserStates
             /\ session' = [s \in SessionIds |-> "absent"]
             /\ reset' = [t \in ResetIds |-> IF HasReset(t) THEN "deleted" ELSE reset[t]]
  BY <1>4 DEF DeleteUser, Handled, UserStates
<1>5. CASE \E s \in SessionIds : Logout(s) \/ LogoutSession(s) \/ SessionExpires(s)
  BY <1>1, <1>5 DEF SessionTypeOK, SessionStates, HasSession
<1>6. CASE \E t \in ResetIds : ResetTokenExpires(t) \/ ResetExpired(t)
  BY <1>2, <1>6 DEF SessionTypeOK, ResetStates, HasSession
<1>7. CASE BanUser \/ UnbanUser \/ RestoreUser \/ DeleteMyAccount
  BY <1>3, <1>7 DEF SessionTypeOK, SessionStates, RevokedExcept, HasSession
<1>8. CASE DeleteUser
  BY <1>4, <1>8 DEF SessionTypeOK, SessionStates, ResetStates, HasSession
<1> QED
  BY <1>5, <1>6, <1>7, <1>8 DEF Others

\* A step is one of a request, the reading of a refresh, or one of the others.
LEMMA StepKinds ==
    ASSUME SessionNext
    PROVE  \/ \E r \in SessionRequests : SessionStep(r)
           \/ \E r \in RefreshRequests, s \in SessionIds : RefreshRead(r, s)
           \/ Others
BY DEF SessionNext, Others

LEMMA TypeOfNext ==
    ASSUME SessionTypeOK, SessionAssumption, [SessionNext]_sessionVars
    PROVE  SessionTypeOK'
<1>1. ASSUME NEW r \in RefreshRequests, NEW s \in SessionIds, RefreshRead(r, s)
      PROVE  SessionTypeOK'
  <2>1. r \in SessionRequests /\ [step |-> "refresh", session |-> s] \in Requests
    BY CallsDiffer, SessionAssumption DEF SessionAssumption
  <2> QED
    BY <1>1, <2>1, TypeOfReads DEF RefreshRead, Begin, SessionTypeOK
<1>2. CASE Others
  <2>1. pending' \in [SessionRequests -> Requests]
    BY <1>2, OthersTakeAway DEF SessionTypeOK, Requests
  <2> QED
    BY <1>2, <2>1, OthersTakeAway, TypeKept DEF SessionTypeOK
<1>3. CASE UNCHANGED sessionVars
  <2>1. \A s \in SessionIds : HasSession(s)' => HasSession(s)
    BY <1>3 DEF sessionVars, HasSession
  <2> QED
    BY <1>3, <2>1, TypeKept DEF sessionVars, SessionTypeOK, Requests
<1> QED
  BY <1>1, <1>2, <1>3, TypeOfSteps, StepKinds

LEMMA TypeInitially ==
    ASSUME SessionInit, SessionAssumption
    PROVE  SessionTypeOK
BY SessionAssumption
   DEF SessionAssumption, SessionInit, SessionTypeOK, UserStates, SessionStates,
       ResetStates, NoOrigin, Origin, SessionIds, HasSession

\* The rows, the requests and the histories stay well-formed, and every session
\* row has been inserted by a login or a refresh, for any number of requests.
THEOREM SessionTypeCorrect == SessionSpec => []SessionTypeOK
BY TypeInitially, TypeOfNext, SessionAssumption, PTL DEF SessionSpec

-----------------------------------------------------------------------------
(* A reset token is spent once                                             *)

\* The request that is changing the password holds the row lock alone, has
\* deleted its token and not used it yet; a used token stays deleted.
Spending ==
    /\ \A r \in SessionRequests :
          At(r, "reset:commit") => /\ reset[pending[r].token] = "deleted"
                                   /\ uses[pending[r].token] = 0
    /\ \A q, r \in SessionRequests :
          At(q, "reset:commit") /\ At(r, "reset:commit") => q = r
    /\ \A t \in ResetIds : uses[t] > 0 => reset[t] = "deleted"

SpendingInv == SessionTypeOK /\ Spending /\ ResetTokenSpentOnce

\* No request comes to change the password, no token comes back.
LEMMA SpendingKept ==
    ASSUME SpendingInv, SessionTypeOK', UNCHANGED uses,
           \A t \in ResetIds : reset[t] = "deleted" => reset'[t] = "deleted",
           \A r \in SessionRequests :
              At(r, "reset:commit")' => pending'[r] = pending[r]
    PROVE  SpendingInv'
<1>1. \A r \in SessionRequests : At(r, "reset:commit")' =>
         /\ At(r, "reset:commit")
         /\ pending'[r].token = pending[r].token
         /\ pending[r].token \in ResetIds
  BY CallFields DEF SpendingInv, At
<1> QED
  BY <1>1 DEF SpendingInv, Spending, ResetTokenSpentOnce

LEMMA SpendingOfSteps ==
    ASSUME SpendingInv, SessionTypeOK', NEW r \in SessionRequests, SessionStep(r)
    PROVE  SpendingInv'
<1> USE DEF SpendingInv
<1>1. ASSUME NEW c \in Requests, c.step # "reset:commit",
             pending' = [pending EXCEPT ![r] = c], UNCHANGED uses,
             \A t \in ResetIds : reset[t] = "deleted" => reset'[t] = "deleted"
      PROVE  SpendingInv'
  <2>1. \A q \in SessionRequests :
           At(q, "reset:commit")' => pending'[q] = pending[q]
    BY <1>1, PendingMoves DEF At
  <2> QED
    BY <1>1, <2>1, SpendingKept
<1>2. ASSUME LoginRead(r) \/ GoogleLoginRead(r) \/ VerifyEmail(r)
      PROVE  SpendingInv'
  <2>1. /\ pending' = [pending EXCEPT ![r] = [step |-> "login", resets |-> resets]]
        /\ UNCHANGED <<reset, uses>>
    BY <1>2 DEF LoginRead, GoogleLoginRead, VerifyEmail, Begin
  <2>2. [step |-> "login", resets |-> resets] \in Requests
    BY CallsDiffer DEF SessionTypeOK
  <2> QED
    BY <1>1, <2>1, <2>2
<1>3. ASSUME NEW s \in SessionIds, LogoutOthersRequest(r, s)
      PROVE  SpendingInv'
  <2>1. [step |-> "others", session |-> s] \in Requests
    BY CallsDiffer
  <2> QED
    BY <1>1, <1>3, <2>1 DEF LogoutOthersRequest, Begin
<1>4. ASSUME ForgotRead(r)
      PROVE  SpendingInv'
  <2>1. [step |-> "forgot", old |-> {t \in ResetIds : HasReset(t)}] \in Requests
    BY CallsDiffer
  <2> QED
    BY <1>1, <1>4, <2>1 DEF ForgotRead, Begin
<1>5. ASSUME NEW t \in ResetIds, ResetRead(r, t)
      PROVE  SpendingInv'
  <2>1. [step |-> "reset:delete", token |-> t] \in Requests
    BY CallsDiffer
  <2> QED
    BY <1>1, <1>5, <2>1 DEF ResetRead, Begin
<1>6. ASSUME \/ RequestFails(r) \/ LogoutOthersCommit(r)
             \/ \E s \in SessionIds : LoginCommit(r, s) \/ RefreshCommit(r, s)
      PROVE  SpendingInv'
  BY <1>1, <1>6, CallsDiffer
     DEF RequestFails, LogoutOthersCommit, LoginCommit, RefreshCommit, Done
<1>7. ASSUME NEW t \in ResetIds, ForgotCommit(r, t)
      PROVE  SpendingInv'
  <2>1. \A q \in ResetIds : reset[q] = "deleted" => reset'[q] = "deleted"
    BY <1>7 DEF ForgotCommit, IsNextReset
  <2> QED
    BY <1>1, <1>7, <2>1, CallsDiffer DEF ForgotCommit, Done
<1>8. ASSUME ResetDelete(r)
      PROVE  SpendingInv'
  <2> DEFINE t    == pending[r].token
             call == [step |-> "reset:commit", token |-> t,
                      sessions |-> {s \in SessionIds : HasSession(s)}]
  <2>1. t \in ResetIds /\ reset[t] # "deleted"
    BY <1>8, CallFields DEF ResetDelete, HasReset
  <2>2. uses[t] = 0
    BY <2>1 DEF Spending, SessionTypeOK
  <2>3. call \in Requests
    BY <2>1, CallsDiffer
  <2>4. /\ pending'[r] = call
        /\ \A q \in SessionRequests : q # r => pending'[q] = pending[q]
    BY <1>8, <2>3, PendingMoves DEF ResetDelete, Goto
  <2>5. \A q \in SessionRequests : At(q, "reset:commit")' => q = r
    BY <1>8, <2>4 DEF ResetDelete, UserRowFree, At
  <2>6. reset' = [reset EXCEPT ![t] = "deleted"] /\ uses' = uses
    BY <1>8 DEF ResetDelete
  <2>7. reset'[t] = "deleted" /\ pending'[r].token = t
    BY <2>1, <2>4, <2>6 DEF SessionTypeOK
  <2>8. \A q \in ResetIds : reset[q] = "deleted" => reset'[q] = "deleted"
    BY <2>1, <2>6 DEF SessionTypeOK
  <2> HIDE DEF t, call
  <2>9. Spending'
    BY <2>1, <2>2, <2>5, <2>6, <2>7, <2>8 DEF Spending
  <2> QED
    BY <2>6, <2>9 DEF ResetTokenSpentOnce
<1>9. ASSUME ResetCommit(r)
      PROVE  SpendingInv'
  <2> DEFINE t == pending[r].token
  <2>1. /\ t \in ResetIds /\ reset[t] = "deleted" /\ uses[t] = 0
        /\ \A q \in SessionRequests : At(q, "reset:commit") => q = r
    BY <1>9, CallFields DEF ResetCommit, Spending
  <2>2. \A q \in SessionRequests : ~ At(q, "reset:commit")'
    BY <1>9, <2>1, CallsDiffer, PendingMoves DEF ResetCommit, Done, At
  <2>3. uses' = [uses EXCEPT ![t] = uses[t] + 1] /\ reset' = reset
    BY <1>9 DEF ResetCommit
  <2> HIDE DEF t
  <2>4. \A q \in ResetIds : uses'[q] = IF q = t THEN 1 ELSE uses[q]
    BY <2>1, <2>3 DEF SessionTypeOK
  <2> QED
    BY <2>1, <2>2, <2>3, <2>4 DEF Spending, ResetTokenSpentOnce
<1> QED
  BY <1>2, <1>3, <1>4, <1>5, <1>6, <1>7, <1>8, <1>9 DEF SessionStep

LEMMA SpendingOfNext ==
    ASSUME SpendingInv, [SessionNext]_sessionVars
    PROVE  SpendingInv'
<1>1. SessionTypeOK'
  BY TypeOfNext, SessionAssumption DEF SpendingInv
<1>2. ASSUME NEW r \in RefreshRequests, NEW s \in SessionIds, RefreshRead(r, s)
      PROVE  SpendingInv'
  <2>1. r \in SessionRequests /\ [step |-> "refresh", session |-> s] \in Requests
    BY CallsDiffer, SessionAssumption DEF SessionAssumption
  <2>2. \A q \in SessionRequests :
           At(q, "reset:commit")' => pending'[q] = pending[q]
    BY <1>2, <2>1, PendingMoves, CallsDiffer DEF RefreshRead, Begin, At, SpendingInv
  <2> QED
    BY <1>1, <1>2, <2>2, SpendingKept DEF RefreshRead
<1>3. CASE Others
  BY <1>1, <1>3, OthersTakeAway, SpendingKept DEF SpendingInv
<1>4. CASE UNCHANGED sessionVars
  BY <1>1, <1>4, SpendingKept DEF sessionVars
<1> QED
  BY <1>1, <1>2, <1>3, <1>4, SpendingOfSteps, StepKinds

LEMMA SpendingInitially ==
    ASSUME SessionInit
    PROVE  SpendingInv
BY TypeInitially, SessionAssumption
   DEF SpendingInv, Spending, ResetTokenSpentOnce, SessionInit, At, Idle

\* Whatever requests overlap, a reset token changes the password once at most.
THEOREM ResetTokensSpentOnce == SessionSpec => []ResetTokenSpentOnce
<1>1. SpendingInv => ResetTokenSpentOnce
  BY DEF SpendingInv
<1> QED
  BY <1>1, SpendingInitially, SpendingOfNext, PTL DEF SessionSpec

-----------------------------------------------------------------------------
(* One live session per login, if refreshes do not overlap                 *)

OneRefresh == \A q, r \in RefreshRequests : q = r

\* A session descends from a login that inserted its row first; only refresh
\* requests refresh; and while one does, the session it has read is the only
\* one of its login that may be live.
Descent ==
    /\ \A s \in SessionIds :
          Inserted(s) => origin[s].root \in SessionIds /\ Inserted(origin[s].root)
    /\ \A r \in SessionRequests : At(r, "refresh") =>
          /\ r \in RefreshRequests
          /\ Inserted(pending[r].session)
          /\ \A s \in SessionIds :
                /\ session[s] = "live"
                /\ origin[s].root = origin[pending[r].session].root
                => s = pending[r].session

DescentInv == SessionTypeOK /\ Descent /\ OneLivePerLogin

\* Nothing is inserted, nothing becomes live, and no refresh begins.
LEMMA DescentKept ==
    ASSUME DescentInv, SessionTypeOK', UNCHANGED origin,
           \A s \in SessionIds : session'[s] = "live" => session[s] = "live",
           \A r \in SessionRequests :
              At(r, "refresh")' => pending'[r] = pending[r]
    PROVE  DescentInv'
<1>1. \A r \in SessionRequests : At(r, "refresh")' =>
         /\ At(r, "refresh")
         /\ pending'[r].session = pending[r].session
  BY DEF At
<1>2. Descent'
  BY <1>1 DEF DescentInv, Descent, Inserted
<1>3. OneLivePerLogin'
  BY DEF DescentInv, OneLivePerLogin
<1> QED
  BY <1>2, <1>3 DEF DescentInv

LEMMA DescentOfSteps ==
    ASSUME DescentInv, SessionTypeOK', OneRefresh, NEW r \in SessionRequests,
           SessionStep(r)
    PROVE  DescentInv'
<1> USE DEF DescentInv
<1>1. ASSUME NEW c \in Requests, c.step # "refresh",
             pending' = [pending EXCEPT ![r] = c], UNCHANGED origin,
             \A s \in SessionIds : session'[s] = "live" => session[s] = "live"
      PROVE  DescentInv'
  <2>1. \A q \in SessionRequests : At(q, "refresh")' => pending'[q] = pending[q]
    BY <1>1, PendingMoves DEF At
  <2> QED
    BY <1>1, <2>1, DescentKept
<1>2. ASSUME LoginRead(r) \/ GoogleLoginRead(r) \/ VerifyEmail(r)
      PROVE  DescentInv'
  <2>1. /\ pending' = [pending EXCEPT ![r] = [step |-> "login", resets |-> resets]]
        /\ UNCHANGED <<session, origin>>
    BY <1>2 DEF LoginRead, GoogleLoginRead, VerifyEmail, Begin
  <2>2. [step |-> "login", resets |-> resets] \in Requests
    BY CallsDiffer DEF SessionTypeOK
  <2> QED
    BY <1>1, <2>1, <2>2
<1>3. ASSUME NEW s \in SessionIds, LogoutOthersRequest(r, s)
      PROVE  DescentInv'
  <2>1. [step |-> "others", session |-> s] \in Requests
    BY CallsDiffer
  <2> QED
    BY <1>1, <1>3, <2>1 DEF LogoutOthersRequest, Begin
<1>4. ASSUME ForgotRead(r)
      PROVE  DescentInv'
  <2>1. [step |-> "forgot", old |-> {t \in ResetIds : HasReset(t)}] \in Requests
    BY CallsDiffer
  <2> QED
    BY <1>1, <1>4, <2>1 DEF ForgotRead, Begin
<1>5. ASSUME NEW t \in ResetIds, ResetRead(r, t)
      PROVE  DescentInv'
  <2>1. [step |-> "reset:delete", token |-> t] \in Requests
    BY CallsDiffer
  <2> QED
    BY <1>1, <1>5, <2>1 DEF ResetRead, Begin
<1>6. ASSUME ResetDelete(r)
      PROVE  DescentInv'
  <2> DEFINE call == [step |-> "reset:commit", token |-> pending[r].token,
                      sessions |-> {s \in SessionIds : HasSession(s)}]
  <2>1. call \in Requests /\ call.step = "reset:commit"
    BY <1>6, CallFields, CallsDiffer DEF ResetDelete
  <2>2. pending' = [pending EXCEPT ![r] = call] /\ UNCHANGED <<session, origin>>
    BY <1>6 DEF ResetDelete, Goto
  <2> HIDE DEF call
  <2> QED
    BY <1>1, <2>1, <2>2
<1>7. ASSUME \/ RequestFails(r)
             \/ \E t \in ResetIds : ForgotCommit(r, t)
      PROVE  DescentInv'
  BY <1>1, <1>7, CallsDiffer DEF RequestFails, ForgotCommit, Done
<1>8. ASSUME LogoutOthersCommit(r) \/ ResetCommit(r)
      PROVE  DescentInv'
  <2>1. \A s \in SessionIds : session'[s] = "live" => session[s] = "live"
    BY <1>8 DEF LogoutOthersCommit, ResetCommit, RevokedExcept
  <2> QED
    BY <1>1, <1>8, <2>1, CallsDiffer DEF LogoutOthersCommit, ResetCommit, Done
<1>9. ASSUME NEW s \in SessionIds, LoginCommit(r, s)
      PROVE  DescentInv'
  <2> DEFINE from == [root |-> s, parent |-> 0, resets |-> pending[r].resets]
  <2>1. /\ ~ Inserted(s)
        /\ session' = [session EXCEPT ![s] = "live"]
        /\ origin' = [origin EXCEPT ![s] = from]
        /\ pending' = [pending EXCEPT ![r] = Idle]
    BY <1>9 DEF LoginCommit, IsNextSession, Done
  <2>2. /\ origin'[s].root = s
        /\ \A q \in SessionIds : q # s => /\ origin'[q] = origin[q]
                                          /\ session'[q] = session[q]
    BY <2>1 DEF SessionTypeOK
  <2>3. s # 0
    BY SessionAssumption DEF SessionIds, SessionAssumption
  <2>4. \A q \in SessionIds : Inserted(q) => q # s /\ origin[q].root # s
    BY <2>1 DEF Descent
  <2>5. \A q \in SessionRequests : At(q, "refresh")' =>
           At(q, "refresh") /\ pending'[q] = pending[q]
    BY <2>1, CallsDiffer, PendingMoves DEF At
  <2>6. \A q \in SessionRequests : At(q, "refresh") => pending[q].session \in SessionIds
    BY CallFields
  <2>7. \A q \in SessionIds : session[q] = "live" => Inserted(q)
    BY DEF SessionTypeOK, HasSession
  <2> HIDE DEF from
  <2>8. Descent'
    BY <2>2, <2>3, <2>4, <2>5, <2>6, <2>7 DEF Descent, Inserted
  <2>9. OneLivePerLogin'
    BY <2>2, <2>4, <2>7 DEF OneLivePerLogin
  <2> QED
    BY <2>8, <2>9
<1>10. ASSUME NEW s \in SessionIds, RefreshCommit(r, s)
       PROVE  DescentInv'
  <2> DEFINE old == pending[r].session
             from == [origin[old] EXCEPT !.parent = old]
  <2>1. /\ old \in SessionIds /\ Inserted(old)
        /\ r \in RefreshRequests
        /\ \A q \in SessionIds :
              session[q] = "live" /\ origin[q].root = origin[old].root => q = old
    BY <1>10, CallFields DEF RefreshCommit, Descent
  <2>2. /\ ~ Inserted(s)
        /\ session' = [session EXCEPT ![s] = "live", ![old] = "revoked"]
        /\ origin' = [origin EXCEPT ![s] = from]
        /\ pending' = [pending EXCEPT ![r] = Idle]
    BY <1>10 DEF RefreshCommit, IsNextSession, Done
  <2>3. from.root = origin[old].root
    <3>1. origin[old] \in Origin
      BY <2>1 DEF SessionTypeOK
    <3> HIDE DEF old
    <3> QED
      BY <2>1, <3>1, OriginOfChild
  <2> HIDE DEF old, from
  <2>4. s # old
    BY <2>1, <2>2
  <2>5. /\ origin'[s].root = origin[old].root
        /\ session'[old] = "revoked"
        /\ \A q \in SessionIds : q # s => origin'[q] = origin[q]
        /\ \A q \in SessionIds : q # s /\ q # old => session'[q] = session[q]
    BY <2>1, <2>2, <2>3, <2>4 DEF SessionTypeOK
  <2>6. \A q \in SessionRequests : ~ At(q, "refresh")'
    <3> SUFFICES ASSUME NEW q \in SessionRequests, At(q, "refresh")'
                 PROVE  FALSE
      OBVIOUS
    <3>1. At(q, "refresh") /\ q # r
      BY <2>2, CallsDiffer, PendingMoves DEF At
    <3>2. q \in RefreshRequests
      BY <3>1 DEF Descent
    <3> QED
      BY <2>1, <3>1, <3>2 DEF OneRefresh
  <2>7. \A q \in SessionIds : session[q] = "live" => Inserted(q)
    BY DEF SessionTypeOK, HasSession
  <2>8. Descent'
    <3>1. \A q \in SessionIds : Inserted(q) => Inserted(q)' /\ q # s
      BY <2>2, <2>5 DEF Inserted
    <3>2. ASSUME NEW q \in SessionIds, Inserted(q)'
          PROVE  origin'[q].root \in SessionIds /\ Inserted(origin[q].root)'
      <4>1. CASE q = s
        <5>1. origin[old].root \in SessionIds /\ Inserted(origin[old].root)
          BY <2>1 DEF Descent
        <5>2. origin'[origin'[q].root].root # 0
          BY <2>2, <2>5, <4>1, <5>1 DEF Inserted
        <5> QED
          BY <2>5, <4>1, <5>1, <5>2 DEF Inserted
      <4>2. CASE q # s
        <5>1. origin[q].root \in SessionIds /\ Inserted(origin[q].root)
          BY <2>5, <3>2, <4>2 DEF Descent, Inserted
        <5>2. origin'[origin'[q].root].root # 0
          BY <2>2, <2>5, <4>2, <5>1 DEF Inserted
        <5> QED
          BY <2>5, <4>2, <5>1, <5>2 DEF Inserted
      <4> QED
        BY <4>1, <4>2
    <3> QED
      BY <2>6, <3>2 DEF Descent
  <2>9. OneLivePerLogin'
    BY <2>1, <2>2, <2>4, <2>5, <2>7 DEF OneLivePerLogin
  <2> QED
    BY <2>8, <2>9
<1> QED
  BY <1>2, <1>3, <1>4, <1>5, <1>6, <1>7, <1>8, <1>9, <1>10 DEF SessionStep

LEMMA DescentOfNext ==
    ASSUME DescentInv, OneRefresh, [SessionNext]_sessionVars
    PROVE  DescentInv'
<1>1. SessionTypeOK'
  BY TypeOfNext, SessionAssumption DEF DescentInv
<1>2. ASSUME NEW r \in RefreshRequests, NEW s \in SessionIds, RefreshRead(r, s)
      PROVE  DescentInv'
  <2> DEFINE call == [step |-> "refresh", session |-> s]
  <2>1. r \in SessionRequests /\ call \in Requests
    BY CallsDiffer, SessionAssumption DEF SessionAssumption
  <2>2. /\ session[s] = "live" /\ Inserted(s)
        /\ UNCHANGED <<session, origin>>
        /\ pending' = [pending EXCEPT ![r] = call]
    BY <1>2 DEF RefreshRead, Begin, DescentInv, SessionTypeOK, HasSession
  <2>3. /\ pending'[r].session = s
        /\ \A q \in SessionRequests : q # r => pending'[q] = pending[q]
    BY <2>1, <2>2, PendingMoves DEF DescentInv
  <2> HIDE DEF call
  <2>4. Descent'
    BY <1>2, <2>2, <2>3 DEF DescentInv, Descent, OneLivePerLogin, Inserted, At
  <2>5. OneLivePerLogin'
    BY <2>2 DEF DescentInv, OneLivePerLogin
  <2> QED
    BY <1>1, <2>4, <2>5 DEF DescentInv
<1>3. CASE Others
  BY <1>1, <1>3, OthersTakeAway, DescentKept DEF DescentInv
<1>4. CASE UNCHANGED sessionVars
  BY <1>1, <1>4, DescentKept DEF sessionVars
<1> QED
  BY <1>1, <1>2, <1>3, <1>4, DescentOfSteps, StepKinds

LEMMA DescentInitially ==
    ASSUME SessionInit
    PROVE  DescentInv
BY TypeInitially, SessionAssumption
   DEF DescentInv, Descent, OneLivePerLogin, SessionInit, At, Idle, Inserted, NoOrigin

\* If at most one request at a time may refresh, a login never has two sessions
\* that can be refreshed, whatever other requests overlap with it.
THEOREM OneLiveWithoutOverlap ==
    ASSUME OneRefresh
    PROVE  SessionSpec => []OneLivePerLogin
<1>1. DescentInv => OneLivePerLogin
  BY DEF DescentInv
<1>2. DescentInv /\ [SessionNext]_sessionVars => DescentInv'
  BY DescentOfNext, OneRefresh
<1> QED
  BY <1>1, <1>2, DescentInitially, PTL DEF SessionSpec

-----------------------------------------------------------------------------
(* The caller of logoutAllOtherSessions                                    *)

\* Whatever requests overlap, a session that is still live when its owner's request
\* to log out of the others revokes them is left live.
THEOREM CallersAreSpared == SessionSpec => LogoutOthersSparesCaller
<1>1. ASSUME SessionTypeOK, [SessionNext]_sessionVars,
             NEW r \in SessionRequests, At(r, "others"),
             session[pending[r].session] = "live", pending'[r] = Idle
      PROVE  session'[pending[r].session] = "live"
  <2>1. pending[r].session \in SessionIds /\ pending[r].step = "others"
    BY <1>1, CallFields DEF At
  <2>2. pending'[r] # pending[r]
    BY <1>1, <2>1 DEF Idle
  <2>3. ASSUME NEW q \in SessionRequests, NEW c \in Requests, c.step # "idle",
               Begin(q, c)
        PROVE  FALSE
    <3>1. pending' = [pending EXCEPT ![q] = c] /\ pending[q].step = "idle"
      BY <2>3 DEF Begin, At
    <3>2. q # r
      BY <2>1, <3>1
    <3> QED
      BY <1>1, <2>2, <2>3, <3>1, <3>2, PendingMoves
  <2>4. ASSUME NEW q \in SessionRequests, SessionStep(q)
        PROVE  LogoutOthersCommit(r) \/ RequestFails(r)
    <3>1. pending' = [pending EXCEPT ![q] = pending'[q]]
      BY <2>4 DEF SessionStep, LoginRead, GoogleLoginRead, VerifyEmail, LogoutOthersCommit,
                  ForgotRead, ResetDelete, ResetCommit, RequestFails, LoginCommit, RefreshCommit,
                  LogoutOthersRequest, ForgotCommit, ResetRead, Begin, Goto, Done, SessionTypeOK
    <3>2. q = r
      BY <1>1, <2>2, <3>1 DEF SessionTypeOK
    <3> QED
      BY <2>1, <2>4, <3>2
         DEF SessionStep, LoginRead, GoogleLoginRead, VerifyEmail, ForgotRead, ResetDelete,
             ResetCommit, LoginCommit, RefreshCommit, LogoutOthersRequest, ForgotCommit,
             ResetRead, Begin, At
  <2>5. ASSUME NEW q \in RefreshRequests, NEW s \in SessionIds, RefreshRead(q, s)
        PROVE  FALSE
    BY <2>3, <2>5, CallsDiffer, SessionAssumption DEF RefreshRead, SessionAssumption
  <2>6. CASE Others
    BY <1>1, <2>2, <2>6, OthersTakeAway
  <2>7. CASE UNCHANGED sessionVars
    BY <2>2, <2>7 DEF sessionVars
  <2>8. CASE LogoutOthersCommit(r) \/ RequestFails(r)
    BY <1>1, <2>1, <2>8 DEF LogoutOthersCommit, RequestFails, RevokedExcept
  <2> QED
    BY <1>1, <2>4, <2>5, <2>6, <2>7, <2>8, StepKinds
<1>2. SessionTypeOK /\ [SessionNext]_sessionVars
         => [\A r \in SessionRequests :
                At(r, "others") /\ session[pending[r].session] = "live" /\ pending'[r] = Idle
                => session'[pending[r].session] = "live"]_sessionVars
  BY <1>1
<1> QED
  BY <1>2, SessionTypeCorrect, PTL DEF SessionSpec, LogoutOthersSparesCaller

-----------------------------------------------------------------------------
(* Requests that do not overlap                                            *)

\* What a request has read still holds, apart from a session that has expired.
StillSo(r) ==
    /\ At(r, "login") => /\ pending[r].resets = resets
                         /\ viaGoogle \/ status = "ACTIVE"
    /\ At(r, "refresh") => /\ session[pending[r].session] \in {"live", "expired"}
                           /\ viaGoogle \/ status # "SUSPENDED"
    /\ At(r, "reset:commit") =>
          \A s \in SessionIds : HasSession(s) => s \in pending[r].sessions

RowsAreCurrent == \A s \in SessionIds : HasSession(s) => origin[s].resets = resets

OneInFlight == \A q, r \in SessionRequests : ~ At(q, "idle") /\ ~ At(r, "idle") => q = r

Serial ==
    /\ OneInFlight
    /\ RowsAreCurrent
    /\ ~ viaGoogle => BannedIsLoggedOut
    /\ \A r \in SessionRequests : StillSo(r)

SerialInv == SessionTypeOK /\ (~ overlapped => Serial)

LEMMA IdleKnowsNothing ==
    ASSUME NEW r \in SessionRequests, At(r, "idle") PROVE StillSo(r)
  BY DEF At, StillSo

\* A request moves while no other is in flight.
LEMMA SerialMoves ==
    ASSUME SessionTypeOK, Serial, ~ Overlaps,
           NEW r \in SessionRequests, NEW c \in Requests,
           pending' = [pending EXCEPT ![r] = c], c.step # "idle" \/ ~ At(r, "idle"),
           RowsAreCurrent', ~ viaGoogle' => BannedIsLoggedOut', StillSo(r)'
    PROVE  Serial'
<1>1. /\ pending'[r] = c
      /\ \A q \in SessionRequests : q # r => pending'[q] = pending[q]
  BY PendingMoves
<1>2. ASSUME NEW q \in SessionRequests, q # r PROVE At(q, "idle")'
  <2>1. CASE c.step # "idle"
    BY <1>1, <1>2, <2>1 DEF Overlaps, InFlight, At
  <2>2. CASE ~ At(r, "idle")
    BY <1>1, <1>2, <2>2 DEF Serial, OneInFlight, At
  <2> QED
    BY <2>1, <2>2
<1>3. OneInFlight'
  BY <1>2 DEF OneInFlight
<1>4. ASSUME NEW q \in SessionRequests PROVE StillSo(q)'
  <2>1. CASE q = r
    BY <2>1
  <2>2. CASE q # r
    BY <1>2, <2>2 DEF At, StillSo
  <2> QED
    BY <2>1, <2>2
<1> QED
  BY <1>3, <1>4 DEF Serial

\* A request moves, and no session is inserted or comes to life.
LEMMA SerialRests ==
    ASSUME SessionTypeOK, Serial, ~ Overlaps,
           NEW r \in SessionRequests, NEW c \in Requests,
           pending' = [pending EXCEPT ![r] = c], c.step # "idle" \/ ~ At(r, "idle"),
           UNCHANGED <<origin, resets>>, viaGoogle => viaGoogle',
           \A s \in SessionIds : HasSession(s)' => HasSession(s),
           \A s \in SessionIds : session'[s] = "live" => session[s] = "live",
           status' = status \/ status' = "ACTIVE",
           StillSo(r)'
    PROVE  Serial'
<1>1. RowsAreCurrent'
  BY DEF Serial, RowsAreCurrent
<1>2. ~ viaGoogle' => BannedIsLoggedOut'
  BY DEF Serial, BannedIsLoggedOut
<1> QED
  BY <1>1, <1>2, SerialMoves

\* A request moves to a step at which nothing is expected of the rows.
LEMMA SerialReads ==
    ASSUME SessionTypeOK, Serial, ~ Overlaps, viaGoogle => viaGoogle',
           NEW r \in SessionRequests, NEW c \in Requests,
           pending' = [pending EXCEPT ![r] = c], c.step # "idle" \/ ~ At(r, "idle"),
           c.step \notin {"login", "refresh", "reset:commit"},
           UNCHANGED <<status, session, origin, resets>>
    PROVE  Serial'
<1>1. StillSo(r)'
  BY PendingMoves DEF At, StillSo
<1>2. \A s \in SessionIds : HasSession(s)' => HasSession(s)
  BY DEF HasSession
<1> QED
  BY <1>1, <1>2, SerialRests

LEMMA SerialOfSteps ==
    ASSUME SessionTypeOK, Serial, ~ Overlaps, NEW r \in SessionRequests, SessionStep(r),
           viaGoogle' = (viaGoogle \/ (status # "ACTIVE" /\ \E q \in SessionRequests :
                                          GoogleLoginRead(q)))
    PROVE  Serial'
<1>0. viaGoogle => viaGoogle'
  OBVIOUS
<1>1. ASSUME LoginRead(r) \/ GoogleLoginRead(r) \/ VerifyEmail(r)
      PROVE  Serial'
  <2> DEFINE call == [step |-> "login", resets |-> resets]
  <2>1. /\ pending' = [pending EXCEPT ![r] = call]
        /\ UNCHANGED <<session, origin, resets>>
        /\ status' = status \/ status' = "ACTIVE"
        /\ viaGoogle' \/ status' = "ACTIVE"
    BY <1>1 DEF LoginRead, GoogleLoginRead, VerifyEmail, Begin
  <2>2. call \in Requests /\ call.step = "login" /\ call.resets = resets
    BY CallsDiffer DEF SessionTypeOK
  <2> HIDE DEF call
  <2>3. StillSo(r)'
    BY <2>1, <2>2, PendingMoves DEF StillSo, At
  <2>4. \A s \in SessionIds : HasSession(s)' => HasSession(s)
    BY <2>1 DEF HasSession
  <2> QED
    BY <1>0, <2>1, <2>2, <2>3, <2>4, SerialRests
<1>2. ASSUME NEW s \in SessionIds, LogoutOthersRequest(r, s)
      PROVE  Serial'
  <2> DEFINE call == [step |-> "others", session |-> s]
  <2>1. call \in Requests /\ call.step = "others"
    BY CallsDiffer
  <2>2. pending' = [pending EXCEPT ![r] = call] /\ UNCHANGED <<status, session, origin, resets>>
    BY <1>2 DEF LogoutOthersRequest, Begin
  <2> HIDE DEF call
  <2> QED
    BY <1>0, <2>1, <2>2, SerialReads
<1>3. ASSUME ForgotRead(r)
      PROVE  Serial'
  <2> DEFINE call == [step |-> "forgot", old |-> {t \in ResetIds : HasReset(t)}]
  <2>1. call \in Requests /\ call.step = "forgot"
    BY CallsDiffer
  <2>2. pending' = [pending EXCEPT ![r] = call] /\ UNCHANGED <<status, session, origin, resets>>
    BY <1>3 DEF ForgotRead, Begin
  <2> HIDE DEF call
  <2> QED
    BY <1>0, <2>1, <2>2, SerialReads
<1>4. ASSUME NEW t \in ResetIds, ResetRead(r, t)
      PROVE  Serial'
  <2> DEFINE call == [step |-> "reset:delete", token |-> t]
  <2>1. call \in Requests /\ call.step = "reset:delete"
    BY CallsDiffer
  <2>2. pending' = [pending EXCEPT ![r] = call] /\ UNCHANGED <<status, session, origin, resets>>
    BY <1>4 DEF ResetRead, Begin
  <2> HIDE DEF call
  <2> QED
    BY <1>0, <2>1, <2>2, SerialReads
<1>5. ASSUME RequestFails(r) \/ \E t \in ResetIds : ForgotCommit(r, t)
      PROVE  Serial'
  <2>1. /\ pending' = [pending EXCEPT ![r] = Idle] /\ ~ At(r, "idle")
        /\ UNCHANGED <<status, session, origin, resets>>
    BY <1>5 DEF RequestFails, ForgotCommit, Done, At
  <2> QED
    BY <1>0, <2>1, CallsDiffer, SerialReads
<1>6. ASSUME LogoutOthersCommit(r)
      PROVE  Serial'
  <2>1. /\ pending' = [pending EXCEPT ![r] = Idle] /\ ~ At(r, "idle")
        /\ UNCHANGED <<status, origin, resets>>
    BY <1>6 DEF LogoutOthersCommit, Done, At
  <2>2. /\ \A s \in SessionIds : HasSession(s)' => HasSession(s)
        /\ \A s \in SessionIds : session'[s] = "live" => session[s] = "live"
    BY <1>6 DEF LogoutOthersCommit, RevokedExcept, HasSession
  <2>3. StillSo(r)'
    BY <2>1, CallsDiffer, PendingMoves DEF StillSo, At
  <2> QED
    BY <1>0, <2>1, <2>2, <2>3, CallsDiffer, SerialRests
<1>7. ASSUME ResetDelete(r)
      PROVE  Serial'
  <2> DEFINE call == [step |-> "reset:commit", token |-> pending[r].token,
                      sessions |-> {s \in SessionIds : HasSession(s)}]
  <2>1. /\ call \in Requests /\ call.step = "reset:commit"
        /\ \A s \in SessionIds : HasSession(s) => s \in call.sessions
    BY <1>7, CallFields, CallsDiffer DEF ResetDelete
  <2>2. /\ pending' = [pending EXCEPT ![r] = call]
        /\ UNCHANGED <<status, session, origin, resets>>
    BY <1>7 DEF ResetDelete, Goto
  <2> HIDE DEF call
  <2>3. \A s \in SessionIds : HasSession(s)' => HasSession(s)
    BY <2>2 DEF HasSession
  <2>4. StillSo(r)'
    BY <2>1, <2>2, <2>3, PendingMoves DEF StillSo, At
  <2> QED
    BY <1>0, <2>1, <2>2, <2>3, <2>4, SerialRests
<1>8. ASSUME ResetCommit(r)
      PROVE  Serial'
  <2>1. /\ pending' = [pending EXCEPT ![r] = Idle] /\ ~ At(r, "idle")
        /\ \A s \in SessionIds : HasSession(s) => s \in pending[r].sessions
    BY <1>8 DEF ResetCommit, Done, At, Serial, StillSo
  <2>2. \A s \in SessionIds : session'[s] = "absent"
    BY <1>8, <2>1 DEF ResetCommit, HasSession
  <2>3. RowsAreCurrent' /\ BannedIsLoggedOut'
    BY <2>2 DEF RowsAreCurrent, BannedIsLoggedOut, HasSession
  <2>4. StillSo(r)'
    BY <2>1, CallsDiffer, PendingMoves DEF StillSo, At
  <2> QED
    BY <2>1, <2>3, <2>4, CallsDiffer, SerialMoves
<1>9. ASSUME NEW s \in SessionIds, LoginCommit(r, s)
      PROVE  Serial'
  <2> DEFINE from == [root |-> s, parent |-> 0, resets |-> pending[r].resets]
  <2>1. /\ pending' = [pending EXCEPT ![r] = Idle] /\ ~ At(r, "idle")
        /\ session' = [session EXCEPT ![s] = "live"]
        /\ origin' = [origin EXCEPT ![s] = from]
        /\ UNCHANGED <<status, resets>>
    BY <1>9 DEF LoginCommit, Done, At
  <2>2. pending[r].resets = resets /\ (viaGoogle \/ status = "ACTIVE")
    BY <1>9 DEF LoginCommit, Serial, StillSo
  <2>3. /\ origin'[s].resets = resets
        /\ \A q \in SessionIds : q # s => /\ origin'[q] = origin[q]
                                          /\ session'[q] = session[q]
    BY <2>1, <2>2 DEF SessionTypeOK
  <2> HIDE DEF from
  <2>4. RowsAreCurrent'
    BY <2>1, <2>3 DEF Serial, RowsAreCurrent, HasSession
  <2>5. ~ viaGoogle' => BannedIsLoggedOut'
    BY <1>0, <2>1, <2>2 DEF BannedIsLoggedOut
  <2>6. StillSo(r)'
    BY <2>1, CallsDiffer, PendingMoves DEF StillSo, At
  <2> QED
    BY <2>1, <2>4, <2>5, <2>6, CallsDiffer, SerialMoves
<1>10. ASSUME NEW s \in SessionIds, RefreshCommit(r, s)
       PROVE  Serial'
  <2> DEFINE old == pending[r].session
             from == [origin[old] EXCEPT !.parent = old]
  <2>1. /\ old \in SessionIds /\ HasSession(old) /\ origin[old].resets = resets
        /\ viaGoogle \/ status # "SUSPENDED"
    BY <1>10, CallFields DEF RefreshCommit, Serial, StillSo, RowsAreCurrent
  <2>2. /\ pending' = [pending EXCEPT ![r] = Idle] /\ ~ At(r, "idle")
        /\ session' = [session EXCEPT ![s] = "live", ![old] = "revoked"]
        /\ origin' = [origin EXCEPT ![s] = from]
        /\ UNCHANGED <<status, resets>>
    BY <1>10 DEF RefreshCommit, Done, At
  <2>3. from.resets = resets
    <3>1. origin[old] \in Origin
      BY <2>1 DEF SessionTypeOK
    <3> HIDE DEF old
    <3> QED
      BY <2>1, <3>1 DEF Origin
  <2> HIDE DEF old, from
  <2>4. /\ origin'[s].resets = resets
        /\ \A q \in SessionIds : q # s => origin'[q] = origin[q]
        /\ \A q \in SessionIds : q # s /\ q # old => session'[q] = session[q]
    BY <2>1, <2>2, <2>3 DEF SessionTypeOK
  <2>5. RowsAreCurrent'
    BY <2>1, <2>2, <2>4 DEF Serial, RowsAreCurrent, HasSession
  <2>6. ~ viaGoogle' => BannedIsLoggedOut'
    BY <1>0, <2>1, <2>2 DEF BannedIsLoggedOut
  <2>7. StillSo(r)'
    BY <2>2, CallsDiffer, PendingMoves DEF StillSo, At
  <2> QED
    BY <2>2, <2>5, <2>6, <2>7, CallsDiffer, SerialMoves
<1> QED
  BY <1>1, <1>2, <1>3, <1>4, <1>5, <1>6, <1>7, <1>8, <1>9, <1>10 DEF SessionStep

\* A session or a reset token expires, whatever is in flight.
LEMMA SerialOfPasses ==
    ASSUME SessionTypeOK, Serial, Passes, viaGoogle => viaGoogle'
    PROVE  Serial'
<1>1. UNCHANGED <<pending, status, origin, resets>>
  BY DEF Passes, SessionExpires, ResetTokenExpires
<1>2. /\ \A s \in SessionIds : HasSession(s)' => HasSession(s)
      /\ \A s \in SessionIds : session'[s] = "live" => session[s] = "live"
      /\ \A s \in SessionIds : session[s] \in {"live", "expired"}
                               => session'[s] \in {"live", "expired"}
  <2>1. CASE \E t \in ResetIds : ResetTokenExpires(t)
    BY <2>1 DEF ResetTokenExpires, HasSession
  <2>2. CASE \E s \in SessionIds : SessionExpires(s)
    BY <2>2 DEF SessionExpires, HasSession, SessionTypeOK
  <2> QED
    BY <2>1, <2>2 DEF Passes
<1>3. OneInFlight' /\ RowsAreCurrent' /\ (~ viaGoogle' => BannedIsLoggedOut')
  BY <1>1, <1>2 DEF Serial, OneInFlight, RowsAreCurrent, BannedIsLoggedOut, At
<1>4. ASSUME NEW r \in SessionRequests PROVE StillSo(r)'
  <2>1. StillSo(r) /\ pending'[r] = pending[r]
    BY <1>1 DEF Serial
  <2>2. At(r, "refresh") => pending[r].session \in SessionIds
    BY CallFields
  <2> QED
    BY <1>1, <1>2, <2>1, <2>2 DEF StillSo, At
<1> QED
  BY <1>3, <1>4 DEF Serial

\* Whoever suspends an account logs it out.
LEMMA BansLogOut ==
    ASSUME Others, status' = "SUSPENDED", status # "SUSPENDED"
    PROVE  \A s \in SessionIds : session'[s] # "live"
<1>1. CASE \E s \in SessionIds : Logout(s) \/ LogoutSession(s) \/ SessionExpires(s)
  BY <1>1 DEF Logout, LogoutSession, SessionExpires
<1>2. CASE \E t \in ResetIds : ResetTokenExpires(t) \/ ResetExpired(t)
  BY <1>2 DEF ResetTokenExpires, ResetExpired
<1>3. CASE BanUser
  BY <1>3 DEF BanUser, RevokedExcept, HasSession
<1>4. CASE UnbanUser \/ RestoreUser \/ DeleteMyAccount \/ DeleteUser
  BY <1>4 DEF UnbanUser, RestoreUser, DeleteMyAccount, DeleteUser, SetStatus
<1> QED
  BY <1>1, <1>2, <1>3, <1>4 DEF Others

\* A handler of one step runs, and no request is in flight.
LEMMA SerialOfOthers ==
    ASSUME SessionTypeOK, Serial, ~ Overlaps, Others, viaGoogle => viaGoogle'
    PROVE  Serial'
<1>1. CASE Passes
  BY <1>1, SerialOfPasses
<1>2. CASE ~ Passes
  <2>1. UNCHANGED <<pending, origin, resets>>
    BY OthersTakeAway
  <2>2. \A r \in SessionRequests : At(r, "idle")
    BY <1>2, <2>1 DEF Overlaps, InFlight
  <2>3. \A r \in SessionRequests : At(r, "idle")'
    BY <2>1, <2>2 DEF At
  <2>4. OneInFlight' /\ \A r \in SessionRequests : StillSo(r)'
    BY <2>3 DEF OneInFlight, StillSo, At
  <2>5. RowsAreCurrent'
    BY <2>1, OthersTakeAway DEF Serial, RowsAreCurrent
  <2>6. ~ viaGoogle' => BannedIsLoggedOut'
    BY OthersTakeAway, BansLogOut DEF Serial, BannedIsLoggedOut
  <2> QED
    BY <2>4, <2>5, <2>6 DEF Serial
<1> QED
  BY <1>1, <1>2

LEMMA SerialOfNext ==
    ASSUME SerialInv, [SeriesNext]_seriesVars
    PROVE  SerialInv'
<1>1. [SessionNext]_sessionVars /\ SessionTypeOK
  BY DEF SerialInv, SeriesNext, seriesVars
<1>2. SessionTypeOK'
  BY <1>1, TypeOfNext, SessionAssumption
<1>3. CASE UNCHANGED seriesVars
  <2>1. Serial' = Serial
    BY <1>3 DEF seriesVars, sessionVars, Serial, OneInFlight, RowsAreCurrent, BannedIsLoggedOut,
                StillSo, At, HasSession
  <2> QED
    BY <1>2, <1>3, <2>1 DEF SerialInv, seriesVars
<1>4. ASSUME SeriesNext, ~ overlapped' PROVE Serial'
  <2>1. /\ Serial /\ ~ Overlaps /\ SessionTypeOK
        /\ viaGoogle' = (viaGoogle \/ (status # "ACTIVE" /\ \E q \in SessionRequests :
                                          GoogleLoginRead(q)))
    BY <1>4 DEF SeriesNext, SerialInv
  <2>2. viaGoogle => viaGoogle'
    BY <2>1
  <2>3. ASSUME NEW r \in RefreshRequests, NEW s \in SessionIds, RefreshRead(r, s)
        PROVE  Serial'
    <3> DEFINE call == [step |-> "refresh", session |-> s]
    <3>1. r \in SessionRequests /\ call \in Requests /\ call.step = "refresh" /\ call.session = s
      BY CallsDiffer, SessionAssumption DEF SessionAssumption
    <3>2. /\ pending' = [pending EXCEPT ![r] = call] /\ session[s] = "live"
          /\ UNCHANGED <<status, session, origin, resets>>
      BY <2>3 DEF RefreshRead, Begin
    <3> HIDE DEF call
    <3>3. viaGoogle \/ status # "SUSPENDED"
      BY <2>1, <3>2 DEF Serial, BannedIsLoggedOut
    <3>4. StillSo(r)'
      BY <2>1, <2>2, <3>1, <3>2, <3>3, PendingMoves DEF StillSo, At
    <3>5. \A q \in SessionIds : HasSession(q)' => HasSession(q)
      BY <3>2 DEF HasSession
    <3> QED
      BY <2>1, <2>2, <3>1, <3>2, <3>4, <3>5, SerialRests
  <2> QED
    BY <1>4, <2>1, <2>2, <2>3, SerialOfSteps, SerialOfOthers, StepKinds DEF SeriesNext
<1> QED
  BY <1>2, <1>3, <1>4 DEF SerialInv

LEMMA SerialInitially ==
    ASSUME SeriesInit
    PROVE  SerialInv
<1>1. SessionTypeOK
  BY TypeInitially, SessionAssumption DEF SeriesInit
<1>2. /\ \A r \in SessionRequests : At(r, "idle")
      /\ \A s \in SessionIds : session[s] = "absent"
  BY DEF SeriesInit, SessionInit, At, Idle
<1>3. Serial
  BY <1>2, IdleKnowsNothing DEF Serial, OneInFlight, RowsAreCurrent, BannedIsLoggedOut, HasSession
<1> QED
  BY <1>1, <1>3 DEF SerialInv

\* While no two requests overlap, a row of refresh_tokens belongs to a login that came
\* after the last password reset, and an account that is suspended has none that
\* can be refreshed unless a Google login has passed its status over.
THEOREM SerialInvariant == SeriesSpec => []SerialInv
  BY SerialInitially, SerialOfNext, PTL DEF SeriesSpec

\* A password reset ends the sessions that were there, and so does a ban, if no other
\* request is in flight meanwhile.
THEOREM SessionsEndInSeries == SeriesSpec => []SerialSessionsEnd
<1>1. SerialInv => SerialSessionsEnd
  BY DEF SerialInv, Serial, SerialSessionsEnd, ResetEndsSessions, RowsAreCurrent, HasSession
<1> QED
  BY <1>1, SerialInvariant, PTL

\* A step that inserts a session for a refresh.
LEMMA ParentWasCurrent ==
    ASSUME SerialInv, [SeriesNext]_seriesVars, NEW s \in SessionIds,
           ~ overlapped', ~ Inserted(s), Inserted(s)', origin'[s].parent # 0
    PROVE  session[origin'[s].parent] # "revoked"
<1>1. [SessionNext]_sessionVars /\ SessionTypeOK
  BY DEF SerialInv, SeriesNext, seriesVars
<1>2. Serial
  <2>1. overlapped => overlapped'
    BY DEF SeriesNext, seriesVars
  <2> QED
    BY <2>1 DEF SerialInv
<1>3. origin'[s] # origin[s]
  BY DEF Inserted
<1>4. ASSUME NEW r \in SessionRequests, NEW q \in SessionIds, LoginCommit(r, q)
      PROVE  FALSE
  <2> DEFINE from == [root |-> q, parent |-> 0, resets |-> pending[r].resets]
  <2>1. origin' = [origin EXCEPT ![q] = from] /\ from.parent = 0
    BY <1>4 DEF LoginCommit
  <2> HIDE DEF from
  <2> QED
    BY <1>1, <1>3, <2>1 DEF SessionTypeOK
<1>5. ASSUME NEW r \in SessionRequests, NEW q \in SessionIds, RefreshCommit(r, q)
      PROVE  session[origin'[s].parent] # "revoked"
  <2> DEFINE old == pending[r].session
             from == [origin[old] EXCEPT !.parent = old]
  <2>1. old \in SessionIds /\ session[old] \in {"live", "expired"}
    BY <1>1, <1>2, <1>5, CallFields DEF RefreshCommit, Serial, StillSo
  <2>2. from.parent = old
    <3>1. origin[old] \in Origin
      BY <1>1, <2>1 DEF SessionTypeOK
    <3> HIDE DEF old
    <3> QED
      BY <2>1, <3>1 DEF Origin
  <2>3. origin' = [origin EXCEPT ![q] = from]
    BY <1>5 DEF RefreshCommit
  <2> HIDE DEF old, from
  <2> QED
    BY <1>1, <1>3, <2>1, <2>2, <2>3 DEF SessionTypeOK
<1>6. UNCHANGED origin
      \/ \E r \in SessionRequests, q \in SessionIds : LoginCommit(r, q) \/ RefreshCommit(r, q)
  <2>1. ASSUME NEW r \in SessionRequests, SessionStep(r)
        PROVE  UNCHANGED origin \/ \E q \in SessionIds : LoginCommit(r, q) \/ RefreshCommit(r, q)
    BY <2>1 DEF SessionStep, LoginRead, GoogleLoginRead, VerifyEmail, LogoutOthersCommit,
                ForgotRead, ResetDelete, ResetCommit, RequestFails, LogoutOthersRequest,
                ForgotCommit, ResetRead
  <2>2. ASSUME NEW r \in RefreshRequests, NEW q \in SessionIds, RefreshRead(r, q)
        PROVE  UNCHANGED origin
    BY <2>2 DEF RefreshRead
  <2>3. CASE UNCHANGED sessionVars
    BY <2>3 DEF sessionVars
  <2> QED
    BY <1>1, <2>1, <2>2, <2>3, StepKinds, OthersTakeAway
<1> QED
  BY <1>3, <1>4, <1>5, <1>6

\* Without overlap, a revoked refresh token is never exchanged for a session.
SerialRevokedNeverRefreshed ==
    [][\A s \in SessionIds :
          ~ overlapped' /\ ~ Inserted(s) /\ Inserted(s)' /\ origin'[s].parent # 0
          => session[origin'[s].parent] # "revoked"]_seriesVars

\* If no other request is in flight meanwhile, refresh() exchanges no revoked token.
THEOREM RevokedIsNotRefreshedInSeries == SeriesSpec => SerialRevokedNeverRefreshed
<1>1. SerialInv /\ [SeriesNext]_seriesVars
        => [\A s \in SessionIds :
               ~ overlapped' /\ ~ Inserted(s) /\ Inserted(s)' /\ origin'[s].parent # 0
               => session[origin'[s].parent] # "revoked"]_seriesVars
  BY ParentWasCurrent
<1> QED
  BY <1>1, SerialInvariant, PTL DEF SeriesSpec, SerialRevokedNeverRefreshed

-----------------------------------------------------------------------------
(* Requests that do not overlap keep the contract                          *)

\* The request for a new reset token deletes, when it commits, those there are.
Forgetting(r) ==
    At(r, "forgot") => /\ status = "ACTIVE"
                       /\ pending[r].old = {t \in ResetIds : HasReset(t)}

ContractInv ==
    /\ SerialInv
    /\ SpendingInv
    /\ ~ overlapped => \A r \in SessionRequests : Forgetting(r)

\* What a step of a request does to the requests.
LEMMA RequestMoves ==
    ASSUME SessionTypeOK, NEW r \in SessionRequests,
           SessionStep(r) \/ (r \in RefreshRequests /\ \E s \in SessionIds : RefreshRead(r, s))
    PROVE  \E c \in Requests : /\ pending' = [pending EXCEPT ![r] = c]
                               /\ c.step # "idle" \/ ~ At(r, "idle")
<1>1. CASE LoginRead(r) \/ GoogleLoginRead(r) \/ VerifyEmail(r)
  BY <1>1, CallsDiffer DEF LoginRead, GoogleLoginRead, VerifyEmail, Begin, SessionTypeOK
<1>2. ASSUME NEW s \in SessionIds, LogoutOthersRequest(r, s) \/ RefreshRead(r, s)
      PROVE  \E c \in Requests : /\ pending' = [pending EXCEPT ![r] = c]
                                 /\ c.step # "idle" \/ ~ At(r, "idle")
  BY <1>2, CallsDiffer DEF LogoutOthersRequest, RefreshRead, Begin
<1>3. CASE ForgotRead(r)
  BY <1>3, CallsDiffer DEF ForgotRead, Begin
<1>4. ASSUME NEW t \in ResetIds, ResetRead(r, t)
      PROVE  \E c \in Requests : /\ pending' = [pending EXCEPT ![r] = c]
                                 /\ c.step # "idle" \/ ~ At(r, "idle")
  BY <1>4, CallsDiffer DEF ResetRead, Begin
<1>5. CASE ResetDelete(r)
  BY <1>5, CallsDiffer, CallFields DEF ResetDelete, Goto
<1>6. CASE \/ LogoutOthersCommit(r) \/ ResetCommit(r) \/ RequestFails(r)
           \/ \E s \in SessionIds : LoginCommit(r, s) \/ RefreshCommit(r, s)
           \/ \E t \in ResetIds : ForgotCommit(r, t)
  <2>1. pending' = [pending EXCEPT ![r] = Idle] /\ ~ At(r, "idle")
    BY <1>6 DEF LogoutOthersCommit, ResetCommit, RequestFails, LoginCommit, RefreshCommit,
                ForgotCommit, Done, At
  <2> QED
    BY <2>1, CallsDiffer
<1> QED
  BY <1>1, <1>2, <1>3, <1>4, <1>5, <1>6 DEF SessionStep

\* While a request moves, the others rest.
LEMMA RequestMovesAlone ==
    ASSUME SessionTypeOK, OneInFlight, ~ Overlaps, NEW r \in SessionRequests,
           SessionStep(r) \/ (r \in RefreshRequests /\ \E s \in SessionIds : RefreshRead(r, s))
    PROVE  \A q \in SessionRequests : q # r => At(q, "idle") /\ At(q, "idle")'
<1>1. PICK c \in Requests : /\ pending' = [pending EXCEPT ![r] = c]
                            /\ c.step # "idle" \/ ~ At(r, "idle")
  BY RequestMoves
<1>2. pending'[r] = c /\ \A q \in SessionRequests : q # r => pending'[q] = pending[q]
  BY <1>1, PendingMoves
<1>3. ASSUME NEW q \in SessionRequests, q # r PROVE At(q, "idle")
  <2>1. CASE c.step # "idle"
    BY <1>2, <1>3, <2>1 DEF Overlaps, InFlight, At
  <2>2. CASE ~ At(r, "idle")
    BY <1>3, <2>2 DEF OneInFlight
  <2> QED
    BY <1>1, <2>1, <2>2
<1> QED
  BY <1>2, <1>3 DEF At

\* Where no handler runs, tokens and sessions only grow old.
LEMMA OthersRunAlone ==
    ASSUME SessionTypeOK, ~ Overlaps, Others
    PROVE  /\ pending' = pending
           /\ Passes \/ \A r \in SessionRequests : At(r, "idle")
<1>1. pending' = pending
  BY OthersTakeAway
<1> QED
  BY <1>1 DEF Overlaps, InFlight

LEMMA ForgettingLasts ==
    ASSUME SessionTypeOK, OneInFlight, ~ Overlaps, [SessionNext]_sessionVars,
           \A r \in SessionRequests : Forgetting(r)
    PROVE  \A r \in SessionRequests : Forgetting(r)'
<1> SUFFICES ASSUME NEW r \in SessionRequests, At(r, "forgot")' PROVE Forgetting(r)'
  BY DEF Forgetting
<1>1. CASE SessionStep(r)
  <2>1. ForgotRead(r)
    <3>1. ASSUME NEW c \in Requests, c.step # "forgot", pending' = [pending EXCEPT ![r] = c]
          PROVE  FALSE
      BY <3>1, PendingMoves DEF At
    <3>2. ~ (LoginRead(r) \/ GoogleLoginRead(r) \/ VerifyEmail(r))
      BY <3>1, CallsDiffer DEF LoginRead, GoogleLoginRead, VerifyEmail, Begin, SessionTypeOK
    <3>3. \A s \in SessionIds : ~ LogoutOthersRequest(r, s)
      BY <3>1, CallsDiffer DEF LogoutOthersRequest, Begin
    <3>4. \A t \in ResetIds : ~ ResetRead(r, t)
      BY <3>1, CallsDiffer DEF ResetRead, Begin
    <3>5. ~ ResetDelete(r)
      BY <3>1, CallsDiffer, CallFields DEF ResetDelete, Goto
    <3>6. /\ ~ (LogoutOthersCommit(r) \/ ResetCommit(r) \/ RequestFails(r))
          /\ \A s \in SessionIds : ~ (LoginCommit(r, s) \/ RefreshCommit(r, s))
          /\ \A t \in ResetIds : ~ ForgotCommit(r, t)
      BY <3>1, CallsDiffer DEF LogoutOthersCommit, ResetCommit, RequestFails, LoginCommit,
           RefreshCommit, ForgotCommit, Done
    <3> QED
      BY <1>1, <3>2, <3>3, <3>4, <3>5, <3>6 DEF SessionStep
  <2>2. /\ pending' = [pending EXCEPT ![r] = [step |-> "forgot",
                                              old |-> {t \in ResetIds : HasReset(t)}]]
        /\ status' = "ACTIVE" /\ reset' = reset
    BY <2>1 DEF ForgotRead, Begin
  <2>3. pending'[r].old = {t \in ResetIds : HasReset(t)}
    BY <2>2 DEF SessionTypeOK
  <2> QED
    BY <2>2, <2>3 DEF Forgetting, HasReset
<1>2. CASE \E q \in SessionRequests : q # r /\
             (SessionStep(q) \/ (q \in RefreshRequests /\ \E s \in SessionIds : RefreshRead(q, s)))
  BY <1>2, RequestMovesAlone DEF At
<1>3. ASSUME NEW s \in SessionIds, r \in RefreshRequests, RefreshRead(r, s)
      PROVE  FALSE
  BY <1>3, CallsDiffer, PendingMoves DEF RefreshRead, Begin, At
<1>4. CASE Others
  <2>1. pending' = pending /\ At(r, "forgot")
    BY <1>4, OthersRunAlone DEF At
  <2>2. Passes
    BY <1>4, <2>1, OthersRunAlone DEF At
  <2>3. status' = status /\ \A t \in ResetIds : HasReset(t)' <=> HasReset(t)
    BY <2>2 DEF Passes, SessionExpires, ResetTokenExpires, HasReset, SessionTypeOK
  <2> QED
    BY <2>1, <2>3 DEF Forgetting
<1>5. CASE UNCHANGED sessionVars
  BY <1>5 DEF sessionVars, Forgetting, At, HasReset
<1> QED
  BY <1>1, <1>2, <1>3, <1>4, <1>5, StepKinds, SessionAssumption DEF SessionAssumption

LEMMA ContractInvKept == ContractInv /\ [SeriesNext]_seriesVars => ContractInv'
<1> SUFFICES ASSUME ContractInv, [SeriesNext]_seriesVars PROVE ContractInv'
  OBVIOUS
<1>1. SerialInv' /\ [SessionNext]_sessionVars
  BY SerialOfNext DEF ContractInv, SeriesNext, seriesVars
<1>2. SpendingInv'
  BY <1>1, SpendingOfNext, SessionAssumption DEF ContractInv
<1>3. ASSUME ~ overlapped' PROVE \A r \in SessionRequests : Forgetting(r)'
  <2>1. CASE SeriesNext
    <3>1. ~ overlapped /\ ~ Overlaps
      BY <1>3, <2>1 DEF SeriesNext
    <3> QED
      BY <1>1, <3>1, ForgettingLasts DEF ContractInv, SerialInv, Serial
  <2>2. CASE UNCHANGED seriesVars
    BY <1>3, <2>2 DEF seriesVars, sessionVars, ContractInv, Forgetting, At, HasReset
  <2> QED
    BY <2>1, <2>2
<1> QED
  BY <1>1, <1>2, <1>3 DEF ContractInv

\* The contract's variables, when the rows they stand for are unchanged.
LEMMA SpendingRests ==
    ASSUME SessionTypeOK, NEW r \in SessionRequests, NEW c \in Requests,
           pending' = [pending EXCEPT ![r] = c],
           c.step # "reset:commit", ~ At(r, "reset:commit")
    PROVE  \A t \in ResetIds : BeingSpent(t)' <=> BeingSpent(t)
BY PendingMoves DEF BeingSpent, At

LEMMA TokensRest ==
    ASSUME UNCHANGED reset, \A t \in ResetIds : BeingSpent(t)' <=> BeingSpent(t)
    PROVE  \A t \in ResetIds : TokenIs(t)' = TokenIs(t)
BY DEF TokenIs, HasReset

LEMMA SessionsRest ==
    ASSUME UNCHANGED <<session, origin>>
    PROVE  \A s \in SessionIds : SessionIs(s)' = SessionIs(s)
BY DEF SessionIs, Inserted

LEMMA ContractRests ==
    ASSUME UNCHANGED <<status, origin, resets>>,
           \A s \in SessionIds : SessionIs(s)' = SessionIs(s),
           \A t \in ResetIds : TokenIs(t)' = TokenIs(t)
    PROVE  UNCHANGED Contract!contractVars
BY DEF Contract!contractVars

\* A session that comes to be revoked or deleted is closed.
LEMMA SessionsClose ==
    ASSUME SessionTypeOK, UNCHANGED origin, NEW S \in SUBSET SessionIds,
           \A s \in S : session'[s] = session[s],
           \A s \in SessionIds \ S : session'[s] \in {"absent", "revoked"}
    PROVE  /\ \A s \in S : SessionIs(s)' = SessionIs(s)
           /\ \A s \in SessionIds \ S : SessionIs(s)' = Contract!Close(SessionIs(s))
BY DEF SessionIs, Inserted, Contract!Close

LEMMA AllButClose ==
    ASSUME NEW S \in SUBSET SessionIds,
           \A s \in S : SessionIs(s)' = SessionIs(s),
           \A s \in SessionIds \ S : SessionIs(s)' = Contract!Close(SessionIs(s))
    PROVE  Contract!EndAllBut(S)
BY DEF Contract!EndAllBut

\* A request that reads changes nothing the contract is about.
LEMMA ReadsRest ==
    ASSUME SessionTypeOK, NEW r \in SessionRequests, NEW c \in Requests,
           pending' = [pending EXCEPT ![r] = c],
           c.step # "reset:commit", ~ At(r, "reset:commit"),
           UNCHANGED <<session, reset, origin, resets>>
    PROVE  /\ \A s \in SessionIds : SessionIs(s)' = SessionIs(s)
           /\ \A t \in ResetIds : TokenIs(t)' = TokenIs(t)
BY SpendingRests, TokensRest, SessionsRest

Kept == [Contract!ContractNext]_(Contract!contractVars)

LEMMA LoginsKeepContract ==
    ASSUME SessionTypeOK, NEW r \in SessionRequests, StillSo(r), ~ viaGoogle,
           LoginRead(r) \/ GoogleLoginRead(r) \/ VerifyEmail(r)
             \/ \E s \in SessionIds : LoginCommit(r, s)
    PROVE  Kept
<1>1. ASSUME LoginRead(r) \/ GoogleLoginRead(r) \/ VerifyEmail(r)
      PROVE  Kept
  <2> DEFINE c == [step |-> "login", resets |-> resets]
  <2>1. /\ pending' = [pending EXCEPT ![r] = c] /\ At(r, "idle")
        /\ UNCHANGED <<session, reset, origin, resets>>
        /\ status' = status \/ (status # "GONE" /\ status' = "ACTIVE")
    BY <1>1 DEF LoginRead, GoogleLoginRead, VerifyEmail, Begin
  <2>2. c \in Requests /\ c.step = "login"
    BY CallsDiffer DEF SessionTypeOK
  <2> HIDE DEF c
  <2>3. /\ \A s \in SessionIds : SessionIs(s)' = SessionIs(s)
        /\ \A t \in ResetIds : TokenIs(t)' = TokenIs(t)
    BY <2>1, <2>2, ReadsRest DEF At
  <2>4. CASE status' = status
    BY <2>1, <2>3, <2>4, ContractRests DEF Kept
  <2>5. CASE status # "GONE" /\ status' = "ACTIVE"
    <3>1. Contract!Become("ACTIVE")
      BY <2>1, <2>3, <2>5 DEF Contract!Become
    <3> QED
      BY <3>1 DEF Kept, Contract!ContractNext
  <2> QED
    BY <2>1, <2>4, <2>5
<1>2. ASSUME NEW s \in SessionIds, LoginCommit(r, s)
      PROVE  Kept
  <2> DEFINE from == [root |-> s, parent |-> 0, resets |-> pending[r].resets]
  <2>1. /\ At(r, "login") /\ status = "ACTIVE" /\ ~ Inserted(s)
        /\ pending' = [pending EXCEPT ![r] = Idle]
        /\ session' = [session EXCEPT ![s] = "live"]
        /\ origin' = [origin EXCEPT ![s] = from]
        /\ UNCHANGED <<status, reset, resets>>
    BY <1>2 DEF LoginCommit, IsNextSession, Done, StillSo
  <2>2. from.root = s /\ s # 0
    BY SessionAssumption DEF SessionIds, SessionAssumption
  <2> HIDE DEF from
  <2>3. /\ session'[s] = "live" /\ origin'[s].root = s
        /\ \A q \in SessionIds : q # s => session'[q] = session[q] /\ origin'[q] = origin[q]
    BY <2>1, <2>2 DEF SessionTypeOK
  <2>4. /\ SessionIs(s) = "none" /\ SessionIs(s)' = "open"
        /\ \A q \in SessionIds : q # s => SessionIs(q)' = SessionIs(q)
    BY <2>1, <2>2, <2>3 DEF SessionIs, Inserted
  <2>5. \A t \in ResetIds : TokenIs(t)' = TokenIs(t)
    BY <2>1, CallsDiffer, SpendingRests, TokensRest DEF At
  <2>6. /\ [q \in SessionIds |-> SessionIs(q)'] = [[q \in SessionIds |-> SessionIs(q)]
                                                     EXCEPT ![s] = "open"]
        /\ [q \in SessionIds |-> origin'[q].root] = [[q \in SessionIds |-> origin[q].root]
                                                     EXCEPT ![s] = s]
        /\ [t \in ResetIds |-> TokenIs(t)'] = [t \in ResetIds |-> TokenIs(t)]
    BY <2>3, <2>4, <2>5
  <2>7. Contract!SignIn(s)
    BY <2>1, <2>4, <2>6 DEF Contract!SignIn
  <2> QED
    BY <2>7 DEF Kept, Contract!ContractNext
<1> QED
  BY <1>1, <1>2

LEMMA RefreshKeepsContract ==
    ASSUME SessionTypeOK, NEW r \in SessionRequests, NEW s \in SessionIds, ~ viaGoogle,
           StillSo(r), RefreshCommit(r, s)
    PROVE  Kept
<1>1. PICK old \in SessionIds : old = pending[r].session
  BY CallFields DEF RefreshCommit
<1> DEFINE from == [origin[old] EXCEPT !.parent = old]
<1>2. /\ At(r, "refresh") /\ status # "SUSPENDED" /\ ~ Inserted(s)
      /\ session[old] \in {"live", "expired"} /\ Inserted(old)
      /\ pending' = [pending EXCEPT ![r] = Idle]
      /\ session' = [session EXCEPT ![s] = "live", ![old] = "revoked"]
      /\ origin' = [origin EXCEPT ![s] = from]
      /\ UNCHANGED <<status, reset, resets>>
  BY <1>1 DEF RefreshCommit, IsNextSession, Done, StillSo, SessionTypeOK
<1>3. old # s /\ from.root = origin[old].root
  BY <1>2, OriginOfChild DEF SessionTypeOK
<1> HIDE DEF from
<1>4. /\ session'[s] = "live" /\ session'[old] = "revoked" /\ origin'[s].root = origin[old].root
      /\ \A q \in SessionIds : q # s => origin'[q] = origin[q]
      /\ \A q \in SessionIds : q # s /\ q # old => session'[q] = session[q]
  BY <1>2, <1>3 DEF SessionTypeOK
<1>5. /\ SessionIs(s) = "none" /\ SessionIs(s)' = "open"
      /\ SessionIs(old) = "open" /\ SessionIs(old)' = "closed"
      /\ \A q \in SessionIds : q # s /\ q # old => SessionIs(q)' = SessionIs(q)
  <2>1. Inserted(s)' /\ \A q \in SessionIds : q # s => (Inserted(q)' <=> Inserted(q))
    BY <1>2, <1>3, <1>4 DEF Inserted
  <2> QED
    BY <1>2, <1>3, <1>4, <2>1 DEF SessionIs
<1>6. \A t \in ResetIds : TokenIs(t)' = TokenIs(t)
  BY <1>2, CallsDiffer, SpendingRests, TokensRest DEF At
<1>7. [q \in SessionIds |-> SessionIs(q)'] = [[q \in SessionIds |-> SessionIs(q)]
                                               EXCEPT ![s] = "open", ![old] = "closed"]
  BY <1>3, <1>5
<1>8. [q \in SessionIds |-> origin'[q].root] = [[q \in SessionIds |-> origin[q].root]
                                               EXCEPT ![s] = origin[old].root]
  BY <1>4
<1>9. Contract!Exchange(old, s)
  BY <1>2, <1>5, <1>6, <1>7, <1>8 DEF Contract!Exchange, Contract!Open
<1> QED
  BY <1>9 DEF Kept, Contract!ContractNext

LEMMA LogoutOthersKeepsContract ==
    ASSUME SessionTypeOK, NEW r \in SessionRequests, LogoutOthersCommit(r)
    PROVE  Kept
<1>0. PICK kept \in SessionIds : kept = pending[r].session
  BY CallFields DEF LogoutOthersCommit
<1>1. /\ At(r, "others")
      /\ pending' = [pending EXCEPT ![r] = Idle]
      /\ session' = RevokedExcept({kept})
      /\ UNCHANGED <<status, reset, origin, resets>>
  BY <1>0 DEF LogoutOthersCommit, Done
<1>2. /\ session'[kept] = session[kept]
      /\ \A s \in SessionIds \ {kept} : session'[s] \in {"absent", "revoked"}
  BY <1>1 DEF RevokedExcept, HasSession
<1>3. Contract!EndAllBut({kept})
  BY <1>1, <1>2, SessionsClose, AllButClose
<1>4. \A t \in ResetIds : TokenIs(t)' = TokenIs(t)
  BY <1>1, CallsDiffer, SpendingRests, TokensRest DEF At
<1>5. Contract!EndOthers(kept)
  BY <1>1, <1>3, <1>4 DEF Contract!EndOthers
<1> QED
  BY <1>1, <1>5 DEF Kept, Contract!ContractNext

LEMMA ForgottenKeepsContract ==
    ASSUME SessionTypeOK, NEW r \in SessionRequests, NEW t \in ResetIds, Forgetting(r),
           OneInFlight, ForgotCommit(r, t)
    PROVE  Kept
<1>1. /\ At(r, "forgot") /\ status = "ACTIVE" /\ reset[t] = "unused"
      /\ pending' = [pending EXCEPT ![r] = Idle]
      /\ reset' = [q \in ResetIds |-> CASE q = t -> "live"
                                        [] q \in pending[r].old -> "deleted"
                                        [] OTHER -> reset[q]]
      /\ pending[r].old = {q \in ResetIds : HasReset(q)}
      /\ UNCHANGED <<status, session, origin, resets>>
  BY DEF ForgotCommit, IsNextReset, Done, Forgetting
<1>2. \A q \in SessionRequests : ~ At(q, "reset:commit") /\ ~ At(q, "reset:commit")'
  BY <1>1, CallsDiffer, PendingMoves DEF OneInFlight, At
<1>3. /\ reset'[t] = "live"
      /\ \A q \in ResetIds : q # t => reset'[q] = IF HasReset(q) THEN "deleted" ELSE reset[q]
  BY <1>1 DEF HasReset
<1>4. /\ TokenIs(t) = "none" /\ TokenIs(t)' = "open"
      /\ \A q \in ResetIds : q # t => TokenIs(q)' = Contract!Close(TokenIs(q))
  BY <1>1, <1>2, <1>3 DEF TokenIs, HasReset, BeingSpent, Contract!Close
<1>5. \A s \in SessionIds : SessionIs(s)' = SessionIs(s)
  BY <1>1, SessionsRest
<1>6. Contract!IssueToken(t)
  BY <1>1, <1>4, <1>5 DEF Contract!IssueToken
<1> QED
  BY <1>6 DEF Kept, Contract!ContractNext

\* The steps of a password reset, and its failure.
LEMMA ResetKeepsContract ==
    ASSUME SessionTypeOK, Spending, NEW r \in SessionRequests, StillSo(r), OneInFlight,
           ResetDelete(r) \/ ResetCommit(r) \/ RequestFails(r)
    PROVE  Kept
<1>1. ASSUME ResetDelete(r)
      PROVE  Kept
  <2>1. PICK t \in ResetIds : t = pending[r].token
    BY <1>1, CallFields DEF ResetDelete
  <2> DEFINE c == [step |-> "reset:commit", token |-> t,
                   sessions |-> {s \in SessionIds : HasSession(s)}]
  <2>2. /\ At(r, "reset:delete") /\ HasReset(t)
        /\ pending' = [pending EXCEPT ![r] = c]
        /\ reset' = [reset EXCEPT ![t] = "deleted"]
        /\ UNCHANGED <<status, session, origin, resets>>
    BY <1>1, <2>1 DEF ResetDelete, Goto
  <2>3. c \in Requests /\ c.step = "reset:commit" /\ c.token = t
    BY CallsDiffer
  <2> HIDE DEF c
  <2>4. /\ reset'[t] = "deleted" /\ \A q \in ResetIds : q # t => reset'[q] = reset[q]
        /\ \A q \in ResetIds : ~ BeingSpent(q)
        /\ \A q \in ResetIds : BeingSpent(q)' <=> q = t
    BY <2>2, <2>3, PendingMoves DEF BeingSpent, At, OneInFlight, SessionTypeOK
  <2>5. \A q \in ResetIds : TokenIs(q)' = TokenIs(q)
    BY <2>2, <2>4 DEF TokenIs, HasReset
  <2> QED
    BY <2>2, <2>5, SessionsRest, ContractRests DEF Kept
<1>2. ASSUME ~ At(r, "reset:commit"), RequestFails(r)
      PROVE  Kept
  <2>1. /\ pending' = [pending EXCEPT ![r] = Idle]
        /\ UNCHANGED <<status, session, reset, origin, resets>>
    BY <1>2 DEF RequestFails, Done
  <2> QED
    BY <1>2, <2>1, CallsDiffer, ReadsRest, ContractRests DEF Kept
<1>3. ASSUME At(r, "reset:commit"), ResetCommit(r) \/ RequestFails(r)
      PROVE  Kept
  <2>1. PICK t \in ResetIds : t = pending[r].token /\ reset[t] = "deleted"
    BY <1>3, CallFields DEF Spending
  <2>2. /\ pending' = [pending EXCEPT ![r] = Idle]
        /\ UNCHANGED <<status, reset, origin>>
    BY <1>3 DEF ResetCommit, RequestFails, Done
  <2>3. /\ \A q \in ResetIds : BeingSpent(q) <=> q = t
        /\ \A q \in ResetIds : ~ BeingSpent(q)'
    BY <1>3, <2>1, <2>2, CallsDiffer, PendingMoves DEF BeingSpent, At, OneInFlight
  <2>4. /\ TokenIs(t) = "open" /\ TokenIs(t)' = "closed"
        /\ \A q \in ResetIds : q # t => TokenIs(q)' = TokenIs(q)
    BY <2>1, <2>2, <2>3 DEF TokenIs, HasReset
  <2>5. [q \in ResetIds |-> TokenIs(q)'] = [[q \in ResetIds |-> TokenIs(q)]
                                              EXCEPT ![t] = "closed"]
    BY <2>4
  <2>6. ASSUME RequestFails(r) PROVE Kept
    <3>1. UNCHANGED <<session, resets>>
      BY <2>6 DEF RequestFails
    <3>2. Contract!DropToken(t)
      BY <2>2, <2>4, <2>5, <3>1, SessionsRest DEF Contract!DropToken, Contract!Open
    <3> QED
      BY <3>2 DEF Kept, Contract!ContractNext
  <2>7. ASSUME ResetCommit(r) PROVE Kept
    <3>1. \A s \in SessionIds : session'[s] = "absent"
      BY <1>3, <2>7 DEF ResetCommit, StillSo, HasSession
    <3>2. Contract!EndAllBut({})
      BY <2>2, <3>1, SessionsClose, AllButClose
    <3>3. Contract!ResetPassword(t)
      BY <2>2, <2>4, <2>5, <2>7, <3>2 DEF ResetCommit, Contract!ResetPassword, Contract!Open
    <3> QED
      BY <3>3 DEF Kept, Contract!ContractNext
  <2> QED
    BY <1>3, <2>6, <2>7
<1>4. ResetCommit(r) => At(r, "reset:commit")
  BY DEF ResetCommit
<1> QED
  BY <1>1, <1>2, <1>3, <1>4

\* The handlers of one step, and time.
LEMMA OthersKeepContract ==
    ASSUME SessionTypeOK, ~ Overlaps, Others
    PROVE  Kept
<1>1. UNCHANGED <<pending, origin, resets>>
  BY OthersTakeAway
<1>2. \A t \in ResetIds : BeingSpent(t)' <=> BeingSpent(t)
  BY <1>1 DEF BeingSpent, At
<1>3. ASSUME Passes PROVE Kept
  <2>1. /\ status' = status
        /\ \A s \in SessionIds : session[s] \in {"live", "expired"}
                                 <=> session'[s] \in {"live", "expired"}
        /\ \A t \in ResetIds : HasReset(t)' <=> HasReset(t)
        /\ \A t \in ResetIds : reset'[t] = "unused" <=> reset[t] = "unused"
    BY <1>3 DEF Passes, SessionExpires, ResetTokenExpires, HasReset, SessionTypeOK
  <2>2. \A s \in SessionIds : SessionIs(s)' = SessionIs(s)
    BY <1>1, <2>1 DEF SessionIs, Inserted
  <2>3. \A t \in ResetIds : TokenIs(t)' = TokenIs(t)
    BY <1>2, <2>1 DEF TokenIs
  <2> QED
    BY <1>1, <2>1, <2>2, <2>3, ContractRests DEF Kept
<1>4. ASSUME NEW s \in SessionIds, Logout(s) \/ LogoutSession(s)
      PROVE  Kept
  <2>1. /\ HasSession(s) /\ session' = [session EXCEPT ![s] = "revoked"]
        /\ UNCHANGED <<status, reset>>
    BY <1>4 DEF Logout, LogoutSession, HasSession
  <2>2. /\ SessionIs(s) \in {"open", "closed"} /\ SessionIs(s)' = "closed"
        /\ \A q \in SessionIds : q # s => SessionIs(q)' = SessionIs(q)
    BY <1>1, <2>1 DEF SessionIs, Inserted, SessionTypeOK
  <2>3. \A t \in ResetIds : TokenIs(t)' = TokenIs(t)
    BY <1>2, <2>1, TokensRest
  <2>4. CASE SessionIs(s) = "closed"
    BY <1>1, <2>1, <2>2, <2>3, <2>4, ContractRests DEF Kept
  <2>5. CASE SessionIs(s) = "open"
    <3>1. [q \in SessionIds |-> SessionIs(q)'] = [[q \in SessionIds |-> SessionIs(q)]
                                                    EXCEPT ![s] = "closed"]
      BY <2>2
    <3>2. Contract!End(s)
      BY <1>1, <2>1, <2>3, <2>5, <3>1 DEF Contract!End, Contract!Open
    <3> QED
      BY <3>2 DEF Kept, Contract!ContractNext
  <2> QED
    BY <2>2, <2>4, <2>5
<1>5. ASSUME ~ Passes PROVE \A t \in ResetIds : ~ BeingSpent(t)
  BY <1>5, OthersRunAlone DEF BeingSpent, At
<1>6. ASSUME ~ Passes, NEW t \in ResetIds, ResetExpired(t)
      PROVE  Kept
  <2>1. /\ reset[t] = "expired" /\ reset' = [reset EXCEPT ![t] = "deleted"]
        /\ UNCHANGED <<status, session>>
    BY <1>6 DEF ResetExpired
  <2>2. /\ TokenIs(t) = "open" /\ TokenIs(t)' = "closed"
        /\ \A q \in ResetIds : q # t => TokenIs(q)' = TokenIs(q)
    BY <1>2, <1>5, <1>6, <2>1 DEF TokenIs, HasReset, SessionTypeOK
  <2>3. [q \in ResetIds |-> TokenIs(q)'] = [[q \in ResetIds |-> TokenIs(q)]
                                              EXCEPT ![t] = "closed"]
    BY <2>2
  <2>4. Contract!DropToken(t)
    BY <1>1, <2>1, <2>2, <2>3, SessionsRest DEF Contract!DropToken, Contract!Open
  <2> QED
    BY <2>4 DEF Kept, Contract!ContractNext
<1>7. ASSUME BanUser \/ UnbanUser \/ RestoreUser \/ DeleteMyAccount
      PROVE  Kept
  <2>1. status # "GONE" /\ UNCHANGED reset
    BY <1>7 DEF BanUser, UnbanUser, RestoreUser, DeleteMyAccount, SetStatus
  <2>2. \A t \in ResetIds : TokenIs(t)' = TokenIs(t)
    BY <1>2, <2>1, TokensRest
  <2>3. ASSUME BanUser PROVE Kept
    <3>1. \A s \in SessionIds : session'[s] \in {"absent", "revoked"}
      BY <2>3 DEF BanUser, RevokedExcept, HasSession
    <3>2. Contract!EndAllBut({})
      BY <1>1, <3>1, SessionsClose, AllButClose
    <3>3. Contract!Suspend
      BY <1>1, <2>1, <2>2, <2>3, <3>2 DEF BanUser, SetStatus, Contract!Suspend
    <3> QED
      BY <3>3 DEF Kept, Contract!ContractNext
  <2>4. ASSUME UnbanUser \/ RestoreUser \/ DeleteMyAccount PROVE Kept
    <3>1. PICK new \in {"ACTIVE", "DELETED"} : status' = new /\ UNCHANGED session
      BY <2>4 DEF UnbanUser, RestoreUser, DeleteMyAccount, SetStatus
    <3>2. Contract!Become(new)
      BY <1>1, <2>1, <2>2, <3>1, SessionsRest DEF Contract!Become
    <3> QED
      BY <3>2 DEF Kept, Contract!ContractNext
  <2> QED
    BY <1>7, <2>3, <2>4
<1>8. ASSUME ~ Passes, DeleteUser PROVE Kept
  <2>1. /\ status # "GONE" /\ status' = "GONE"
        /\ \A s \in SessionIds : session'[s] = "absent"
        /\ \A t \in ResetIds : reset'[t] = IF HasReset(t) THEN "deleted" ELSE reset[t]
    BY <1>8 DEF DeleteUser
  <2>2. Contract!EndAllBut({})
    BY <1>1, <2>1, SessionsClose, AllButClose
  <2>3. \A t \in ResetIds : TokenIs(t)' = Contract!Close(TokenIs(t))
    BY <1>2, <1>5, <1>8, <2>1 DEF TokenIs, HasReset, Contract!Close
  <2>4. Contract!Remove
    BY <1>1, <2>1, <2>2, <2>3 DEF Contract!Remove
  <2> QED
    BY <2>4 DEF Kept, Contract!ContractNext
<1> QED
  BY <1>3, <1>4, <1>6, <1>7, <1>8 DEF Others, Passes

LEMMA StepsKeepContract ==
    ASSUME ContractInv, [SeriesNext]_seriesVars, ~ overlapped', ~ viaGoogle'
    PROVE  Kept
<1>1. CASE UNCHANGED seriesVars
  BY <1>1, SessionsRest, TokensRest, ContractRests
     DEF seriesVars, sessionVars, BeingSpent, At, Kept
<1>2. CASE SeriesNext
  <2>1. /\ SessionTypeOK /\ Spending /\ Serial /\ OneInFlight /\ ~ Overlaps /\ ~ viaGoogle
        /\ SessionNext
        /\ \A r \in SessionRequests : Forgetting(r) /\ StillSo(r)
    BY <1>2 DEF SeriesNext, ContractInv, SerialInv, SpendingInv, Serial
  <2>2. ASSUME NEW r \in SessionRequests, NEW c \in Requests,
               c.step \notin {"login", "reset:commit"}, At(r, "idle"),
               pending' = [pending EXCEPT ![r] = c],
               UNCHANGED <<status, session, reset, origin, resets>>
        PROVE  Kept
    BY <2>1, <2>2, ReadsRest, ContractRests DEF Kept, At
  <2>3. ASSUME NEW r \in RefreshRequests, NEW s \in SessionIds, RefreshRead(r, s)
        PROVE  Kept
    <3>1. r \in SessionRequests
      BY SessionAssumption DEF SessionAssumption
    <3> QED
      BY <2>2, <2>3, <3>1, CallsDiffer DEF RefreshRead, Begin
  <2>4. ASSUME NEW r \in SessionRequests, SessionStep(r)
        PROVE  Kept
    <3>1. CASE ForgotRead(r)
      BY <2>2, <3>1, CallsDiffer DEF ForgotRead, Begin
    <3>2. ASSUME NEW s \in SessionIds, LogoutOthersRequest(r, s) PROVE Kept
      BY <2>2, <3>2, CallsDiffer DEF LogoutOthersRequest, Begin
    <3>3. ASSUME NEW t \in ResetIds, ResetRead(r, t) PROVE Kept
      BY <2>2, <3>3, CallsDiffer DEF ResetRead, Begin
    <3> QED
      BY <2>1, <2>4, <3>1, <3>2, <3>3, LoginsKeepContract, RefreshKeepsContract,
         LogoutOthersKeepsContract, ForgottenKeepsContract, ResetKeepsContract DEF SessionStep
  <2> QED
    BY <2>1, <2>3, <2>4, OthersKeepContract, StepKinds
<1> QED
  BY <1>1, <1>2

LEMMA ContractInitially == SeriesInit => ContractInv /\ Contract!ContractInit
<1> SUFFICES ASSUME SeriesInit PROVE ContractInv /\ Contract!ContractInit
  OBVIOUS
<1>1. ContractInv
  BY SerialInitially, SpendingInitially DEF SeriesInit, SessionInit, ContractInv, Forgetting, At, Idle
<1>2. /\ \A s \in SessionIds : origin[s].root = 0 /\ SessionIs(s) = "none"
      /\ \A t \in ResetIds : TokenIs(t) = "none"
      /\ status = "ACTIVE" /\ resets = 0
  BY DEF SeriesInit, SessionInit, SessionIs, Inserted, NoOrigin, TokenIs
<1>3. Contract!ContractInit
  BY <1>2 DEF Contract!ContractInit
<1> QED
  BY <1>1, <1>3

LEMMA ContractInvariant == SeriesSpec => []ContractInv
<1>1. SeriesInit => ContractInv
  BY ContractInitially
<1> QED
  BY <1>1, ContractInvKept, PTL DEF SeriesSpec

\* Refinement: while no two requests overlap, and Google has passed no status over,
\* the handlers of authentication and of the account's status do in their several
\* queries what the contract says in one step.
THEOREM SessionsKeepContract == SeriesSpec => SerialSessionContract
<1>1. ContractInv /\ [SeriesNext]_seriesVars
        => [~ overlapped' /\ ~ viaGoogle' => Contract!ContractNext]_(Contract!contractVars)
  BY StepsKeepContract DEF Kept
<1> QED
  BY <1>1, ContractInitially, ContractInvariant, PTL DEF SeriesSpec, SerialSessionContract

\* What the contract says of each session and token from one state to the next.
LEMMA OneOfEachKept ==
    ASSUME Contract!OneOfEach, Contract!ContractNext
    PROVE  Contract!OneOfEach'
<1>1. /\ \A q \in SessionIds : SessionIs(q) # "none" =>
             \E w \in SessionIds : origin[q].root = w /\ SessionIs(w) # "none"
      /\ \A q, p \in SessionIds :
             SessionIs(q) = "open" /\ SessionIs(p) = "open" /\ origin[q].root = origin[p].root
             => q = p
      /\ \A t, q \in ResetIds : TokenIs(t) = "open" /\ TokenIs(q) = "open" => t = q
  BY DEF Contract!OneOfEach, Contract!Open
<1>2. ASSUME \A q \in SessionIds : SessionIs(q)' # "none" =>
                 \E w \in SessionIds : origin'[q].root = w /\ SessionIs(w)' # "none",
              \A q, p \in SessionIds : SessionIs(q)' = "open" /\ SessionIs(p)' = "open"
                 /\ origin'[q].root = origin'[p].root => q = p,
              \A t \in ResetIds : TokenIs(t)' = TokenIs(t),
              status' # "SUSPENDED"
       PROVE  Contract!OneOfEach'
  BY <1>1, <1>2 DEF Contract!OneOfEach, Contract!Open
<1>3. ASSUME NEW s \in SessionIds, Contract!SignIn(s)
      PROVE  Contract!OneOfEach'
  <2>1. /\ status = "ACTIVE" /\ status' = status
        /\ SessionIs(s) = "none" /\ SessionIs(s)' = "open" /\ origin'[s].root = s
        /\ \A q \in SessionIds : q # s => SessionIs(q)' = SessionIs(q)
                                          /\ origin'[q].root = origin[q].root
        /\ \A t \in ResetIds : TokenIs(t)' = TokenIs(t)
    BY <1>3 DEF Contract!SignIn
  <2>2. ASSUME NEW q \in SessionIds, SessionIs(q)' # "none"
        PROVE  \E w \in SessionIds : origin'[q].root = w /\ SessionIs(w)' # "none"
    BY <1>1, <2>1, <2>2
  <2>3. ASSUME NEW q \in SessionIds, NEW p \in SessionIds, SessionIs(q)' = "open",
               SessionIs(p)' = "open", origin'[q].root = origin'[p].root
        PROVE  q = p
    BY <1>1, <2>1, <2>3
  <2> QED
    BY <1>2, <2>1, <2>2, <2>3
<1>4. ASSUME NEW old \in SessionIds, NEW s \in SessionIds, Contract!Exchange(old, s)
      PROVE  Contract!OneOfEach'
  <2>1. /\ status # "SUSPENDED" /\ status' = status
        /\ SessionIs(s) = "none" /\ SessionIs(s)' = "open" /\ origin'[s].root = origin[old].root
        /\ SessionIs(old) = "open" /\ SessionIs(old)' = "closed"
        /\ \A q \in SessionIds : q # s => origin'[q].root = origin[q].root
        /\ \A q \in SessionIds : q # s /\ q # old => SessionIs(q)' = SessionIs(q)
        /\ \A t \in ResetIds : TokenIs(t)' = TokenIs(t)
    BY <1>4 DEF Contract!Exchange, Contract!Open
  <2>2. ASSUME NEW q \in SessionIds, SessionIs(q)' # "none"
        PROVE  \E w \in SessionIds : origin'[q].root = w /\ SessionIs(w)' # "none"
    BY <1>1, <2>1, <2>2
  <2>3. ASSUME NEW q \in SessionIds, NEW p \in SessionIds, SessionIs(q)' = "open",
               SessionIs(p)' = "open", origin'[q].root = origin'[p].root
        PROVE  q = p
    BY <1>1, <2>1, <2>3
  <2> QED
    BY <1>2, <2>1, <2>2, <2>3
<1>5. ASSUME UNCHANGED status \/ status' # "SUSPENDED"
                \/ \A s \in SessionIds : SessionIs(s)' # "open",
             \A s \in SessionIds : SessionIs(s)' \in {SessionIs(s), Contract!Close(SessionIs(s))}
                                   /\ origin'[s].root = origin[s].root,
             \A t \in ResetIds : TokenIs(t)' \in {TokenIs(t), Contract!Close(TokenIs(t))}
      PROVE  Contract!OneOfEach'
  BY <1>5 DEF Contract!OneOfEach, Contract!Open, Contract!Close
<1>6. ASSUME NEW s \in SessionIds, Contract!End(s) \/ Contract!EndOthers(s)
      PROVE  Contract!OneOfEach'
  BY <1>5, <1>6 DEF Contract!End, Contract!EndOthers, Contract!EndAllBut, Contract!Close, Contract!Open
<1>7. ASSUME NEW t \in ResetIds, Contract!DropToken(t) \/ Contract!ResetPassword(t)
      PROVE  Contract!OneOfEach'
  BY <1>5, <1>7 DEF Contract!DropToken, Contract!ResetPassword, Contract!EndAllBut,
                    Contract!Close, Contract!Open
<1>8. ASSUME NEW t \in ResetIds, Contract!IssueToken(t)
      PROVE  Contract!OneOfEach'
  <2>1. /\ status' = status
        /\ \A s \in SessionIds : SessionIs(s)' = SessionIs(s) /\ origin'[s].root = origin[s].root
        /\ \A q \in ResetIds : q # t => TokenIs(q)' # "open"
    BY <1>8 DEF Contract!IssueToken, Contract!Close
  <2> QED
    BY <2>1 DEF Contract!OneOfEach, Contract!Open
<1>9. ASSUME \/ Contract!Suspend \/ Contract!Remove
             \/ \E new \in {"ACTIVE", "DELETED"} : Contract!Become(new)
      PROVE  Contract!OneOfEach'
  BY <1>5, <1>9 DEF Contract!Suspend, Contract!Remove, Contract!Become, Contract!EndAllBut,
                    Contract!Close
<1> QED
  BY <1>3, <1>4, <1>6, <1>7, <1>8, <1>9 DEF Contract!ContractNext

\* Read off the contract: while no two requests overlap, a login has one session that
\* can be refreshed, refreshes in any number included, an account one reset token that
\* can be used, and a suspended account no session.
OneOfEachInSeries == ~ overlapped /\ ~ viaGoogle => Contract!OneOfEach

\* What the contract says of single rows holds of the rows of requests in series.
THEOREM OneSessionOneTokenInSeries == SeriesSpec => []OneOfEachInSeries
<1>1. SeriesInit => OneOfEachInSeries
  <2> SUFFICES ASSUME SeriesInit PROVE Contract!OneOfEach
    BY DEF OneOfEachInSeries
  <2>1. Contract!ContractInit
    BY ContractInitially
  <2> QED
    BY <2>1 DEF Contract!ContractInit, Contract!OneOfEach, Contract!Open
<1>2. ASSUME ContractInv, OneOfEachInSeries, [SeriesNext]_seriesVars
      PROVE  OneOfEachInSeries'
  <2> SUFFICES ASSUME ~ overlapped', ~ viaGoogle' PROVE Contract!OneOfEach'
    BY DEF OneOfEachInSeries
  <2>1. Contract!OneOfEach
    BY <1>2 DEF OneOfEachInSeries, SeriesNext, seriesVars
  <2>2. Kept
    BY <1>2, StepsKeepContract
  <2>3. CASE UNCHANGED Contract!contractVars
    BY <2>1, <2>3 DEF Contract!contractVars, Contract!OneOfEach
  <2> QED
    BY <2>1, <2>2, <2>3, OneOfEachKept DEF Kept
<1> QED
  BY <1>1, <1>2, ContractInvariant, PTL DEF SeriesSpec
=============================================================================
