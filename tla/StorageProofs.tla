--------------------------- MODULE StorageProofs ---------------------------
(***************************************************************************)
(* Theorems about the rows and the objects of one user: Accounts, for any  *)
(* number of requests, tokens and links; ProfileAvatar, for any number of  *)
(* tabs and uploads; WorkspaceBranding, for any number of requests, files, *)
(* addresses and answers.                                                  *)
(***************************************************************************)
EXTENDS Accounts, WorkspaceBranding, ProfileAvatar, FiniteSetTheorems, TLAPS

-----------------------------------------------------------------------------
(***************************************************************************)
(* The account                                                             *)
(***************************************************************************)

Identified == {"resend", "verify", "google:link", "login"}

\* A request knows an account that was there: the id is not of a later one.
CallsKnown ==
    \A r \in AccountRequests : calls[r].step \in Identified => calls[r].id <= user.id

\* A token that has verified the account is deleted, and stays so.
SpentIsDeleted ==
    \A t \in TokenIds : spent[t] <= 1 /\ (spent[t] = 1 => token[t] = "deleted")

Landed == workspaces > 0 \/ "linkedPending" \in lapses

\* Whatever leads to a sign-in leads to an account that has its workspace.
WaysIn ==
    /\ user.exists /\ user.verified => workspaces > 0
    /\ links > 0 => Landed
    /\ signedIn => Landed
    /\ \A r \in AccountRequests : In(r, "login") /\ Is(calls[r].id) => Landed

\* Without overlap one request is in flight, one token is left, and a resend
\* deletes it.
InTurnAccount ==
    "overlap" \notin lapses =>
        /\ \A r, s \in Busy : r = s
        /\ \A t, q \in TokenIds : HasToken(t) /\ HasToken(q) => t = q
        /\ \A r \in AccountRequests, t \in TokenIds :
              In(r, "resend") /\ HasToken(t) => t \in calls[r].old

\* An account with its workspace has no token left, and no request for one.
NoTokenLeft ==
    lapses \cap {"overlap", "resentSettled"} = {} =>
        /\ workspaces <= 1
        /\ workspaces = 1 =>
              /\ \A t \in TokenIds : ~ HasToken(t)
              /\ \A r \in AccountRequests : ~ In(r, "resend") /\ ~ In(r, "verify")

AccountsInv ==
    /\ AccountsTypeOK
    /\ CallsKnown
    /\ SpentIsDeleted
    /\ WaysIn
    /\ InTurnAccount
    /\ NoTokenLeft

Calls == AccountCalls \cup {NoCall}

-----------------------------------------------------------------------------
(* The requests                                                            *)

LEMMA CallKinds ==
    /\ \A step \in {"register", "google:email", "google:create"} : [step |-> step] \in Calls
    /\ \A id \in AccountIds, old \in SUBSET TokenIds :
          [step |-> "resend", id |-> id, old |-> old] \in Calls
    /\ \A id \in AccountIds, t \in TokenIds :
          [step |-> "verify", id |-> id, token |-> t] \in Calls
    /\ \A id \in AccountIds, step \in {"google:link", "login"} :
          [step |-> step, id |-> id] \in Calls
    /\ NoCall \in Calls /\ NoCall.step = "none"
BY DEF Calls, AccountCalls, NoCall

LEMMA CallOfKind ==
    ASSUME NEW c \in Calls
    PROVE  /\ c.step \in Identified => c.id \in AccountIds
           /\ c.step = "resend" => c.old \in SUBSET TokenIds
           /\ c.step = "verify" => c.token \in TokenIds
           /\ c.step = "none" => c = NoCall
BY DEF Calls, AccountCalls, NoCall, Identified

\* What a step of request r does to the requests.
CallBecomes(r, c) ==
    /\ calls' = [calls EXCEPT ![r] = c]
    /\ calls'[r] = c
    /\ \A q \in AccountRequests \ {r} : calls'[q] = calls[q]
    /\ calls' \in [AccountRequests -> Calls]

LEMMA CallMoves ==
    ASSUME AccountsInv, NEW r \in AccountRequests, NEW c \in Calls
    PROVE  /\ Starts(r, c) => CallBecomes(r, c)
           /\ Goes(r, c) => CallBecomes(r, c)
           /\ Ends(r) => CallBecomes(r, NoCall)
BY CallKinds
   DEF Starts, Goes, Ends, CallBecomes, AccountsInv, AccountsTypeOK, Calls

\* The rows that are typed by themselves.
RowsOK ==
    /\ user \in UserRow
    /\ token \in [TokenIds -> TokenStates]
    /\ links \in 0..MaxLinks
    /\ workspaces \in 0..MaxWorkspaces
    /\ spent \in [TokenIds -> Nat]
    /\ signedIn \in BOOLEAN
    /\ lapses \subseteq Lapses
    /\ ~ user.exists => links = 0 /\ workspaces = 0 /\ \A t \in TokenIds : ~ HasToken(t)

LEMMA Types ==
    /\ AccountsTypeOK <=> RowsOK /\ calls \in [AccountRequests -> Calls]
    /\ AccountsTypeOK' <=> RowsOK' /\ calls' \in [AccountRequests -> Calls]
BY DEF AccountsTypeOK, RowsOK, Calls, HasToken

LEMMA OverlapIsLapse == Overlap \subseteq Lapses
BY DEF Overlap, Lapses

-----------------------------------------------------------------------------
(* Steps that leave the rows alone                                         *)

rows == <<user, token, links, workspaces, spent, signedIn>>

\* A request that begins: what its first query has seen.
LEMMA BeginsKeep ==
    ASSUME AccountsInv, NEW r \in AccountRequests, NEW c \in Calls, In(r, "none"),
           CallBecomes(r, c), UNCHANGED rows,
           lapses \cup Overlap \subseteq lapses', lapses' \subseteq Lapses,
           c.step \in Identified => c.id <= user.id,
           c.step = "login" => Landed',
           c.step = "resend" => /\ c.old = {t \in TokenIds : HasToken(t)}
                                /\ workspaces > 0 => "resentSettled" \in lapses',
           c.step = "verify" => \E t \in TokenIds : HasToken(t)
    PROVE  AccountsInv'
<1> USE DEF rows, AccountsInv
<1>1. AccountsTypeOK'
  BY Types DEF RowsOK, HasToken, CallBecomes
<1>2. CallsKnown'
  BY DEF CallsKnown, CallBecomes
<1>3. SpentIsDeleted'
  BY DEF SpentIsDeleted
<1>4. WaysIn'
  BY DEF WaysIn, Landed, CallBecomes, In, Is
<1>5. InTurnAccount'
  <2> SUFFICES ASSUME "overlap" \notin lapses'
               PROVE  /\ \A q, s \in Busy' : q = s
                      /\ \A t, q \in TokenIds : HasToken(t) /\ HasToken(q) => t = q
                      /\ \A q \in AccountRequests, t \in TokenIds :
                            In(q, "resend")' /\ HasToken(t) => t \in calls'[q].old
    BY DEF InTurnAccount, HasToken
  <2>1. Busy = {}
    BY DEF Overlap
  <2>2. \A q \in AccountRequests \ {r} : calls'[q] = calls[q] /\ In(q, "none")
    BY <2>1 DEF Busy, CallBecomes
  <2>3. \A q \in Busy' : q = r
    BY <2>2 DEF Busy, In
  <2>4. \A q \in AccountRequests : In(q, "resend")' => q = r
    BY <2>2 DEF In
  <2> QED
    BY <2>3, <2>4 DEF InTurnAccount, In, CallBecomes
<1>6. NoTokenLeft'
  BY DEF NoTokenLeft, CallBecomes, In, HasToken, AccountsTypeOK
<1> QED
  BY <1>1, <1>2, <1>3, <1>4, <1>5, <1>6

\* A request that goes on without writing, or ends.
LEMMA ContinuesKeep ==
    ASSUME AccountsInv, NEW r \in AccountRequests, NEW c \in Calls, ~ In(r, "none"),
           CallBecomes(r, c), UNCHANGED <<rows, lapses>>,
           c.step \notin {"login", "resend", "verify"},
           c.step \in Identified => c.id <= user.id
    PROVE  AccountsInv'
<1> USE DEF rows, AccountsInv
<1>1. AccountsTypeOK'
  BY Types DEF RowsOK, HasToken, CallBecomes
<1>2. CallsKnown'
  BY DEF CallsKnown, CallBecomes
<1>3. SpentIsDeleted'
  BY DEF SpentIsDeleted
<1>4. WaysIn'
  BY DEF WaysIn, Landed, CallBecomes, In, Is
<1>5. Busy' \subseteq Busy
  BY DEF Busy, In, CallBecomes
<1>6. InTurnAccount'
  BY <1>5 DEF InTurnAccount, CallBecomes, In, HasToken
<1>7. NoTokenLeft'
  BY DEF NoTokenLeft, CallBecomes, In, HasToken
<1> QED
  BY <1>1, <1>2, <1>3, <1>4, <1>6, <1>7

LEMMA QueriesKeep ==
    ASSUME AccountsInv, NEW r \in AccountRequests,
           \/ RegisterRead(r) \/ ResendRead(r)
           \/ PasswordLogin(r) \/ GoogleLogin(r) \/ GoogleUnknown(r)
           \/ GoogleReadEmail(r) \/ CallFails(r)
           \/ \E t \in TokenIds : VerifyRead(r, t)
    PROVE  AccountsInv'
<1>1. user.id \in AccountIds /\ user.id <= user.id /\ lapses \subseteq Lapses
  BY DEF AccountsInv, AccountsTypeOK, UserRow, AccountIds
<1>2. ASSUME NEW c \in Calls, Starts(r, c), UNCHANGED rows,
             c.step \in Identified => c.id <= user.id,
             c.step = "login" => Landed,
             c.step # "resend",
             c.step = "verify" => \E t \in TokenIds : HasToken(t)
      PROVE  AccountsInv'
  <2>1. CallBecomes(r, c) /\ In(r, "none") /\ lapses' = lapses \cup Overlap
    BY <1>2, CallMoves DEF Starts
  <2>2. c.step = "login" => Landed'
    BY <1>2, <2>1 DEF Landed, rows
  <2> QED
    BY <1>1, <1>2, <2>1, <2>2, OverlapIsLapse, BeginsKeep
<1>3. CASE RegisterRead(r) \/ GoogleUnknown(r)
  BY <1>2, <1>3, CallKinds DEF RegisterRead, GoogleUnknown, rows, Identified
<1>4. CASE PasswordLogin(r) \/ GoogleLogin(r)
  <2>1. Landed
    BY <1>4 DEF PasswordLogin, GoogleLogin, AccountsInv, WaysIn, Landed, AccountsTypeOK
  <2> QED
    BY <1>1, <1>2, <1>4, <2>1, CallKinds DEF PasswordLogin, GoogleLogin, rows
<1>5. ASSUME NEW t \in TokenIds, VerifyRead(r, t) PROVE AccountsInv'
  BY <1>1, <1>2, <1>5, CallKinds DEF VerifyRead, HasToken, rows
<1>6. CASE ResendRead(r)
  <2> DEFINE c == [step |-> "resend", id |-> user.id,
                   old |-> {t \in TokenIds : HasToken(t)}]
  <2>1. c \in Calls /\ c.step = "resend" /\ c.id = user.id
        /\ c.old = {t \in TokenIds : HasToken(t)}
    BY <1>1, CallKinds
  <2> HIDE DEF c
  <2>2. CallBecomes(r, c)
    BY <1>6, <2>1 DEF ResendRead, c, CallBecomes, AccountsInv, AccountsTypeOK, Calls
  <2>3. /\ lapses \cup Overlap \subseteq lapses' /\ lapses' \subseteq Lapses
        /\ workspaces > 0 => "resentSettled" \in lapses'
        /\ In(r, "none") /\ UNCHANGED rows
    BY <1>1, <1>6, OverlapIsLapse DEF ResendRead, Lapses, rows
  <2> QED
    BY <1>1, <2>1, <2>2, <2>3, BeginsKeep
<1>7. CASE GoogleReadEmail(r)
  <2>1. ~ In(r, "none") /\ UNCHANGED rows
    BY <1>7 DEF GoogleReadEmail, In, rows
  <2>2. ASSUME NEW c \in Calls, Goes(r, c),
               c.step \notin {"login", "resend", "verify"},
               c.step \in Identified => c.id <= user.id
        PROVE  AccountsInv'
    <3>1. CallBecomes(r, c) /\ UNCHANGED lapses
      BY <2>2, CallMoves DEF Goes
    <3> QED
      BY <2>1, <2>2, <3>1, ContinuesKeep DEF rows
  <2>3. CASE user.exists
    <3> DEFINE c == [step |-> "google:link", id |-> user.id]
    <3>1. Goes(r, c)
      BY <1>7, <2>3 DEF GoogleReadEmail
    <3>2. c \in Calls
      BY <1>1, CallKinds
    <3>3. c.step = "google:link" /\ c.id <= user.id
      BY <1>1
    <3> HIDE DEF c
    <3> QED
      BY <2>2, <3>1, <3>2, <3>3
  <2>4. CASE ~ user.exists
    <3> DEFINE c == [step |-> "google:create"]
    <3>1. Goes(r, c)
      BY <1>7, <2>4 DEF GoogleReadEmail
    <3>2. c \in Calls /\ c.step = "google:create"
      BY CallKinds
    <3> HIDE DEF c
    <3> QED
      BY <2>2, <3>1, <3>2 DEF Identified
  <2> QED
    BY <2>3, <2>4
<1>8. CASE CallFails(r)
  BY <1>8, CallKinds, CallMoves, ContinuesKeep DEF CallFails, Ends, rows, Identified
<1> QED
  BY <1>3, <1>4, <1>5, <1>6, <1>7, <1>8

-----------------------------------------------------------------------------
(* Steps that leave the requests alone                                     *)

LEMMA TokenExpiresKeeps ==
    ASSUME AccountsInv, NEW x \in TokenIds, TokenExpires(x)
    PROVE  AccountsInv'
<1> USE DEF AccountsInv
<1>1. /\ token' \in [TokenIds -> TokenStates]
      /\ \A t \in TokenIds : HasToken(t)' <=> HasToken(t)
      /\ \A t \in TokenIds : token[t] = "deleted" => token'[t] = "deleted"
  BY DEF TokenExpires, HasToken, AccountsTypeOK, TokenStates
<1>2. AccountsTypeOK'
  BY <1>1, Types DEF TokenExpires, RowsOK
<1>3. CallsKnown' /\ WaysIn'
  BY DEF TokenExpires, CallsKnown, WaysIn, Landed, In, Is
<1>4. SpentIsDeleted'
  BY <1>1 DEF TokenExpires, SpentIsDeleted
<1>5. InTurnAccount'
  BY <1>1 DEF TokenExpires, InTurnAccount, Busy, In
<1>6. NoTokenLeft'
  BY <1>1 DEF TokenExpires, NoTokenLeft, In
<1> QED
  BY <1>2, <1>3, <1>4, <1>5, <1>6

LEMMA VerifyExpiredKeeps ==
    ASSUME AccountsInv, NEW x \in TokenIds, VerifyExpired(x)
    PROVE  AccountsInv'
<1> USE DEF AccountsInv
<1>1. /\ token' \in [TokenIds -> TokenStates]
      /\ \A t \in TokenIds : HasToken(t)' => HasToken(t)
      /\ \A t \in TokenIds : token[t] = "deleted" => token'[t] = "deleted"
  BY DEF VerifyExpired, HasToken, AccountsTypeOK, TokenStates
<1>2. /\ UNCHANGED calls /\ lapses \cup Overlap \subseteq lapses' /\ lapses' \subseteq Lapses
      /\ lapses' \subseteq lapses \cup {"overlap"}
  BY OverlapIsLapse DEF VerifyExpired, Alone, AtOnce, AccountsTypeOK, Overlap
<1>3. AccountsTypeOK'
  BY <1>1, <1>2, Types DEF VerifyExpired, RowsOK
<1>4. CallsKnown' /\ WaysIn'
  BY <1>2 DEF VerifyExpired, CallsKnown, WaysIn, Landed, In, Is
<1>5. SpentIsDeleted'
  BY <1>1 DEF VerifyExpired, SpentIsDeleted
<1>6. InTurnAccount'
  BY <1>1, <1>2 DEF VerifyExpired, InTurnAccount, Busy, In
<1>7. NoTokenLeft'
  BY <1>1, <1>2 DEF VerifyExpired, NoTokenLeft, In
<1> QED
  BY <1>3, <1>4, <1>5, <1>6, <1>7

LEMMA UpdateStatusKeeps ==
    ASSUME AccountsInv, NEW status \in UserStatus, UpdateStatus(status)
    PROVE  AccountsInv'
<1> USE DEF AccountsInv
<1>1. /\ user' \in UserRow /\ user'.id = user.id
      /\ user'.exists = user.exists /\ user'.verified = user.verified
  BY DEF UpdateStatus, AccountsTypeOK, UserRow
<1>2. /\ UNCHANGED calls /\ lapses \cup Overlap \subseteq lapses' /\ lapses' \subseteq Lapses
      /\ lapses' \subseteq lapses \cup {"overlap"}
  BY OverlapIsLapse DEF UpdateStatus, Alone, AtOnce, AccountsTypeOK, Overlap
<1>3. AccountsTypeOK'
  BY <1>1, <1>2, Types DEF UpdateStatus, RowsOK, HasToken
<1>4. CallsKnown' /\ WaysIn'
  BY <1>1, <1>2 DEF UpdateStatus, CallsKnown, WaysIn, Landed, In, Is
<1>5. SpentIsDeleted'
  BY DEF UpdateStatus, SpentIsDeleted
<1>6. InTurnAccount'
  BY <1>2 DEF UpdateStatus, InTurnAccount, Busy, In, HasToken
<1>7. NoTokenLeft'
  BY <1>2 DEF UpdateStatus, NoTokenLeft, In, HasToken
<1> QED
  BY <1>3, <1>4, <1>5, <1>6, <1>7

LEMMA DeleteUserKeeps ==
    ASSUME AccountsInv, DeleteUser
    PROVE  AccountsInv'
<1> USE DEF AccountsInv
<1>1. /\ user' \in UserRow /\ user'.id = user.id /\ ~ user'.exists
      /\ token' \in [TokenIds -> TokenStates]
      /\ \A t \in TokenIds : ~ HasToken(t)'
  BY DEF DeleteUser, HasToken, AccountsTypeOK, UserRow, TokenStates
<1>2. spent' = [t \in TokenIds |-> 0] /\ links' = 0 /\ workspaces' = 0 /\ ~ signedIn'
  BY DEF DeleteUser
<1>3. /\ UNCHANGED calls /\ lapses' \subseteq Lapses
      /\ "overlap" \in lapses \cup Overlap => "overlap" \in lapses'
  BY OverlapIsLapse DEF DeleteUser, AtOnce, AccountsTypeOK
<1>4. AccountsTypeOK'
  <2>1. 0 \in 0..MaxLinks /\ 0 \in 0..MaxWorkspaces
    BY AccountsAssumption
  <2>3. signedIn' \in BOOLEAN
    BY DEF DeleteUser
  <2>2. spent' \in [TokenIds -> Nat]
    BY <1>2
  <2> QED
    BY <1>1, <1>2, <1>3, <2>1, <2>2, <2>3, Types DEF RowsOK
<1>5. CallsKnown'
  BY <1>1, <1>3 DEF CallsKnown
<1>6. WaysIn'
  BY <1>1, <1>2 DEF WaysIn, Is
<1>7. SpentIsDeleted'
  BY <1>2 DEF SpentIsDeleted
<1>8. InTurnAccount'
  BY <1>1, <1>3 DEF InTurnAccount, Busy, In
<1>9. NoTokenLeft'
  BY <1>2 DEF NoTokenLeft
<1> QED
  BY <1>4, <1>5, <1>6, <1>7, <1>8, <1>9
-----------------------------------------------------------------------------
(* The transactions                                                        *)

\* A request that wrote without another in flight was the only one.
LEMMA OnlyRequest ==
    ASSUME AccountsInv, NEW r \in AccountRequests, NEW c \in Calls,
           CallBecomes(r, c), ~ In(r, "none"), "overlap" \notin lapses
    PROVE  /\ Busy' \subseteq {r}
           /\ \A q \in AccountRequests \ {r} : calls'[q].step = "none"
BY DEF AccountsInv, InTurnAccount, Busy, In, CallBecomes

LEMMA RegisterCommitKeeps ==
    ASSUME AccountsInv, NEW r \in AccountRequests, NEW x \in TokenIds, RegisterCommit(r, x)
    PROVE  AccountsInv'
<1> USE DEF AccountsInv
<1>1. /\ ~ In(r, "none") /\ CallBecomes(r, NoCall) /\ NoCall.step = "none"
      /\ NoCall \in Calls
  BY CallKinds, CallMoves DEF RegisterCommit, In
<1>2. /\ user' \in UserRow /\ user'.id = user.id + 1 /\ user.id \in Nat
      /\ user'.exists /\ ~ user'.verified
  BY AccountsAssumption
     DEF RegisterCommit, AccountsTypeOK, UserRow, AccountIds, UserStatus
<1>3. /\ token' \in [TokenIds -> TokenStates] /\ token[x] = "unused"
      /\ \A t \in TokenIds : HasToken(t)' => t = x
      /\ \A t \in TokenIds : token[t] = "deleted" => token'[t] = "deleted"
  BY DEF RegisterCommit, HasToken, AccountsTypeOK, TokenStates, IsNextToken
<1>4. /\ UNCHANGED <<links, workspaces, spent, signedIn, lapses>>
      /\ links = 0 /\ workspaces = 0
  BY DEF RegisterCommit, Ends, AccountsTypeOK
<1>5. AccountsTypeOK'
  BY <1>1, <1>2, <1>3, <1>4, Types DEF RowsOK, CallBecomes
<1>6. CallsKnown'
  BY <1>1, <1>2, CallOfKind DEF CallsKnown, CallBecomes, Identified, AccountsTypeOK,
     Calls, AccountIds
<1>7. SpentIsDeleted'
  BY <1>3, <1>4 DEF SpentIsDeleted
<1>8. WaysIn'
  <2>1. \A q \in AccountRequests : In(q, "login")' => ~ Is(calls[q].id)'
    <3> SUFFICES ASSUME NEW q \in AccountRequests, In(q, "login")' PROVE ~ Is(calls[q].id)'
      OBVIOUS
    <3>1. calls'[q] = calls[q] /\ calls[q] \in Calls /\ calls[q].step = "login"
      BY <1>1 DEF CallBecomes, In, AccountsTypeOK, Calls
    <3>2. calls[q].id \in Nat /\ calls[q].id <= user.id
      BY <3>1, CallOfKind DEF CallsKnown, Identified, AccountIds
    <3> QED
      BY <1>2, <3>1, <3>2 DEF Is
  <2> QED
    BY <1>2, <1>4, <2>1 DEF WaysIn, Landed
<1>q. "overlap" \notin lapses =>
         /\ Busy' \subseteq {r}
         /\ \A q \in AccountRequests \ {r} : calls'[q].step = "none"
  BY <1>1, OnlyRequest
<1>9. InTurnAccount'
  BY <1>1, <1>3, <1>4, <1>q DEF InTurnAccount, In, CallBecomes
<1>10. NoTokenLeft'
  BY <1>4 DEF NoTokenLeft
<1> QED
  BY <1>5, <1>6, <1>7, <1>8, <1>9, <1>10

LEMMA ResendCommitKeeps ==
    ASSUME AccountsInv, NEW r \in AccountRequests, NEW x \in TokenIds, ResendCommit(r, x)
    PROVE  AccountsInv'
<1> USE DEF AccountsInv
<1>1. /\ In(r, "resend") /\ ~ In(r, "none") /\ CallBecomes(r, NoCall)
      /\ NoCall.step = "none" /\ NoCall \in Calls
  BY CallKinds, CallMoves DEF ResendCommit, In
<1>2. /\ token' \in [TokenIds -> TokenStates] /\ token[x] = "unused"
      /\ \A t \in TokenIds : HasToken(t)' => t = x \/ (HasToken(t) /\ t \notin calls[r].old)
      /\ \A t \in TokenIds : token[t] = "deleted" => token'[t] = "deleted"
  BY DEF ResendCommit, HasToken, AccountsTypeOK, TokenStates, IsNextToken
<1>3. UNCHANGED <<user, links, workspaces, spent, signedIn, lapses>> /\ user.exists
  BY DEF ResendCommit, Ends, Is
<1>4. AccountsTypeOK'
  BY <1>1, <1>2, <1>3, Types DEF RowsOK, CallBecomes
<1>5. CallsKnown'
  BY <1>1, <1>3 DEF CallsKnown, CallBecomes, Identified
<1>6. SpentIsDeleted'
  BY <1>2, <1>3 DEF SpentIsDeleted
<1>7. WaysIn'
  BY <1>1, <1>3 DEF WaysIn, Landed, CallBecomes, In, Is
<1>q. "overlap" \notin lapses =>
         /\ Busy' \subseteq {r}
         /\ \A q \in AccountRequests \ {r} : calls'[q].step = "none"
  BY <1>1, OnlyRequest
<1>8. InTurnAccount'
  BY <1>1, <1>2, <1>3, <1>q DEF InTurnAccount, In, CallBecomes
<1>9. NoTokenLeft'
  BY <1>1, <1>3 DEF NoTokenLeft
<1> QED
  BY <1>4, <1>5, <1>6, <1>7, <1>8, <1>9

LEMMA VerifyCommitKeeps ==
    ASSUME AccountsInv, NEW r \in AccountRequests, VerifyCommit(r)
    PROVE  AccountsInv'
<1> DEFINE x == calls[r].token
           c == [step |-> "login", id |-> calls[r].id]
<1> USE DEF AccountsInv
<1>1. /\ In(r, "verify") /\ ~ In(r, "none") /\ calls[r] \in Calls
      /\ x \in TokenIds /\ HasToken(x) /\ Is(calls[r].id) /\ calls[r].id \in AccountIds
  BY CallOfKind DEF VerifyCommit, In, AccountsTypeOK, Calls, Identified
<1>2. c \in Calls /\ c.step = "login" /\ c.id = calls[r].id
  BY <1>1, CallKinds
<1>3. Goes(r, c) /\ CallBecomes(r, c)
  BY <1>2, CallMoves DEF VerifyCommit, Verified
<1>4. /\ user' \in UserRow /\ user'.id = user.id /\ user'.exists
  BY <1>1 DEF VerifyCommit, Verified, AccountsTypeOK, UserRow, UserStatus, Is
<1>5. /\ token' \in [TokenIds -> TokenStates]
      /\ \A t \in TokenIds : HasToken(t)' => HasToken(t) /\ t # x
      /\ \A t \in TokenIds : token[t] = "deleted" => token'[t] = "deleted"
      /\ token'[x] = "deleted"
  BY <1>1 DEF VerifyCommit, Verified, HasToken, AccountsTypeOK, TokenStates
<1>6. UNCHANGED <<links, signedIn, lapses>>
  BY DEF VerifyCommit, Verified, Goes
<1>7. workspaces \in Nat /\ workspaces' = workspaces + 1 /\ workspaces' \in 0..MaxWorkspaces
  BY AccountsAssumption DEF VerifyCommit, Verified, AccountsTypeOK
<1>8. spent[x] = 0 /\ spent' = [spent EXCEPT ![x] = 1]
  <2>1. spent[x] \in Nat /\ spent[x] <= 1 /\ spent[x] # 1
    <3> HIDE DEF x
    <3> QED
      BY <1>1 DEF SpentIsDeleted, HasToken, AccountsTypeOK
  <2>2. spent' = [spent EXCEPT ![x] = spent[x] + 1]
    BY DEF VerifyCommit, Verified
  <2>3. spent[x] = 0
    <3> HIDE DEF x
    <3> QED
      BY <2>1
  <2>4. spent[x] + 1 = 1
    BY <2>3
  <2> QED
    BY <2>2, <2>3, <2>4, Zenon
<1> HIDE DEF c, x
<1>9. AccountsTypeOK'
  <2>1. spent' \in [TokenIds -> Nat]
    BY <1>8 DEF AccountsTypeOK
  <2> QED
    BY <1>3, <1>4, <1>5, <1>6, <1>7, <2>1, Types DEF RowsOK, CallBecomes
<1>10. CallsKnown'
  BY <1>1, <1>2, <1>3, <1>4 DEF CallsKnown, CallBecomes, Identified, In
<1>11. SpentIsDeleted'
  BY <1>1, <1>5, <1>8 DEF SpentIsDeleted, AccountsTypeOK
<1>12. WaysIn'
  BY <1>7 DEF WaysIn, Landed
<1>q. "overlap" \notin lapses =>
         /\ Busy' \subseteq {r}
         /\ \A q \in AccountRequests \ {r} : calls'[q].step = "none"
  BY <1>1, <1>2, <1>3, OnlyRequest
<1>13. InTurnAccount'
  BY <1>1, <1>2, <1>3, <1>5, <1>6, <1>q DEF InTurnAccount, In, CallBecomes
<1>14. NoTokenLeft'
  <2> SUFFICES ASSUME lapses \cap {"overlap", "resentSettled"} = {}
               PROVE  /\ workspaces' <= 1
                      /\ \A t \in TokenIds : ~ HasToken(t)'
                      /\ \A q \in AccountRequests : ~ In(q, "resend")' /\ ~ In(q, "verify")'
    BY <1>6 DEF NoTokenLeft
  <2>1. workspaces' <= 1
    BY <1>1, <1>7 DEF NoTokenLeft
  <2>2. \A t \in TokenIds : ~ HasToken(t)'
    BY <1>1, <1>5 DEF InTurnAccount
  <2>3. \A q \in AccountRequests : ~ In(q, "resend")' /\ ~ In(q, "verify")'
    BY <1>1, <1>2, <1>3, <1>q DEF In, CallBecomes
  <2> QED
    BY <2>1, <2>2, <2>3
<1> QED
  BY <1>9, <1>10, <1>11, <1>12, <1>13, <1>14

LEMMA GoogleLinkKeeps ==
    ASSUME AccountsInv, NEW r \in AccountRequests, GoogleLink(r)
    PROVE  AccountsInv'
<1> DEFINE c == [step |-> "login", id |-> user.id]
<1> USE DEF AccountsInv
<1>1. /\ In(r, "google:link") /\ ~ In(r, "none") /\ user.id \in AccountIds
      /\ user.id <= user.id /\ user.exists
  BY DEF GoogleLink, In, Is, AccountsTypeOK, UserRow, AccountIds
<1>2. c \in Calls /\ c.step = "login" /\ c.id = user.id
  BY <1>1, CallKinds
<1>3. CallBecomes(r, c)
  BY <1>2 DEF GoogleLink, CallBecomes, AccountsTypeOK, Calls
<1>4. /\ UNCHANGED <<user, token, workspaces, spent, signedIn>>
      /\ links' \in 0..MaxLinks
      /\ lapses \subseteq lapses' /\ lapses' \subseteq lapses \cup {"linkedPending"}
      /\ lapses' \subseteq Lapses
  BY AccountsAssumption DEF GoogleLink, AccountsTypeOK, Lapses
<1>5. Landed'
  BY AccountsAssumption DEF GoogleLink, Landed, AccountsTypeOK
<1> HIDE DEF c
<1>6. AccountsTypeOK'
  BY <1>1, <1>3, <1>4, Types DEF RowsOK, HasToken, CallBecomes
<1>7. CallsKnown'
  BY <1>1, <1>2, <1>3, <1>4 DEF CallsKnown, CallBecomes
<1>8. SpentIsDeleted'
  BY <1>4 DEF SpentIsDeleted
<1>9. WaysIn'
  BY <1>4, <1>5 DEF WaysIn
<1>q. "overlap" \notin lapses =>
         /\ Busy' \subseteq {r}
         /\ \A q \in AccountRequests \ {r} : calls'[q].step = "none"
  BY <1>1, <1>2, <1>3, OnlyRequest
<1>10. InTurnAccount'
  BY <1>1, <1>2, <1>3, <1>4, <1>q DEF InTurnAccount, In, HasToken, CallBecomes
<1>11. NoTokenLeft'
  BY <1>2, <1>3, <1>4 DEF NoTokenLeft, HasToken, In, CallBecomes
<1> QED
  BY <1>6, <1>7, <1>8, <1>9, <1>10, <1>11

LEMMA GoogleCreateKeeps ==
    ASSUME AccountsInv, NEW r \in AccountRequests, GoogleCreate(r)
    PROVE  AccountsInv'
<1> DEFINE c == [step |-> "login", id |-> user.id + 1]
<1> USE DEF AccountsInv
<1>1. /\ In(r, "google:create") /\ ~ In(r, "none") /\ ~ user.exists
      /\ user.id \in Nat /\ user.id + 1 \in AccountIds /\ user.id + 1 <= user.id + 1
  BY AccountsAssumption DEF GoogleCreate, In, AccountsTypeOK, UserRow, AccountIds
<1>2. c \in Calls /\ c.step = "login" /\ c.id = user.id + 1
  BY <1>1, CallKinds
<1>3. CallBecomes(r, c)
  BY <1>2, CallMoves DEF GoogleCreate
<1>4. /\ user' \in UserRow /\ user'.id = user.id + 1 /\ user'.exists
  BY <1>1 DEF GoogleCreate, UserRow, UserStatus
<1>5. /\ UNCHANGED <<token, spent, signedIn, lapses>>
      /\ links' \in 0..MaxLinks /\ workspaces' \in 0..MaxWorkspaces /\ workspaces' = 1
  BY AccountsAssumption DEF GoogleCreate, Goes
<1>6. \A t \in TokenIds : ~ HasToken(t) /\ ~ HasToken(t)'
  BY <1>1, <1>5 DEF AccountsTypeOK, HasToken
<1> HIDE DEF c
<1>7. AccountsTypeOK'
  BY <1>3, <1>4, <1>5, Types DEF RowsOK, CallBecomes
<1>8. CallsKnown'
  BY <1>1, <1>2, <1>3, <1>4, CallOfKind
     DEF CallsKnown, CallBecomes, AccountsTypeOK, Calls, AccountIds
<1>9. SpentIsDeleted'
  BY <1>5 DEF SpentIsDeleted
<1>10. WaysIn'
  BY <1>5 DEF WaysIn, Landed
<1>q. "overlap" \notin lapses =>
         /\ Busy' \subseteq {r}
         /\ \A q \in AccountRequests \ {r} : calls'[q].step = "none"
  BY <1>1, <1>2, <1>3, OnlyRequest
<1>11. InTurnAccount'
  BY <1>1, <1>2, <1>3, <1>5, <1>6, <1>q DEF InTurnAccount, In, CallBecomes
<1>12. NoTokenLeft'
  BY <1>1, <1>2, <1>3, <1>5, <1>6, <1>q DEF NoTokenLeft, In, CallBecomes
<1> QED
  BY <1>7, <1>8, <1>9, <1>10, <1>11, <1>12

LEMMA CompleteLoginKeeps ==
    ASSUME AccountsInv, NEW r \in AccountRequests, CompleteLogin(r)
    PROVE  AccountsInv'
<1> USE DEF AccountsInv
<1>1. /\ ~ In(r, "none") /\ CallBecomes(r, NoCall) /\ NoCall.step = "none"
      /\ NoCall \in Calls
  BY CallKinds, CallMoves DEF CompleteLogin, In
<1>2. UNCHANGED <<user, token, links, workspaces, spent, lapses>> /\ signedIn' = TRUE
  BY DEF CompleteLogin, Ends
<1>3. Landed'
  BY <1>2 DEF CompleteLogin, WaysIn, Landed
<1>4. AccountsTypeOK'
  <2>1. signedIn' \in BOOLEAN
    BY <1>2
  <2> QED
    BY <1>1, <1>2, <2>1, Types DEF RowsOK, HasToken, CallBecomes
<1>5. CallsKnown'
  BY <1>1, <1>2 DEF CallsKnown, CallBecomes, Identified
<1>6. SpentIsDeleted'
  BY <1>2 DEF SpentIsDeleted
<1>7. WaysIn'
  BY <1>2, <1>3 DEF WaysIn
<1>q. "overlap" \notin lapses =>
         /\ Busy' \subseteq {r}
         /\ \A q \in AccountRequests \ {r} : calls'[q].step = "none"
  BY <1>1, OnlyRequest
<1>8. InTurnAccount'
  BY <1>1, <1>2, <1>q DEF InTurnAccount, In, HasToken, CallBecomes
<1>9. NoTokenLeft'
  BY <1>1, <1>2 DEF NoTokenLeft, In, HasToken, CallBecomes
<1> QED
  BY <1>4, <1>5, <1>6, <1>7, <1>8, <1>9

-----------------------------------------------------------------------------
(* The theorems                                                            *)

LEMMA AccountsStart == AccountsInit => AccountsInv
<1> SUFFICES ASSUME AccountsInit PROVE AccountsInv
  OBVIOUS
<1>1. /\ \A r \in AccountRequests : calls[r] = NoCall /\ calls[r].step = "none"
      /\ calls \in [AccountRequests -> Calls] /\ Busy = {}
  BY CallKinds DEF AccountsInit, Busy, In
<1>2. AccountsTypeOK
  <2>1. user \in UserRow
    BY AccountsAssumption DEF AccountsInit, UserRow, UserStatus, AccountIds
  <2>2. links \in 0..MaxLinks /\ workspaces \in 0..MaxWorkspaces
    BY AccountsAssumption DEF AccountsInit
  <2>3. signedIn \in BOOLEAN
    BY DEF AccountsInit
  <2>4. token \in [TokenIds -> TokenStates] /\ spent \in [TokenIds -> Nat]
        /\ lapses \subseteq Lapses /\ \A t \in TokenIds : ~ HasToken(t)
    BY DEF AccountsInit, HasToken, TokenStates
  <2>5. links = 0 /\ workspaces = 0
    BY DEF AccountsInit
  <2> QED
    BY <1>1, <2>1, <2>2, <2>3, <2>4, <2>5, Types DEF RowsOK
<1>3. CallsKnown
  BY <1>1 DEF CallsKnown, Identified
<1>4. SpentIsDeleted
  BY DEF AccountsInit, SpentIsDeleted
<1>5. WaysIn
  BY <1>1 DEF AccountsInit, WaysIn, In
<1>6. InTurnAccount
  BY <1>1 DEF AccountsInit, InTurnAccount, In, HasToken
<1>7. NoTokenLeft
  BY <1>1 DEF AccountsInit, NoTokenLeft
<1> QED
  BY <1>2, <1>3, <1>4, <1>5, <1>6, <1>7 DEF AccountsInv

LEMMA AccountsNextKeeps == AccountsInv /\ [AccountsNext]_accountVars => AccountsInv'
<1> SUFFICES ASSUME AccountsInv, [AccountsNext]_accountVars PROVE AccountsInv'
  OBVIOUS
<1>1. ASSUME NEW r \in AccountRequests, AccountStep(r) PROVE AccountsInv'
  <2>1. CASE \/ RegisterRead(r) \/ ResendRead(r) \/ PasswordLogin(r) \/ GoogleLogin(r)
             \/ GoogleUnknown(r) \/ GoogleReadEmail(r) \/ CallFails(r)
    BY <2>1, QueriesKeep
  <2>2. ASSUME NEW t \in TokenIds,
               RegisterCommit(r, t) \/ ResendCommit(r, t) \/ VerifyRead(r, t)
        PROVE  AccountsInv'
    BY <2>2, RegisterCommitKeeps, ResendCommitKeeps, QueriesKeep
  <2>3. CASE VerifyCommit(r) \/ GoogleLink(r) \/ GoogleCreate(r) \/ CompleteLogin(r)
    BY <2>3, VerifyCommitKeeps, GoogleLinkKeeps, GoogleCreateKeeps, CompleteLoginKeeps
  <2> QED
    BY <1>1, <2>1, <2>2, <2>3 DEF AccountStep
<1>2. ASSUME NEW t \in TokenIds, TokenExpires(t) \/ VerifyExpired(t) PROVE AccountsInv'
  BY <1>2, TokenExpiresKeeps, VerifyExpiredKeeps
<1>3. CASE BanUser \/ UnbanUser \/ DeleteMyAccount
  BY <1>3, UpdateStatusKeeps DEF BanUser, UnbanUser, DeleteMyAccount, UserStatus
<1>4. CASE DeleteUser
  BY <1>4, DeleteUserKeeps
<1>5. CASE UNCHANGED accountVars
  BY <1>5 DEF accountVars, AccountsInv, AccountsTypeOK, CallsKnown, SpentIsDeleted, WaysIn,
     Landed, InTurnAccount, NoTokenLeft, HasToken, In, Is, Busy
<1> QED
  BY <1>1, <1>2, <1>3, <1>4, <1>5 DEF AccountsNext

THEOREM AccountsInvariant == AccountsSpec => []AccountsInv
BY AccountsStart, AccountsNextKeeps, PTL DEF AccountsSpec

\* The rows of the accounts are in states of the schema, what refers to an
\* account goes with it, and a request knows what its handler has read
\* (AuthService, OAuthService, AdminUserService).
THEOREM AccountsTypeCorrect == AccountsSpec => []AccountsTypeOK
BY AccountsInvariant, PTL DEF AccountsInv

\* However many requests verify, resend and delete at once, a token verifies
\* the account once (verifyEmail deletes it in the transaction).
THEOREM TokenVerifiesAtMostOnce == AccountsSpec => []TokenVerifiesOnce
<1>1. AccountsInv => TokenVerifiesOnce
  BY DEF AccountsInv, SpentIsDeleted, TokenVerifiesOnce
<1> QED
  BY <1>1, AccountsInvariant, PTL

\* Without overlapping requests and without a mail for an account that has its
\* workspace, an account gets one workspace; without overlap one token is left.
THEOREM OneWorkspaceInTurn == AccountsSpec => []OneDefaultWorkspace
<1>1. AccountsInv => OneDefaultWorkspace
  <2> SUFFICES ASSUME AccountsInv PROVE OneDefaultWorkspace
    OBVIOUS
  <2>1. workspaces > 1 => lapses \cap {"overlap", "resentSettled"} # {}
    BY DEF AccountsInv, NoTokenLeft, AccountsTypeOK
  <2>2. ASSUME "overlap" \notin lapses
        PROVE  ~ (Cardinality({t \in TokenIds : HasToken(t)}) > 1)
    <3> DEFINE left == {t \in TokenIds : HasToken(t)}
    <3>1. CASE left = {}
      BY <3>1, FS_EmptySet
    <3>2. CASE left # {}
      <4>1. PICK t : t \in left
        BY <3>2
      <4>2. left = {t}
        BY <2>2, <4>1 DEF AccountsInv, InTurnAccount
      <4> QED
        BY <4>2, FS_Singleton
    <3> QED
      BY <3>1, <3>2
  <2> QED
    BY <2>1, <2>2 DEF OneDefaultWorkspace
<1> QED
  BY <1>1, AccountsInvariant, PTL

\* Who has signed in, by password or with Google, has a workspace, unless Google
\* was linked to an account that waited for its verification.
THEOREM WhoSignsInHasWorkspace == AccountsSpec => []SignedInHasWorkspace
<1>1. AccountsInv => SignedInHasWorkspace
  BY DEF AccountsInv, WaysIn, Landed, SignedInHasWorkspace
<1> QED
  BY <1>1, AccountsInvariant, PTL

-----------------------------------------------------------------------------
(***************************************************************************)
(* The avatar                                                              *)
(***************************************************************************)

\* Names are given out in order.
NamesKnown ==
    /\ avatarUrl.key <= lastKey
    /\ \A t \in Tabs : upload[t].old <= lastKey

Pending == {"put", "write", "remove"}

\* An object that is about to be named is there, and named nowhere else.
WriteIsFresh ==
    \A t \in Tabs : At(t, "write") =>
        /\ upload[t].key \in stored
        /\ upload[t].key # avatarUrl.key
        /\ \A s \in Tabs : upload[s].step \in Pending => upload[s].old # upload[t].key
        /\ \A s \in Tabs : At(s, "write") /\ s # t => upload[s].key # upload[t].key

\* An object that is about to be removed is not the one the row names.
RemoveIsStale == \A t \in Tabs : At(t, "remove") => upload[t].old # avatarUrl.key

NamedIsStored == avatarUrl.key # 0 => avatarUrl.key \in stored

\* Without a mishap there is one upload, what it has read is still true until it
\* writes, and every object is the row's or that upload's.
InTurnAvatar ==
    mishaps = {} =>
        /\ \A s, t \in Uploading : s = t
        /\ \A t \in Tabs : upload[t].step \in {"put", "write"} => upload[t].old = avatarUrl.key
        /\ \A k \in stored :
              \/ k = avatarUrl.key
              \/ \E t \in Tabs : At(t, "write") /\ k = upload[t].key
              \/ \E t \in Tabs : At(t, "remove") /\ k = upload[t].old

\* A query asked after an upload reads what it wrote, or something later.
QueryIsLater ==
    \A t \in Tabs :
        /\ upload[t].at <= avatarUrl.at
        /\ At(t, "refresh") /\ me[t].fetch = "read" => upload[t].at <= me[t].data.at

AvatarInv ==
    /\ AvatarTypeOK
    /\ NamesKnown
    /\ WriteIsFresh
    /\ RemoveIsStale
    /\ NamedIsStored
    /\ InTurnAvatar
    /\ QueryIsLater

LEMMA EveryObjectHasAUse ==
    ASSUME AvatarInv, mishaps = {}, NEW k \in stored, k # avatarUrl.key
    PROVE  \E s \in Tabs :
              \/ upload[s].step = "write" /\ k = upload[s].key
              \/ upload[s].step = "remove" /\ k = upload[s].old
BY DEF AvatarInv, InTurnAvatar, At

-----------------------------------------------------------------------------
(* Steps of one tab                                                        *)

\* What a step of tab t does to the uploads.
UploadBecomes(t, u) ==
    /\ upload' \in [Tabs -> UploadState]
    /\ upload'[t] = u
    /\ \A s \in Tabs \ {t} : upload'[s] = upload[s]

LEMMA UploadMoves ==
    ASSUME AvatarInv, NEW t \in Tabs, NEW u \in UploadState,
           upload' = [upload EXCEPT ![t] = u]
    PROVE  UploadBecomes(t, u)
BY DEF AvatarInv, AvatarTypeOK, UploadBecomes

\* The rows and the objects stay as they are, and the tab has nothing to write
\* or to remove afterwards.
LEMMA RestKeeps ==
    ASSUME AvatarInv, NEW t \in Tabs, NEW u \in UploadState, UploadBecomes(t, u),
           UNCHANGED <<avatarUrl, stored, lastKey>>,
           u.step \notin Pending, u.old <= lastKey, u.at <= avatarUrl.at,
           mishaps \subseteq mishaps', mishaps' \subseteq Mishaps,
           mishaps' = {} => /\ Uploading' \subseteq Uploading \/ Uploading = {}
                            /\ ~ At(t, "write") /\ ~ At(t, "remove"),
           me' \in [Tabs -> [fetch : {"no", "asked", "read"}, data : Avatar, shown : Avatar]],
           \A s \in Tabs \ {t} : me'[s] = me[s],
           u.step = "refresh" => me'[t].fetch # "read"
    PROVE  AvatarInv'
<1> USE DEF AvatarInv, UploadBecomes, At, Pending
<1>1. AvatarTypeOK'
  BY DEF AvatarTypeOK
<1>2. NamesKnown'
  BY DEF NamesKnown
<1>3. WriteIsFresh'
  BY DEF WriteIsFresh
<1>4. RemoveIsStale'
  BY DEF RemoveIsStale
<1>5. NamedIsStored'
  BY DEF NamedIsStored
<1>6. InTurnAvatar'
  <2> SUFFICES ASSUME mishaps' = {}
               PROVE  /\ \A s, q \in Uploading' : s = q
                      /\ \A s \in Tabs : upload'[s].step \in {"put", "write"}
                                          => upload'[s].old = avatarUrl.key
                      /\ \A k \in stored :
                            \/ k = avatarUrl.key
                            \/ \E s \in Tabs : upload'[s].step = "write" /\ k = upload'[s].key
                            \/ \E s \in Tabs : upload'[s].step = "remove" /\ k = upload'[s].old
    BY DEF InTurnAvatar
  <2>1. mishaps = {}
    OBVIOUS
  <2>2. \A s, q \in Uploading' : s = q
    BY <2>1 DEF InTurnAvatar, Uploading
  <2>3. \A s \in Tabs : upload'[s].step \in {"put", "write"} => upload'[s].old = avatarUrl.key
    BY <2>1 DEF InTurnAvatar
  <2>4. ASSUME NEW k \in stored, k # avatarUrl.key
        PROVE  \/ \E s \in Tabs : upload'[s].step = "write" /\ k = upload'[s].key
               \/ \E s \in Tabs : upload'[s].step = "remove" /\ k = upload'[s].old
    <3>1. PICK s \in Tabs :
             \/ upload[s].step = "write" /\ k = upload[s].key
             \/ upload[s].step = "remove" /\ k = upload[s].old
      BY <2>1, <2>4, EveryObjectHasAUse
    <3>2. upload'[s] = upload[s]
      BY <3>1
    <3> QED
      BY <3>1, <3>2
  <2> QED
    BY <2>2, <2>3, <2>4
<1>7. QueryIsLater'
  <2> SUFFICES ASSUME NEW s \in Tabs
               PROVE  /\ upload'[s].at <= avatarUrl.at
                      /\ upload'[s].step = "refresh" /\ me'[s].fetch = "read"
                         => upload'[s].at <= me'[s].data.at
    BY DEF QueryIsLater
  <2>1. CASE s = t
    BY <2>1
  <2>2. CASE s # t
    BY <2>2 DEF QueryIsLater
  <2> QED
    BY <2>1, <2>2
<1> QED
  BY <1>1, <1>2, <1>3, <1>4, <1>5, <1>6, <1>7

LEMMA TabKeeps ==
    ASSUME AvatarInv, NEW t \in Tabs,
           \/ ChooseAvatar(t) \/ AvatarAnswer(t) \/ AvatarFails(t) \/ UploadFailed(t)
           \/ Invalidate(t) \/ MeArrives(t) \/ MeFails(t) \/ Refetch(t) \/ MeReads(t)
    PROVE  AvatarInv'
<1>1. /\ upload[t] \in UploadState /\ upload \in [Tabs -> UploadState]
      /\ me \in [Tabs -> [fetch : {"no", "asked", "read"}, data : Avatar, shown : Avatar]]
      /\ avatarUrl \in Avatar /\ lastKey \in Nat /\ mishaps \subseteq Mishaps
      /\ upload[t].at <= avatarUrl.at /\ upload[t].old <= lastKey
      /\ NoAvatar \in Avatar /\ NoUpload \in UploadState
  BY DEF AvatarInv, AvatarTypeOK, QueryIsLater, NamesKnown, NoAvatar, NoUpload, Avatar,
     UploadState, UploadSteps
<1>2. CASE ChooseAvatar(t)
  <2> DEFINE u == [NoUpload EXCEPT !.step = "read"]
  <2>1. /\ u \in UploadState /\ u.step = "read" /\ u.old = 0 /\ u.at = 0
    BY <1>1 DEF NoUpload, UploadState, UploadSteps
  <2>2. UploadBecomes(t, u)
    BY <1>2, <2>1, UploadMoves DEF ChooseAvatar
  <2>3. /\ UNCHANGED <<avatarUrl, stored, lastKey, me>>
        /\ mishaps \subseteq mishaps' /\ mishaps' \subseteq Mishaps
        /\ mishaps' = {} => Uploading = {}
        /\ At(t, "idle")
    BY <1>1, <1>2 DEF ChooseAvatar, Mishaps
  <2> HIDE DEF u
  <2>4. u.old <= lastKey /\ u.at <= avatarUrl.at
    BY <1>1, <2>1 DEF Avatar
  <2> QED
    BY <1>1, <2>1, <2>2, <2>3, <2>4, RestKeeps DEF Pending, At
<1>3. CASE AvatarAnswer(t)
  <2> DEFINE u == [NoUpload EXCEPT !.step = "ok", !.at = upload[t].at]
  <2>1. u \in UploadState /\ u.step = "ok" /\ u.old = 0 /\ u.at = upload[t].at
    BY <1>1 DEF NoUpload, UploadState, UploadSteps
  <2>2. UploadBecomes(t, u)
    BY <1>3, <2>1, UploadMoves DEF AvatarAnswer
  <2> HIDE DEF u
  <2>3. Uploading' \subseteq Uploading
    BY <2>1, <2>2 DEF Uploading, UploadBecomes
  <2>4. UNCHANGED <<avatarUrl, stored, lastKey, me, mishaps>> /\ At(t, "publish")
    BY <1>3 DEF AvatarAnswer
  <2> QED
    BY <1>1, <2>1, <2>2, <2>3, <2>4, RestKeeps DEF Pending, At
<1>4. CASE AvatarFails(t)
  <2> DEFINE u == [NoUpload EXCEPT !.step = "error"]
  <2>1. u \in UploadState /\ u.step = "error" /\ u.old = 0 /\ u.at = 0
    BY <1>1 DEF NoUpload, UploadState, UploadSteps
  <2>2. UploadBecomes(t, u)
    BY <1>4, <2>1, UploadMoves DEF AvatarFails
  <2> HIDE DEF u
  <2>3. /\ UNCHANGED <<avatarUrl, stored, lastKey, me>>
        /\ mishaps \subseteq mishaps' /\ mishaps' \subseteq Mishaps /\ mishaps' # {}
    BY <1>1, <1>4 DEF AvatarFails, Mishaps
  <2>4. u.old <= lastKey /\ u.at <= avatarUrl.at
    BY <1>1, <2>1 DEF Avatar
  <2> QED
    BY <1>1, <2>1, <2>2, <2>3, <2>4, RestKeeps DEF Pending
<1>5. CASE UploadFailed(t)
  <2>1. UploadBecomes(t, NoUpload)
    BY <1>1, <1>5, UploadMoves DEF UploadFailed
  <2>2. UNCHANGED <<avatarUrl, stored, lastKey, me, mishaps>> /\ At(t, "error")
    BY <1>5 DEF UploadFailed
  <2>3. /\ NoUpload.step = "idle" /\ NoUpload.old <= lastKey /\ NoUpload.at <= avatarUrl.at
    BY <1>1 DEF NoUpload, Avatar
  <2>4. Uploading' \subseteq Uploading
    BY <2>1, <2>3 DEF Uploading, UploadBecomes
  <2> QED
    BY <1>1, <2>1, <2>2, <2>3, <2>4, RestKeeps DEF Pending, At
<1>6. CASE Invalidate(t)
  <2> DEFINE u == [upload[t] EXCEPT !.step = "refresh"]
  <2>1. u \in UploadState /\ u.step = "refresh" /\ u.old = upload[t].old /\ u.at = upload[t].at
    BY <1>1 DEF UploadState, UploadSteps
  <2>2. UploadBecomes(t, u)
    BY <1>6, <2>1, UploadMoves DEF Invalidate, Go
  <2> HIDE DEF u
  <2>3. Uploading' \subseteq Uploading
    BY <2>1, <2>2 DEF Uploading, UploadBecomes
  <2>4. UNCHANGED <<avatarUrl, stored, lastKey, mishaps>> /\ At(t, "ok")
    BY <1>6 DEF Invalidate
  <2>5. /\ me' \in [Tabs -> [fetch : {"no", "asked", "read"}, data : Avatar, shown : Avatar]]
        /\ me'[t].fetch = "asked" /\ \A s \in Tabs \ {t} : me'[s] = me[s]
    BY <1>1, <1>6 DEF Invalidate
  <2> QED
    BY <1>1, <2>1, <2>2, <2>3, <2>4, <2>5, RestKeeps DEF Pending, At
<1>7. CASE MeArrives(t) \/ MeFails(t)
  <2> DEFINE u == IF At(t, "refresh") THEN NoUpload ELSE upload[t]
  <2>1. /\ UNCHANGED <<avatarUrl, stored, lastKey>>
        /\ mishaps \subseteq mishaps' /\ mishaps' \subseteq Mishaps
    BY <1>1, <1>7 DEF MeArrives, MeFails, Mishaps
  <2>2. /\ me' \in [Tabs -> [fetch : {"no", "asked", "read"}, data : Avatar, shown : Avatar]]
        /\ me'[t].fetch = "no" /\ \A s \in Tabs \ {t} : me'[s] = me[s]
    BY <1>1, <1>7 DEF MeArrives, MeFails
  <2>3. CASE At(t, "refresh")
    <3>1. UploadBecomes(t, NoUpload)
      BY <1>1, <1>7, <2>3, UploadMoves DEF MeArrives, MeFails
    <3>2. /\ NoUpload.step = "idle" /\ NoUpload.old <= lastKey /\ NoUpload.at <= avatarUrl.at
      BY <1>1 DEF NoUpload, Avatar
    <3>3. Uploading' \subseteq Uploading
      BY <3>1, <3>2 DEF Uploading, UploadBecomes
    <3> QED
      BY <1>1, <2>1, <2>2, <2>3, <3>1, <3>2, <3>3, RestKeeps DEF Pending, At
  <2>4. CASE ~ At(t, "refresh")
    <3>1. UNCHANGED upload
      BY <1>7, <2>4 DEF MeArrives, MeFails
    <3>2. QueryIsLater'
      BY <2>1, <2>2, <3>1 DEF AvatarInv, QueryIsLater, At
    <3>3. InTurnAvatar'
      BY <2>1, <3>1 DEF AvatarInv, InTurnAvatar, Uploading, At
    <3> QED
      BY <2>1, <2>2, <3>1, <3>2, <3>3
         DEF AvatarInv, AvatarTypeOK, NamesKnown, WriteIsFresh, RemoveIsStale, NamedIsStored, At
  <2> QED
    BY <2>3, <2>4
<1>8. CASE Refetch(t) \/ MeReads(t)
  <2>1. UNCHANGED <<avatarUrl, stored, lastKey, upload, mishaps>>
    BY <1>8 DEF Refetch, MeReads
  <2>2. /\ me' \in [Tabs -> [fetch : {"no", "asked", "read"}, data : Avatar, shown : Avatar]]
        /\ \A s \in Tabs \ {t} : me'[s] = me[s]
        /\ me'[t].fetch = "read" => me'[t].data = avatarUrl
    BY <1>1, <1>8 DEF Refetch, MeReads
  <2>3. QueryIsLater'
    BY <1>1, <2>1, <2>2 DEF AvatarInv, QueryIsLater, At
  <2> QED
    BY <2>1, <2>2, <2>3
       DEF AvatarInv, AvatarTypeOK, NamesKnown, WriteIsFresh, RemoveIsStale, NamedIsStored,
           InTurnAvatar, Uploading, At
<1> QED
  BY <1>2, <1>3, <1>4, <1>5, <1>6, <1>7, <1>8

-----------------------------------------------------------------------------
(* Steps of uploadAvatar that decide something                             *)

LEMMA ReadKeeps ==
    ASSUME AvatarInv, NEW t \in Tabs, AvatarRead(t)
    PROVE  AvatarInv'
<1> DEFINE u == [upload[t] EXCEPT !.step = "put", !.old = avatarUrl.key]
<1> USE DEF AvatarInv
<1>1. /\ u \in UploadState /\ u.step = "put" /\ u.old = avatarUrl.key
      /\ u.at = upload[t].at
  BY DEF AvatarTypeOK, UploadState, UploadSteps, Avatar
<1>2. upload' = [upload EXCEPT ![t] = u]
  BY DEF AvatarRead, AvatarTypeOK, UploadState
<1>3. UploadBecomes(t, u)
  BY <1>1, <1>2, UploadMoves
<1>4. UNCHANGED <<avatarUrl, stored, lastKey, me, mishaps>> /\ upload[t].step = "read"
  BY DEF AvatarRead, At
<1> HIDE DEF u
<1> USE <1>1, <1>3, <1>4 DEF UploadBecomes, At, Pending
<1>5. AvatarTypeOK'
  BY DEF AvatarTypeOK
<1>6. NamesKnown'
  BY DEF NamesKnown
<1>7. WriteIsFresh'
  BY DEF WriteIsFresh
<1>8. RemoveIsStale' /\ NamedIsStored'
  BY DEF RemoveIsStale, NamedIsStored
<1>9. InTurnAvatar'
  <2>1. Uploading' = Uploading
    BY DEF Uploading
  <2> QED
    BY <2>1 DEF InTurnAvatar
<1>10. QueryIsLater'
  BY DEF QueryIsLater
<1> QED
  BY <1>5, <1>6, <1>7, <1>8, <1>9, <1>10

LEMMA PutKeeps ==
    ASSUME AvatarInv, NEW t \in Tabs, AvatarPut(t)
    PROVE  AvatarInv'
<1> DEFINE u == [upload[t] EXCEPT !.step = "write", !.key = lastKey + 1]
<1> USE DEF AvatarInv
<1>1. /\ u \in UploadState /\ u.step = "write" /\ u.old = upload[t].old
      /\ u.key = lastKey + 1 /\ u.at = upload[t].at /\ lastKey \in Nat
  <2>1. upload[t] \in UploadState /\ lastKey \in Nat /\ lastKey + 1 \in Nat
    BY DEF AvatarTypeOK
  <2> QED
    BY <2>1 DEF UploadState, UploadSteps
<1>2. upload' = [upload EXCEPT ![t] = u]
  BY DEF AvatarPut, AvatarTypeOK, UploadState
<1>3. UploadBecomes(t, u)
  BY <1>1, <1>2, UploadMoves
<1>4. /\ UNCHANGED <<avatarUrl, me, mishaps>> /\ upload[t].step = "put"
      /\ lastKey' = lastKey + 1 /\ stored' = stored \cup {lastKey + 1}
  BY DEF AvatarPut, At
<1>5. /\ avatarUrl \in Avatar /\ stored \subseteq 1..lastKey
      /\ upload \in [Tabs -> UploadState]
  BY DEF AvatarTypeOK
<1> HIDE DEF u
<1> USE <1>1, <1>3, <1>4 DEF UploadBecomes, At, Pending
<1>6. AvatarTypeOK'
  <2>1. stored' \subseteq 1..lastKey'
    BY <1>5
  <2> QED
    BY <2>1 DEF AvatarTypeOK
<1>7. \A s \in Tabs : upload[s].old # lastKey + 1 /\ upload[s].old \in Nat
  BY <1>5 DEF NamesKnown, UploadState
<1>8. avatarUrl.key # lastKey + 1 /\ avatarUrl.key \in Nat
  BY <1>5 DEF NamesKnown, Avatar
<1>9. NamesKnown'
  BY <1>7, <1>8 DEF NamesKnown
<1>10. WriteIsFresh'
  <2>1. \A s \in Tabs : At(s, "write") => upload[s].key # lastKey + 1
    BY <1>5 DEF WriteIsFresh
  <2> QED
    BY <1>7, <1>8, <2>1 DEF WriteIsFresh
<1>11. RemoveIsStale' /\ NamedIsStored'
  BY DEF RemoveIsStale, NamedIsStored
<1>12. InTurnAvatar'
  <2>1. Uploading' = Uploading
    BY DEF Uploading
  <2> SUFFICES ASSUME mishaps = {}
               PROVE  /\ \A s \in Tabs : upload'[s].step \in {"put", "write"}
                                          => upload'[s].old = avatarUrl.key
                      /\ \A k \in stored' :
                            \/ k = avatarUrl.key
                            \/ \E s \in Tabs : upload'[s].step = "write" /\ k = upload'[s].key
                            \/ \E s \in Tabs : upload'[s].step = "remove" /\ k = upload'[s].old
    BY <2>1 DEF InTurnAvatar
  <2>2. \A s \in Tabs : upload'[s].step \in {"put", "write"} => upload'[s].old = avatarUrl.key
    BY DEF InTurnAvatar
  <2>3. ASSUME NEW k \in stored, k # avatarUrl.key
        PROVE  \/ \E s \in Tabs : upload'[s].step = "write" /\ k = upload'[s].key
               \/ \E s \in Tabs : upload'[s].step = "remove" /\ k = upload'[s].old
    <3>1. PICK s \in Tabs :
             \/ upload[s].step = "write" /\ k = upload[s].key
             \/ upload[s].step = "remove" /\ k = upload[s].old
      BY <2>3, EveryObjectHasAUse
    <3>2. upload'[s] = upload[s]
      BY <3>1
    <3> QED
      BY <3>1, <3>2
  <2> QED
    BY <2>2, <2>3
<1>13. QueryIsLater'
  BY DEF QueryIsLater
<1> QED
  BY <1>6, <1>9, <1>10, <1>11, <1>12, <1>13

LEMMA WriteKeeps ==
    ASSUME AvatarInv, NEW t \in Tabs, AvatarWrite(t)
    PROVE  AvatarInv'
<1> DEFINE u == [upload[t] EXCEPT !.step = IF upload[t].old = 0 THEN "publish" ELSE "remove",
                                  !.at = avatarUrl.at + 1]
<1> USE DEF AvatarInv
<1>1. /\ avatarUrl \in Avatar /\ avatarUrl.at \in Nat
      /\ upload \in [Tabs -> UploadState] /\ upload[t] \in UploadState
      /\ me \in [Tabs -> [fetch : {"no", "asked", "read"}, data : Avatar, shown : Avatar]]
  BY DEF AvatarTypeOK, Avatar
<1>2. /\ u \in UploadState /\ u.step = IF upload[t].old = 0 THEN "publish" ELSE "remove"
      /\ u.old = upload[t].old /\ u.key = upload[t].key /\ u.at = avatarUrl.at + 1
  <2>1. avatarUrl.at + 1 \in Nat
    BY <1>1
  <2>2. (IF upload[t].old = 0 THEN "publish" ELSE "remove") \in UploadSteps
    BY DEF UploadSteps
  <2> QED
    BY <1>1, <2>1, <2>2 DEF UploadState
<1>3. upload' = [upload EXCEPT ![t] = u]
  BY <1>1 DEF AvatarWrite, UploadState
<1>4. UploadBecomes(t, u)
  BY <1>2, <1>3, UploadMoves
<1>5. /\ UNCHANGED <<stored, lastKey, me, mishaps>> /\ upload[t].step = "write"
      /\ avatarUrl' = [key |-> upload[t].key, at |-> avatarUrl.at + 1]
  BY DEF AvatarWrite, Written, At
<1>6. avatarUrl'.key = upload[t].key /\ avatarUrl'.at = avatarUrl.at + 1
  BY <1>5
<1>7. /\ upload[t].key \in stored /\ upload[t].key # avatarUrl.key
      /\ \A s \in Tabs : upload[s].step \in Pending => upload[s].old # upload[t].key
  BY <1>5 DEF WriteIsFresh, At
<1> HIDE DEF u
<1> USE <1>2, <1>4, <1>6 DEF UploadBecomes, At, Pending
<1>8. AvatarTypeOK'
  <2>1. avatarUrl' \in Avatar
    BY <1>1, <1>5 DEF Avatar, UploadState
  <2> QED
    BY <1>5, <2>1 DEF AvatarTypeOK
<1>9. NamesKnown'
  <2>1. upload[t].key <= lastKey
    <3>1. stored \subseteq 1..lastKey /\ lastKey \in Nat
      BY DEF AvatarTypeOK
    <3>2. upload[t].key \in 1..lastKey
      BY <1>7, <3>1
    <3> HIDE DEF AvatarInv, UploadBecomes
    <3> QED
      BY <3>1, <3>2
  <2> QED
    BY <1>5, <2>1 DEF NamesKnown
<1>10. WriteIsFresh'
  BY <1>5, <1>7 DEF WriteIsFresh
<1>11. RemoveIsStale'
  BY <1>5, <1>7 DEF RemoveIsStale
<1>12. NamedIsStored'
  BY <1>5, <1>7 DEF NamedIsStored
<1>13. InTurnAvatar'
  <2> SUFFICES ASSUME mishaps = {}
               PROVE  /\ \A s, q \in Uploading' : s = q
                      /\ \A s \in Tabs : upload'[s].step \notin {"put", "write"}
                      /\ \A k \in stored :
                            \/ k = upload[t].key
                            \/ \E s \in Tabs : upload'[s].step = "remove" /\ k = upload'[s].old
    BY <1>5 DEF InTurnAvatar
  <2>1. Uploading' = Uploading /\ t \in Uploading
    BY <1>5 DEF Uploading
  <2>2. \A s \in Tabs : s # t => s \notin Uploading
    BY <2>1 DEF InTurnAvatar
  <2>3. \A s \in Tabs : s # t => upload[s].step \notin {"put", "write", "remove"}
    BY <2>2 DEF Uploading
  <2>4. \A s, q \in Uploading' : s = q
    BY <2>1 DEF InTurnAvatar
  <2>5. ASSUME NEW k \in stored, k # upload[t].key
        PROVE  u.step = "remove" /\ k = u.old
    <3>1. k = avatarUrl.key
      BY <1>5, <2>3, <2>5 DEF InTurnAvatar
    <3>2. upload[t].old = avatarUrl.key
      BY <1>5 DEF InTurnAvatar
    <3>3. k # 0
      BY DEF AvatarTypeOK
    <3> QED
      BY <3>1, <3>2, <3>3
  <2> QED
    BY <2>3, <2>4, <2>5
<1>14. QueryIsLater'
  BY <1>1, <1>5 DEF QueryIsLater, UploadState
<1> QED
  BY <1>8, <1>9, <1>10, <1>11, <1>12, <1>13, <1>14

LEMMA RemoveKeeps ==
    ASSUME AvatarInv, NEW t \in Tabs, AvatarRemove(t)
    PROVE  AvatarInv'
<1> DEFINE u == [upload[t] EXCEPT !.step = "publish"]
<1> USE DEF AvatarInv
<1>1. u \in UploadState /\ u.step = "publish" /\ u.old = upload[t].old /\ u.at = upload[t].at
  BY DEF AvatarTypeOK, UploadState, UploadSteps
<1>2. UploadBecomes(t, u)
  BY <1>1, UploadMoves DEF AvatarRemove, Go
<1>3. /\ UNCHANGED <<avatarUrl, lastKey, me, mishaps>> /\ upload[t].step = "remove"
      /\ stored' = stored \ {upload[t].old}
  BY DEF AvatarRemove, At
<1> HIDE DEF u
<1> USE <1>1, <1>2, <1>3 DEF UploadBecomes, At, Pending
<1>4. AvatarTypeOK'
  BY DEF AvatarTypeOK
<1>5. NamesKnown'
  BY DEF NamesKnown
<1>6. WriteIsFresh'
  BY DEF WriteIsFresh
<1>7. RemoveIsStale' /\ NamedIsStored'
  BY DEF RemoveIsStale, NamedIsStored
<1>8. InTurnAvatar'
  <2> SUFFICES ASSUME mishaps = {}
               PROVE  /\ \A s, q \in Uploading' : s = q
                      /\ \A s \in Tabs : upload'[s].step \notin {"put", "write"}
                      /\ \A k \in stored' : k = avatarUrl.key
    BY DEF InTurnAvatar
  <2>1. Uploading' = Uploading /\ t \in Uploading
    BY DEF Uploading
  <2>2. \A s \in Tabs : s # t => s \notin Uploading
    BY <2>1 DEF InTurnAvatar
  <2>3. \A s \in Tabs : s # t => upload[s].step \notin {"put", "write", "remove"}
    BY <2>2 DEF Uploading
  <2>4. \A s, q \in Uploading' : s = q
    BY <2>1 DEF InTurnAvatar
  <2>5. \A k \in stored' : k = avatarUrl.key
    BY <2>3 DEF InTurnAvatar
  <2> QED
    BY <2>3, <2>4, <2>5
<1>9. QueryIsLater'
  BY DEF QueryIsLater
<1> QED
  BY <1>4, <1>5, <1>6, <1>7, <1>8, <1>9

LEMMA SetAddressKeeps ==
    ASSUME AvatarInv, SetAddress
    PROVE  AvatarInv'
<1> USE DEF AvatarInv, At
<1>1. /\ UNCHANGED <<stored, lastKey, upload, me>>
      /\ avatarUrl'.key = 0 /\ avatarUrl'.at = avatarUrl.at + 1 /\ avatarUrl' \in Avatar
      /\ avatarUrl \in Avatar /\ avatarUrl.at \in Nat
      /\ mishaps' \subseteq Mishaps
      /\ mishaps' = {} => mishaps = {} /\ avatarUrl.key = 0
  BY DEF SetAddress, Written, AvatarTypeOK, Avatar, Mishaps
<1>2. AvatarTypeOK'
  BY <1>1 DEF AvatarTypeOK
<1>3. NamesKnown'
  BY <1>1 DEF NamesKnown, AvatarTypeOK
<1>4. WriteIsFresh'
  BY <1>1 DEF WriteIsFresh, AvatarTypeOK
<1>5. RemoveIsStale' /\ NamedIsStored'
  BY <1>1 DEF RemoveIsStale, NamedIsStored, AvatarTypeOK
<1>6. InTurnAvatar'
  BY <1>1 DEF InTurnAvatar, Uploading
<1>7. QueryIsLater'
  BY <1>1 DEF QueryIsLater, AvatarTypeOK, UploadState
<1> QED
  BY <1>2, <1>3, <1>4, <1>5, <1>6, <1>7

-----------------------------------------------------------------------------
(* The theorems                                                            *)

LEMMA AvatarStart == AvatarInit => AvatarInv
<1> SUFFICES ASSUME AvatarInit PROVE AvatarInv
  OBVIOUS
<1>1. /\ avatarUrl \in Avatar /\ avatarUrl.key \in {0, 1} /\ avatarUrl.at = 0
      /\ lastKey = avatarUrl.key /\ stored = 1..lastKey
      /\ mishaps = {}
  BY DEF AvatarInit, Avatar
<1>2. NoUpload \in UploadState /\ NoAvatar \in Avatar
  BY DEF NoUpload, NoAvatar, UploadState, UploadSteps, Avatar
<1>3. /\ \A t \in Tabs : upload[t].step = "idle" /\ upload[t].old = 0 /\ upload[t].at = 0
      /\ upload \in [Tabs -> UploadState]
  BY <1>2 DEF AvatarInit, NoUpload
<1>4. me \in [Tabs -> [fetch : {"no", "asked", "read"}, data : Avatar, shown : Avatar]]
  BY <1>1, <1>2 DEF AvatarInit
<1>5. AvatarTypeOK
  BY <1>1, <1>3, <1>4 DEF AvatarTypeOK, At, Mishaps
<1>6. NamesKnown
  BY <1>1, <1>3 DEF NamesKnown
<1>7. WriteIsFresh /\ RemoveIsStale
  BY <1>3 DEF WriteIsFresh, RemoveIsStale, At
<1>8. NamedIsStored
  BY <1>1 DEF NamedIsStored
<1>9. InTurnAvatar
  BY <1>1, <1>3 DEF InTurnAvatar, Uploading
<1>10. QueryIsLater
  BY <1>1, <1>3 DEF QueryIsLater, At
<1> QED
  BY <1>5, <1>6, <1>7, <1>8, <1>9, <1>10 DEF AvatarInv

LEMMA AvatarNextKeeps == AvatarInv /\ [AvatarNext]_avatarVars => AvatarInv'
<1> SUFFICES ASSUME AvatarInv, [AvatarNext]_avatarVars PROVE AvatarInv'
  OBVIOUS
<1>1. CASE UNCHANGED avatarVars
  BY <1>1 DEF avatarVars, AvatarInv, AvatarTypeOK, NamesKnown, WriteIsFresh, RemoveIsStale,
     NamedIsStored, InTurnAvatar, QueryIsLater, Uploading, At
<1>2. CASE AvatarNext
  BY <1>2, TabKeeps, ReadKeeps, PutKeeps, WriteKeeps, RemoveKeeps, SetAddressKeeps
     DEF AvatarNext
<1> QED
  BY <1>1, <1>2

THEOREM AvatarInvariant == AvatarSpec => []AvatarInv
BY AvatarStart, AvatarNextKeeps, PTL DEF AvatarSpec

\* The row, the objects, the uploads and the queries stay well-formed, and an
\* upload removes an object only if it found one in the row (uploadAvatar).
THEOREM AvatarTypeCorrect == AvatarSpec => []AvatarTypeOK
BY AvatarInvariant, PTL DEF AvatarInv

\* However uploads overlap and fail in any number of tabs, the object the row
\* names is there; without a mishap no other object is left.
THEOREM NamedAvatarIsStored == AvatarSpec => []AvatarAccounted
<1>1. AvatarInv => AvatarAccounted
  BY DEF AvatarInv, AvatarAccounted, NamedIsStored, InTurnAvatar, Uploading, At
<1> QED
  BY <1>1, AvatarInvariant, PTL

\* A tab that reports an upload shows what it wrote, or something later: the
\* query useUploadAvatar waits for was asked after the write.
THEOREM UploadIsShown == AvatarSpec => ReadsOwnUpload
<1>1. ASSUME AvatarInv, [AvatarNext]_avatarVars, NEW t \in Tabs,
             At(t, "refresh"), At(t, "idle")', "failed" \notin mishaps'
      PROVE  me'[t].shown.at >= upload[t].at
  <2>1. MeArrives(t)
    <3>1. upload'[t] # upload[t]
      BY <1>1 DEF At
    <3>2. /\ upload \in [Tabs -> UploadState]
          /\ \A s \in Tabs : "idle" # upload[s].step => upload[s] # NoUpload
      BY <1>1 DEF AvatarInv, AvatarTypeOK, NoUpload
    <3>3. PICK s \in Tabs :
             \/ ChooseAvatar(s) \/ AvatarRead(s) \/ AvatarPut(s) \/ AvatarWrite(s)
             \/ AvatarRemove(s) \/ AvatarAnswer(s) \/ AvatarFails(s) \/ UploadFailed(s)
             \/ Invalidate(s) \/ MeArrives(s) \/ MeFails(s)
      BY <1>1, <3>1 DEF AvatarNext, avatarVars, SetAddress, Refetch, MeReads
    <3>4. s = t
      BY <3>1, <3>2, <3>3
         DEF ChooseAvatar, AvatarRead, AvatarPut, AvatarWrite, AvatarRemove, AvatarAnswer,
             AvatarFails, UploadFailed, Invalidate, MeArrives, MeFails, Go
    <3> QED
      BY <1>1, <3>3, <3>4
         DEF ChooseAvatar, AvatarRead, AvatarPut, AvatarWrite, AvatarRemove, AvatarAnswer,
             AvatarFails, UploadFailed, Invalidate, MeFails, At, Uploading
  <2>2. me'[t].shown = me[t].data /\ me[t].fetch = "read"
    BY <1>1, <2>1 DEF MeArrives, AvatarInv, AvatarTypeOK
  <2>3. upload[t].at <= me[t].data.at /\ upload[t].at \in Nat /\ me[t].data.at \in Nat
    BY <1>1, <2>2 DEF AvatarInv, QueryIsLater, AvatarTypeOK, UploadState, Avatar
  <2> QED
    BY <2>2, <2>3
<1>2. AvatarInv /\ [AvatarNext]_avatarVars =>
         [\A t \in Tabs :
             At(t, "refresh") /\ At(t, "idle")' /\ "failed" \notin mishaps'
             => me'[t].shown.at >= upload[t].at]_avatarVars
  BY <1>1
<1> QED
  BY <1>2, AvatarInvariant, PTL DEF AvatarSpec, ReadsOwnUpload

-----------------------------------------------------------------------------
(***************************************************************************)
(* The logo of a workspace                                                 *)
(***************************************************************************)

(* Branding: the invariant                                                 *)

\* The panel says that the logo is v, as far as it says anything.
Says(v) ==
    /\ panel.file => v.kind = "key"
    /\ panel.text # NoLogo => v = panel.text
    /\ panel.removed => v = NoLogo

\* The panel says one thing at a time, and what is uploaded or written is a logo.
PanelSane ==
    /\ panel.file \/ panel.removed => panel.text = NoLogo
    /\ ~ (panel.file /\ panel.removed)
    /\ fetch.data.kind # "key"
    /\ \A r \in LogoRequests :
          /\ InStep(r, "upload") => call[r].new.kind = "key"
          /\ InStep(r, "write") => call[r].new # NoLogo

\* The copy is that of the row, or will be read again: a query is in flight that
\* has not read an older one, or a request has yet to report.
Reports == {"answer", "remove", "ok", "error"}

CopyFollows ==
    \/ \E r \in LogoRequests : call[r].step \in Reports
    \/ fetch.step = "no" /\ shown = Presign(logoUrl)
    \/ fetch.step = "asked"
    \/ fetch.step = "read" /\ fetch.data = Presign(logoUrl)

OneInCourse == \A r, q \in InCourse : r = q

\* A request that is alone has read the row as it is, and what it writes is there.
ReadsLast ==
    \A r \in LogoRequests :
        /\ call[r].step \in {"upload", "write", "clear"} => call[r].old = logoUrl
        /\ InStep(r, "write") /\ call[r].new.kind = "key" => call[r].new.of \in objects
        /\ InStep(r, "remove") => logoUrl = NoLogo

RowHasObject == logoUrl.kind = "key" => logoUrl.of \in objects

\* Each object is named by the row, or is on its way into it or out of it.
Owned ==
    \A e \in objects :
        \/ logoUrl = Key(e)
        \/ \E r \in LogoRequests :
              \/ InStep(r, "write") /\ call[r].new = Key(e)
              \/ InStep(r, "remove") /\ call[r].old = Key(e)
              \/ InStep(r, "error")

\* What the panel says is what its last request is to write, or has written.
KeepsWord ==
    /\ \A r \in LogoRequests :
          /\ call[r].step \in {"update", "upload", "write"} /\ call[r].new # NoLogo
             => Says(call[r].new)
          /\ call[r].step \in {"delete", "clear"} => Says(NoLogo)
    /\ (\A r \in LogoRequests : call[r].step \in {"none", "answer", "remove", "ok"})
          => Says(logoUrl)

InTurnLogo ==
    /\ OneInCourse /\ ReadsLast /\ RowHasObject
    /\ past = {} => Owned
    /\ "failed" \notin past => KeepsWord

BrandingInv ==
    /\ BrandingTypeOK /\ PanelSane
    /\ "failed" \notin past => CopyFollows
    /\ "overlap" \notin past => InTurnLogo

-----------------------------------------------------------------------------
(* Branding: the values of a logo                                          *)

LEMMA LogoValues ==
    /\ NoLogo \in Logo /\ NoLogo.kind = "none"
    /\ \A e \in Extensions : Key(e) \in Logo /\ Key(e).kind = "key" /\ Key(e).of = e
    /\ \A a \in Addresses : Address(a) \in Logo /\ Address(a).kind = "address"
    /\ \A v \in Logo : v.kind = "key" => v.of \in Extensions /\ v = Key(v.of)
    /\ \A v \in Logo : v.kind = "none" => v = NoLogo
  BY DEF Logo, NoLogo, Key, Address

LEMMA PresignIsLogo ==
    ASSUME NEW v \in Logo PROVE Presign(v) \in Logo /\ Presign(v).kind # "key"
  BY DEF Presign, Logo

\* A request that goes on as c.
LEMMA LogoCallMoves ==
    ASSUME BrandingTypeOK, NEW r \in LogoRequests, NEW c \in LogoCall \cup {NoLogoCall},
           call' = [call EXCEPT ![r] = c]
    PROVE  /\ call' \in [LogoRequests -> LogoCall \cup {NoLogoCall}]
           /\ call'[r] = c
           /\ \A q \in LogoRequests : q # r => call'[q] = call[q]
  BY DEF BrandingTypeOK

LEMMA CallFields ==
    ASSUME BrandingTypeOK, NEW r \in LogoRequests
    PROVE  /\ call[r].step \in Steps \cup {"none"} /\ call[r].new \in Logo
           /\ call[r].old \in Logo /\ call[r].undo \in BOOLEAN
           /\ call[r].step # "none" => call[r] \in LogoCall
           /\ call[r].step = "none" => call[r] = NoLogoCall
<1>1. call[r] \in LogoCall \cup {NoLogoCall}
  BY DEF BrandingTypeOK
<1>2. CASE call[r] \in LogoCall
  BY <1>2 DEF LogoCall, Steps
<1>3. CASE call[r] = NoLogoCall
  BY <1>3, LogoValues DEF NoLogoCall
<1> QED
  BY <1>1, <1>2, <1>3

-----------------------------------------------------------------------------
(* Branding: every action keeps the invariant                              *)

\* A click: the request of the panel is the only one, or it overlaps.
LEMMA SendsKeep ==
    ASSUME BrandingInv, NEW r \in LogoRequests, NEW step \in {"update", "delete"},
           NEW new \in Logo, NEW undo \in BOOLEAN, Sends(r, step, new, undo),
           panel' \in [file : BOOLEAN, text : Logo, removed : BOOLEAN],
           (panel.file \/ panel.removed => panel.text = NoLogo)',
           ~ (panel.file /\ panel.removed)',
           step = "update" /\ new # NoLogo => Says(new)',
           step = "delete" => Says(NoLogo)'
    PROVE  BrandingInv'
<1> DEFINE d == [step |-> step, new |-> new, old |-> NoLogo, undo |-> undo]
<1> USE DEF BrandingInv
<1>1. PICK c \in LogoCall : c = d
  BY LogoValues DEF LogoCall, Steps
<1>2. /\ call' = [call EXCEPT ![r] = c] /\ call[r].step = "none"
      /\ past' = past \cup (IF InCourse = {} THEN {} ELSE {"overlap"})
      /\ UNCHANGED <<logoUrl, objects, shown, fetch>>
      /\ sends' = sends + 1 /\ sends < MaxSends
  BY <1>1 DEF Sends, InStep
<1>3. /\ call' \in [LogoRequests -> LogoCall \cup {NoLogoCall}]
      /\ call'[r] = c
      /\ \A q \in LogoRequests : q # r => call'[q] = call[q]
  BY <1>2, LogoCallMoves
<1>4. c.step = step /\ c.new = new /\ step \in {"update", "delete"}
  BY <1>1
<1>5. BrandingTypeOK'
  BY <1>2, <1>3, BrandingAssumption DEF BrandingTypeOK, Past
<1>6. PanelSane'
  BY <1>2, <1>3, <1>4 DEF PanelSane, InStep
<1>7. CopyFollows => CopyFollows'
  BY <1>2, <1>3, <1>4 DEF CopyFollows, Reports
<1>8. ASSUME "overlap" \notin past'
      PROVE  InTurnLogo'
  <2>1. \A q \in LogoRequests : call[q].step = "none"
    BY <1>2, <1>8 DEF InCourse, InStep
  <2>2. \A q \in LogoRequests : q # r => call'[q].step = "none"
    BY <1>3, <2>1
  <2>3. OneInCourse'
    BY <2>2 DEF OneInCourse, InCourse, InStep
  <2>4. ReadsLast' /\ RowHasObject'
    BY <1>2, <1>3, <1>4, <1>8, <2>2 DEF ReadsLast, RowHasObject, InStep, InTurnLogo
  <2>5. past' = {} => Owned'
    BY <1>2, <1>8, <2>1 DEF Owned, InTurnLogo, InStep
  <2>6. "failed" \notin past' => KeepsWord'
    BY <1>3, <1>4, <2>2 DEF KeepsWord
  <2> QED
    BY <2>3, <2>4, <2>5, <2>6 DEF InTurnLogo
<1> QED
  BY <1>2, <1>5, <1>6, <1>7, <1>8

LEMMA ClicksKeep ==
    ASSUME BrandingInv, NEW r \in LogoRequests, PanelSends(r)
    PROVE  BrandingInv'
<1>1. panel \in [file : BOOLEAN, text : Logo, removed : BOOLEAN] /\ shown \in Logo
  BY DEF BrandingInv, BrandingTypeOK
<1>2. /\ panel.file \/ panel.removed => panel.text = NoLogo
      /\ ~ (panel.file /\ panel.removed)
  BY DEF BrandingInv, PanelSane
<1>3. ASSUME NEW e \in Extensions, ChooseFile(r, e) PROVE BrandingInv'
  <2>1. /\ Sends(r, "update", Key(e), FALSE)
        /\ panel' = [file |-> TRUE, text |-> NoLogo, removed |-> FALSE]
    BY <1>3 DEF ChooseFile
  <2>2. Says(Key(e))'
    BY <2>1, LogoValues DEF Says
  <2> QED
    BY <2>1, <2>2, LogoValues, SendsKeep
<1>4. ASSUME NEW a \in Addresses, TypeAddress(r, a) PROVE BrandingInv'
  <2>1. /\ Sends(r, "update", Address(a), FALSE)
        /\ panel' = [file |-> FALSE, text |-> Address(a), removed |-> FALSE]
    BY <1>4 DEF TypeAddress
  <2>2. Says(Address(a))'
    BY <2>1, LogoValues DEF Says
  <2> QED
    BY <2>1, <2>2, LogoValues, SendsKeep
<1>5. CASE EmptyAddress(r)
  <2>1. /\ Sends(r, "update", NoLogo, FALSE)
        /\ panel' = [panel EXCEPT !.text = NoLogo, !.removed = FALSE]
    BY <1>5 DEF EmptyAddress
  <2> QED
    BY <1>1, <1>2, <2>1, LogoValues, SendsKeep
<1>6. CASE RemoveUploaded(r)
  <2>1. /\ Sends(r, "delete", NoLogo, FALSE) /\ panel.file
        /\ panel' = [panel EXCEPT !.file = FALSE]
    BY <1>6 DEF RemoveUploaded, OffersRemove
  <2>2. Says(NoLogo)'
    BY <1>1, <1>2, <2>1 DEF Says
  <2> QED
    BY <1>1, <1>2, <2>1, <2>2, LogoValues, SendsKeep
<1>7. CASE DeleteCurrent(r)
  <2>1. /\ Sends(r, "delete", NoLogo, FALSE)
        /\ panel' = [file |-> FALSE, text |-> NoLogo, removed |-> TRUE]
    BY <1>7 DEF DeleteCurrent
  <2>2. Says(NoLogo)'
    BY <2>1 DEF Says
  <2> QED
    BY <2>1, <2>2, LogoValues, SendsKeep
<1>8. CASE UndoDelete(r)
  <2>1. /\ Sends(r, "update", shown, TRUE) /\ panel.removed
        /\ panel' = [panel EXCEPT !.removed = FALSE]
    BY <1>8 DEF UndoDelete, OffersUndo
  <2>2. Says(shown)'
    BY <1>1, <1>2, <2>1 DEF Says
  <2>3. shown' = shown
    BY <2>1 DEF Sends
  <2>4. PICK v \in Logo : v = shown
    BY <1>1
  <2>5. Says(v)'
    BY <2>2, <2>3, <2>4
  <2> QED
    BY <1>1, <1>2, <2>1, <2>4, <2>5, SendsKeep
<1>9. CASE ClearAddress(r)
  <2>1. /\ Sends(r, "delete", NoLogo, FALSE) /\ panel.text # NoLogo
        /\ panel' = [panel EXCEPT !.text = NoLogo]
    BY <1>9 DEF ClearAddress, OffersClear
  <2>2. Says(NoLogo)'
    BY <1>1, <1>2, <2>1 DEF Says
  <2> QED
    BY <1>1, <1>2, <2>1, <2>2, LogoValues, SendsKeep
<1> QED
  BY <1>3, <1>4, <1>5, <1>6, <1>7, <1>8, <1>9 DEF PanelSends

\* The cross takes back what the panel says.
LEMMA DismissKeeps ==
    ASSUME BrandingInv, DismissPreview
    PROVE  BrandingInv'
<1>1. /\ panel' = [panel EXCEPT !.file = FALSE, !.text = NoLogo] /\ ~ panel.removed
      /\ UNCHANGED <<logoUrl, objects, call, shown, fetch, sends, past>>
  BY DEF DismissPreview, OffersDismiss
<1>2. panel \in [file : BOOLEAN, text : Logo, removed : BOOLEAN]
  BY DEF BrandingInv, BrandingTypeOK
<1>3. panel' = [file |-> FALSE, text |-> NoLogo, removed |-> FALSE]
  BY <1>1, <1>2
<1>4. BrandingTypeOK' /\ PanelSane'
  BY <1>1, <1>3, LogoValues DEF BrandingInv, BrandingTypeOK, PanelSane, InStep
<1>5. CopyFollows => CopyFollows'
  BY <1>1 DEF CopyFollows
<1>6. OneInCourse' = OneInCourse /\ ReadsLast' = ReadsLast /\ RowHasObject' = RowHasObject /\ Owned' = Owned
  BY <1>1 DEF OneInCourse, InCourse, InStep, ReadsLast, RowHasObject, Owned
<1>7. KeepsWord'
  BY <1>3 DEF KeepsWord, Says
<1> QED
  BY <1>1, <1>4, <1>5, <1>6, <1>7 DEF BrandingInv, InTurnLogo

\* The query goes on: the requests and the row are where they were.
LEMMA FetchKeeps ==
    ASSUME BrandingInv, FetchReads \/ FetchArrives \/ FetchFails
    PROVE  BrandingInv'
<1>1. UNCHANGED <<logoUrl, objects, call, panel, sends>>
  BY DEF FetchReads, FetchArrives, FetchFails
<1>2. past' \in {past, past \cup {"failed"}}
  BY DEF FetchReads, FetchArrives, FetchFails
<1>3. BrandingTypeOK /\ fetch.data.kind # "key" /\ logoUrl \in Logo
  BY DEF BrandingInv, PanelSane, BrandingTypeOK
<1>4. /\ fetch' \in [step : {"no", "asked", "read"}, data : Logo]
      /\ fetch'.data.kind # "key" /\ shown' \in Logo /\ shown'.kind # "key"
  <2>1. CASE FetchReads
    BY <1>3, <2>1, PresignIsLogo DEF FetchReads, BrandingTypeOK
  <2>2. CASE FetchArrives
    BY <1>3, <2>2, LogoValues DEF FetchArrives, BrandingTypeOK
  <2>3. CASE FetchFails
    BY <1>3, <2>3, LogoValues DEF FetchFails, BrandingTypeOK
  <2> QED
    BY <2>1, <2>2, <2>3
<1>5. BrandingTypeOK' /\ PanelSane'
  BY <1>1, <1>2, <1>4 DEF BrandingInv, BrandingTypeOK, PanelSane, Past, InStep
<1>6. ASSUME "failed" \notin past' PROVE CopyFollows'
  <2>1. CopyFollows
    BY <1>2, <1>6 DEF BrandingInv
  <2>2. CASE \E r \in LogoRequests : call[r].step \in Reports
    BY <1>1, <2>2 DEF CopyFollows
  <2>3. CASE FetchReads
    BY <1>1, <2>3 DEF FetchReads, CopyFollows, Presign
  <2>4. CASE FetchArrives
    BY <1>1, <2>1, <2>2, <2>4 DEF FetchArrives, CopyFollows, Presign
  <2>5. CASE FetchFails
    BY <1>6, <2>5 DEF FetchFails
  <2> QED
    BY <2>3, <2>4, <2>5
<1>7. OneInCourse' = OneInCourse /\ ReadsLast' = ReadsLast /\ RowHasObject' = RowHasObject
      /\ Owned' = Owned /\ KeepsWord' = KeepsWord
  BY <1>1 DEF OneInCourse, InCourse, InStep, ReadsLast, RowHasObject, Owned, KeepsWord, Says
<1> QED
  BY <1>2, <1>5, <1>6, <1>7 DEF BrandingInv, InTurnLogo

\* What a request c that is alone knows of the row, of the objects that are there
\* and of what the panel says, after what has happened so far.
Serial(c, row, there, happened) ==
    /\ row.kind = "key" => row.of \in there
    /\ c.step \in {"upload", "write", "clear"} => c.old = row
    /\ c.step = "write" /\ c.new.kind = "key" => c.new.of \in there
    /\ c.step = "remove" => row = NoLogo
    /\ happened = {} =>
          \A e \in there : \/ row = Key(e)
                           \/ c.step = "write" /\ c.new = Key(e)
                           \/ c.step = "remove" /\ c.old = Key(e)
                           \/ c.step = "error"
    /\ "failed" \notin happened =>
          /\ c.step \in {"update", "upload", "write"} /\ c.new # NoLogo => Says(c.new)
          /\ c.step \in {"delete", "clear"} => Says(NoLogo)
          /\ c.step \in {"none", "answer", "remove", "ok"} => Says(row)

\* A request goes on as c: what is to be shown of c and the row.
LEMMA CourseKeeps ==
    ASSUME BrandingInv, NEW r \in LogoRequests, ~ InStep(r, "none"),
           NEW c \in LogoCall \cup {NoLogoCall}, call' = [call EXCEPT ![r] = c],
           UNCHANGED <<shown, panel, sends>>,
           logoUrl' \in Logo, objects' \subseteq Extensions,
           fetch' \in [step : {"no", "asked", "read"}, data : Logo], fetch'.data.kind # "key",
           past \subseteq past', past' \subseteq Past,
           c.step = "upload" => c.new.kind = "key",
           c.step = "write" => c.new # NoLogo,
           "failed" \notin past' => CopyFollows',
           "overlap" \notin past' => Serial(c, logoUrl', objects', past')
    PROVE  BrandingInv'
<1> USE DEF BrandingInv
<1>1. /\ call' \in [LogoRequests -> LogoCall \cup {NoLogoCall}]
      /\ call'[r] = c
      /\ \A q \in LogoRequests : q # r => call'[q] = call[q]
  BY LogoCallMoves
<1>2. BrandingTypeOK'
  BY <1>1 DEF BrandingTypeOK
<1>3. PanelSane'
  BY <1>1 DEF PanelSane, InStep
<1>4. ASSUME "overlap" \notin past'
      PROVE  InTurnLogo'
  <2>1. InTurnLogo
    BY <1>4
  <2>2. \A q \in LogoRequests : q # r => call[q].step = "none"
    BY <2>1 DEF InTurnLogo, OneInCourse, InCourse, InStep
  <2>3. \A q \in LogoRequests : q # r => call'[q].step = "none"
    BY <1>1, <2>2
  <2>4. OneInCourse'
    BY <2>3 DEF OneInCourse, InCourse, InStep
  <2>5. ReadsLast' /\ RowHasObject'
    BY <1>1, <1>4, <2>3 DEF ReadsLast, RowHasObject, InStep, Serial
  <2>6. past' = {} => Owned'
    BY <1>1, <1>4 DEF Owned, InStep, Serial
  <2>7. "failed" \notin past' => KeepsWord'
    BY <1>1, <1>4, <2>3 DEF KeepsWord, Says, Serial
  <2> QED
    BY <1>4, <2>4, <2>5, <2>6, <2>7 DEF InTurnLogo
<1> QED
  BY <1>2, <1>3, <1>4

LEMMA AloneKnows ==
    ASSUME BrandingInv, NEW r \in LogoRequests, ~ InStep(r, "none"), "overlap" \notin past
    PROVE  Serial(call[r], logoUrl, objects, past)
<1>1. InTurnLogo
  BY DEF BrandingInv
<1>2. \A q \in LogoRequests : q # r => call[q].step = "none"
  BY <1>1 DEF InTurnLogo, OneInCourse, InCourse, InStep
<1>3. ReadsLast /\ RowHasObject
  BY <1>1 DEF InTurnLogo
<1>4. past = {} => Owned
  BY <1>1 DEF InTurnLogo
<1>5. past = {} =>
         \A e \in objects : \/ logoUrl = Key(e)
                            \/ call[r].step = "write" /\ call[r].new = Key(e)
                            \/ call[r].step = "remove" /\ call[r].old = Key(e)
                            \/ call[r].step = "error"
  BY <1>2, <1>4 DEF Owned, InStep
<1>6. "failed" \notin past => KeepsWord
  BY <1>1 DEF InTurnLogo
<1> QED
  BY <1>2, <1>3, <1>5, <1>6 DEF ReadsLast, RowHasObject, KeepsWord, InStep, Serial

LEMMA UpdateReadKeeps ==
    ASSUME BrandingInv, NEW r \in LogoRequests, UpdateRead(r)
    PROVE  BrandingInv'
<1>1. BrandingTypeOK /\ PanelSane /\ call[r].step = "update" /\ ~ InStep(r, "none")
  BY DEF BrandingInv, UpdateRead, InStep
<1>2. call[r] \in LogoCall
  BY <1>1, CallFields
<1>3. PICK to \in {"error", "upload", "write"} :
         /\ to = "upload" => call[r].new # NoLogo /\ call[r].new.kind = "key"
         /\ to = "write" => call[r].new # NoLogo /\ call[r].new.kind # "key"
         /\ call' = [call EXCEPT ![r].old = logoUrl, ![r].step = to]
  <2> DEFINE go == CASE call[r].new = NoLogo -> "error"
                     [] call[r].new.kind = "key" -> "upload"
                     [] OTHER -> "write"
  <2>1. CASE call[r].new = NoLogo
    <3>1. go = "error"
      BY <2>1, LogoValues
    <3> QED
      BY <3>1 DEF UpdateRead
  <2>2. CASE call[r].new # NoLogo /\ call[r].new.kind = "key"
    <3>1. go = "upload"
      BY <2>2
    <3> QED
      BY <2>2, <3>1 DEF UpdateRead
  <2>3. CASE call[r].new # NoLogo /\ call[r].new.kind # "key"
    <3>1. go = "write"
      BY <2>3
    <3> QED
      BY <2>3, <3>1 DEF UpdateRead
  <2> QED
    BY <2>1, <2>2, <2>3
<1>4. PICK c : c = [call[r] EXCEPT !.old = logoUrl, !.step = to]
  OBVIOUS
<1>5. /\ c \in LogoCall /\ c.new = call[r].new /\ c.old = logoUrl
      /\ c.step = to
      /\ call' = [call EXCEPT ![r] = c]
      /\ UNCHANGED <<logoUrl, objects, shown, fetch, panel, sends, past>>
  BY <1>1, <1>2, <1>3, <1>4 DEF LogoCall, Steps, BrandingTypeOK, UpdateRead
<1>6. /\ logoUrl' \in Logo /\ objects' \subseteq Extensions
      /\ fetch' \in [step : {"no", "asked", "read"}, data : Logo] /\ fetch'.data.kind # "key"
      /\ past' \subseteq Past
  BY <1>1, <1>5 DEF BrandingTypeOK, PanelSane
<1>7. /\ c.step = "upload" => c.new # NoLogo /\ c.new.kind = "key"
      /\ c.step = "write" => c.new # NoLogo /\ c.new.kind # "key"
  BY <1>3, <1>5
<1>9. "failed" \notin past' => CopyFollows'
  <2>1. "failed" \notin past' => CopyFollows
    BY <1>5 DEF BrandingInv
  <2>2. \A q \in LogoRequests : q # r => call'[q] = call[q]
    BY <1>1, <1>5, LogoCallMoves
  <2> QED
    BY <1>1, <1>5, <2>1, <2>2 DEF CopyFollows, Reports
<1>10. "overlap" \notin past' => Serial(c, logoUrl', objects', past')
  BY <1>1, <1>3, <1>5, <1>7, AloneKnows DEF Serial
<1> QED
  BY <1>1, <1>5, <1>6, <1>7, <1>9, <1>10, CourseKeeps

\* A request that goes on and reports later leaves the copy as good as it was.
LEMMA CopyStays ==
    ASSUME BrandingInv, NEW r \in LogoRequests, NEW c \in LogoCall,
           call' = [call EXCEPT ![r] = c],
           call[r].step \in Reports => c.step \in Reports,
           UNCHANGED <<logoUrl, shown, fetch>>, past \subseteq past',
           "failed" \notin past'
    PROVE  CopyFollows'
<1>1. CopyFollows
  BY DEF BrandingInv
<1>2. call'[r] = c /\ \A q \in LogoRequests : q # r => call'[q] = call[q]
  BY LogoCallMoves DEF BrandingInv
<1> QED
  BY <1>1, <1>2 DEF CopyFollows

\* A request that has yet to report.
LEMMA CopyOwed ==
    ASSUME BrandingInv, NEW r \in LogoRequests, NEW c \in LogoCall,
           call' = [call EXCEPT ![r] = c], c.step \in Reports
    PROVE  CopyFollows'
<1>1. call'[r] = c
  BY LogoCallMoves DEF BrandingInv
<1> QED
  BY <1>1 DEF CopyFollows

LEMMA UploadKeeps ==
    ASSUME BrandingInv, NEW r \in LogoRequests, Upload(r)
    PROVE  BrandingInv'
<1>1. BrandingTypeOK /\ PanelSane /\ call[r].step = "upload" /\ ~ InStep(r, "none")
  BY DEF BrandingInv, Upload, InStep
<1>2. call[r] \in LogoCall /\ call[r].new \in Logo /\ call[r].new.kind = "key"
  BY <1>1, CallFields DEF PanelSane, InStep
<1>3. PICK c : c = [call[r] EXCEPT !.step = "write"]
  OBVIOUS
<1>4. /\ c \in LogoCall /\ c.new = call[r].new /\ c.old = call[r].old /\ c.step = "write"
      /\ call' = [call EXCEPT ![r] = c]
      /\ objects' = objects \cup {c.new.of}
      /\ UNCHANGED <<logoUrl, shown, fetch, panel, sends, past>>
  BY <1>1, <1>2, <1>3 DEF LogoCall, Steps, Upload, Step
<1>5. c.new.of \in Extensions /\ c.new = Key(c.new.of) /\ c.new # NoLogo
  BY <1>2, <1>4, LogoValues
<1>6. "failed" \notin past' => CopyFollows'
  BY <1>1, <1>4, CopyStays DEF Reports
<1>7. "overlap" \notin past' => Serial(c, logoUrl', objects', past')
  <2> SUFFICES ASSUME "overlap" \notin past PROVE Serial(c, logoUrl', objects', past')
    BY <1>4
  <2>1. Serial(call[r], logoUrl, objects, past)
    BY <1>1, AloneKnows
  <2> QED
    BY <1>1, <1>4, <1>5, <2>1 DEF Serial
<1> QED
  BY <1>1, <1>4, <1>5, <1>6, <1>7, CourseKeeps DEF BrandingTypeOK, PanelSane

LEMMA WriteLogoKeeps ==
    ASSUME BrandingInv, NEW r \in LogoRequests, WriteLogo(r)
    PROVE  BrandingInv'
<1>1. BrandingTypeOK /\ PanelSane /\ call[r].step = "write" /\ ~ InStep(r, "none")
  BY DEF BrandingInv, WriteLogo, InStep
<1>2. call[r] \in LogoCall /\ call[r].new \in Logo /\ call[r].old \in Logo
  BY <1>1, CallFields
<1>3. PICK c : c = [call[r] EXCEPT !.step = "answer"]
  OBVIOUS
<1>4. /\ c \in LogoCall /\ c.new = call[r].new /\ c.old = call[r].old /\ c.step = "answer"
      /\ call' = [call EXCEPT ![r] = c]
      /\ logoUrl' = c.new
      /\ past' = past \cup (IF c.old.kind = "key" /\ c.old # c.new THEN {"replaced"} ELSE {})
      /\ UNCHANGED <<objects, shown, fetch, panel, sends>>
  BY <1>1, <1>2, <1>3 DEF LogoCall, Steps, WriteLogo, Step
<1>5. c.new # NoLogo
  BY <1>1, <1>4 DEF PanelSane, InStep
<1>6. CopyFollows'
  BY <1>4, CopyOwed DEF Reports
<1>7. "overlap" \notin past' => Serial(c, logoUrl', objects', past')
  <2> SUFFICES ASSUME "overlap" \notin past PROVE Serial(c, logoUrl', objects', past')
    BY <1>4
  <2>1. Serial(call[r], logoUrl, objects, past)
    BY <1>1, AloneKnows
  <2>2. c.old = logoUrl /\ (c.new.kind = "key" => c.new.of \in objects)
    BY <1>1, <1>4, <2>1 DEF Serial
  <2>3. ASSUME past' = {}, NEW e \in objects PROVE c.new = Key(e)
    <3>1. past = {} /\ ~ (c.old.kind = "key" /\ c.old # c.new)
      BY <1>4, <2>3
    <3>2. logoUrl = Key(e) \/ c.new = Key(e)
      BY <1>1, <1>4, <2>1, <3>1 DEF Serial
    <3>3. Key(e).kind = "key"
      BY DEF Key
    <3> QED
      BY <2>2, <3>1, <3>2, <3>3
  <2>4. "failed" \notin past' => Says(c.new)
    BY <1>1, <1>4, <1>5, <2>1 DEF Serial
  <2> QED
    BY <1>4, <2>2, <2>3, <2>4 DEF Serial
<1>8. past' \subseteq Past
  BY <1>1, <1>4 DEF BrandingTypeOK, Past
<1> QED
  BY <1>1, <1>2, <1>4, <1>6, <1>7, <1>8, CourseKeeps DEF BrandingTypeOK, PanelSane

LEMMA DeleteReadKeeps ==
    ASSUME BrandingInv, NEW r \in LogoRequests, DeleteRead(r)
    PROVE  BrandingInv'
<1>1. BrandingTypeOK /\ PanelSane /\ call[r].step = "delete" /\ ~ InStep(r, "none")
  BY DEF BrandingInv, DeleteRead, InStep
<1>2. call[r] \in LogoCall
  BY <1>1, CallFields
<1>3. PICK c : c = [call[r] EXCEPT !.old = logoUrl, !.step = "clear"]
  OBVIOUS
<1>4. /\ c \in LogoCall /\ c.old = logoUrl /\ c.step = "clear"
      /\ call' = [call EXCEPT ![r] = c]
      /\ UNCHANGED <<logoUrl, objects, shown, fetch, panel, sends, past>>
  BY <1>1, <1>2, <1>3 DEF LogoCall, Steps, DeleteRead, BrandingTypeOK
<1>5. "failed" \notin past' => CopyFollows'
  BY <1>1, <1>4, CopyStays DEF Reports
<1>6. "overlap" \notin past' => Serial(c, logoUrl', objects', past')
  <2> SUFFICES ASSUME "overlap" \notin past PROVE Serial(c, logoUrl', objects', past')
    BY <1>4
  <2>1. Serial(call[r], logoUrl, objects, past)
    BY <1>1, AloneKnows
  <2> QED
    BY <1>1, <1>4, <2>1 DEF Serial
<1> QED
  BY <1>1, <1>4, <1>5, <1>6, CourseKeeps DEF BrandingTypeOK, PanelSane

LEMMA ClearLogoKeeps ==
    ASSUME BrandingInv, NEW r \in LogoRequests, ClearLogo(r)
    PROVE  BrandingInv'
<1>1. BrandingTypeOK /\ PanelSane /\ call[r].step = "clear" /\ ~ InStep(r, "none")
  BY DEF BrandingInv, ClearLogo, InStep
<1>2. call[r] \in LogoCall
  BY <1>1, CallFields
<1>3. PICK c : c = [call[r] EXCEPT !.step = "remove"]
  OBVIOUS
<1>4. /\ c \in LogoCall /\ c.old = call[r].old /\ c.step = "remove"
      /\ call' = [call EXCEPT ![r] = c]
      /\ logoUrl' = NoLogo
      /\ UNCHANGED <<objects, shown, fetch, panel, sends, past>>
  BY <1>1, <1>2, <1>3 DEF LogoCall, Steps, ClearLogo, Step
<1>5. CopyFollows'
  BY <1>4, CopyOwed DEF Reports
<1>6. "overlap" \notin past' => Serial(c, logoUrl', objects', past')
  <2> SUFFICES ASSUME "overlap" \notin past PROVE Serial(c, logoUrl', objects', past')
    BY <1>4
  <2>1. Serial(call[r], logoUrl, objects, past)
    BY <1>1, AloneKnows
  <2> QED
    BY <1>1, <1>4, <2>1, LogoValues DEF Serial
<1> QED
  BY <1>1, <1>4, <1>5, <1>6, LogoValues, CourseKeeps DEF BrandingTypeOK, PanelSane

LEMMA RemoveObjectKeeps ==
    ASSUME BrandingInv, NEW r \in LogoRequests, RemoveObject(r)
    PROVE  BrandingInv'
<1>1. BrandingTypeOK /\ PanelSane /\ call[r].step = "remove" /\ ~ InStep(r, "none")
  BY DEF BrandingInv, RemoveObject, InStep
<1>2. call[r] \in LogoCall
  BY <1>1, CallFields
<1>3. PICK c : c = [call[r] EXCEPT !.step = "answer"]
  OBVIOUS
<1>4. /\ c \in LogoCall /\ c.old = call[r].old /\ c.step = "answer"
      /\ call' = [call EXCEPT ![r] = c]
      /\ objects' = IF c.old.kind = "key" THEN objects \ {c.old.of} ELSE objects
      /\ UNCHANGED <<logoUrl, shown, fetch, panel, sends, past>>
  BY <1>1, <1>2, <1>3 DEF LogoCall, Steps, RemoveObject, Step
<1>5. CopyFollows'
  BY <1>4, CopyOwed DEF Reports
<1>6. "overlap" \notin past' => Serial(c, logoUrl', objects', past')
  <2> SUFFICES ASSUME "overlap" \notin past PROVE Serial(c, logoUrl', objects', past')
    BY <1>4
  <2>1. Serial(call[r], logoUrl, objects, past) /\ logoUrl = NoLogo
    BY <1>1, AloneKnows DEF Serial
  <2>2. ASSUME past = {}, NEW e \in objects' PROVE FALSE
    <3>1. e \in objects /\ Key(e).kind = "key" /\ Key(e).of = e
      BY <1>4, <2>2 DEF Key
    <3>2. c.old = Key(e) \/ logoUrl = Key(e)
      BY <1>1, <1>4, <2>1, <2>2, <3>1 DEF Serial
    <3> QED
      BY <1>4, <2>1, <2>2, <3>1, <3>2, LogoValues
  <2> QED
    BY <1>1, <1>4, <2>1, <2>2, LogoValues DEF Serial
<1> QED
  BY <1>1, <1>4, <1>5, <1>6, LogoValues, CourseKeeps DEF BrandingTypeOK, PanelSane

LEMMA AnswerKeeps ==
    ASSUME BrandingInv, NEW r \in LogoRequests, Answer(r) \/ HandlerFails(r)
    PROVE  BrandingInv'
<1>1. BrandingTypeOK /\ PanelSane /\ ~ InStep(r, "none")
  BY DEF BrandingInv, Answer, HandlerFails, InStep, Steps
<1>2. call[r] \in LogoCall
  BY <1>1, CallFields DEF InStep
<1>3. PICK step \in {"ok", "error"} :
         Step(r, step) /\ (step = "ok" => call[r].step = "answer")
  BY DEF Answer, HandlerFails, InStep
<1>4. PICK c : c = [call[r] EXCEPT !.step = step]
  OBVIOUS
<1>5. /\ c \in LogoCall /\ c.step = step
      /\ call' = [call EXCEPT ![r] = c]
      /\ UNCHANGED <<logoUrl, objects, shown, fetch, panel, sends, past>>
  BY <1>1, <1>2, <1>3, <1>4 DEF LogoCall, Steps, Answer, HandlerFails, Step
<1>6. CopyFollows'
  BY <1>5, CopyOwed DEF Reports
<1>7. "overlap" \notin past' => Serial(c, logoUrl', objects', past')
  <2> SUFFICES ASSUME "overlap" \notin past PROVE Serial(c, logoUrl', objects', past')
    BY <1>5
  <2>1. Serial(call[r], logoUrl, objects, past)
    BY <1>1, AloneKnows
  <2> QED
    BY <1>1, <1>3, <1>5, <2>1 DEF Serial
<1> QED
  BY <1>1, <1>3, <1>5, <1>6, <1>7, CourseKeeps DEF BrandingTypeOK, PanelSane

LEMMA OnAnswerKeeps ==
    ASSUME BrandingInv, NEW r \in LogoRequests, OnSuccess(r) \/ OnError(r)
    PROVE  BrandingInv'
<1>1. BrandingTypeOK /\ PanelSane /\ ~ InStep(r, "none") /\ call[r].step \in {"ok", "error"}
  BY DEF BrandingInv, OnSuccess, OnError, InStep
<1>2. NoLogoCall.step = "none"
  BY DEF NoLogoCall
<1>3. CASE OnSuccess(r)
  <2>1. /\ call' = [call EXCEPT ![r] = NoLogoCall] /\ call[r].step = "ok"
        /\ fetch' = [step |-> "asked", data |-> NoLogo]
        /\ UNCHANGED <<logoUrl, objects, shown, panel, sends, past>>
    BY <1>3 DEF OnSuccess, InStep
  <2>2. CopyFollows'
    BY <2>1 DEF CopyFollows
  <2>3. "overlap" \notin past' => Serial(NoLogoCall, logoUrl', objects', past')
    <3> SUFFICES ASSUME "overlap" \notin past
                 PROVE  Serial(NoLogoCall, logoUrl', objects', past')
      BY <2>1
    <3>1. Serial(call[r], logoUrl, objects, past)
      BY <1>1, AloneKnows
    <3> QED
      BY <1>2, <2>1, <3>1 DEF Serial
  <2> QED
    BY <1>1, <1>2, <2>1, <2>2, <2>3, LogoValues, CourseKeeps DEF BrandingTypeOK, PanelSane
<1>4. CASE OnError(r)
  <2>1. /\ call' = [call EXCEPT ![r] = NoLogoCall] /\ past' = past \cup {"failed"}
        /\ UNCHANGED <<logoUrl, objects, shown, fetch, panel, sends>>
    BY <1>4 DEF OnError
  <2>2. "overlap" \notin past' => Serial(NoLogoCall, logoUrl', objects', past')
    <3> SUFFICES ASSUME "overlap" \notin past
                 PROVE  Serial(NoLogoCall, logoUrl', objects', past')
      BY <2>1
    <3>1. Serial(call[r], logoUrl, objects, past)
      BY <1>1, AloneKnows
    <3> QED
      BY <1>2, <2>1, <3>1 DEF Serial
  <2>3. past' \subseteq Past
    BY <1>1, <2>1 DEF BrandingTypeOK, Past
  <2> QED
    BY <1>1, <1>2, <2>1, <2>2, <2>3, CourseKeeps DEF BrandingTypeOK, PanelSane
<1> QED
  BY <1>3, <1>4

-----------------------------------------------------------------------------
(* Branding: the theorems                                                  *)

LEMMA BrandingInvInit == BrandingInit => BrandingInv
<1> SUFFICES ASSUME BrandingInit PROVE BrandingInv
  OBVIOUS
<1>1. logoUrl \in Logo
  BY LogoValues DEF BrandingInit
<1>2. BrandingTypeOK
  BY <1>1, LogoValues, PresignIsLogo, BrandingAssumption DEF BrandingInit, BrandingTypeOK
<1>3. \A r \in LogoRequests : call[r] = NoLogoCall /\ NoLogoCall.step = "none"
  BY DEF BrandingInit, NoLogoCall
<1>4. PanelSane
  BY <1>3, LogoValues DEF BrandingInit, PanelSane, InStep
<1>5. CopyFollows
  BY DEF BrandingInit, CopyFollows
<1>6. OneInCourse /\ ReadsLast
  BY <1>3 DEF OneInCourse, ReadsLast, InCourse, InStep
<1>7. RowHasObject
  BY <1>1, LogoValues DEF BrandingInit, RowHasObject
<1>8. Owned
  BY DEF BrandingInit, Owned
<1>9. KeepsWord
  BY <1>3 DEF BrandingInit, KeepsWord, Says
<1> QED
  BY <1>2, <1>4, <1>5, <1>6, <1>7, <1>8, <1>9 DEF BrandingInv, InTurnLogo

LEMMA BrandingInvStep == BrandingInv /\ [BrandingNext]_brandingVars => BrandingInv'
<1> SUFFICES ASSUME BrandingInv, [BrandingNext]_brandingVars PROVE BrandingInv'
  OBVIOUS
<1>1. CASE UNCHANGED brandingVars
  BY <1>1 DEF brandingVars, BrandingInv, BrandingTypeOK, PanelSane, CopyFollows, InTurnLogo,
              OneInCourse, InCourse, ReadsLast, RowHasObject, Owned, KeepsWord, Says, InStep
<1>2. ASSUME NEW r \in LogoRequests, HandlerSteps(r) PROVE BrandingInv'
  BY <1>2, UpdateReadKeeps, UploadKeeps, WriteLogoKeeps, DeleteReadKeeps, ClearLogoKeeps,
     RemoveObjectKeeps, AnswerKeeps DEF HandlerSteps
<1> QED
  BY <1>1, <1>2, ClicksKeep, OnAnswerKeeps, DismissKeeps, FetchKeeps DEF BrandingNext

\* The row, the objects, the copy and the panel agree as far as what has happened
\* lets them.
THEOREM BrandingInvariant == BrandingSpec => []BrandingInv
  BY BrandingInvInit, BrandingInvStep, PTL DEF BrandingSpec

\* updateWorkspaceLogo and deleteWorkspaceLogo leave rows and objects of their
\* types, and getWorkspaceById never hands out a bare key.
THEOREM BrandingTypeCorrect == BrandingSpec => []BrandingTypeOK
  BY BrandingInvariant, PTL DEF BrandingInv

\* The object of a logo is there unless requests overlapped, and no object is left
\* behind unless an update replaced one or something went wrong.
THEOREM LogosAreAccounted == BrandingSpec => []LogoAccounted
<1>1. BrandingInv => LogoAccounted
  <2> SUFFICES ASSUME BrandingInv PROVE LogoAccounted
    OBVIOUS
  <2>1. "overlap" \notin past => RowHasObject /\ (past = {} => Owned)
    BY DEF BrandingInv, InTurnLogo
  <2>2. InCourse = {} => \A r \in LogoRequests : call[r].step = "none"
    BY DEF InCourse, InStep
  <2> QED
    BY <2>1, <2>2 DEF LogoAccounted, RowHasObject, Owned, InStep
<1> QED
  BY <1>1, BrandingInvariant, PTL

\* Once everything is answered the panel shows the logo of the row, and without
\* overlaps that is the logo its fields speak of.
THEOREM PanelsAreTrue == BrandingSpec => []PanelIsTrue
<1>1. BrandingInv => PanelIsTrue
  <2> SUFFICES ASSUME BrandingInv, InCourse = {}, fetch.step = "no", "failed" \notin past
               PROVE  /\ shown = Presign(logoUrl)
                      /\ "overlap" \notin past => Says(logoUrl)
    BY DEF PanelIsTrue, Settled, Says
  <2>1. \A r \in LogoRequests : call[r].step = "none"
    BY DEF InCourse, InStep
  <2>2. CopyFollows
    BY DEF BrandingInv
  <2>3. shown = Presign(logoUrl)
    BY <2>1, <2>2 DEF CopyFollows, Reports
  <2>4. "overlap" \notin past => KeepsWord
    BY DEF BrandingInv, InTurnLogo
  <2> QED
    BY <2>1, <2>3, <2>4 DEF KeepsWord
<1> QED
  BY <1>1, BrandingInvariant, PTL
=============================================================================
