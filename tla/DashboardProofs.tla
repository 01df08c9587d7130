-------------------------- MODULE DashboardProofs --------------------------
(***************************************************************************)
(* Theorems about what the web application does: the page of the members   *)
(* (MemberPages), the socket (Realtime) and the tabs that share the cookie *)
(* (BrowserTabs).                                                          *)
(***************************************************************************)
EXTENDS MemberPages, Realtime, BrowserTabs, WorkspaceMemberProofs, FiniteSetTheorems

-----------------------------------------------------------------------------
(* The members page: the invariant                                         *)

PagesTypeOK ==
    /\ detail \in [Viewers -> Roles \cup {"none"}]
    /\ sheet \in [Viewers -> [Users -> Roles \cup {"none"}]]
    /\ click \in [MemberRequests -> ClickState \cup {NoClick}]
    /\ behind \in [Viewers -> SUBSET (Users \cup {"detail"})]
    /\ overtaken \in BOOLEAN

OwnerServes == IsActive(ownerId) /\ member[ownerId].role = "OWNER"

\* One click is handled at a time, and the service handles no request but that of
\* a click that waits for its answer.
OneClick ==
    /\ \A r, q \in MemberRequests : click[r] # NoClick /\ click[q] # NoClick => r = q
    /\ \A r \in MemberRequests : request[r] # Idle => click[r].reply = "awaited"

\* What the request of the click has read is still so.
ClickCurrent ==
    \A r \in MemberRequests :
        /\ request[r].step \in Transferring =>
              /\ request[r].actor = ownerId /\ click[r].user = ownerId
              /\ request[r].target # ownerId
        /\ request[r].step = "transfer:commit" => IsActive(request[r].target)
        /\ request[r].step = "role:commit" => request[r].role # "OWNER"
        /\ request[r].step \in {"role:commit", "leave:commit", "remove:commit"}
              => request[r].target # ownerId

\* Who is the owner to their own page is it, or knows better, or is about to.
OwnersPages ==
    \A u \in Viewers :
        detail[u] = "OWNER" =>
            \/ u = ownerId
            \/ "detail" \in behind[u]
            \/ \E r \in MemberRequests : click[r].user = u /\ click[r].reply = "ok"

PagesInv ==
    /\ MemberInv /\ PagesTypeOK
    /\ ~ overtaken =>
          OwnerServes /\ SoleOwnerRole /\ OneClick /\ ClickCurrent /\ OwnersPages

-----------------------------------------------------------------------------
(* The members page: every action keeps the invariant                      *)

LEMMA ClickFields ==
    ASSUME PagesTypeOK, NEW r \in MemberRequests, click[r] # NoClick
    PROVE  /\ click[r] \in ClickState /\ click[r].user \in Viewers
           /\ click[r].reply \in {"awaited", "ok", "failed"}
  BY DEF PagesTypeOK, ClickState

LEMMA NoClickHasNoReply == NoClick.reply = "none"
  BY DEF NoClick

LEMMA StepsApart ==
    ASSUME MemberInv, NEW r \in MemberRequests, request[r] = Idle
    PROVE  /\ request[r].step \notin Transferring
           /\ request[r].step \notin {"transfer:commit", "role:commit", "leave:commit", "remove:commit"}
  BY IdleHasNoStep DEF Transferring, MemberSteps

LEMMA FetchDetailKeeps ==
    ASSUME PagesInv, NEW u \in Viewers, FetchDetail(u)
    PROVE  PagesInv'
<1>1. UNCHANGED <<memberVars, sheet, click, overtaken>>
  BY DEF FetchDetail
<1>2. u \in Users /\ PagesTypeOK /\ MemberTypeOK
  BY ViewersAssumption DEF PagesInv, MemberInv
<1>3. MemberInv'
  BY <1>1 DEF PagesInv, MemberInv, MemberTypeOK, OwnerHasRow, RowsFound, HasRow, memberVars
<1>4. PICK shown \in Roles \cup {"none"} :
         /\ detail' = [detail EXCEPT ![u] = shown]
         /\ shown = "OWNER" => member[u].role = "OWNER"
         /\ behind' \in {behind, [behind EXCEPT ![u] = @ \ {"detail"}]}
  <2>1. CASE IsActive(u)
    <3>1. member[u].role \in Roles
      BY <1>2, <2>1 DEF MemberTypeOK, MemberRow, NoRow, IsActive
    <3> QED
      BY <2>1, <3>1 DEF FetchDetail, IsActive, IsInactive
  <2>2. CASE IsInactive(u)
    <3>1. member[u].role \in Roles
      BY <1>2, <2>2 DEF MemberTypeOK, MemberRow, NoRow, IsInactive
    <3>2. PICK shown \in {member[u].role, "none"} : detail' = [detail EXCEPT ![u] = shown]
      BY <2>2 DEF FetchDetail, IsActive, IsInactive
    <3> QED
      BY <2>2, <3>1, <3>2 DEF FetchDetail, IsActive, IsInactive
  <2> QED
    BY <2>1, <2>2 DEF FetchDetail
<1>5. PagesTypeOK'
  BY <1>1, <1>2, <1>4 DEF PagesTypeOK
<1>6. ASSUME ~ overtaken
      PROVE  /\ OwnerServes' /\ SoleOwnerRole' /\ OneClick' /\ ClickCurrent' /\ OwnersPages'
  <2>1. OwnerServes /\ SoleOwnerRole /\ OneClick /\ ClickCurrent /\ OwnersPages
    BY <1>6 DEF PagesInv
  <2>2. OwnerServes' /\ SoleOwnerRole' /\ OneClick' /\ ClickCurrent'
    BY <1>1, <2>1 DEF OwnerServes, SoleOwnerRole, OneClick, ClickCurrent, IsActive, memberVars
  <2>3. ASSUME NEW v \in Viewers, detail'[v] = "OWNER"
        PROVE  \/ v = ownerId'
               \/ "detail" \in behind'[v]
               \/ \E r \in MemberRequests : click'[r].user = v /\ click'[r].reply = "ok"
    <3>1. CASE v = u
      BY <1>1, <1>2, <1>4, <2>1, <2>3, <3>1 DEF SoleOwnerRole, PagesTypeOK, memberVars
    <3>2. CASE v # u
      <4>1. detail'[v] = detail[v] /\ behind'[v] = behind[v]
        BY <1>2, <1>4, <3>2 DEF PagesTypeOK
      <4> QED
        BY <1>1, <2>1, <2>3, <4>1 DEF OwnersPages, memberVars
    <3> QED
      BY <3>1, <3>2
  <2> QED
    BY <2>2, <2>3 DEF OwnersPages
<1> QED
  BY <1>1, <1>3, <1>5, <1>6 DEF PagesInv

LEMMA FetchMemberKeeps ==
    ASSUME PagesInv, NEW u \in Viewers, NEW t \in Users, FetchMember(u, t)
    PROVE  PagesInv'
<1>1. UNCHANGED <<memberVars, detail, click, overtaken>>
  BY DEF FetchMember
<1>2. t # "detail" /\ PagesTypeOK /\ MemberTypeOK
  BY ViewersAssumption DEF PagesInv, MemberInv
<1>3. MemberInv'
  BY <1>1 DEF PagesInv, MemberInv, MemberTypeOK, OwnerHasRow, RowsFound, HasRow, memberVars
<1>4. IsActive(t) => member[t].role \in Roles
  BY <1>2 DEF MemberTypeOK, MemberRow, NoRow, IsActive
<1>5. PICK shown \in Roles \cup {"none"} : sheet' = [sheet EXCEPT ![u][t] = shown]
  BY <1>4 DEF FetchMember
<1>6. behind' \in {behind, [behind EXCEPT ![u] = @ \ {t}]}
  BY DEF FetchMember
<1>7. PagesTypeOK'
  BY <1>1, <1>2, <1>5, <1>6 DEF PagesTypeOK
<1>8. \A v \in Viewers : "detail" \in behind'[v] <=> "detail" \in behind[v]
  BY <1>2, <1>6 DEF PagesTypeOK
<1>9. ~ overtaken => /\ OwnerServes' /\ SoleOwnerRole' /\ OneClick' /\ ClickCurrent'
                     /\ OwnersPages'
  BY <1>1, <1>8 DEF PagesInv, OwnerServes, SoleOwnerRole, OneClick, ClickCurrent, IsActive,
                    OwnersPages, memberVars
<1> QED
  BY <1>1, <1>3, <1>7, <1>9 DEF PagesInv

\* What is offered is sent, and begins as the service lets it.
LEMMA ClickKeeps ==
    ASSUME PagesInv, NEW r \in MemberRequests, NEW u \in Viewers, NEW t \in Users,
           Click(r, u, t)
    PROVE  PagesInv'
<1>1. /\ click[r] = NoClick /\ click' = [click EXCEPT ![r] = [user |-> u, reply |-> "awaited"]]
      /\ overtaken' = (overtaken \/ ~ Quiet \/ behind[u] \cap {"detail", t} # {})
      /\ UNCHANGED <<detail, sheet, behind, ownerId, member>> /\ request[r] = Idle
  BY DEF Click, Sends, TransferReadWorkspace, RoleRead, LeaveRead, RemoveRead, Begin
<1>2. u \in Users /\ PagesTypeOK /\ MemberTypeOK
  BY ViewersAssumption DEF PagesInv, MemberInv
<1>3. MemberInv'
  <2>1. CASE TransferReadWorkspace(r, t)
    BY <2>1, TransferReadWorkspaceKeeps DEF PagesInv
  <2>2. ASSUME NEW role \in Roles, RoleRead(r, t, role) PROVE MemberInv'
    BY <2>2, MemberReadKeeps DEF PagesInv
  <2>3. CASE RemoveRead(r, t)
    BY <2>3, MemberReadKeeps DEF PagesInv, Roles
  <2>4. CASE LeaveRead(r, u)
    BY <1>2, <2>4, MemberReadKeeps DEF PagesInv, Roles
  <2> QED
    BY <2>1, <2>2, <2>3, <2>4 DEF Click, Sends
<1>4. PICK k \in ClickState : k = [user |-> u, reply |-> "awaited"]
  BY DEF ClickState
<1>5. /\ click'[r] = k /\ k.user = u /\ k.reply = "awaited"
      /\ \A q \in MemberRequests : q # r => click'[q] = click[q]
  BY <1>1, <1>2, <1>4 DEF PagesTypeOK
<1>6. PagesTypeOK'
  BY <1>1, <1>2, <1>4 DEF PagesTypeOK
<1>7. ASSUME ~ overtaken'
      PROVE  OwnerServes' /\ SoleOwnerRole' /\ OneClick' /\ ClickCurrent' /\ OwnersPages'
  <2>1. /\ OwnerServes /\ SoleOwnerRole /\ OneClick /\ ClickCurrent /\ OwnersPages
        /\ \A q \in MemberRequests : click[q] = NoClick
        /\ "detail" \notin behind[u]
    BY <1>1, <1>7 DEF PagesInv, Quiet
  <2>2. OwnerServes' /\ SoleOwnerRole'
    BY <1>1, <2>1 DEF OwnerServes, SoleOwnerRole, IsActive
  <2>3. detail[u] = "OWNER" => u = ownerId
    BY <2>1, NoClickHasNoReply DEF OwnersPages
  <2>4. OwnersPages'
    BY <1>1, <2>1, NoClickHasNoReply DEF OwnersPages
  <2>5. \A q \in MemberRequests : request[q] = Idle
    BY <2>1, NoClickHasNoReply DEF OneClick
  <2>6. \A q \in MemberRequests : q # r => request'[q] = Idle
    BY <1>2, <2>5 DEF MemberTypeOK, Click, Sends, TransferReadWorkspace, RoleRead, LeaveRead,
                      RemoveRead, Begin
  <2>7. OneClick'
    BY <1>5, <2>1, <2>6 DEF OneClick
  <2> DEFINE Fits(c) == /\ c.step \in Transferring =>
                             c.actor = ownerId /\ u = ownerId /\ c.target # ownerId
                        /\ c.step # "transfer:commit"
                        /\ c.step = "role:commit" => c.role # "OWNER"
                        /\ c.step \in {"role:commit", "leave:commit", "remove:commit"}
                              => c.target # ownerId
  <2>8. Fits(request'[r])
    <3>1. ASSUME NEW c, Begin(r, c) PROVE request'[r] = c
      BY <1>2, <3>1 DEF Begin, MemberTypeOK
    <3>2. CASE CanTransferOwnership(u, t) /\ u = ownerId /\ TransferReadWorkspace(r, t)
      <4>1. /\ request'[r] = Call("transfer:target", ownerId, t, "OWNER")
            /\ t # ownerId /\ u = ownerId
        BY <3>1, <3>2 DEF TransferReadWorkspace
      <4> QED
        BY <4>1 DEF Call
    <3>3. ASSUME NEW role \in Roles, CanUpdateRole(u, t, role), RoleRead(r, t, role)
          PROVE  Fits(request'[r])
      <4>1. /\ request'[r] = Call("role:commit", t, t, role)
            /\ role # "OWNER" /\ t # ownerId
        BY <2>3, <3>1, <3>3 DEF RoleRead, CanUpdateRole
      <4> QED
        BY <4>1 DEF Call, Transferring
    <3>4. CASE RemoveRead(r, t)
      <4>1. request'[r] = Call("remove:commit", t, t, "MEMBER") /\ t # ownerId
        BY <2>1, <3>1, <3>4 DEF RemoveRead, OwnerServes
      <4> QED
        BY <4>1 DEF Call, Transferring
    <3>5. CASE LeaveRead(r, u)
      <4>1. request'[r] = Call("leave:commit", u, u, "MEMBER") /\ u # ownerId
        BY <2>1, <3>1, <3>5 DEF LeaveRead, OwnerServes
      <4> QED
        BY <4>1 DEF Call, Transferring
    <3> HIDE DEF Fits
    <3> QED
      BY <3>2, <3>3, <3>4, <3>5 DEF Click, Sends
  <2>9. ClickCurrent'
    BY <1>1, <1>5, <2>6, <2>8, IdleHasNoStep DEF ClickCurrent, Transferring, MemberSteps
  <2> QED
    BY <2>2, <2>4, <2>7, <2>9
<1> QED
  BY <1>3, <1>6, <1>7 DEF PagesInv

\* The commit of a click changes the rows it has read, and its own page or behind
\* tells so.
LEMMA CommitsKeep ==
    ASSUME PagesInv, NEW r \in MemberRequests, Commits(r)
    PROVE  PagesInv'
<1> DEFINE u == click[r].user
           target == request[r].target
<1>1. /\ MemberInv /\ PagesTypeOK /\ MemberTypeOK /\ click[r].reply = "awaited"
      /\ UNCHANGED <<detail, sheet, overtaken>>
      /\ request[r].step \in {"transfer:commit", "role:commit", "leave:commit", "remove:commit"}
      /\ request' = [request EXCEPT ![r] = Idle]
  BY DEF PagesInv, MemberInv, Commits, TransferCommit, RoleCommit, LeaveCommit, RemoveCommit, Done
<1>2. click[r] \in ClickState /\ u \in Viewers /\ u \in Users
  BY <1>1, ClickFields, NoClickHasNoReply, ViewersAssumption
<1>3. PICK reply \in {"ok", "failed"} :
         /\ click' = [click EXCEPT ![r].reply = reply]
         /\ behind' = [v \in Viewers |-> IF v = u /\ reply = "ok" THEN behind[v]
                                         ELSE behind[v] \cup Missed(v)]
  BY DEF Commits
<1>4. PICK k \in ClickState : k = [click[r] EXCEPT !.reply = reply]
  BY <1>2 DEF ClickState
<1>5. /\ k.user = u /\ k.reply = reply
      /\ click' = [click EXCEPT ![r] = k] /\ click'[r] = k
      /\ \A q \in MemberRequests : q # r => click'[q] = click[q]
  BY <1>1, <1>2, <1>3, <1>4 DEF PagesTypeOK, ClickState
<1>6. MemberInv'
  BY <1>1, TransferCommitKeeps, MemberCommitKeeps DEF Commits
<1>7. \A v \in Viewers : behind[v] \subseteq behind'[v] /\ behind'[v] \subseteq Users \cup {"detail"}
  BY <1>1, <1>3 DEF PagesTypeOK, Missed
<1>8. PagesTypeOK'
  <2>1. behind' \in [Viewers -> SUBSET (Users \cup {"detail"})]
    BY <1>3, <1>7
  <2> QED
    BY <1>1, <1>5, <2>1 DEF PagesTypeOK
<1>9. ASSUME ~ overtaken
      PROVE  OwnerServes' /\ SoleOwnerRole' /\ OneClick' /\ ClickCurrent' /\ OwnersPages'
  <2>1. OwnerServes /\ SoleOwnerRole /\ OneClick /\ ClickCurrent /\ OwnersPages
    BY <1>9 DEF PagesInv
  <2>2. \A q \in MemberRequests : q # r => click[q] = NoClick
    BY <1>1, <2>1, NoClickHasNoReply DEF OneClick
  <2>3. \A q \in MemberRequests : request'[q] = Idle
    BY <1>1, <2>1, <2>2, NoClickHasNoReply DEF OneClick, MemberTypeOK
  <2>4. OneClick' /\ ClickCurrent'
    BY <1>5, <2>2, <2>3, IdleHasNoStep DEF OneClick, ClickCurrent, Transferring, MemberSteps
  <2>5. ASSUME NEW v \in Viewers, detail[v] = "OWNER"
        PROVE  v = ownerId \/ "detail" \in behind'[v]
    BY <1>1, <1>7, <2>1, <2>2, <2>5, NoClickHasNoReply DEF OwnersPages
  <2>6. CASE TransferCommit(r)
    <3>1. /\ request[r].actor = ownerId /\ u = ownerId /\ target # ownerId /\ IsActive(target)
          /\ ownerId' = target
      BY <2>1, <2>6 DEF ClickCurrent, Transferring, TransferCommit
    <3>2. request[r] \in MemberCall /\ target \in Users
      BY <1>1, RequestAtStep DEF MemberSteps, MemberCall
    <3>3. \A w \in Users : member'[w].role = IF w = target THEN "OWNER"
                                             ELSE IF w = ownerId THEN "MEMBER" ELSE member[w].role
      BY <1>1, <2>6, <3>1, TransferRows
    <3>4. member'[target].status = "ACTIVE"
      <4>1. member[target] \in MemberRow
        BY <1>1, <3>1, <3>2 DEF MemberTypeOK, IsActive, NoRow
      <4>2. member'[target] = [member[target] EXCEPT !.role = "OWNER"]
        BY <1>1, <2>6, <3>1, <3>2 DEF TransferCommit, MemberTypeOK
      <4> QED
        BY <3>1, <4>1, <4>2 DEF IsActive, MemberRow
    <3>5. OwnerServes' /\ SoleOwnerRole'
      BY <2>1, <3>1, <3>2, <3>3, <3>4 DEF OwnerServes, SoleOwnerRole, IsActive
    <3>6. reply = "failed" => "detail" \in behind'[u]
      <4>1. member'[u] # member[u]
        BY <1>2, <2>1, <3>1, <3>3 DEF OwnerServes
      <4> QED
        BY <1>2, <1>3, <4>1 DEF Missed
    <3>7. OwnersPages'
      BY <1>1, <1>5, <2>5, <3>1, <3>6 DEF OwnersPages
    <3> QED
      BY <2>4, <3>5, <3>7
  <2>7. CASE RoleCommit(r) \/ LeaveCommit(r) \/ RemoveCommit(r)
    <3>1. /\ target # ownerId /\ ownerId' = ownerId
          /\ RoleCommit(r) => request[r].role # "OWNER"
      BY <2>1, <2>7 DEF ClickCurrent, RoleCommit, LeaveCommit, RemoveCommit
    <3>2. request[r] \in MemberCall /\ target \in Users
      BY <1>1, RequestAtStep DEF MemberSteps, MemberCall
    <3>3. /\ \A w \in Users : w # target => member'[w] = member[w]
          /\ member'[target].role # "OWNER"
      <4>1. member[target].role # "OWNER"
        BY <2>1, <3>1, <3>2 DEF SoleOwnerRole
      <4>2. member[target] \in MemberRow
        <5>1. HasRow(target)
          BY <1>1 DEF MemberInv, RowsFound, CommitSteps
        <5> QED
          BY <1>1, <3>2, <5>1 DEF MemberTypeOK, HasRow
      <4>3. CASE RoleCommit(r)
        <5>1. PICK found : found = [member[target] EXCEPT !.role = request[r].role]
          OBVIOUS
        <5>2. found.role = request[r].role
          BY <4>2, <5>1 DEF MemberRow
        <5>3. member' = [member EXCEPT ![target] = found]
          BY <4>3, <5>1 DEF RoleCommit
        <5> QED
          BY <1>1, <3>1, <3>2, <4>3, <5>2, <5>3 DEF MemberTypeOK
      <4>4. CASE LeaveCommit(r) \/ RemoveCommit(r)
        <5>1. PICK s \in {"LEFT", "REMOVED"} : member' = [member EXCEPT ![target].status = s]
          BY <4>4 DEF LeaveCommit, RemoveCommit
        <5>2. PICK found : found = [member[target] EXCEPT !.status = s]
          OBVIOUS
        <5>3. found.role = member[target].role
          BY <4>2, <5>2 DEF MemberRow
        <5>4. member' = [member EXCEPT ![target] = found]
          BY <5>1, <5>2
        <5> QED
          BY <1>1, <3>2, <4>1, <5>3, <5>4 DEF MemberTypeOK
      <4> QED
        BY <2>7, <4>3, <4>4
    <3>4. ownerId \in Users
      BY <1>1 DEF MemberTypeOK
    <3>5. OwnerServes' /\ SoleOwnerRole'
      BY <2>1, <3>1, <3>2, <3>3, <3>4 DEF OwnerServes, SoleOwnerRole, IsActive
    <3>6. OwnersPages'
      BY <1>1, <2>5, <3>1 DEF OwnersPages
    <3> QED
      BY <2>4, <3>5, <3>6
  <2> QED
    BY <2>6, <2>7 DEF Commits
<1> QED
  BY <1>1, <1>6, <1>8, <1>9 DEF PagesInv

LEMMA AbortsKeep ==
    ASSUME PagesInv, NEW r \in MemberRequests, Aborts(r)
    PROVE  PagesInv'
<1>1. /\ MemberInv /\ PagesTypeOK /\ MemberTypeOK /\ click[r].reply = "awaited"
      /\ UNCHANGED <<detail, sheet, behind, overtaken, ownerId, member>>
  BY DEF PagesInv, MemberInv, Aborts, TransferReadTarget, RequestFails
<1>2. click[r] \in ClickState
  BY <1>1, ClickFields, NoClickHasNoReply
<1>3. MemberInv'
  BY <1>1, TransferReadTargetKeeps, RequestEnds DEF Aborts, RequestFails
<1>4. PICK k \in ClickState :
         /\ k.user = click[r].user
         /\ k.reply = IF request'[r] = Idle THEN "failed" ELSE "awaited"
         /\ click' = [click EXCEPT ![r] = k] /\ click'[r] = k
         /\ \A q \in MemberRequests : q # r => click'[q] = click[q]
  <2>1. CASE request'[r] = Idle
    <3>1. PICK k \in ClickState : k = [click[r] EXCEPT !.reply = "failed"]
      BY <1>2 DEF ClickState
    <3>2. click' = [click EXCEPT ![r] = k]
      BY <2>1, <3>1 DEF Aborts
    <3> QED
      BY <1>1, <1>2, <2>1, <3>1, <3>2 DEF PagesTypeOK, ClickState
  <2>2. CASE request'[r] # Idle
    BY <1>1, <1>2, <2>2 DEF PagesTypeOK, Aborts
  <2> QED
    BY <2>1, <2>2
<1>5. PagesTypeOK'
  BY <1>1, <1>4 DEF PagesTypeOK
<1>6. ASSUME ~ overtaken
      PROVE  OwnerServes' /\ SoleOwnerRole' /\ OneClick' /\ ClickCurrent' /\ OwnersPages'
  <2>1. OwnerServes /\ SoleOwnerRole /\ OneClick /\ ClickCurrent /\ OwnersPages
    BY <1>6 DEF PagesInv
  <2>2. \A q \in MemberRequests : q # r => click[q] = NoClick
    BY <1>1, <2>1, NoClickHasNoReply DEF OneClick
  <2>3. OwnerServes' /\ SoleOwnerRole'
    BY <1>1, <2>1 DEF OwnerServes, SoleOwnerRole, IsActive
  <2>4. OwnersPages'
    BY <1>1, <2>1, <2>2, NoClickHasNoReply DEF OwnersPages
  <2>5. \A q \in MemberRequests : q # r => request'[q] = Idle
    <3>1. \A q \in MemberRequests : q # r => request[q] = Idle
      BY <2>1, <2>2, NoClickHasNoReply DEF OneClick
    <3> QED
      BY <1>1, <3>1 DEF MemberTypeOK, Aborts, TransferReadTarget, RequestFails, Goto, Done
  <2>6. OneClick'
    BY <1>4, <2>2, <2>5 DEF OneClick
  <2>7. ClickCurrent'
    <3>1. CASE request'[r] = Idle
      BY <2>5, <3>1, IdleHasNoStep DEF ClickCurrent, Transferring, MemberSteps
    <3>2. CASE request'[r] # Idle
      <4>1. request[r].step = "transfer:target" /\ IsActive(request[r].target)
            /\ Goto(r, "transfer:commit")
        BY <1>1, <3>2 DEF Aborts, TransferReadTarget, RequestFails, Done, MemberTypeOK
      <4>2. request[r] \in MemberCall
        BY <1>1, <4>1, RequestAtStep DEF MemberSteps
      <4>3. PICK c \in MemberCall : /\ c.step = "transfer:commit" /\ c.actor = request[r].actor
                                    /\ c.target = request[r].target
                                    /\ request' = [request EXCEPT ![r] = c]
        BY <1>1, <4>1, <4>2, GotoKeepsCall DEF MemberSteps
      <4>4. request'[r] = c
        BY <1>1, <4>3 DEF MemberTypeOK
      <4> QED
        BY <1>1, <1>4, <2>1, <2>5, <4>1, <4>3, <4>4, IdleHasNoStep
           DEF ClickCurrent, Transferring, MemberSteps, IsActive
    <3> QED
      BY <3>1, <3>2
  <2> QED
    BY <2>3, <2>4, <2>6, <2>7
<1> QED
  BY <1>1, <1>3, <1>5, <1>6 DEF PagesInv

LEMMA AnsweredKeeps ==
    ASSUME PagesInv, NEW r \in MemberRequests, Answered(r)
    PROVE  PagesInv'
<1> DEFINE u == click[r].user
<1>1. /\ MemberInv /\ PagesTypeOK /\ MemberTypeOK /\ click[r].reply \in {"ok", "failed"}
      /\ click' = [click EXCEPT ![r] = NoClick]
      /\ UNCHANGED <<memberVars, sheet, overtaken>>
  BY DEF PagesInv, MemberInv, Answered
<1>2. u \in Viewers /\ u \in Users
  BY <1>1, ClickFields, NoClickHasNoReply, ViewersAssumption
<1>3. MemberInv'
  BY <1>1 DEF MemberInv, MemberTypeOK, OwnerHasRow, RowsFound, HasRow, memberVars
<1>4. RoleOf(u) \in Roles \cup {"none"}
  BY <1>1, <1>2 DEF RoleOf, IsActive, MemberTypeOK, MemberRow, NoRow
<1>5. PagesTypeOK'
  BY <1>1, <1>2, <1>4 DEF PagesTypeOK, Answered
<1>6. ASSUME ~ overtaken
      PROVE  OwnerServes' /\ SoleOwnerRole' /\ OneClick' /\ ClickCurrent' /\ OwnersPages'
  <2>1. OwnerServes /\ SoleOwnerRole /\ OneClick /\ ClickCurrent /\ OwnersPages
    BY <1>6 DEF PagesInv
  <2>2. \A q \in MemberRequests : click'[q] = NoClick
    BY <1>1, <2>1, NoClickHasNoReply DEF OneClick, PagesTypeOK
  <2>3. \A q \in MemberRequests : request[q] = Idle
    BY <1>1, <2>1, NoClickHasNoReply DEF OneClick
  <2>4. OwnerServes' /\ SoleOwnerRole' /\ OneClick'
    BY <1>1, <2>1, <2>2, <2>3 DEF OwnerServes, SoleOwnerRole, OneClick, IsActive, memberVars
  <2>5. ClickCurrent'
    BY <1>1, <2>3, IdleHasNoStep DEF ClickCurrent, Transferring, MemberSteps, memberVars
  <2>6. ASSUME NEW v \in Viewers, detail'[v] = "OWNER"
        PROVE  v = ownerId \/ "detail" \in behind'[v]
    <3>1. RoleOf(u) = "OWNER" => u = ownerId
      BY <1>2, <2>1 DEF RoleOf, SoleOwnerRole
    <3>2. \A q \in MemberRequests : q # r => click[q] = NoClick
      BY <1>1, <2>1, NoClickHasNoReply DEF OneClick
    <3>3. CASE detail' = [detail EXCEPT ![u] = RoleOf(u)] /\ behind' = [behind EXCEPT ![u] = @ \ {"detail"}]
      BY <1>1, <1>2, <2>1, <2>6, <3>1, <3>2, <3>3, NoClickHasNoReply DEF OwnersPages, PagesTypeOK
    <3>4. CASE behind' = [behind EXCEPT ![u] = @ \cup {"detail"}] /\ UNCHANGED detail
      BY <1>1, <1>2, <2>1, <2>6, <3>2, <3>4, NoClickHasNoReply DEF OwnersPages, PagesTypeOK
    <3>5. CASE click[r].reply = "failed" /\ UNCHANGED <<detail, behind>>
      BY <1>1, <2>1, <2>6, <3>2, <3>5, NoClickHasNoReply DEF OwnersPages
    <3> QED
      BY <3>3, <3>4, <3>5 DEF Answered
  <2>7. OwnersPages'
    BY <1>1, <2>6 DEF OwnersPages, memberVars
  <2> QED
    BY <2>4, <2>5, <2>7
<1> QED
  BY <1>1, <1>3, <1>5, <1>6 DEF PagesInv

-----------------------------------------------------------------------------
(* The members page: the theorems                                          *)

LEMMA PagesInvInit == MemberInit /\ PagesInit => PagesInv
<1> SUFFICES ASSUME MemberInit, PagesInit PROVE PagesInv
  OBVIOUS
<1>1. MemberInv /\ MemberTypeOK
  BY MemberInitInv DEF MemberInv
<1>2. \A u \in Users : RoleOf(u) \in Roles \cup {"none"}
  BY <1>1 DEF RoleOf, IsActive, MemberTypeOK, MemberRow, NoRow
<1>3. PagesTypeOK
  BY <1>2, ViewersAssumption DEF PagesInit, PagesTypeOK
<1>4. OwnerServes /\ SoleOwnerRole
  BY MemberAssumption DEF MemberInit, OwnerServes, SoleOwnerRole, IsActive
<1>5. OneClick /\ ClickCurrent
  BY IdleHasNoStep DEF MemberInit, PagesInit, OneClick, ClickCurrent, Transferring, MemberSteps
<1>6. OwnersPages
  BY <1>4, ViewersAssumption DEF PagesInit, OwnersPages, RoleOf, SoleOwnerRole
<1> QED
  BY <1>1, <1>3, <1>4, <1>5, <1>6 DEF PagesInv

LEMMA PagesInvStep == PagesInv /\ [PagesNext]_<<memberVars, pageVars>> => PagesInv'
<1> SUFFICES ASSUME PagesInv, [PagesNext]_<<memberVars, pageVars>> PROVE PagesInv'
  OBVIOUS
<1>1. CASE UNCHANGED <<memberVars, pageVars>>
  BY <1>1 DEF memberVars, pageVars, PagesInv, MemberInv, MemberTypeOK, OwnerHasRow, RowsFound,
              HasRow, PagesTypeOK, OwnerServes, SoleOwnerRole, OneClick, ClickCurrent,
              OwnersPages, IsActive
<1>2. CASE PagesNext
  BY <1>2, FetchDetailKeeps, FetchMemberKeeps, ClickKeeps, CommitsKeep, AbortsKeep,
     AnsweredKeeps DEF PagesNext
<1> QED
  BY <1>1, <1>2

\* Until a click is overtaken, what the service has read of the two tables is still
\* so when it commits, and whose page says OWNER is the owner or is told otherwise.
THEOREM PagesInvariant == PagesSpec => []PagesInv
  BY PagesInvInit, PagesInvStep, PTL DEF PagesSpec

\* The buttons of the members page lead transferOwnership, updateWorkspaceMemberRole,
\* leaveWorkspace and removeWorkspaceMember into no state without an active owner.
THEOREM DashboardsKeepOwners == PagesSpec => []DashboardKeepsOwner
<1>1. PagesInv => DashboardKeepsOwner
  BY DEF PagesInv, DashboardKeepsOwner, OwnerServes
<1> QED
  BY <1>1, PagesInvariant, PTL

\* OfferedIsServed with the conditions of the four actions in the place of ENABLED:
\* nothing else is in their way.
OfferedMeetsConditions ==
    ~ overtaken /\ Quiet =>
        \A u \in Viewers, t \in Users, r \in MemberRequests :
            /\ Seen(u, t)
            /\ detail[u] = RoleOf(u) /\ sheet[u][t] = RoleOf(t)
            =>
            /\ request[r] = Idle
            /\ CanTransferOwnership(u, t) =>
                  /\ Api!Guard.transferOwnership \in Api!RolePermissions[member[u].role]
                  /\ u = ownerId /\ t # ownerId
            /\ \A role \in Roles : CanUpdateRole(u, t, role) =>
                  /\ Api!Guard.updateWorkspaceMemberRole \in Api!RolePermissions[member[u].role]
                  /\ IsActive(t) /\ role \notin {member[t].role, "OWNER"}
            /\ CanRemoveMember(u, t) =>
                  /\ Api!Guard.removeWorkspaceMember \in Api!RolePermissions[member[u].role]
                  /\ IsActive(t) /\ member[t].role # "OWNER"
            /\ CanLeaveWorkspace(u, t) =>
                  /\ Api!Guard.leaveWorkspace \in Api!RolePermissions[member[u].role]
                  /\ IsActive(t) /\ member[t].role # "OWNER"

LEMMA MemberRouteIsOfOneTable ==
    ASSUME NEW op \in DOMAIN Api!MemberRoutes
    PROVE  Api!Guard[op] = Api!MemberRoutes[op]
<1>1. op \in {"transferOwnership", "listWorkspaceMembers", "getWorkspaceMember",
             "updateWorkspaceMemberRole", "leaveWorkspace", "removeWorkspaceMember"}
  BY DEF Api!MemberRoutes
<1>2. /\ op \notin DOMAIN Api!WorkspaceRoutes
      /\ op \notin DOMAIN Api!SuspensionRoutes
      /\ op \notin DOMAIN Api!InvitationRoutes
  BY <1>1 DEF Api!WorkspaceRoutes, Api!SuspensionRoutes, Api!InvitationRoutes
<1>3. /\ op \notin DOMAIN Api!UrlRoutes
      /\ op \notin DOMAIN Api!AuditRoutes
      /\ op \notin DOMAIN Api!RoleRoutes
  BY <1>1 DEF Api!UrlRoutes, Api!AuditRoutes, Api!RoleRoutes
<1>4. op \notin DOMAIN Api!UserRoutes /\ op \notin DOMAIN Api!AdminRoutes
  BY <1>1 DEF Api!UserRoutes, Api!AdminRoutes
<1>5. /\ Api!MemberRoutes \in Api!RouteTables
      /\ \A table \in Api!RouteTables : op \in DOMAIN table => table = Api!MemberRoutes
  BY <1>2, <1>3, <1>4 DEF Api!RouteTables
<1>6. (CHOOSE table \in Api!RouteTables : op \in DOMAIN table) = Api!MemberRoutes
  BY <1>5
<1>7. op \in Api!Operations
  BY <1>5 DEF Api!Operations
<1> QED
  BY <1>6, <1>7 DEF Api!Guard

LEMMA GuardsAsk ==
    /\ Api!Guard.transferOwnership = "workspace.update"
    /\ Api!Guard.updateWorkspaceMemberRole = "member.update"
    /\ Api!Guard.removeWorkspaceMember = "member.remove"
    /\ Api!Guard.leaveWorkspace = "member.leave"
    /\ "workspace.update" \in Api!RolePermissions["OWNER"]
    /\ \A role \in Roles : "member.leave" \in Api!RolePermissions[role]
<1>1. /\ "transferOwnership" \in DOMAIN Api!MemberRoutes
      /\ "updateWorkspaceMemberRole" \in DOMAIN Api!MemberRoutes
      /\ "removeWorkspaceMember" \in DOMAIN Api!MemberRoutes
      /\ "leaveWorkspace" \in DOMAIN Api!MemberRoutes
  BY DEF Api!MemberRoutes
<1>2. /\ Api!MemberRoutes.transferOwnership = "workspace.update"
      /\ Api!MemberRoutes.updateWorkspaceMemberRole = "member.update"
      /\ Api!MemberRoutes.removeWorkspaceMember = "member.remove"
      /\ Api!MemberRoutes.leaveWorkspace = "member.leave"
  BY DEF Api!MemberRoutes
<1>3. /\ "workspace.update" \in Api!RolePermissions["OWNER"]
      /\ \A role \in Roles : "member.leave" \in Api!RolePermissions[role]
  BY DEF Api!RolePermissions, Api!Permissions, Roles
<1> QED
  BY <1>1, <1>2, <1>3, MemberRouteIsOfOneTable

LEMMA ShownAsTheyAre ==
    ASSUME PagesInv, NEW u \in Viewers, NEW t \in Users, Seen(u, t),
           detail[u] = RoleOf(u), sheet[u][t] = RoleOf(t)
    PROVE  /\ IsActive(u) /\ detail[u] = member[u].role /\ member[u].role \in Roles
           /\ IsActive(t) /\ sheet[u][t] = member[t].role
<1>1. IsActive(u) /\ detail[u] = member[u].role /\ IsActive(t) /\ sheet[u][t] = member[t].role
  BY DEF Seen, RoleOf
<1>2. u \in Users /\ member[u] \in MemberRow
  BY <1>1, ViewersAssumption DEF PagesInv, MemberInv, MemberTypeOK, IsActive, NoRow
<1> QED
  BY <1>1, <1>2 DEF MemberRow

\* What the members page offers, the routes and handlers of workspace-member let
\* pass, as long as no click was overtaken and the page shows the two as they are.
THEOREM OfferedIsLetPass == PagesSpec => []OfferedMeetsConditions
<1>1. PagesInv => OfferedMeetsConditions
  <2> SUFFICES ASSUME PagesInv, ~ overtaken, Quiet,
                      NEW u \in Viewers, NEW t \in Users, NEW r \in MemberRequests,
                      Seen(u, t), detail[u] = RoleOf(u), sheet[u][t] = RoleOf(t)
               PROVE  /\ request[r] = Idle
                      /\ CanTransferOwnership(u, t) =>
                            /\ "workspace.update" \in Api!RolePermissions[member[u].role]
                            /\ u = ownerId /\ t # ownerId
                      /\ \A role \in Roles : CanUpdateRole(u, t, role) =>
                            /\ "member.update" \in Api!RolePermissions[member[u].role]
                            /\ IsActive(t) /\ role \notin {member[t].role, "OWNER"}
                      /\ CanRemoveMember(u, t) =>
                            /\ "member.remove" \in Api!RolePermissions[member[u].role]
                            /\ IsActive(t) /\ member[t].role # "OWNER"
                      /\ CanLeaveWorkspace(u, t) =>
                            /\ "member.leave" \in Api!RolePermissions[member[u].role]
                            /\ IsActive(t) /\ member[t].role # "OWNER"
    BY GuardsAsk DEF OfferedMeetsConditions
  <2>1. request[r] = Idle
    BY NoClickHasNoReply DEF PagesInv, OneClick, Quiet
  <2>2. /\ IsActive(u) /\ detail[u] = member[u].role /\ member[u].role \in Roles
        /\ IsActive(t) /\ sheet[u][t] = member[t].role
    BY ShownAsTheyAre
  <2>3. ASSUME CanTransferOwnership(u, t)
        PROVE  /\ "workspace.update" \in Api!RolePermissions[member[u].role]
               /\ u = ownerId /\ t # ownerId
    <3>1. member[u].role = "OWNER" /\ t # u
      BY <2>2, <2>3 DEF CanTransferOwnership
    <3>2. u = ownerId
      BY <3>1, ViewersAssumption DEF PagesInv, SoleOwnerRole
    <3> QED
      BY <3>1, <3>2, GuardsAsk
  <2>4. ASSUME NEW role \in Roles, CanUpdateRole(u, t, role)
        PROVE  /\ "member.update" \in Api!RolePermissions[member[u].role]
               /\ role \notin {member[t].role, "OWNER"}
    BY <2>2, <2>4 DEF CanUpdateRole, Has
  <2>5. ASSUME CanRemoveMember(u, t)
        PROVE  /\ "member.remove" \in Api!RolePermissions[member[u].role]
               /\ member[t].role # "OWNER"
    BY <2>2, <2>5 DEF CanRemoveMember, Has
  <2>6. ASSUME CanLeaveWorkspace(u, t)
        PROVE  /\ "member.leave" \in Api!RolePermissions[member[u].role]
               /\ member[t].role # "OWNER"
    BY <2>2, <2>6, GuardsAsk DEF CanLeaveWorkspace
  <2> QED
    BY <2>1, <2>2, <2>3, <2>4, <2>5, <2>6
<1> QED
  BY <1>1, PagesInvariant, PTL

-----------------------------------------------------------------------------
(* The socket: the invariant                                               *)

RealtimeTypeOK ==
    /\ mounted \in BOOLEAN /\ url \in BOOLEAN /\ timer \in BOOLEAN /\ manual \in BOOLEAN
    /\ current \in Sockets \cup {0}
    /\ refreshing \in BOOLEAN /\ signingOut \in BOOLEAN
    /\ socket \in [Sockets -> SocketState \cup {NoSocket}]
    /\ accessToken \in 0 .. MaxAccessTokens /\ expiredUpTo \in 0 .. MaxAccessTokens
    /\ up \in BOOLEAN /\ connections \subseteq Sockets
    /\ copies \in 0 .. MaxSockets
    /\ mounts \in 0 .. MaxMounts /\ interruptions \in 0 .. MaxInterruptions
    /\ mishaps \subseteq Mishaps

\* A socket that is alive is this.socket, unless a close has strayed.
AliveIsCurrent == "strayed" \notin mishaps => Alive \subseteq {current} /\ copies <= 1

RealtimeInv == RealtimeTypeOK /\ AliveIsCurrent

-----------------------------------------------------------------------------
(* The socket: its rows                                                    *)

Lives(s) == socket[s].state \in {"connecting", "open"}

LEMMA AliveLives == \A s \in Sockets : s \in Alive <=> Lives(s)
  BY DEF Alive, Is, Lives

LEMMA SocketRows ==
    /\ NoSocket.state = "none"
    /\ \A k \in SocketState : k.state # "none"
    /\ \A k \in SocketState, state \in {"connecting", "open", "closing", "refreshing"} :
          /\ [k EXCEPT !.state = state] \in SocketState
          /\ \A code \in {"unauthorized", "other"} :
                [k EXCEPT !.state = state, !.code = code] \in SocketState
  BY DEF NoSocket, SocketState

\* A socket whose handlers have something to do, or that is alive, is no free place.
LEMMA SocketThere ==
    ASSUME RealtimeTypeOK, NEW s \in Sockets, socket[s].state # "none"
    PROVE  socket[s] \in SocketState
  BY SocketRows DEF RealtimeTypeOK

LEMMA SocketMoves ==
    ASSUME RealtimeTypeOK, NEW s \in Sockets, NEW k \in SocketState \cup {NoSocket},
           socket' = [socket EXCEPT ![s] = k]
    PROVE  /\ socket' \in [Sockets -> SocketState \cup {NoSocket}]
           /\ socket'[s] = k
           /\ \A q \in Sockets : q # s => socket'[q] = socket[q]
  BY DEF RealtimeTypeOK

LEMMA TableWithout ==
    ASSUME RealtimeTypeOK, NEW s \in Sockets
    PROVE  \E table \in [Sockets -> SocketState \cup {NoSocket}] :
              /\ table = Without(s) /\ table[s] = NoSocket
              /\ \A q \in Sockets : q # s => table[q] = socket[q]
<1>1. PICK k \in SocketState \cup {NoSocket} : k = NoSocket
  OBVIOUS
<1>2. /\ [socket EXCEPT ![s] = k] \in [Sockets -> SocketState \cup {NoSocket}]
      /\ [socket EXCEPT ![s] = k][s] = k
      /\ \A q \in Sockets : q # s => [socket EXCEPT ![s] = k][q] = socket[q]
  BY DEF RealtimeTypeOK
<1>3. Without(s) = [socket EXCEPT ![s] = k]
  BY <1>1 DEF Without
<1> QED
  BY <1>1, <1>2, <1>3

LEMMA Opened ==
    ASSUME NEW table \in [Sockets -> SocketState \cup {NoSocket}],
           \E s \in Sockets : table[s] = NoSocket,
           NEW made \in {"connect", "close"}, NEW access \in 1 .. MaxAccessTokens,
           Opening(table, made, access)
    PROVE  /\ socket' \in [Sockets -> SocketState \cup {NoSocket}]
           /\ current' \in Sockets
           /\ socket'[current'].state = "connecting"
           /\ \A q \in Sockets : q # current' => socket'[q] = table[q]
<1> DEFINE s == CHOOSE s \in Sockets : table[s] = NoSocket
           k == [state |-> "connecting", made |-> made, token |-> access, code |-> "other"]
<1>1. s \in Sockets
  OBVIOUS
<1>2. k \in SocketState /\ k.state = "connecting"
  BY DEF SocketState
<1>3. socket' = [table EXCEPT ![s] = k] /\ current' = s
  BY DEF Opening
<1> HIDE DEF s, k
<1> QED
  BY <1>1, <1>2, <1>3

-----------------------------------------------------------------------------
(* The socket: every action keeps the invariant                            *)

\* No socket comes to life, and this.socket is forgotten only if it is dead.
LEMMA FewerAlive ==
    ASSUME AliveIsCurrent, mishaps \subseteq mishaps',
           \A s \in Sockets : Lives(s)' => Lives(s) /\ (current' = current \/ s # current),
           copies' = copies
    PROVE  AliveIsCurrent'
<1>1. ASSUME "strayed" \notin mishaps', NEW s \in Alive' PROVE s = current'
  <2>1. s \in Sockets /\ Lives(s)'
    BY <1>1 DEF Alive, Is, Lives, Sockets
  <2>2. s \in Alive
    BY <2>1, AliveLives
  <2> QED
    BY <1>1, <2>1, <2>2 DEF AliveIsCurrent
<1> QED
  BY <1>1 DEF AliveIsCurrent

LEMMA ConnectKeeps ==
    ASSUME RealtimeInv, Connect
    PROVE  /\ url' \in BOOLEAN /\ manual' \in BOOLEAN
           /\ current' \in Sockets \cup {0}
           /\ socket' \in [Sockets -> SocketState \cup {NoSocket}]
           /\ "strayed" \notin mishaps => Alive' \subseteq {current'}
<1>1. RealtimeTypeOK /\ ("strayed" \notin mishaps => Alive \subseteq {current})
  BY DEF RealtimeInv, AliveIsCurrent
<1>2. CASE UNCHANGED <<socket, current>>
  <2>1. url' \in BOOLEAN /\ manual' \in BOOLEAN
    BY <1>1 DEF Connect, RealtimeTypeOK
  <2>2. Alive' = Alive
    BY <1>2 DEF Alive, Is
  <2> QED
    BY <1>1, <1>2, <2>1, <2>2 DEF RealtimeTypeOK
<1>3. CASE ~ UNCHANGED <<socket, current>>
  <2>1. /\ url' = TRUE /\ manual' = FALSE /\ current \notin Alive
        /\ Free # {} /\ accessToken # 0 /\ Opening(socket, "connect", accessToken)
    BY <1>3 DEF Connect
  <2>2. \E s \in Sockets : socket[s] = NoSocket
    BY <2>1 DEF Free
  <2>3. accessToken \in 1 .. MaxAccessTokens
    BY <1>1, <2>1, RealtimeAssumption DEF RealtimeTypeOK
  <2>4. /\ socket' \in [Sockets -> SocketState \cup {NoSocket}]
        /\ current' \in Sockets
        /\ \A q \in Sockets : q # current' => socket'[q] = socket[q]
    BY <1>1, <2>1, <2>2, <2>3, Opened DEF RealtimeTypeOK
  <2>5. ASSUME "strayed" \notin mishaps PROVE Alive' \subseteq {current'}
    BY <1>1, <2>1, <2>4, <2>5 DEF Alive, Is
  <2> QED
    BY <2>1, <2>4, <2>5
<1> QED
  BY <1>2, <1>3

LEMMA MountKeeps == ASSUME RealtimeInv, Mount PROVE RealtimeInv'
<1>1. /\ ~ mounted /\ mounts < MaxMounts /\ mounts' = mounts + 1 /\ mounted' = TRUE
      /\ mishaps \subseteq mishaps' /\ mishaps' \subseteq mishaps \cup {"tokenless"}
      /\ UNCHANGED <<timer, tokenState, apiVars, copies, interruptions>> /\ Connect
  BY DEF Mount
<1>2. RealtimeTypeOK'
  BY <1>1, ConnectKeeps, RealtimeAssumption
     DEF RealtimeInv, RealtimeTypeOK, tokenState, apiVars, Mishaps
<1>3. AliveIsCurrent'
  BY <1>1, ConnectKeeps DEF RealtimeInv, AliveIsCurrent
<1> QED
  BY <1>2, <1>3 DEF RealtimeInv

LEMMA TimerFiresKeeps == ASSUME RealtimeInv, TimerFires PROVE RealtimeInv'
<1>1. /\ timer' = FALSE /\ Connect
      /\ UNCHANGED <<mounted, tokenState, apiVars, copies, mounts, interruptions, mishaps>>
  BY DEF TimerFires
<1>2. RealtimeTypeOK'
  BY <1>1, ConnectKeeps DEF RealtimeInv, RealtimeTypeOK, tokenState, apiVars
<1>3. AliveIsCurrent'
  BY <1>1, ConnectKeeps DEF RealtimeInv, AliveIsCurrent
<1> QED
  BY <1>2, <1>3 DEF RealtimeInv

LEMMA DisconnectKeeps == ASSUME RealtimeInv, Disconnect PROVE RealtimeInv'
<1>1. /\ mounted' = FALSE /\ manual' = TRUE /\ url' = FALSE /\ timer' = FALSE /\ current' = 0
      /\ UNCHANGED <<tokenState, apiVars, copies, mounts, interruptions, mishaps>>
  BY DEF Disconnect
<1>2. RealtimeTypeOK /\ AliveIsCurrent
  BY DEF RealtimeInv
<1>3. CASE current \in Alive
  <2>1. current \in Sockets /\ socket[current] \in SocketState
    BY <1>2, <1>3, SocketThere DEF Alive, Is
  <2>2. PICK k \in SocketState : k = [socket[current] EXCEPT !.state = "closing", !.code = "other"]
    BY <2>1, SocketRows
  <2>3. socket' = [socket EXCEPT ![current] = k] /\ k.state = "closing"
    BY <1>3, <2>1, <2>2 DEF Disconnect, SocketState
  <2>4. /\ socket' \in [Sockets -> SocketState \cup {NoSocket}]
        /\ socket'[current] = k
        /\ \A q \in Sockets : q # current => socket'[q] = socket[q]
    BY <1>2, <2>1, <2>3, SocketMoves
  <2>5. \A s \in Sockets : Lives(s)' => Lives(s) /\ s # current
    BY <2>3, <2>4 DEF Lives
  <2>6. RealtimeTypeOK'
    BY <1>1, <1>2, <2>4 DEF RealtimeTypeOK, tokenState, apiVars
  <2>7. AliveIsCurrent'
    BY <1>1, <1>2, <2>5, FewerAlive
  <2> QED
    BY <2>6, <2>7 DEF RealtimeInv
<1>4. CASE current \notin Alive
  <2>1. socket' = socket
    BY <1>4 DEF Disconnect
  <2>2. \A s \in Sockets : Lives(s)' => Lives(s) /\ s # current
    BY <1>4, <2>1, AliveLives DEF Lives
  <2>3. RealtimeTypeOK'
    BY <1>1, <1>2, <2>1 DEF RealtimeTypeOK, tokenState, apiVars
  <2>4. AliveIsCurrent'
    BY <1>1, <1>2, <2>2, FewerAlive
  <2> QED
    BY <2>3, <2>4 DEF RealtimeInv
<1> QED
  BY <1>3, <1>4

\* Steps in which one socket goes on and no other comes to life.
LEMMA SocketGoes ==
    ASSUME RealtimeInv, RealtimeTypeOK',  NEW s \in Sockets, NEW k \in SocketState \cup {NoSocket},
           socket' = [socket EXCEPT ![s] = k],
           k.state \in {"connecting", "open"} => Lives(s),
           current' = current \/ (current = s /\ ~ Lives(s)),
           mishaps \subseteq mishaps', copies' = copies
    PROVE  RealtimeInv'
<1>1. /\ socket'[s] = k
      /\ \A q \in Sockets : q # s => socket'[q] = socket[q]
  BY SocketMoves DEF RealtimeInv
<1>2. \A q \in Sockets : Lives(q)' => Lives(q) /\ (current' = current \/ q # current)
  BY <1>1 DEF Lives
<1> QED
  BY <1>2, FewerAlive DEF RealtimeInv

LEMMA AcceptKeeps ==
    ASSUME RealtimeInv, NEW s \in Sockets, Accept(s) \/ Unreachable(s) \/ Lost(s)
    PROVE  RealtimeInv'
<1>1. RealtimeTypeOK /\ Lives(s) /\ socket[s] \in SocketState
  BY SocketThere DEF RealtimeInv, Accept, Unreachable, Lost, Is, Lives
<1>2. PICK k \in SocketState \cup {NoSocket} : socket' = [socket EXCEPT ![s] = k]
  <2>1. CASE socket' = [socket EXCEPT ![s].state = "open"]
    <3>1. PICK k \in SocketState : k = [socket[s] EXCEPT !.state = "open"]
      BY <1>1, SocketRows
    <3> QED
      BY <2>1, <3>1
  <2>2. CASE socket' = [socket EXCEPT ![s].state = "closing", ![s].code = "unauthorized"]
    <3>1. PICK k \in SocketState : k = [socket[s] EXCEPT !.state = "closing", !.code = "unauthorized"]
      BY <1>1, SocketRows
    <3> QED
      BY <1>1, <2>2, <3>1 DEF RealtimeTypeOK
  <2> QED
    BY <2>1, <2>2 DEF Accept, Unreachable, Lost
<1>3. socket' \in [Sockets -> SocketState \cup {NoSocket}]
  BY <1>1, <1>2, SocketMoves
<1>4. RealtimeTypeOK'
  BY <1>1, <1>3, RealtimeAssumption
     DEF RealtimeTypeOK, Accept, Unreachable, Lost, providerVars, tokenState, apiVars
<1>5. current' = current /\ mishaps \subseteq mishaps' /\ copies' = copies
  BY DEF Accept, Unreachable, Lost, providerVars
<1>6. k.state \in {"connecting", "open"} => Lives(s)
  BY <1>1
<1>7. current' = current \/ (current = s /\ ~ Lives(s))
  BY <1>5
<1> QED
  BY <1>2, <1>4, <1>5, <1>6, <1>7, SocketGoes

LEMMA ClosedOnceKeeps ==
    ASSUME RealtimeInv, NEW s \in Sockets, ClosedOnce(s)
    PROVE  RealtimeInv'
<1>1. /\ RealtimeTypeOK /\ AliveIsCurrent /\ socket[s] \in SocketState
      /\ socket[s].state = "closing"
  BY SocketThere DEF RealtimeInv, ClosedOnce, Is
<1>2. PICK table \in [Sockets -> SocketState \cup {NoSocket}] :
         /\ table = Without(s) /\ table[s] = NoSocket
         /\ \A q \in Sockets : q # s => table[q] = socket[q]
  BY <1>1, TableWithout
<1>3. PICK access \in 1 .. MaxAccessTokens : access = socket[s].token
  BY <1>1 DEF SocketState
<1>4. Opening(table, "close", access)
  BY <1>2, <1>3 DEF ClosedOnce
<1>5. /\ socket' \in [Sockets -> SocketState \cup {NoSocket}]
      /\ current' \in Sockets
      /\ \A q \in Sockets : q # current' => socket'[q] = table[q]
  BY <1>2, <1>4, Opened
<1>6. /\ UNCHANGED <<mounted, url, timer, manual, tokenState, apiVars, copies, mounts, interruptions>>
      /\ mishaps' = mishaps \cup (IF ~ mounted \/ current # s THEN {"strayed"} ELSE {})
  BY DEF ClosedOnce
<1>7. RealtimeTypeOK'
  BY <1>1, <1>5, <1>6 DEF RealtimeTypeOK, tokenState, apiVars, Mishaps
<1>8. AliveIsCurrent'
  <2> SUFFICES ASSUME "strayed" \notin mishaps' PROVE Alive' \subseteq {current'} /\ copies' <= 1
    BY DEF AliveIsCurrent
  <2>1. current = s /\ "strayed" \notin mishaps
    BY <1>6
  <2>2. Alive \subseteq {s} /\ copies <= 1
    BY <1>1, <2>1 DEF AliveIsCurrent
  <2>3. \A q \in Sockets : socket[q].state \notin {"connecting", "open"}
    BY <1>1, <2>2 DEF Alive, Is
  <2>4. \A q \in Sockets : table[q].state \notin {"connecting", "open"}
    BY <1>2, <2>3, SocketRows
  <2> QED
    BY <1>5, <1>6, <2>2, <2>4 DEF Alive, Is
<1> QED
  BY <1>7, <1>8 DEF RealtimeInv

LEMMA ClosedAgainKeeps ==
    ASSUME RealtimeInv, NEW s \in Sockets, ClosedAgain(s)
    PROVE  RealtimeInv'
<1>1. /\ RealtimeTypeOK /\ socket[s] \in SocketState
      /\ socket[s].state = "closing"
  BY SocketThere DEF RealtimeInv, ClosedAgain, Is
<1>2. PICK k \in SocketState \cup {NoSocket} :
         /\ socket' = [socket EXCEPT ![s] = k]
         /\ k.state \notin {"connecting", "open"}
  <2>1. CASE socket' = Without(s)
    BY <2>1, SocketRows DEF Without
  <2>2. CASE socket' = [socket EXCEPT ![s].state = "refreshing"]
    <3>1. PICK k \in SocketState : k = [socket[s] EXCEPT !.state = "refreshing"]
      BY <1>1, SocketRows
    <3>2. k.state = "refreshing"
      BY <1>1, <3>1 DEF SocketState
    <3> QED
      BY <2>2, <3>1, <3>2
  <2> QED
    BY <2>1, <2>2 DEF ClosedAgain
<1>3. socket' \in [Sockets -> SocketState \cup {NoSocket}]
  BY <1>1, <1>2, SocketMoves
<1>4. /\ current' = IF current = s THEN 0 ELSE current
      /\ UNCHANGED <<mounted, url, manual, accessToken, expiredUpTo, apiVars, copies,
                     mounts, interruptions>>
  BY DEF ClosedAgain
<1>5. /\ timer' \in BOOLEAN /\ refreshing' \in BOOLEAN /\ signingOut' \in BOOLEAN
      /\ mishaps \subseteq mishaps' /\ mishaps' \subseteq mishaps \cup {"gaveUp"}
  BY <1>1 DEF ClosedAgain, GiveUp, Reconnect, RealtimeTypeOK
<1>6. RealtimeTypeOK'
  BY <1>1, <1>3, <1>4, <1>5 DEF RealtimeTypeOK, apiVars, Mishaps
<1>7. current' = current \/ (current = s /\ ~ Lives(s))
  BY <1>1, <1>4 DEF Lives
<1> QED
  BY <1>2, <1>4, <1>5, <1>6, <1>7, SocketGoes

LEMMA IssueKeeps ==
    ASSUME RealtimeTypeOK, Issue PROVE accessToken' \in 0 .. MaxAccessTokens
  BY RealtimeAssumption DEF RealtimeTypeOK, Issue

LEMMA SocketRefreshedKeeps ==
    ASSUME RealtimeInv, NEW s \in Sockets, SocketRefreshed(s)
    PROVE  RealtimeInv'
<1>1. /\ RealtimeTypeOK /\ socket[s] \in SocketState
      /\ socket' = [socket EXCEPT ![s] = NoSocket]
  BY SocketThere DEF RealtimeInv, SocketRefreshed, Is, Without
<1>2. socket' \in [Sockets -> SocketState \cup {NoSocket}]
  BY <1>1, SocketMoves
<1>3. /\ timer' \in BOOLEAN /\ signingOut' \in BOOLEAN /\ accessToken' \in 0 .. MaxAccessTokens
      /\ mishaps \subseteq mishaps' /\ mishaps' \subseteq mishaps \cup {"gaveUp"}
  BY <1>1, IssueKeeps DEF SocketRefreshed, GiveUp, Reconnect, RealtimeTypeOK
<1>4. /\ refreshing' = FALSE
      /\ UNCHANGED <<mounted, url, manual, current, expiredUpTo, apiVars, copies,
                     mounts, interruptions>>
  BY DEF SocketRefreshed
<1>5. RealtimeTypeOK'
  BY <1>1, <1>2, <1>3, <1>4 DEF RealtimeTypeOK, apiVars, Mishaps
<1>6. PICK k \in SocketState \cup {NoSocket} : k = NoSocket
  OBVIOUS
<1>7. socket' = [socket EXCEPT ![s] = k]
  BY <1>1, <1>6
<1>8. k.state \in {"connecting", "open"} => Lives(s)
  BY <1>6, SocketRows
<1>9. (current' = current \/ (current = s /\ ~ Lives(s))) /\ copies' = copies
  BY <1>4
<1> QED
  BY <1>3, <1>5, <1>7, <1>8, <1>9, SocketGoes

LEMMA SendToUserKeeps == ASSUME RealtimeInv, SendToUser PROVE RealtimeInv'
<1> DEFINE sent == {s \in connections : Is(s, "open")}
<1>1. RealtimeTypeOK /\ AliveIsCurrent
  BY DEF RealtimeInv
<1>2. sent \subseteq Alive /\ sent \subseteq Sockets
  BY <1>1 DEF RealtimeTypeOK, Alive
<1>3. IsFiniteSet(Sockets) /\ Cardinality(Sockets) = MaxSockets
  BY RealtimeAssumption, FS_Interval DEF Sockets
<1>4. Cardinality(sent) \in 0 .. MaxSockets
  BY <1>2, <1>3, FS_Subset, FS_CardinalityType, RealtimeAssumption
<1>5. "strayed" \notin mishaps => Cardinality(sent) <= 1
  <2> SUFFICES ASSUME "strayed" \notin mishaps PROVE Cardinality(sent) <= 1
    OBVIOUS
  <2>1. sent \subseteq {current}
    BY <1>1, <1>2 DEF AliveIsCurrent
  <2>2. IsFiniteSet({current}) /\ Cardinality({current}) = 1
    BY FS_Singleton
  <2> QED
    BY <2>1, <2>2, FS_Subset
<1>6. copies' = Cardinality(sent)
      /\ UNCHANGED <<providerVars, tokenState, socket, apiVars, mounts, interruptions, mishaps>>
  BY DEF SendToUser
<1> HIDE DEF sent
<1>7. RealtimeTypeOK'
  BY <1>1, <1>4, <1>6 DEF RealtimeTypeOK, providerVars, tokenState, apiVars
<1>8. AliveIsCurrent'
  BY <1>1, <1>5, <1>6 DEF AliveIsCurrent, Alive, Is, providerVars
<1> QED
  BY <1>7, <1>8 DEF RealtimeInv

LEMMA ApiStopsKeeps == ASSUME RealtimeInv, ApiStops PROVE RealtimeInv'
<1>1. RealtimeTypeOK /\ AliveIsCurrent
  BY DEF RealtimeInv
<1>2. /\ up' = FALSE /\ connections' = {}
      /\ UNCHANGED <<mounted, url, timer, manual, current, refreshing, signingOut, accessToken,
                     expiredUpTo, copies, mounts, mishaps>>
  BY DEF ApiStops, providerVars, tokenState
<1>0. interruptions' \in 0 .. MaxInterruptions
  <2>1. interruptions < MaxInterruptions /\ interruptions' = interruptions + 1
    BY DEF ApiStops
  <2> QED
    BY <1>1, <2>1, RealtimeAssumption DEF RealtimeTypeOK
<1>3. ASSUME NEW s \in Sockets
      PROVE  socket'[s] \in SocketState \cup {NoSocket} /\ (Lives(s)' => Lives(s))
  <2>1. CASE Is(s, "open")
    <3>1. socket[s] \in SocketState
      BY <1>1, <2>1, SocketThere DEF Is
    <3>2. PICK k \in SocketState : k = [socket[s] EXCEPT !.state = "closing", !.code = "unauthorized"]
      BY <3>1, SocketRows
    <3>3. socket'[s] = k
      BY <2>1, <3>2 DEF ApiStops
    <3> QED
      BY <2>1, <3>3 DEF Lives, Is
  <2>2. CASE ~ Is(s, "open")
    <3>1. socket'[s] = socket[s]
      BY <2>2 DEF ApiStops
    <3> QED
      BY <1>1, <3>1 DEF Lives, RealtimeTypeOK
  <2> QED
    BY <2>1, <2>2
<1>4. socket' \in [Sockets -> SocketState \cup {NoSocket}]
  BY <1>3 DEF ApiStops
<1>5. RealtimeTypeOK'
  BY <1>0, <1>1, <1>2, <1>4 DEF RealtimeTypeOK
<1>6. AliveIsCurrent'
  BY <1>1, <1>2, <1>3, FewerAlive
<1> QED
  BY <1>5, <1>6 DEF RealtimeInv

\* Steps that move no socket.
LEMMA RestKeeps ==
    ASSUME RealtimeInv,
           \/ SignedOut \/ AccessTokenExpires \/ RefreshedByCall \/ ApiStarts
           \/ \E s \in Sockets : Remove(s)
           \/ UNCHANGED realtimeVars
    PROVE  RealtimeInv'
<1>1. RealtimeTypeOK /\ AliveIsCurrent
  BY DEF RealtimeInv
<1>2. UNCHANGED <<providerVars, refreshing, socket, copies, mounts, interruptions, mishaps>>
  BY DEF SignedOut, AccessTokenExpires, RefreshedByCall, ApiStarts, Remove, tokenState, apiVars,
         realtimeVars
<1> DEFINE Typed == /\ up' \in BOOLEAN /\ connections' \subseteq Sockets
                    /\ signingOut' \in BOOLEAN /\ accessToken' \in 0 .. MaxAccessTokens
                    /\ expiredUpTo' \in 0 .. MaxAccessTokens
<1>3. Typed
  <2>1. CASE RefreshedByCall
    BY <1>1, <2>1, IssueKeeps DEF RefreshedByCall, apiVars, RealtimeTypeOK
  <2>2. CASE SignedOut
    <3>1. signingOut' = FALSE /\ accessToken' = 0 /\ UNCHANGED <<expiredUpTo, up, connections>>
      BY <2>2 DEF SignedOut, apiVars
    <3>2. 0 \in 0 .. MaxAccessTokens
      BY RealtimeAssumption
    <3> QED
      BY <1>1, <3>1, <3>2 DEF RealtimeTypeOK
  <2>3. CASE AccessTokenExpires
    BY <1>1, <2>3 DEF AccessTokenExpires, apiVars, RealtimeTypeOK
  <2>4. CASE ApiStarts
    BY <1>1, <2>4 DEF ApiStarts, tokenState, RealtimeTypeOK
  <2>5. ASSUME NEW s \in Sockets, Remove(s) PROVE Typed
    <3>1. /\ connections' = connections \ {s} /\ up' = up
          /\ UNCHANGED <<signingOut, accessToken, expiredUpTo>>
      BY <2>5 DEF Remove, tokenState
    <3> QED
      BY <1>1, <3>1 DEF RealtimeTypeOK
  <2>6. CASE UNCHANGED realtimeVars
    BY <1>1, <2>6 DEF realtimeVars, tokenState, apiVars, RealtimeTypeOK
  <2> QED
    BY <2>1, <2>2, <2>3, <2>4, <2>5, <2>6
<1>4. RealtimeTypeOK'
  BY <1>1, <1>2, <1>3 DEF RealtimeTypeOK, providerVars
<1>5. AliveIsCurrent'
  BY <1>1, <1>2 DEF AliveIsCurrent, Alive, Is, providerVars
<1> QED
  BY <1>4, <1>5 DEF RealtimeInv

-----------------------------------------------------------------------------
(* The socket: the theorems                                                *)

LEMMA RealtimeInvInit == RealtimeInit => RealtimeInv
<1> SUFFICES ASSUME RealtimeInit PROVE RealtimeInv
  OBVIOUS
<1>1. RealtimeTypeOK
  <2>1. socket \in [Sockets -> SocketState \cup {NoSocket}]
    BY DEF RealtimeInit
  <2>2. accessToken \in 0 .. MaxAccessTokens /\ expiredUpTo \in 0 .. MaxAccessTokens
        /\ mounts \in 0 .. MaxMounts /\ interruptions \in 0 .. MaxInterruptions
        /\ copies \in 0 .. MaxSockets
    BY RealtimeAssumption DEF RealtimeInit
  <2> QED
    BY <2>1, <2>2 DEF RealtimeInit, RealtimeTypeOK
<1>2. AliveIsCurrent
  <2>1. Alive = {} /\ copies = 0
    BY SocketRows DEF RealtimeInit, Alive, Is
  <2> QED
    BY <2>1 DEF AliveIsCurrent
<1> QED
  BY <1>1, <1>2 DEF RealtimeInv

LEMMA RealtimeInvStep == RealtimeInv /\ [RealtimeNext]_realtimeVars => RealtimeInv'
<1> SUFFICES ASSUME RealtimeInv, [RealtimeNext]_realtimeVars PROVE RealtimeInv'
  OBVIOUS
<1>1. ASSUME NEW s \in Sockets, Goes(s) PROVE RealtimeInv'
  BY <1>1, AcceptKeeps, ClosedOnceKeeps, ClosedAgainKeeps, SocketRefreshedKeeps DEF Goes
<1> QED
  BY <1>1, MountKeeps, DisconnectKeeps, TimerFiresKeeps, AcceptKeeps, SendToUserKeeps,
     ApiStopsKeeps, RestKeeps DEF RealtimeNext

\* What WebSocketProvider and WebSocketManager keep is of its type, and a socket
\* that is alive is the one the client knows until a close has strayed.
THEOREM RealtimeInvariant == RealtimeSpec => []RealtimeInv
  BY RealtimeInvInit, RealtimeInvStep, PTL DEF RealtimeSpec

\* A tab has one socket, and is sent a message once, until a close is handled after
\* the provider has left the page.
THEOREM SocketsAreSingle == RealtimeSpec => []OneSocket
<1>1. RealtimeInv => OneSocket
  <2> SUFFICES ASSUME RealtimeInv, "strayed" \notin mishaps
               PROVE  Cardinality(Alive) <= 1 /\ copies <= 1
    BY DEF OneSocket
  <2>1. Alive \subseteq {current} /\ copies <= 1
    BY DEF RealtimeInv, AliveIsCurrent
  <2>2. IsFiniteSet({current}) /\ Cardinality({current}) = 1
    BY FS_Singleton
  <2> QED
    BY <2>1, <2>2, FS_Subset
<1> QED
  BY <1>1, RealtimeInvariant, PTL
-----------------------------------------------------------------------------
(* The socket: what brings it back                                         *)

\* A socket on its way: it is being opened, or its handlers of onclose are to run.
OnItsWay == \E s \in Sockets : socket[s].state \in {"connecting", "closing", "refreshing"}

\* A tab of the dashboard is never left with nothing under way: it is connected, or
\* a socket is on its way, or the timer is set that will make one, and there is a
\* token to make it with; up to the mishaps of the property SocketComesBack.
NeverStranded ==
    mounted /\ mishaps = {} =>
        /\ accessToken # 0
        /\ Connected \/ timer \/ OnItsWay

\* What the provider keeps between its steps.
ProviderKeeps ==
    /\ signingOut => "gaveUp" \in mishaps
    /\ mounted /\ mishaps = {} => url /\ ~ manual
    /\ ~ mounted => ~ url /\ ~ timer
    /\ ~ mounted /\ "strayed" \notin mishaps => current \notin Alive
    /\ \A s \in Sockets : Is(s, "open") => s \in connections

StrandInv == RealtimeInv /\ ProviderKeeps /\ NeverStranded

LEMMA ConnectOpens ==
    ASSUME StrandInv, Connect, UNCHANGED connections
    PROVE  /\ \A s \in Sockets : Is(s, "open")' => s \in connections'
           /\ current \in Alive => UNCHANGED <<url, manual, socket, current>>
           /\ current \notin Alive => url' /\ ~ manual'
           /\ current \notin Alive /\ accessToken # 0 => OnItsWay'
<1>1. /\ RealtimeTypeOK
      /\ \A s \in Sockets : Is(s, "open") => s \in connections
  BY DEF StrandInv, RealtimeInv, ProviderKeeps
<1>2. CASE UNCHANGED <<socket, current>> /\ (current \in Alive \/ accessToken = 0)
  BY <1>1, <1>2 DEF Connect, Is
<1>3. CASE /\ current \notin Alive /\ accessToken # 0
           /\ Free # {} /\ Opening(socket, "connect", accessToken)
  <2>1. \E s \in Sockets : socket[s] = NoSocket
    BY <1>3 DEF Free
  <2>2. accessToken \in 1 .. MaxAccessTokens
    BY <1>1, <1>3, RealtimeAssumption DEF RealtimeTypeOK
  <2>3. /\ current' \in Sockets
        /\ socket'[current'].state = "connecting"
        /\ \A q \in Sockets : q # current' => socket'[q] = socket[q]
    BY <1>1, <1>3, <2>1, <2>2, Opened DEF RealtimeTypeOK
  <2>4. \A s \in Sockets : Is(s, "open")' => s \in connections'
    BY <1>1, <2>3 DEF Is
  <2>5. OnItsWay'
    BY <2>3 DEF OnItsWay
  <2> QED
    BY <1>3, <2>4, <2>5 DEF Connect
<1> QED
  BY <1>2, <1>3 DEF Connect

LEMMA MountCares == ASSUME StrandInv, Mount PROVE ProviderKeeps' /\ NeverStranded'
<1>1. /\ ~ mounted /\ mounted' /\ Connect
      /\ mishaps' = mishaps \cup (IF accessToken = 0 THEN {"tokenless"} ELSE {})
      /\ UNCHANGED <<timer, signingOut, accessToken, connections>>
  BY DEF Mount, tokenState, apiVars
<1>2. mishaps' = {} => current \notin Alive /\ accessToken # 0
  BY <1>1 DEF StrandInv, ProviderKeeps
<1>3. ProviderKeeps'
  BY <1>1, <1>2, ConnectOpens DEF StrandInv, ProviderKeeps
<1>4. NeverStranded'
  BY <1>1, <1>2, ConnectOpens DEF NeverStranded
<1> QED
  BY <1>3, <1>4

\* this.socket, when it is alive, is being opened or is known to the API.
LEMMA AliveCares ==
    ASSUME StrandInv, current \in Alive PROVE Connected \/ OnItsWay
<1>1. current \in Sockets /\ (Is(current, "open") => current \in connections)
  BY DEF StrandInv, ProviderKeeps, Alive
<1> QED
  BY <1>1 DEF Connected, OnItsWay, Alive, Is

LEMMA TimerCares == ASSUME StrandInv, TimerFires PROVE ProviderKeeps' /\ NeverStranded'
<1>1. /\ timer /\ ~ timer' /\ Connect
      /\ UNCHANGED <<mounted, signingOut, accessToken, connections, mishaps>>
  BY DEF TimerFires, tokenState, apiVars
<1>2. mounted
  BY <1>1 DEF StrandInv, ProviderKeeps
<1>3. ProviderKeeps'
  BY <1>1, <1>2, ConnectOpens DEF StrandInv, ProviderKeeps
<1>4. NeverStranded'
  <2>1. CASE current \in Alive
    <3>1. UNCHANGED <<socket, current>>
      BY <1>1, <2>1, ConnectOpens
    <3>2. Connected' \/ OnItsWay'
      BY <1>1, <2>1, <3>1, AliveCares DEF Connected, OnItsWay, Is
    <3> QED
      BY <1>1, <3>2 DEF StrandInv, NeverStranded
  <2>2. CASE current \notin Alive
    BY <1>1, <2>2, ConnectOpens DEF StrandInv, NeverStranded
  <2> QED
    BY <2>1, <2>2
<1> QED
  BY <1>3, <1>4

LEMMA DisconnectCares == ASSUME StrandInv, Disconnect PROVE ProviderKeeps' /\ NeverStranded'
<1>1. /\ ~ mounted' /\ manual' /\ ~ url' /\ ~ timer' /\ current' = 0
      /\ UNCHANGED <<signingOut, connections, mishaps>>
  BY DEF Disconnect, tokenState, apiVars
<1>2. ASSUME NEW s \in Sockets, Is(s, "open")' PROVE s \in connections'
  <2>1. Is(s, "open")
    BY <1>2 DEF Disconnect, Is, StrandInv, RealtimeInv, RealtimeTypeOK, SocketState, NoSocket
  <2> QED
    BY <1>1, <2>1 DEF StrandInv, ProviderKeeps
<1>3. 0 \notin Sockets
  BY RealtimeAssumption DEF Sockets
<1>4. ProviderKeeps'
  BY <1>1, <1>2, <1>3 DEF StrandInv, ProviderKeeps, Alive
<1>5. NeverStranded'
  BY <1>1 DEF NeverStranded
<1> QED
  BY <1>4, <1>5

\* A connection is made or ends: the socket that is open is the one this.socket is.
LEMMA ConnectionCares ==
    ASSUME StrandInv, NEW s \in Sockets, Accept(s) \/ Unreachable(s) \/ Lost(s)
    PROVE  ProviderKeeps' /\ NeverStranded'
<1>1. /\ RealtimeTypeOK /\ AliveIsCurrent /\ Lives(s) /\ socket[s] \in SocketState
      /\ UNCHANGED <<mounted, url, timer, manual, current, signingOut, accessToken, mishaps>>
  BY SocketThere DEF StrandInv, RealtimeInv, Accept, Unreachable, Lost, Is, Lives, providerVars,
                     tokenState
<1>2. /\ \A q \in Sockets : q # s => socket'[q] = socket[q]
      /\ \/ socket'[s].state = "open" /\ connections' = connections \cup {s}
         \/ socket'[s].state = "closing" /\ connections' = connections
  <2>1. CASE socket' = [socket EXCEPT ![s].state = "open"] /\ connections' = connections \cup {s}
    BY <1>1, <2>1 DEF RealtimeTypeOK, SocketState
  <2>2. CASE /\ socket' = [socket EXCEPT ![s].state = "closing", ![s].code = "unauthorized"]
             /\ connections' = connections
    BY <1>1, <2>2 DEF RealtimeTypeOK, SocketState
  <2> QED
    BY <2>1, <2>2 DEF Accept, Unreachable, Lost, apiVars
<1>3. \A q \in Alive' : q \in Alive
  BY <1>1, <1>2, AliveLives DEF Alive, Is
<1>4. ProviderKeeps'
  BY <1>1, <1>2, <1>3 DEF StrandInv, ProviderKeeps, Is
<1>5. NeverStranded'
  <2> SUFFICES ASSUME mounted, mishaps = {} PROVE Connected' \/ timer' \/ OnItsWay'
    BY <1>1 DEF StrandInv, NeverStranded
  <2>1. s = current
    BY <1>1, AliveLives DEF AliveIsCurrent
  <2> QED
    BY <1>1, <1>2, <2>1 DEF Connected, OnItsWay, Is
<1> QED
  BY <1>4, <1>5

LEMMA ApiStopCares == ASSUME StrandInv, ApiStops PROVE ProviderKeeps' /\ NeverStranded'
<1>1. /\ UNCHANGED <<mounted, url, timer, manual, current, signingOut, accessToken, mishaps>>
      /\ RealtimeTypeOK
  BY DEF StrandInv, RealtimeInv, ApiStops, providerVars, tokenState
<1>2. ASSUME NEW s \in Sockets
      PROVE  socket'[s].state = IF Is(s, "open") THEN "closing" ELSE socket[s].state
  <2>1. CASE Is(s, "open")
    <3>1. socket[s] \in SocketState
      BY <1>1, <2>1, SocketThere DEF Is
    <3>2. socket'[s] = [socket[s] EXCEPT !.state = "closing", !.code = "unauthorized"]
      BY <2>1 DEF ApiStops
    <3> QED
      BY <2>1, <3>1, <3>2 DEF SocketState
  <2>2. CASE ~ Is(s, "open")
    BY <2>2 DEF ApiStops
  <2> QED
    BY <2>1, <2>2
<1>3. ProviderKeeps'
  BY <1>1, <1>2 DEF StrandInv, ProviderKeeps, Alive, Is
<1>4. Connected \/ OnItsWay => OnItsWay'
  BY <1>1, <1>2 DEF Connected, OnItsWay, Is, RealtimeTypeOK
<1>5. NeverStranded'
  BY <1>1, <1>4 DEF StrandInv, NeverStranded
<1> QED
  BY <1>3, <1>5

LEMMA ClosedOnceCares ==
    ASSUME StrandInv, NEW s \in Sockets, ClosedOnce(s)
    PROVE  ProviderKeeps' /\ NeverStranded'
<1>1. /\ RealtimeTypeOK /\ socket[s] \in SocketState /\ socket[s].state = "closing"
      /\ UNCHANGED <<mounted, url, timer, manual, signingOut, accessToken, connections>>
      /\ mishaps' = mishaps \cup (IF ~ mounted \/ current # s THEN {"strayed"} ELSE {})
  BY SocketThere DEF StrandInv, RealtimeInv, ClosedOnce, Is, tokenState, apiVars
<1>2. PICK table \in [Sockets -> SocketState \cup {NoSocket}] :
         /\ table = Without(s) /\ table[s] = NoSocket
         /\ \A q \in Sockets : q # s => table[q] = socket[q]
  BY <1>1, TableWithout
<1>3. PICK access \in 1 .. MaxAccessTokens : access = socket[s].token
  BY <1>1 DEF SocketState
<1>4. /\ current' \in Sockets
      /\ socket'[current'].state = "connecting"
      /\ \A q \in Sockets : q # current' => socket'[q] = table[q]
  BY <1>2, <1>3, Opened DEF ClosedOnce
<1>5. \A q \in Sockets : Is(q, "open")' => Is(q, "open")
  BY <1>2, <1>4, SocketRows DEF Is
<1>6. ProviderKeeps'
  BY <1>1, <1>5 DEF StrandInv, ProviderKeeps
<1>7. OnItsWay'
  BY <1>4 DEF OnItsWay
<1>8. NeverStranded'
  BY <1>1, <1>7 DEF StrandInv, NeverStranded
<1> QED
  BY <1>6, <1>8

\* The second handler and the refresh: one socket ends or refreshes, none comes to life.
LEMMA EndCares ==
    ASSUME StrandInv, NEW s \in Sockets, ClosedAgain(s) \/ SocketRefreshed(s)
    PROVE  ProviderKeeps' /\ NeverStranded'
<1>1. /\ RealtimeTypeOK /\ socket[s] \in SocketState /\ ~ Lives(s)
      /\ UNCHANGED <<mounted, url, manual, connections>>
      /\ current' \in {0, current}
  BY SocketThere DEF StrandInv, RealtimeInv, ClosedAgain, SocketRefreshed, Is, Lives, apiVars
<1>2. /\ \A q \in Sockets : q # s => socket'[q] = socket[q]
      /\ socket'[s].state \notin {"connecting", "open"}
      /\ socket' # Without(s) => socket'[s].state = "refreshing"
  <2>1. CASE socket' = Without(s)
    BY <1>1, <2>1, SocketRows DEF Without, RealtimeTypeOK
  <2>2. CASE socket' = [socket EXCEPT ![s].state = "refreshing"]
    BY <1>1, <2>2 DEF RealtimeTypeOK, SocketState
  <2> QED
    BY <2>1, <2>2 DEF ClosedAgain, SocketRefreshed
<1>3. /\ mishaps \subseteq mishaps'
      /\ signingOut' => signingOut \/ "gaveUp" \in mishaps'
      /\ timer' => timer \/ url
  BY <1>1 DEF ClosedAgain, SocketRefreshed, GiveUp, Reconnect, RealtimeTypeOK
<1>4. ASSUME current' \in Alive' PROVE current \in Alive
  <2>1. current' = current
    BY <1>1, <1>4, RealtimeAssumption DEF Alive, Sockets
  <2> QED
    BY <1>2, <1>4, <2>1 DEF Alive, Is
<1>5. ProviderKeeps'
  BY <1>1, <1>2, <1>3, <1>4 DEF StrandInv, ProviderKeeps, Is
<1>6. NeverStranded'
  <2> SUFFICES ASSUME mounted, mishaps' = {}
               PROVE  accessToken' # 0 /\ (timer' \/ OnItsWay')
    BY <1>1 DEF NeverStranded
  <2>1. mishaps = {} /\ url /\ ~ manual /\ accessToken # 0
    BY <1>3 DEF StrandInv, ProviderKeeps, NeverStranded
  <2>2. CASE ClosedAgain(s)
    <3>1. timer' \/ socket'[s].state = "refreshing"
      <4>1. CASE socket[s].code = "other" /\ Reconnect
        BY <2>1, <4>1 DEF Reconnect
      <4>2. CASE ~ refreshing /\ socket' = [socket EXCEPT ![s].state = "refreshing"]
        BY <1>1, <4>2 DEF RealtimeTypeOK, SocketState
      <4>3. ~ GiveUp
        BY DEF GiveUp
      <4> QED
        BY <2>1, <2>2, <4>1, <4>2, <4>3 DEF ClosedAgain
    <3> QED
      BY <2>1, <2>2, <3>1 DEF ClosedAgain, OnItsWay
  <2>3. CASE SocketRefreshed(s)
    <3>1. Issue /\ Reconnect
      BY <2>3 DEF SocketRefreshed, GiveUp
    <3>2. accessToken' # 0
      BY <1>1, <3>1, RealtimeAssumption DEF Issue, RealtimeTypeOK
    <3> QED
      BY <2>1, <3>1, <3>2 DEF Reconnect
  <2> QED
    BY <2>2, <2>3
<1> QED
  BY <1>5, <1>6

\* Steps that move no socket.
LEMMA RestCares ==
    ASSUME StrandInv,
           \/ SignedOut \/ AccessTokenExpires \/ RefreshedByCall \/ ApiStarts \/ SendToUser
           \/ \E s \in Sockets : Remove(s)
           \/ UNCHANGED realtimeVars
    PROVE  ProviderKeeps' /\ NeverStranded'
<1>1. UNCHANGED <<mounted, url, timer, manual, current, socket, mishaps>> /\ RealtimeTypeOK
  BY DEF StrandInv, RealtimeInv, SignedOut, AccessTokenExpires, RefreshedByCall, ApiStarts,
         SendToUser, Remove, providerVars, realtimeVars
<1>2. \A s \in Sockets : Is(s, "open") /\ s \in connections => s \in connections'
  BY DEF SignedOut, AccessTokenExpires, RefreshedByCall, ApiStarts, SendToUser, Remove, apiVars,
         realtimeVars
<1>3. signingOut' => signingOut
  BY DEF SignedOut, AccessTokenExpires, RefreshedByCall, ApiStarts, SendToUser, Remove, tokenState,
         realtimeVars
<1>4. accessToken # 0 => accessToken' # 0 \/ signingOut
  <2>1. CASE RefreshedByCall
    BY <1>1, <2>1, RealtimeAssumption DEF RefreshedByCall, Issue, RealtimeTypeOK
  <2>2. CASE ~ RefreshedByCall
    BY <2>2 DEF SignedOut, AccessTokenExpires, ApiStarts, SendToUser, Remove, tokenState,
                realtimeVars
  <2> QED
    BY <2>1, <2>2
<1>5. ProviderKeeps'
  BY <1>1, <1>2, <1>3 DEF StrandInv, ProviderKeeps, Alive, Is
<1>6. Connected => Connected'
  BY <1>1, <1>2 DEF Connected, Is, RealtimeTypeOK
<1>7. NeverStranded'
  BY <1>1, <1>4, <1>6 DEF StrandInv, ProviderKeeps, NeverStranded, OnItsWay
<1> QED
  BY <1>5, <1>7

LEMMA StrandInvInit == RealtimeInit => StrandInv
<1> SUFFICES ASSUME RealtimeInit PROVE StrandInv
  OBVIOUS
<1>1. Alive = {} /\ \A s \in Sockets : ~ Is(s, "open")
  BY SocketRows DEF RealtimeInit, Alive, Is
<1> QED
  BY <1>1, RealtimeInvInit DEF RealtimeInit, StrandInv, ProviderKeeps, NeverStranded

LEMMA StrandInvStep == StrandInv /\ [RealtimeNext]_realtimeVars => StrandInv'
<1> SUFFICES ASSUME StrandInv, [RealtimeNext]_realtimeVars PROVE StrandInv'
  OBVIOUS
<1>1. RealtimeInv'
  BY RealtimeInvStep DEF StrandInv
<1>2. ASSUME NEW s \in Sockets, Goes(s) PROVE ProviderKeeps' /\ NeverStranded'
  BY <1>2, ConnectionCares, ClosedOnceCares, EndCares DEF Goes
<1>3. ProviderKeeps' /\ NeverStranded'
  BY <1>2, MountCares, DisconnectCares, TimerCares, ConnectionCares, ApiStopCares, RestCares
     DEF RealtimeNext
<1> QED
  BY <1>1, <1>3 DEF StrandInv

\* However closes, refreshes, timers and restarts of the API follow each other, a tab
\* of the dashboard is connected or has something under way that connects it again,
\* and a token to do it with, until one of the mishaps.
THEOREM SocketIsNeverStranded == RealtimeSpec => []NeverStranded
<1>1. StrandInv => NeverStranded
  BY DEF StrandInv
<1> QED
  BY <1>1, StrandInvInit, StrandInvStep, PTL DEF RealtimeSpec

-----------------------------------------------------------------------------
(* The tabs of the browser: the invariant                                  *)

\* What a tab waits for fits together: a refresh, and the sign-out after one that was
\* refused, are made for something and no other call is; the rows a call was sent with
\* and is answered with were issued; an answer that sets the cookie names its row.
Fits(s) ==
    /\ s.for # "none" <=> s.op \in {"refresh", "giveUp"}
    /\ s.sent # 0 => row[s.sent] # "none"
    /\ s.got # 0 => row[s.got] # "none"
    /\ s.phase = "ok" /\ s.op \in {"login", "verify", "refresh"} => s.got # 0

TabsInv == TabTypeOK /\ \A t \in Tabs : Fits(tab[t])

-----------------------------------------------------------------------------
(* The tabs of the browser: records, rows and messages                     *)

Ops == {"login", "verify", "refresh", "exchange", "logout", "giveUp"}

LEMMA OpsCall == DOMAIN Controller = Ops
  BY DEF Controller, Ops

LEMMA TabOf ==
    ASSUME TabsInv, NEW t \in Tabs
    PROVE  /\ tab[t] \in Tab /\ Fits(tab[t])
           /\ tab[t].page \in Pages /\ tab[t].nav \in Pages \cup {"none"}
           /\ tab[t].due \in BOOLEAN /\ tab[t].op \in Ops \cup {"none"}
           /\ tab[t].phase \in Phases /\ tab[t].for \in Reasons
           /\ tab[t].sent \in 0 .. MaxRows /\ tab[t].got \in 0 .. MaxRows
           /\ tab[t].phase \in {"idle", "retry"} <=> tab[t].op = "none"
  BY OpsCall DEF TabsInv, TabTypeOK, Tab

LEMMA EndedTab ==
    ASSUME NEW s \in Tab
    PROVE  /\ Ended(s) \in Tab
           /\ Ended(s).page = s.page /\ Ended(s).nav = s.nav /\ Ended(s).due = s.due
           /\ Ended(s).op = "none" /\ Ended(s).phase = "idle"
           /\ Ended(s).sent = 0 /\ Ended(s).got = 0 /\ Ended(s).for = "none"
<1>1. 0 \in 0 .. MaxRows
  BY TabsAssumption
<1> QED
  BY <1>1 DEF Ended, Tab, Phases, Reasons

LEMMA CallingTab ==
    ASSUME TabsInv, NEW s \in Tab, NEW op \in Ops, NEW for \in Reasons
    PROVE  /\ Calling(s, op, for) \in Tab
           /\ Calling(s, op, for).page = s.page
           /\ Calling(s, op, for).nav = s.nav
           /\ Calling(s, op, for).due = s.due
           /\ Calling(s, op, for).op = op
           /\ Calling(s, op, for).phase = "sent"
           /\ Calling(s, op, for).sent = cookie
           /\ Calling(s, op, for).got = 0
           /\ Calling(s, op, for).for = for
<1>1. cookie \in 0 .. MaxRows /\ 0 \in 0 .. MaxRows /\ op \in DOMAIN Controller \cup {"none"}
  BY TabsAssumption, OpsCall DEF TabsInv, TabTypeOK
<1> QED
  BY <1>1 DEF Calling, Tab, Phases

LEMMA ReplaceTab ==
    ASSUME NEW s \in Tab, NEW page \in Pages
    PROVE  /\ Replace(s, page) \in Tab
           /\ Replace(s, page).nav = page
           /\ Replace(s, page).page = s.page /\ Replace(s, page).due = s.due
           /\ Replace(s, page).op = s.op /\ Replace(s, page).phase = s.phase
           /\ Replace(s, page).sent = s.sent /\ Replace(s, page).got = s.got
           /\ Replace(s, page).for = s.for
  BY DEF Replace, Tab

LEMMA LoadedTab ==
    ASSUME NEW page \in Pages
    PROVE  /\ Loaded(page) \in Tab
           /\ Loaded(page).page = page /\ Loaded(page).nav = "none"
           /\ Loaded(page).due = (page = "dashboard")
           /\ Loaded(page).op = "none" /\ Loaded(page).phase = "idle"
           /\ Loaded(page).sent = 0 /\ Loaded(page).got = 0 /\ Loaded(page).for = "none"
<1>1. 0 \in 0 .. MaxRows
  BY TabsAssumption
<1> QED
  BY <1>1 DEF Loaded, Tab, Phases, Reasons

\* The middleware: with a cookie there is no page but the dashboard, and without one
\* there is no dashboard.
LEMMA MiddlewareSends ==
    ASSUME NEW page \in Pages
    PROVE  /\ Middleware(page) \in Pages
           /\ Middleware(page) = "dashboard" <=> cookie # 0
<1>1. "dashboard" \notin PublicRoutes /\ "login" \in PublicRoutes
  BY DEF PublicRoutes
<1> QED
  BY <1>1 DEF Middleware, Pages

LEMMA PublicPages ==
    /\ PublicRoutes \subseteq Pages /\ "dashboard" \in Pages /\ "login" \in Pages
    /\ "register/success" \in Pages /\ "forgot-password/success" \in Pages
    /\ "reset-password/success" \in Pages
    /\ "none" \notin Pages
    /\ \A page \in Pages : Link(page) \subseteq Pages
  BY DEF Pages, PublicRoutes, Link, LoginPage, RegisterPage, RegisterSuccessPage,
         ForgotPasswordPage, ForgotPasswordSuccessPage, ResetPasswordPage, ResetPasswordSuccessPage

\* No row is forgotten, and none that has ended comes to life.
RowsKeep ==
    /\ row' \in [Rows -> {"none", "live", "revoked", "gone"}]
    /\ \A r \in Rows : row[r] # "none" =>
          row'[r] # "none" /\ (row'[r] = "live" => row[r] = "live")

LEMMA RowsStay == ASSUME TabsInv, UNCHANGED row PROVE RowsKeep
  BY DEF TabsInv, TabTypeOK, RowsKeep

LEMMA RowIssued ==
    ASSUME TabsInv, Unused # {}
    PROVE  NextRow \in Rows /\ row[NextRow] = "none" /\ NextRow \in 0 .. MaxRows /\ NextRow # 0
<1>1. NextRow \in Unused
  BY DEF NextRow
<1> QED
  BY <1>1, TabsAssumption DEF Unused, Rows

LEMMA SessionsEnd ==
    ASSUME TabsInv, SessionsDeleted \/ SessionsRevoked
    PROVE  RowsKeep
<1>1. row \in [Rows -> {"none", "live", "revoked", "gone"}]
  BY DEF TabsInv, TabTypeOK
<1>2. CASE SessionsDeleted
  BY <1>1, <1>2 DEF SessionsDeleted, RowsKeep
<1>3. CASE SessionsRevoked
  BY <1>1, <1>3 DEF SessionsRevoked, RowsKeep
<1> QED
  BY <1>2, <1>3

LEMMA Heard ==
    ASSUME NEW s \in Seq(Messages), s # << >>
    PROVE  /\ Tail(s) \in Seq(Messages)
           /\ Head(s) \in Messages
           /\ \A m \in Messages :
                 (\E i \in DOMAIN s : s[i] = m) =>
                     Head(s) = m \/ \E i \in DOMAIN Tail(s) : Tail(s)[i] = m
<1>1. Tail(s) \in Seq(Messages) /\ Head(s) = s[1] /\ Head(s) \in Messages
      /\ Len(Tail(s)) = Len(s) - 1 /\ \A i \in 1 .. Len(s) - 1 : Tail(s)[i] = s[i + 1]
  OBVIOUS
<1>2. ASSUME NEW m \in Messages, NEW i \in DOMAIN s, s[i] = m, i # 1
      PROVE  \E k \in DOMAIN Tail(s) : Tail(s)[k] = m
  <2>1. i - 1 \in 1 .. Len(s) - 1 /\ s[(i - 1) + 1] = m
    BY <1>2
  <2>2. i - 1 \in DOMAIN Tail(s) /\ Tail(s)[i - 1] = m
    BY <1>1, <2>1
  <2> QED
    BY <2>2
<1> QED
  BY <1>1, <1>2

LEMMA Posted ==
    ASSUME NEW s \in Seq(Messages), NEW message \in Messages
    PROVE  /\ Append(s, message) \in Seq(Messages)
           /\ \A m \in Messages :
                 (\E i \in DOMAIN s : s[i] = m) =>
                     \E i \in DOMAIN Append(s, message) : Append(s, message)[i] = m
<1>1. /\ Append(s, message) \in Seq(Messages)
      /\ \A i \in DOMAIN s : i \in DOMAIN Append(s, message) /\ Append(s, message)[i] = s[i]
  OBVIOUS
<1> QED
  BY <1>1

-----------------------------------------------------------------------------
(* The tabs of the browser: what every action does                         *)

\* The step makes n of the tab t.
TabIs(t, n) ==
    /\ tab' = [tab EXCEPT ![t] = n]
    /\ n.phase \in {"idle", "retry"} <=> n.op = "none"
    /\ Fits(n)'

\* What the tabs share stays what it is.
BrowserMoves ==
    /\ RowsKeep
    /\ cookie' \in 0 .. MaxRows
    /\ cookie' # 0 => row'[cookie'] # "none"
    /\ token' \in {"none", "valid"}
    /\ inbox' \in [Tabs -> Seq(Messages)]
    /\ popup' \in BOOLEAN
    /\ opens' \in 0 .. MaxOpens /\ popups' \in 0 .. MaxPopups /\ ends' \in 0 .. MaxEnds

LEMMA BrowserStays ==
    ASSUME TabsInv, UNCHANGED <<shared, row, inbox, popup, counters>>
    PROVE  BrowserMoves
<1>1. RowsKeep
  BY RowsStay
<1> QED
  BY <1>1 DEF TabsInv, TabTypeOK, BrowserMoves, shared, counters

\* A sign-out from elsewhere, a reset or another session's end writes rows alone.
LEMMA RowsMoveAlone ==
    ASSUME TabsInv, RowsKeep, UNCHANGED <<shared, inbox, popup, counters>>
    PROVE  BrowserMoves
<1>1. cookie \in 0 .. MaxRows /\ (cookie # 0 => cookie \in Rows /\ row[cookie] # "none")
  BY TabsAssumption DEF TabsInv, TabTypeOK, Rows
<1> QED
  BY <1>1 DEF TabsInv, TabTypeOK, BrowserMoves, RowsKeep, shared, counters

LEMMA StillFits ==
    ASSUME TabsInv, RowsKeep, NEW s \in Tab, Fits(s)
    PROVE  Fits(s)'
<1>1. /\ s.sent \in 0 .. MaxRows /\ s.got \in 0 .. MaxRows
      /\ s.sent # 0 => s.sent \in Rows
      /\ s.got # 0 => s.got \in Rows
  BY TabsAssumption DEF Tab, Rows
<1> QED
  BY <1>1 DEF Fits, RowsKeep

LEMMA TabsGoOn ==
    ASSUME TabsInv, BrowserMoves,
           UNCHANGED tab \/ \E t \in Tabs, n \in Tab : TabIs(t, n)
    PROVE  TabsInv'
<1>1. \A t \in Tabs : /\ tab'[t] \in Tab /\ Fits(tab[t])'
                      /\ tab'[t].phase \in {"idle", "retry"} <=> tab'[t].op = "none"
  <2>1. ASSUME NEW t \in Tabs, tab'[t] = tab[t]
        PROVE  /\ tab'[t] \in Tab /\ Fits(tab[t])'
               /\ tab'[t].phase \in {"idle", "retry"} <=> tab'[t].op = "none"
    <3>1. PICK s \in Tab : s = tab[t] /\ Fits(s)
      BY TabOf
    <3>2. Fits(s)'
      BY <3>1, StillFits DEF BrowserMoves
    <3>3. Fits(tab[t])'
      BY <2>1, <3>1, <3>2 DEF Fits
    <3> QED
      BY <2>1, <3>3, TabOf
  <2>2. ASSUME NEW t \in Tabs, NEW n \in Tab, TabIs(t, n), NEW q \in Tabs
        PROVE  IF q = t THEN tab'[q] = n ELSE tab'[q] = tab[q]
    BY <2>2 DEF TabIs, TabsInv, TabTypeOK
  <2>3. ASSUME NEW t \in Tabs, NEW n \in Tab, TabIs(t, n)
        PROVE  /\ tab'[t] \in Tab /\ Fits(tab[t])'
               /\ tab'[t].phase \in {"idle", "retry"} <=> tab'[t].op = "none"
    <3>1. tab'[t] = n
      BY <2>2, <2>3
    <3>2. Fits(tab[t])'
      BY <2>3, <3>1 DEF TabIs, Fits
    <3> QED
      BY <2>3, <3>1, <3>2 DEF TabIs
  <2> QED
    BY <2>1, <2>2, <2>3
<1>2. tab' \in [Tabs -> Tab]
  <2>1. tab \in [Tabs -> Tab]
    BY DEF TabsInv, TabTypeOK
  <2>2. ASSUME NEW t \in Tabs, NEW n \in Tab, tab' = [tab EXCEPT ![t] = n]
        PROVE  tab' \in [Tabs -> Tab]
    BY <2>1, <2>2
  <2> QED
    BY <2>1, <2>2 DEF TabIs
<1>3. TabTypeOK'
  BY <1>1, <1>2 DEF TabTypeOK, BrowserMoves, RowsKeep
<1> QED
  BY <1>1, <1>3 DEF TabsInv

\* A tab that takes what another step leaves to it.
LEMMA TakesRecord ==
    ASSUME TabsInv, RowsKeep, NEW t \in Tabs, NEW n \in Tab, Becomes(t, n),
           n.phase \in {"idle", "retry"} <=> n.op = "none",
           n.for # "none" <=> n.op \in {"refresh", "giveUp"},
           n.sent \in {0, cookie, tab[t].sent, tab[t].got},
           n.got \in {0, tab[t].got},
           n.phase = "ok" /\ n.op \in {"login", "verify", "refresh"} => n.got # 0
    PROVE  TabIs(t, n)
<1>1. /\ cookie # 0 => row[cookie] # "none"
      /\ tab[t].sent # 0 => row[tab[t].sent] # "none"
      /\ tab[t].got # 0 => row[tab[t].got] # "none"
  BY TabOf DEF TabsInv, TabTypeOK, Fits
<1>2. Fits(n)
  BY <1>1 DEF Fits
<1>3. Fits(n)'
  BY <1>2, StillFits
<1> QED
  BY <1>3 DEF TabIs, Becomes

\* What a tab at rest begins: a call, or the way to another page.
RestMoves(t) ==
    /\ AtRest(t)
    /\ \E n \in Tab :
          /\ TabIs(t, n)
          /\ n.page = tab[t].page
          /\ n.nav \in {tab[t].nav} \cup Pages
          /\ \/ n.due = tab[t].due
             \/ token = "valid"
             \/ /\ n.op = "refresh" /\ n.for = "query" /\ n.phase = "sent"
                /\ n.sent = cookie

LEMMA QueryMoves ==
    ASSUME TabsInv, NEW t \in Tabs, Query(t) PROVE RestMoves(t) /\ BrowserMoves
<1> DEFINE made == [tab[t] EXCEPT !.due = FALSE]
           n == IF token = "valid" THEN made ELSE Calling(made, "refresh", "query")
<1>1. AtRest(t) /\ BrowserMoves /\ RowsKeep
  BY BrowserStays, RowsStay DEF Query
<1>2. /\ made \in Tab /\ made.page = tab[t].page /\ made.nav = tab[t].nav
      /\ made.phase = tab[t].phase /\ made.op = tab[t].op /\ made.for = tab[t].for
      /\ made.sent = tab[t].sent /\ made.got = tab[t].got
  BY TabOf DEF Tab
<1>3. Becomes(t, n)
  BY DEF Query, Passes, findAllSessions, Handler, SessionRoutes
<1> HIDE DEF made
<1>4. CASE token = "valid"
  <2>1. PICK m \in Tab : m = made
    BY <1>2
  <2>2. TabIs(t, m)
    BY <1>1, <1>2, <1>3, <1>4, <2>1, TabOf, TakesRecord DEF Fits
  <2> QED
    BY <1>1, <1>2, <1>4, <2>1, <2>2 DEF RestMoves
<1>5. CASE token # "valid"
  <2>1. PICK m \in Tab : /\ m = n /\ m.page = tab[t].page /\ m.nav = tab[t].nav
                         /\ m.op = "refresh" /\ m.for = "query" /\ m.phase = "sent"
                         /\ m.sent = cookie /\ m.got = 0
    BY <1>2, <1>5, CallingTab DEF Ops, Reasons
  <2>2. TabIs(t, m)
    BY <1>1, <1>3, <2>1, TakesRecord
  <2> QED
    BY <1>1, <2>1, <2>2 DEF RestMoves
<1> QED
  BY <1>4, <1>5

\* The forms and the menus that call the API.
LEMMA CallMoves ==
    ASSUME TabsInv, NEW t \in Tabs, AtRest(t), RowsKeep,
           NEW op \in {"login", "verify", "logout"}, NEW page \in Pages,
           \/ Becomes(t, Calling(tab[t], op, "none"))
           \/ Becomes(t, Replace(Calling(tab[t], op, "none"), page))
    PROVE  RestMoves(t)
<1>1. PICK m \in Tab : /\ m = Calling(tab[t], op, "none")
                       /\ m.page = tab[t].page /\ m.nav = tab[t].nav /\ m.due = tab[t].due
                       /\ m.op = op /\ m.for = "none" /\ m.phase = "sent"
                       /\ m.sent = cookie /\ m.got = 0
  BY TabOf, CallingTab DEF Ops, Reasons
<1>2. CASE Becomes(t, m)
  <2>1. TabIs(t, m)
    BY <1>1, <1>2, TakesRecord
  <2> QED
    BY <1>1, <2>1 DEF RestMoves
<1>3. CASE Becomes(t, Replace(m, page))
  <2>1. PICK n \in Tab : /\ n = Replace(m, page)
                         /\ n.page = m.page /\ n.nav = page /\ n.due = m.due
                         /\ n.op = m.op /\ n.for = m.for /\ n.phase = m.phase
                         /\ n.sent = m.sent /\ n.got = m.got
    BY ReplaceTab
  <2>2. TabIs(t, n)
    BY <1>1, <1>3, <2>1, TakesRecord
  <2> QED
    BY <1>1, <2>1, <2>2 DEF RestMoves
<1> QED
  BY <1>1, <1>2, <1>3

LEMMA ReplaceMoves ==
    ASSUME TabsInv, NEW t \in Tabs, RowsKeep, NEW page \in Pages,
           Becomes(t, Replace(tab[t], page))
    PROVE  \E n \in Tab :
              /\ TabIs(t, n)
              /\ n.page = tab[t].page /\ n.nav = page /\ n.due = tab[t].due
              /\ n.op = tab[t].op /\ n.for = tab[t].for /\ n.phase = tab[t].phase
              /\ n.sent = tab[t].sent
<1>1. PICK n \in Tab : /\ n = Replace(tab[t], page)
                       /\ n.page = tab[t].page /\ n.nav = page /\ n.due = tab[t].due
                       /\ n.op = tab[t].op /\ n.for = tab[t].for /\ n.phase = tab[t].phase
                       /\ n.sent = tab[t].sent /\ n.got = tab[t].got
  BY TabOf, ReplaceTab
<1>2. TabIs(t, n)
  BY <1>1, TabOf, TakesRecord DEF Fits
<1> QED
  BY <1>1, <1>2


\* An answer leaves the tab on its page and goes on with what the call was made for.
AnswersMove(t) ==
    /\ tab[t].phase \in {"ok", "refused", "failed"}
    /\ \E n \in Tab :
          /\ TabIs(t, n)
          /\ n.page = tab[t].page /\ n.due = tab[t].due
          /\ n.nav \in {tab[t].nav} \cup Pages
          /\ "exchange" \in {tab[t].op, tab[t].for} =>
                "exchange" \in {n.op, n.for} \/ n.nav \in Pages
          /\ tab[t].op = "refresh" /\ tab[t].phase = "refused" =>
                /\ n.op = "giveUp" /\ n.phase = "sent" /\ n.for = tab[t].for
                /\ n.sent = cookie /\ n.nav = "login" /\ cookie' = cookie
          /\ tab[t].op = "giveUp" /\ tab[t].for = "query" =>
                /\ n.phase = "retry" /\ cookie' \in {0, cookie}
                /\ tab[t].phase = "ok" => cookie' = 0

LEMMA AnswerCookie ==
    ASSUME TabsInv, NEW t \in Tabs, NEW op \in Ops, NEW phase \in Phases,
           AnswerReaches(t, op, phase)
    PROVE  /\ tab[t].op = op /\ tab[t].phase = phase
           /\ cookie' \in 0 .. MaxRows /\ (cookie' # 0 => row[cookie'] # "none")
           /\ phase # "ok" \/ op = "exchange" => cookie' = cookie
           /\ phase = "ok" /\ op \in {"logout", "giveUp"} => cookie' = 0
<1>1. /\ tab[t].got \in 0 .. MaxRows /\ (tab[t].got # 0 => row[tab[t].got] # "none")
      /\ cookie \in 0 .. MaxRows /\ (cookie # 0 => row[cookie] # "none")
      /\ 0 \in 0 .. MaxRows
  BY TabsAssumption, TabOf DEF TabsInv, TabTypeOK, Fits
<1>2. SetsCookie(Controller[op], tab[t].got) =
          IF op = "exchange" THEN cookie
          ELSE IF op \in {"logout", "giveUp"} THEN 0 ELSE tab[t].got
  BY DEF SetsCookie, Controller, Ops, Handler, loginUser, verifyEmail, refreshToken, exchange, logoutUser
<1> QED
  BY <1>1, <1>2 DEF AnswerReaches

\* What an answer does to what the tabs share.
LEMMA AnswersBrowser ==
    ASSUME TabsInv, NEW t \in Tabs, Receives(t)
    PROVE  BrowserMoves /\ RowsKeep /\ (token' = "valid" \/ cookie' \in {0, cookie})
<1>1. UNCHANGED row /\ RowsKeep
  BY RowsStay DEF Receives, SignedIn, SignInRefused, Refreshed, RefreshRefused, RefreshFailed, GaveUp,
         LoggedOut, LogoutRefused, Exchanged, ExchangeRefused
<1>2. /\ cookie' \in 0 .. MaxRows /\ (cookie' # 0 => row[cookie'] # "none")
      /\ token' \in {"none", "valid"}
      /\ token' = "valid" \/ cookie' \in {0, cookie}
  <2>1. /\ {"login", "verify", "refresh", "exchange", "logout", "giveUp"} = Ops
        /\ "ok" \in Phases /\ "refused" \in Phases /\ "failed" \in Phases
        /\ token \in {"none", "valid"}
    BY DEF Ops, Phases, TabsInv, TabTypeOK
  <2>2. CASE SignedIn(t) \/ Refreshed(t) \/ Exchanged(t)
    BY <2>1, <2>2, AnswerCookie DEF SignedIn, Refreshed, Exchanged
  <2>3. CASE SignInRefused(t) \/ RefreshRefused(t) \/ RefreshFailed(t) \/ ExchangeRefused(t)
    BY <2>1, <2>3, AnswerCookie DEF SignInRefused, RefreshRefused, RefreshFailed, ExchangeRefused
  <2>4. CASE GaveUp(t)
    BY <2>1, <2>4, AnswerCookie DEF GaveUp
  <2>5. CASE LoggedOut(t) \/ LogoutRefused(t)
    BY <2>1, <2>5, AnswerCookie DEF LoggedOut, LogoutRefused
  <2> QED
    BY <2>2, <2>3, <2>4, <2>5 DEF Receives
<1>3. inbox' \in [Tabs -> Seq(Messages)]
  <2>1. inbox \in [Tabs -> Seq(Messages)]
    BY DEF TabsInv, TabTypeOK
  <2>2. CASE LoggedOut(t)
    BY <2>1, <2>2, Posted DEF LoggedOut, Post, Messages
  <2>3. CASE UNCHANGED inbox
    BY <2>1, <2>3
  <2> QED
    BY <2>2, <2>3 DEF Receives, SignedIn, SignInRefused, Refreshed, RefreshRefused, RefreshFailed,
           GaveUp, LogoutRefused, Exchanged, ExchangeRefused
<1>4. UNCHANGED <<popup, counters>>
  BY DEF Receives, SignedIn, SignInRefused, Refreshed, RefreshRefused, RefreshFailed, GaveUp,
         LoggedOut, LogoutRefused, Exchanged, ExchangeRefused
<1>5. BrowserMoves
  BY <1>1, <1>2, <1>3, <1>4 DEF TabsInv, TabTypeOK, BrowserMoves, RowsKeep, counters
<1> QED
  BY <1>1, <1>2, <1>5

\* A call that ends, with a page to go to or without.
LEMMA EndedMoves ==
    ASSUME TabsInv, NEW t \in Tabs, RowsKeep, Becomes(t, Ended(tab[t]))
    PROVE  \E n \in Tab :
              /\ TabIs(t, n)
              /\ n.page = tab[t].page /\ n.nav = tab[t].nav /\ n.due = tab[t].due
              /\ n.op = "none" /\ n.phase = "idle"
<1>1. PICK n \in Tab : /\ n = Ended(tab[t])
                       /\ n.page = tab[t].page /\ n.nav = tab[t].nav /\ n.due = tab[t].due
                       /\ n.op = "none" /\ n.phase = "idle" /\ n.for = "none"
                       /\ n.sent = 0 /\ n.got = 0
  BY TabOf, EndedTab
<1>2. TabIs(t, n)
  BY <1>1, TakesRecord
<1> QED
  BY <1>1, <1>2

LEMMA EndedForPage ==
    ASSUME TabsInv, NEW t \in Tabs, RowsKeep, NEW page \in Pages,
           Becomes(t, Replace(Ended(tab[t]), page))
    PROVE  \E n \in Tab :
              /\ TabIs(t, n)
              /\ n.page = tab[t].page /\ n.nav = page /\ n.due = tab[t].due
              /\ n.op = "none" /\ n.phase = "idle"
<1>1. PICK m \in Tab : /\ m = Ended(tab[t])
                       /\ m.page = tab[t].page /\ m.due = tab[t].due
                       /\ m.op = "none" /\ m.phase = "idle" /\ m.for = "none"
                       /\ m.sent = 0 /\ m.got = 0
  BY TabOf, EndedTab
<1>2. PICK n \in Tab : /\ n = Replace(m, page)
                       /\ n.page = m.page /\ n.nav = page /\ n.due = m.due
                       /\ n.op = m.op /\ n.phase = m.phase /\ n.for = m.for
                       /\ n.sent = m.sent /\ n.got = m.got
  BY ReplaceTab
<1>3. TabIs(t, n)
  BY <1>1, <1>2, TakesRecord
<1> QED
  BY <1>1, <1>2, <1>3

\* A call made from the answer to another one, on the way to a page or not.
LEMMA CalledAgain ==
    ASSUME TabsInv, NEW t \in Tabs, RowsKeep, NEW op \in {"refresh", "giveUp"},
           NEW for \in Reasons \ {"none"}, Becomes(t, Calling(tab[t], op, for))
    PROVE  \E n \in Tab :
              /\ TabIs(t, n)
              /\ n.page = tab[t].page /\ n.due = tab[t].due /\ n.nav = tab[t].nav
              /\ n.op = op /\ n.phase = "sent" /\ n.for = for /\ n.sent = cookie
<1> op \in Ops /\ for \in Reasons /\ for # "none" /\ tab[t] \in Tab
  BY TabOf DEF Ops
<1>1. PICK n \in Tab : /\ n = Calling(tab[t], op, for)
                       /\ n.page = tab[t].page /\ n.nav = tab[t].nav /\ n.due = tab[t].due
                       /\ n.op = op /\ n.for = for /\ n.phase = "sent"
                       /\ n.sent = cookie /\ n.got = 0
  BY CallingTab
<1>2. TabIs(t, n)
  BY <1>1, TakesRecord
<1> QED
  BY <1>1, <1>2

LEMMA CalledLeaving ==
    ASSUME TabsInv, NEW t \in Tabs, RowsKeep, NEW op \in {"refresh", "giveUp"},
           NEW for \in Reasons \ {"none"}, NEW page \in Pages,
           Becomes(t, Replace(Calling(tab[t], op, for), page))
    PROVE  \E n \in Tab :
              /\ TabIs(t, n)
              /\ n.page = tab[t].page /\ n.due = tab[t].due /\ n.nav = page
              /\ n.op = op /\ n.phase = "sent" /\ n.for = for /\ n.sent = cookie
<1> op \in Ops /\ for \in Reasons /\ for # "none" /\ tab[t] \in Tab
  BY TabOf DEF Ops
<1>1. PICK m \in Tab : /\ m = Calling(tab[t], op, for)
                       /\ m.page = tab[t].page /\ m.due = tab[t].due
                       /\ m.op = op /\ m.for = for /\ m.phase = "sent"
                       /\ m.sent = cookie /\ m.got = 0
  BY CallingTab
<1>2. PICK n \in Tab : /\ n = Replace(m, page)
                       /\ n.page = m.page /\ n.nav = page /\ n.due = m.due
                       /\ n.op = m.op /\ n.for = m.for /\ n.phase = m.phase
                       /\ n.sent = m.sent /\ n.got = m.got
  BY <1>1, ReplaceTab
<1>3. TabIs(t, n)
  BY <1>1, <1>2, TakesRecord
<1> QED
  BY <1>1, <1>2, <1>3

\* An answer that ends the call of the tab.
LEMMA EndingAnswers ==
    ASSUME TabsInv, NEW t \in Tabs,
           SignedIn(t) \/ SignInRefused(t) \/ Exchanged(t) \/ LoggedOut(t) \/ LogoutRefused(t)
    PROVE  AnswersMove(t)
<1> RowsKeep /\ "login" \in Pages /\ "dashboard" \in Pages
  BY AnswersBrowser, PublicPages DEF Receives
<1>1. ASSUME NEW op \in Ops, NEW phase \in {"ok", "refused"}, AnswerReaches(t, op, phase)
      PROVE  tab[t].op = op /\ tab[t].phase = phase
             /\ (op \notin {"refresh", "giveUp"} => tab[t].for = "none")
  BY <1>1, TabOf, AnswerCookie DEF Phases, Fits
<1>2. CASE SignedIn(t)
  BY <1>1, <1>2, EndedForPage DEF SignedIn, AnswersMove, Ops
<1>3. CASE SignInRefused(t)
  <2>1. CASE AnswerReaches(t, "login", "refused") /\ Becomes(t, Ended(tab[t]))
    BY <1>1, <2>1, EndedMoves DEF AnswersMove, Ops
  <2>2. CASE AnswerReaches(t, "verify", "refused") /\ Becomes(t, Replace(Ended(tab[t]), "login"))
    BY <1>1, <2>2, EndedForPage DEF AnswersMove, Ops
  <2> QED
    BY <1>3, <2>1, <2>2 DEF SignInRefused
<1>4. CASE Exchanged(t)
  BY <1>1, <1>4, EndedForPage DEF Exchanged, AnswersMove, Ops
<1>5. CASE LoggedOut(t)
  BY <1>1, <1>5, EndedMoves DEF LoggedOut, AnswersMove, Ops
<1>6. CASE LogoutRefused(t)
  BY <1>1, <1>6, EndedMoves DEF LogoutRefused, AnswersMove, Ops
<1> QED
  BY <1>2, <1>3, <1>4, <1>5, <1>6

LEMMA SentTab ==
    ASSUME NEW s \in Tab, NEW r \in 0 .. MaxRows
    PROVE  \E n \in Tab : /\ n = [s EXCEPT !.sent = r]
                          /\ n.page = s.page /\ n.nav = s.nav /\ n.due = s.due
                          /\ n.op = s.op /\ n.for = s.for /\ n.phase = s.phase
                          /\ n.sent = r /\ n.got = s.got
<1> DEFINE n == [s EXCEPT !.sent = r]
<1>1. /\ n \in Tab /\ n.page = s.page /\ n.nav = s.nav /\ n.due = s.due
      /\ n.op = s.op /\ n.for = s.for /\ n.phase = s.phase
      /\ n.sent = r /\ n.got = s.got
  BY DEF Tab
<1> HIDE DEF n
<1> QED
  BY <1>1 DEF n

LEMMA RetryTab ==
    ASSUME NEW s \in Tab
    PROVE  \E n \in Tab : /\ n = [s EXCEPT !.phase = "retry"]
                          /\ n.page = s.page /\ n.nav = s.nav /\ n.due = s.due
                          /\ n.op = s.op /\ n.for = s.for /\ n.phase = "retry"
                          /\ n.sent = s.sent /\ n.got = s.got
<1> DEFINE n == [s EXCEPT !.phase = "retry"]
<1>1. /\ n \in Tab /\ n.page = s.page /\ n.nav = s.nav /\ n.due = s.due
      /\ n.op = s.op /\ n.for = s.for /\ n.phase = "retry"
      /\ n.sent = s.sent /\ n.got = s.got
  BY DEF Tab, Phases
<1> HIDE DEF n
<1> QED
  BY <1>1 DEF n

\* A refresh: what it was made for goes on, has a sign-out made first, or ends.
LEMMA RefreshAnswers ==
    ASSUME TabsInv, NEW t \in Tabs,
           Refreshed(t) \/ RefreshRefused(t) \/ RefreshFailed(t) \/ ExchangeRefused(t)
    PROVE  AnswersMove(t)
<1> RowsKeep /\ "login" \in Pages
  BY AnswersBrowser, PublicPages DEF Receives
<1>1. ASSUME NEW op \in Ops, NEW phase \in {"ok", "refused", "failed"}, AnswerReaches(t, op, phase)
      PROVE  /\ tab[t].op = op /\ tab[t].phase = phase
             /\ (phase # "ok" => cookie' = cookie)
             /\ tab[t].for # "none" <=> op \in {"refresh", "giveUp"}
             /\ tab[t].for \in Reasons
  BY <1>1, TabOf, AnswerCookie DEF Phases, Fits
<1>2. CASE Refreshed(t)
  <2>1. tab[t].op = "refresh" /\ tab[t].phase = "ok"
    BY <1>1, <1>2 DEF Refreshed, Ops
  <2>2. CASE tab[t].for = "exchange"
    <3>1. PICK m \in Tab : /\ m = Calling(tab[t], "exchange", "none")
                           /\ m.page = tab[t].page /\ m.nav = tab[t].nav /\ m.due = tab[t].due
                           /\ m.op = "exchange" /\ m.for = "none" /\ m.phase = "sent"
                           /\ m.sent = cookie /\ m.got = 0
      BY TabOf, CallingTab DEF Ops, Reasons
    <3>2. PICK n \in Tab : /\ n = [m EXCEPT !.sent = tab[t].got]
                           /\ n.page = m.page /\ n.nav = m.nav /\ n.due = m.due
                           /\ n.op = m.op /\ n.for = m.for /\ n.phase = m.phase
                           /\ n.sent = tab[t].got /\ n.got = m.got
      BY TabOf, SentTab
    <3>3. TabIs(t, n)
      BY <1>2, <2>2, <3>1, <3>2, TakesRecord DEF Refreshed
    <3> QED
      BY <2>1, <2>2, <3>1, <3>2, <3>3 DEF AnswersMove
  <2>3. CASE tab[t].for # "exchange"
    BY <1>2, <2>1, <2>3, EndedMoves DEF Refreshed, AnswersMove
  <2> QED
    BY <2>2, <2>3
<1>3. CASE RefreshRefused(t)
  <2>1. /\ tab[t].op = "refresh" /\ tab[t].phase = "refused" /\ cookie' = cookie
        /\ tab[t].for \in Reasons \ {"none"}
    BY <1>1, <1>3 DEF RefreshRefused, Ops
  <2>2. PICK for \in Reasons \ {"none"} : for = tab[t].for
    BY <2>1
  <2>3. \E n \in Tab :
              /\ TabIs(t, n)
              /\ n.page = tab[t].page /\ n.due = tab[t].due /\ n.nav = "login"
              /\ n.op = "giveUp" /\ n.phase = "sent" /\ n.for = for /\ n.sent = cookie
    BY <1>3, <2>2, CalledLeaving DEF RefreshRefused
  <2> QED
    BY <2>1, <2>2, <2>3 DEF AnswersMove
<1>4. CASE RefreshFailed(t)
  <2>1. tab[t].op = "refresh" /\ tab[t].phase = "failed"
    BY <1>1, <1>4 DEF RefreshFailed, Ops
  <2>2. CASE tab[t].for = "exchange"
    BY <1>4, <2>1, <2>2, EndedForPage DEF RefreshFailed, AnswersMove
  <2>3. CASE tab[t].for # "exchange"
    BY <1>4, <2>1, <2>3, EndedMoves DEF RefreshFailed, AnswersMove
  <2> QED
    BY <2>2, <2>3
<1>5. CASE ExchangeRefused(t)
  <2>1. tab[t].op = "exchange" /\ tab[t].phase = "refused"
    BY <1>1, <1>5 DEF ExchangeRefused, Ops
  <2>2. \E n \in Tab :
              /\ TabIs(t, n)
              /\ n.page = tab[t].page /\ n.due = tab[t].due
              /\ n.nav = tab[t].nav /\ n.for = "exchange"
    BY <1>5, CalledAgain DEF ExchangeRefused, Reasons
  <2> QED
    BY <2>1, <2>2 DEF AnswersMove
<1> QED
  BY <1>2, <1>3, <1>4, <1>5

\* The sign-out after a refresh that was refused.
LEMMA GiveUpAnswers ==
    ASSUME TabsInv, NEW t \in Tabs, GaveUp(t)
    PROVE  AnswersMove(t)
<1> RowsKeep /\ "login" \in Pages
  BY AnswersBrowser, PublicPages DEF Receives
<1>1. /\ tab[t].op = "giveUp" /\ tab[t].phase \in {"ok", "refused"}
      /\ tab[t].for \in {"query", "again", "exchange"}
      /\ cookie' \in {0, cookie} /\ (tab[t].phase = "ok" => cookie' = 0)
  BY TabOf, AnswerCookie DEF GaveUp, Ops, Phases, Reasons, Fits
<1>2. CASE tab[t].for = "query"
  <2>1. PICK m \in Tab : /\ m = Ended(tab[t])
                         /\ m.page = tab[t].page /\ m.nav = tab[t].nav /\ m.due = tab[t].due
                         /\ m.op = "none" /\ m.phase = "idle" /\ m.for = "none"
                         /\ m.sent = 0 /\ m.got = 0
    BY TabOf, EndedTab
  <2>2. PICK n \in Tab : /\ n = [m EXCEPT !.phase = "retry"]
                         /\ n.page = m.page /\ n.nav = m.nav /\ n.due = m.due
                         /\ n.op = m.op /\ n.for = m.for /\ n.phase = "retry"
                         /\ n.sent = m.sent /\ n.got = m.got
    BY RetryTab
  <2>3. Becomes(t, n)
    BY <1>2, <2>1, <2>2 DEF GaveUp
  <2>4. TabIs(t, n)
    BY <2>1, <2>2, <2>3, TakesRecord
  <2> QED
    BY <1>1, <1>2, <2>1, <2>2, <2>4 DEF AnswersMove
<1>3. CASE tab[t].for = "again"
  <2>1. Becomes(t, Ended(tab[t]))
    BY <1>3 DEF GaveUp
  <2> QED
    BY <1>1, <1>3, <2>1, EndedMoves DEF AnswersMove
<1>4. CASE tab[t].for = "exchange"
  <2>1. Becomes(t, Replace(Ended(tab[t]), "login"))
    BY <1>4 DEF GaveUp
  <2> QED
    BY <1>1, <1>4, <2>1, EndedForPage DEF AnswersMove
<1> QED
  BY <1>1, <1>2, <1>3, <1>4

LEMMA ReceivesMoves ==
    ASSUME TabsInv, NEW t \in Tabs, Receives(t) PROVE AnswersMove(t)
  BY EndingAnswers, RefreshAnswers, GiveUpAnswers DEF Receives

\* The API answers a call: where the tab is and what it waits for stay.
ServesMove(t) ==
    /\ tab[t].phase = "sent"
    /\ \E n \in Tab :
          /\ TabIs(t, n)
          /\ n.page = tab[t].page /\ n.nav = tab[t].nav /\ n.due = tab[t].due
          /\ n.op = tab[t].op /\ n.for = tab[t].for /\ n.sent = tab[t].sent
          /\ tab[t].op = "refresh" /\ Status(tab[t].sent) # "live" => n.phase = "refused"
          /\ tab[t].op = "giveUp" =>
                \/ n.phase = "ok"
                \/ n.phase = "refused" /\ (tab[t].sent = 0 \/ Status(tab[t].sent) = "gone")

LEMMA ReplyMoves ==
    ASSUME TabsInv, RowsKeep, NEW t \in Tabs, tab[t].phase = "sent",
           NEW phase \in {"ok", "refused", "failed"}, NEW got \in 0 .. MaxRows,
           got # 0 => row'[got] # "none",
           phase = "ok" /\ tab[t].op \in {"login", "verify", "refresh"} => got # 0,
           Reply(t, phase, got)
    PROVE  \E n \in Tab :
              /\ TabIs(t, n)
              /\ n.page = tab[t].page /\ n.nav = tab[t].nav /\ n.due = tab[t].due
              /\ n.op = tab[t].op /\ n.for = tab[t].for /\ n.sent = tab[t].sent
              /\ n.phase = phase
<1>1. PICK s \in Tab : s = tab[t] /\ Fits(s) /\ s.op # "none"
  BY TabOf
<1> DEFINE n == [s EXCEPT !.phase = phase, !.got = got]
<1>2. /\ n \in Tab /\ n.page = s.page /\ n.nav = s.nav /\ n.due = s.due
      /\ n.op = s.op /\ n.for = s.for /\ n.sent = s.sent
      /\ n.phase = phase /\ n.got = got
  BY DEF Tab, Phases
<1>3. tab' = [tab EXCEPT ![t] = n]
  BY <1>1 DEF Reply, TabsInv, TabTypeOK
<1> HIDE DEF n
<1>4. Fits(s)'
  BY <1>1, StillFits
<1>5. Fits(n)'
  BY <1>1, <1>2, <1>4 DEF Fits
<1>6. PICK m \in Tab : m = n
  BY <1>2
<1>7. TabIs(t, m)
  BY <1>1, <1>2, <1>3, <1>5, <1>6 DEF TabIs
<1> QED
  BY <1>1, <1>2, <1>6, <1>7

LEMMA ServeMoves ==
    ASSUME TabsInv, NEW t \in Tabs, Serve(t)
    PROVE  ServesMove(t) /\ BrowserMoves
<1>1. /\ tab[t].phase = "sent" /\ tab[t].sent \in 0 .. MaxRows /\ 0 \in 0 .. MaxRows
      /\ (tab[t].sent # 0 => tab[t].sent \in Rows)
      /\ row \in [Rows -> {"none", "live", "revoked", "gone"}]
      /\ UNCHANGED <<shared, inbox, popup, counters>>
  BY TabOf, TabsAssumption DEF Serve, TabsInv, TabTypeOK, Rows
<1>2. ASSUME RowsKeep, NEW phase \in {"ok", "refused", "failed"}, NEW got \in 0 .. MaxRows,
             got # 0 => row'[got] # "none",
             phase = "ok" /\ tab[t].op \in {"login", "verify", "refresh"} => got # 0,
             Reply(t, phase, got),
             tab[t].op = "refresh" /\ Status(tab[t].sent) # "live" => phase = "refused",
             tab[t].op = "giveUp" /\ phase # "ok" =>
                 phase = "refused" /\ (tab[t].sent = 0 \/ Status(tab[t].sent) = "gone")
      PROVE  ServesMove(t) /\ BrowserMoves
  BY <1>1, <1>2, ReplyMoves, RowsMoveAlone DEF ServesMove
<1>3. ASSUME UNCHANGED row PROVE RowsKeep
  BY <1>3, RowsStay
<1>4. CASE ServeWithoutCookie(t)
  BY <1>1, <1>2, <1>3, <1>4 DEF ServeWithoutCookie
<1>5. CASE ServeSignIn(t)
  <2>1. CASE UNCHANGED row /\ Reply(t, "refused", 0)
    BY <1>1, <1>2, <1>3, <1>5, <2>1 DEF ServeSignIn
  <2>2. CASE Unused # {} /\ row' = [row EXCEPT ![NextRow] = "live"] /\ Reply(t, "ok", NextRow)
    <3>1. RowsKeep /\ row'[NextRow] # "none" /\ NextRow \in 0 .. MaxRows /\ NextRow # 0
      BY <1>1, <2>2, RowIssued DEF RowsKeep
    <3> QED
      BY <1>1, <1>2, <1>5, <2>2, <3>1 DEF ServeSignIn
  <2> QED
    BY <1>5, <2>1, <2>2 DEF ServeSignIn
<1>6. CASE ServeRefresh(t)
  <2>1. CASE Status(tab[t].sent) # "live"
    BY <1>1, <1>2, <1>3, <1>6, <2>1 DEF ServeRefresh
  <2>2. CASE Status(tab[t].sent) = "live" /\ Unused = {}
    BY <1>1, <1>2, <1>3, <1>6, <2>2 DEF ServeRefresh
  <2>3. CASE Status(tab[t].sent) = "live" /\ Unused # {}
    <3>1. /\ row' = [row EXCEPT ![tab[t].sent] = "revoked", ![NextRow] = "live"]
          /\ Reply(t, "ok", NextRow) /\ row[tab[t].sent] = "live"
      BY <1>6, <2>3 DEF ServeRefresh, Status
    <3>2. RowsKeep /\ row'[NextRow] # "none" /\ NextRow \in 0 .. MaxRows /\ NextRow # 0
      BY <1>1, <2>3, <3>1, RowIssued DEF RowsKeep
    <3> QED
      BY <1>1, <1>2, <1>6, <2>3, <3>1, <3>2 DEF ServeRefresh
  <2> QED
    BY <2>1, <2>2, <2>3
<1>7. CASE ServeExchange(t)
  BY <1>1, <1>2, <1>3, <1>7 DEF ServeExchange
<1>8. CASE ServeLogout(t)
  <2>1. CASE Status(tab[t].sent) = "gone" /\ Reply(t, "refused", 0) /\ UNCHANGED row
    BY <1>1, <1>2, <1>3, <1>8, <2>1 DEF ServeLogout
  <2>2. CASE /\ Status(tab[t].sent) \in {"live", "revoked"} /\ Reply(t, "ok", 0)
             /\ row' = [row EXCEPT ![tab[t].sent] = "revoked"]
    <3>1. RowsKeep
      BY <1>1, <2>2 DEF RowsKeep
    <3>2. Reply(t, "ok", 0) /\ tab[t].op \in {"logout", "giveUp"}
      BY <1>8, <2>2 DEF ServeLogout
    <3> QED
      BY <1>1, <1>2, <3>1, <3>2
  <2> QED
    BY <1>8, <2>1, <2>2 DEF ServeLogout
<1> QED
  BY <1>4, <1>5, <1>6, <1>7, <1>8 DEF Serve

\* The second try goes on for the query, with a new token or another refresh.
RetriesMove(t) ==
    /\ tab[t].phase = "retry"
    /\ \E n \in Tab :
          /\ TabIs(t, n)
          /\ n.page = tab[t].page /\ n.nav = tab[t].nav /\ n.due = tab[t].due
          /\ \/ token = "valid" \/ tab[t].page # "dashboard"
             \/ /\ n.op = "refresh" /\ n.for = "again" /\ n.phase = "sent"
                /\ n.sent = cookie

LEMMA RetryMoves ==
    ASSUME TabsInv, NEW t \in Tabs, Retry(t) PROVE RetriesMove(t) /\ BrowserMoves
<1>1. BrowserMoves /\ RowsKeep /\ tab[t].phase = "retry"
  BY BrowserStays, RowsStay DEF Retry
<1>2. \/ Becomes(t, Ended(tab[t])) /\ (token = "valid" \/ tab[t].page # "dashboard")
      \/ Becomes(t, Calling(tab[t], "refresh", "again"))
  BY DEF Retry
<1> QED
  BY <1>1, <1>2, EndedMoves, CalledAgain DEF RetriesMove, Reasons

\* The router and the links: what the tab waits for stays what it is.
WandersMove(t) ==
    \E n \in Tab :
        /\ TabIs(t, n)
        /\ n.op = tab[t].op /\ n.phase = tab[t].phase /\ n.sent = tab[t].sent
        /\ n.for = tab[t].for
        /\ \/ /\ n.page = tab[t].page /\ n.nav \in {tab[t].nav} \cup Pages
              /\ n.due = tab[t].due \/ n.due
           \/ /\ tab[t].nav # "none" /\ n.page = Middleware(tab[t].nav) /\ n.nav = "none"
              /\ tab[t].page = "dashboard" /\ n.page = "dashboard" => n.due = tab[t].due

\* The channel: a message is taken from it and obeyed.
HearsMove(t) ==
    /\ inbox[t] # << >>
    /\ inbox' = [inbox EXCEPT ![t] = Tail(inbox[t])]
    /\ \E n \in Tab :
          /\ TabIs(t, n)
          /\ n.page = tab[t].page /\ n.due = tab[t].due
          /\ \/ /\ Head(inbox[t]) # "GOOGLE_LOGIN_SUCCESS" /\ n.nav = "login"
                /\ n.op = tab[t].op /\ n.phase = tab[t].phase /\ n.sent = tab[t].sent
                /\ n.for = tab[t].for
             \/ /\ Head(inbox[t]) = "GOOGLE_LOGIN_SUCCESS" /\ AtRest(t)
                /\ n.nav = tab[t].nav /\ n.op = "exchange"

\* A page loaded by hand: the middleware decides which, and its queries are to be made.
OpensMove(t) ==
    /\ inbox' = [inbox EXCEPT ![t] = << >>]
    /\ \E n \in Tab :
          /\ TabIs(t, n)
          /\ n.page = "dashboard" <=> cookie # 0
          /\ n.due <=> n.page = "dashboard"

LEMMA ArriveMoves ==
    ASSUME TabsInv, NEW t \in Tabs, Arrive(t) PROVE WandersMove(t) /\ BrowserMoves
<1>1. BrowserMoves /\ RowsKeep /\ tab[t].nav \in Pages
  BY BrowserStays, RowsStay, TabOf DEF Arrive
<1>2. PICK s \in Tab : s = tab[t] /\ Fits(s) /\ (s.phase \in {"idle", "retry"} <=> s.op = "none")
  BY TabOf
<1>3. PICK page \in Pages : page = Middleware(tab[t].nav)
  BY <1>1, MiddlewareSends
<1> DEFINE due == page = "dashboard" /\ (s.page # "dashboard" \/ s.due)
           n == [s EXCEPT !.nav = "none", !.page = page, !.due = due]
<1>4. due \in BOOLEAN
  OBVIOUS
<1>5. s.page = "dashboard" /\ page = "dashboard" => due = s.due
  BY DEF Tab
<1>6. Becomes(t, n)
  BY <1>2, <1>3 DEF Arrive, Becomes
<1> HIDE DEF due
<1>7. /\ n \in Tab /\ n.page = page /\ n.nav = "none" /\ n.due = due
      /\ n.op = s.op /\ n.for = s.for /\ n.phase = s.phase /\ n.sent = s.sent /\ n.got = s.got
  BY <1>4 DEF Tab
<1> HIDE DEF n
<1>8. PICK m \in Tab : m = n
  BY <1>7
<1>9. TabIs(t, m)
  BY <1>1, <1>2, <1>6, <1>7, <1>8, TakesRecord DEF Fits
<1> QED
  BY <1>1, <1>2, <1>3, <1>5, <1>7, <1>8, <1>9 DEF WandersMove, Arrive

LEMMA FollowMoves ==
    ASSUME TabsInv, NEW t \in Tabs, Follow(t) PROVE WandersMove(t) /\ BrowserMoves
<1>1. BrowserMoves /\ RowsKeep
  BY BrowserStays, RowsStay DEF Follow
<1>2. PICK page \in Pages : Becomes(t, Replace(tab[t], page))
  BY TabOf, PublicPages DEF Follow
<1> QED
  BY <1>1, <1>2, ReplaceMoves DEF WandersMove

LEMMA BrowseMoves ==
    ASSUME TabsInv, NEW t \in Tabs, Browse(t) PROVE WandersMove(t) /\ BrowserMoves
<1>1. BrowserMoves /\ RowsKeep
  BY BrowserStays, RowsStay DEF Browse
<1>2. PICK s \in Tab : s = tab[t] /\ Fits(s) /\ (s.phase \in {"idle", "retry"} <=> s.op = "none")
  BY TabOf
<1> DEFINE n == [s EXCEPT !.due = TRUE]
<1>3. Becomes(t, n)
  BY <1>2 DEF Browse
<1>4. /\ n \in Tab /\ n.page = s.page /\ n.nav = s.nav /\ n.due
      /\ n.op = s.op /\ n.for = s.for /\ n.phase = s.phase /\ n.sent = s.sent /\ n.got = s.got
  BY DEF Tab
<1> HIDE DEF n
<1>5. PICK m \in Tab : m = n
  BY <1>4
<1>6. TabIs(t, m)
  BY <1>1, <1>2, <1>3, <1>4, <1>5, TakesRecord DEF Fits
<1> QED
  BY <1>1, <1>2, <1>4, <1>5, <1>6 DEF WandersMove

LEMMA OpenMoves ==
    ASSUME TabsInv, NEW t \in Tabs, Open(t) PROVE OpensMove(t) /\ BrowserMoves
<1>1. /\ UNCHANGED <<shared, row, popup, popups, ends>> /\ RowsKeep
      /\ opens < MaxOpens /\ opens' = opens + 1 /\ inbox' = [inbox EXCEPT ![t] = << >>]
  BY RowsStay DEF Open
<1>2. inbox' \in [Tabs -> Seq(Messages)] /\ opens' \in 0 .. MaxOpens
  <2>1. << >> \in Seq(Messages)
    OBVIOUS
  <2> QED
    BY <1>1, <2>1, TabsAssumption DEF TabsInv, TabTypeOK
<1>3. BrowserMoves
  BY <1>1, <1>2 DEF TabsInv, TabTypeOK, BrowserMoves, RowsKeep, shared
<1>4. PICK asked \in Pages : Becomes(t, Loaded(Middleware(asked)))
  BY DEF Open
<1>5. PICK page \in Pages : page = Middleware(asked) /\ (page = "dashboard" <=> cookie # 0)
  BY MiddlewareSends
<1>6. PICK n \in Tab : /\ n = Loaded(page)
                       /\ n.page = page /\ n.due = (page = "dashboard")
                       /\ n.op = "none" /\ n.phase = "idle"
                       /\ n.sent = 0 /\ n.got = 0 /\ n.for = "none"
  BY LoadedTab
<1>7. TabIs(t, n)
  BY <1>1, <1>4, <1>5, <1>6, TakesRecord
<1> QED
  BY <1>1, <1>3, <1>5, <1>6, <1>7 DEF OpensMove

LEMMA HearMoves ==
    ASSUME TabsInv, NEW t \in Tabs, Hear(t) PROVE HearsMove(t) /\ BrowserMoves
<1>1. /\ UNCHANGED <<shared, row, popup, counters>> /\ RowsKeep
      /\ inbox[t] # << >> /\ inbox' = [inbox EXCEPT ![t] = Tail(inbox[t])]
      /\ "login" \in Pages
  BY RowsStay, PublicPages DEF Hear, TabsInv, TabTypeOK
<1>2. inbox' \in [Tabs -> Seq(Messages)]
  BY <1>1, Heard DEF TabsInv, TabTypeOK
<1>3. BrowserMoves
  BY <1>1, <1>2 DEF TabsInv, TabTypeOK, BrowserMoves, RowsKeep, shared, counters
<1>4. CASE /\ Head(inbox[t]) \in {"LOGOUT", "GOOGLE_LOGIN_CANCELLED"}
           /\ Becomes(t, Replace(tab[t], "login"))
  BY <1>1, <1>3, <1>4, ReplaceMoves DEF HearsMove
<1>5. CASE /\ Head(inbox[t]) = "GOOGLE_LOGIN_SUCCESS" /\ AtRest(t)
           /\ Becomes(t, Calling(tab[t], "exchange", "none"))
  <2>1. PICK n \in Tab : /\ n = Calling(tab[t], "exchange", "none")
                         /\ n.page = tab[t].page /\ n.nav = tab[t].nav /\ n.due = tab[t].due
                         /\ n.op = "exchange" /\ n.phase = "sent" /\ n.for = "none"
                         /\ n.sent = cookie /\ n.got = 0
    BY TabOf, CallingTab DEF Ops, Reasons
  <2>2. TabIs(t, n)
    BY <1>1, <1>5, <2>1, TakesRecord
  <2> QED
    BY <1>1, <1>3, <1>5, <2>1, <2>2 DEF HearsMove
<1> QED
  BY <1>4, <1>5 DEF Hear

LEMMA FormsKeepCookie ==
    \A handler \in {registerUser, forgotPassword, resetPassword, resendVerificationEmail,
                    validateResetPassword, loginWithGoogle} :
        SetsCookie(handler, 0) = cookie
  BY DEF SetsCookie, Handler, registerUser, forgotPassword, resetPassword,
         resendVerificationEmail, validateResetPassword, loginWithGoogle

\* The form that signs in, and the one of the mail.
LEMMA SignInFormsMove ==
    ASSUME TabsInv, NEW t \in Tabs, Login(t) \/ VerifyEmail(t)
    PROVE  RestMoves(t) /\ BrowserMoves
<1> /\ BrowserMoves /\ RowsKeep /\ AtRest(t) /\ "login" \in Pages
    /\ Becomes(t, Calling(tab[t], "login", "none")) \/ Becomes(t, Calling(tab[t], "verify", "none"))
  BY BrowserStays, RowsStay, PublicPages DEF Login, VerifyEmail
<1> QED
  BY CallMoves

\* The forms that move the tab on.
LEMMA OtherFormsMove ==
    ASSUME TabsInv, NEW t \in Tabs, RegisterForm(t) \/ ForgotPasswordForm(t) \/ ResetPasswordForm(t)
    PROVE  RestMoves(t) /\ BrowserMoves /\ UNCHANGED <<cookie, inbox>>
<1>1. RowsKeep
  BY RowsStay, SessionsEnd DEF RegisterForm, ForgotPasswordForm, ResetPasswordForm
<1>2. /\ AtRest(t) /\ UNCHANGED <<cookie, token, inbox, popup, counters>>
      /\ \E page \in Pages : Becomes(t, Replace(tab[t], page))
  BY FormsKeepCookie, PublicPages
     DEF RegisterForm, ForgotPasswordForm, ResetPasswordForm, SubmitForm
<1>3. BrowserMoves
  BY <1>1, <1>2, RowsMoveAlone DEF shared
<1> QED
  BY <1>1, <1>2, <1>3, ReplaceMoves DEF RestMoves

\* What takes nothing from the tab and gives it nothing.
LEMMA InPlaceMoves ==
    ASSUME TabsInv, NEW t \in Tabs, LoginWithGoogle(t) \/ ResendVerification(t) \/ ValidateResetToken(t)
    PROVE  BrowserMoves /\ UNCHANGED <<cookie, tab, inbox>>
<1>1. CASE ResendVerification(t) \/ ValidateResetToken(t)
  <2>1. UNCHANGED <<cookie, token, row, tab, inbox, popup, counters>>
    BY <1>1, FormsKeepCookie DEF ResendVerification, ValidateResetToken, SubmitInPlace
  <2> QED
    BY <2>1, BrowserStays DEF shared
<1>2. CASE LoginWithGoogle(t)
  <2>1. /\ UNCHANGED <<cookie, token, row, tab, inbox, opens, ends>>
        /\ popup' = TRUE /\ popups < MaxPopups /\ popups' = popups + 1
    BY <1>2, FormsKeepCookie DEF LoginWithGoogle
  <2>2. RowsKeep /\ popups' \in 0 .. MaxPopups
    BY <2>1, RowsStay, TabsAssumption DEF TabsInv, TabTypeOK
  <2> QED
    BY <2>1, <2>2 DEF TabsInv, TabTypeOK, BrowserMoves, RowsKeep
<1> QED
  BY <1>1, <1>2

\* The five ways to sign out.
LEMMA LogoutsMove ==
    ASSUME TabsInv, NEW t \in Tabs,
           \/ SidebarLogout(t) \/ ChangePassword(t) \/ DeleteAccount(t)
           \/ SignOutSession(t) \/ SignOutAllOtherSessions(t)
    PROVE  RestMoves(t) /\ BrowserMoves /\ UNCHANGED <<cookie, inbox>>
<1>1. StartLogout(t)
  BY DEF SidebarLogout, ChangePassword, DeleteAccount, SignOutSession, SignOutAllOtherSessions
<1>2. RowsKeep
  <2>1. row \in [Rows -> {"none", "live", "revoked", "gone"}]
    BY DEF TabsInv, TabTypeOK
  <2>2. CASE UNCHANGED row
    BY <2>2, RowsStay
  <2>3. CASE SignOutSession(t)
    BY <2>1, <2>3 DEF SignOutSession, RowsKeep
  <2>4. CASE SignOutAllOtherSessions(t)
    BY <2>1, <2>4 DEF SignOutAllOtherSessions, RowsKeep
  <2> QED
    BY <2>2, <2>3, <2>4 DEF SidebarLogout, ChangePassword, DeleteAccount
<1>3. /\ AtRest(t) /\ "login" \in Pages
      /\ Becomes(t, Replace(Calling(tab[t], "logout", "none"), "login"))
      /\ UNCHANGED <<shared, inbox, popup, counters>>
  BY <1>1, PublicPages DEF StartLogout
<1> QED
  BY <1>2, <1>3, CallMoves, RowsMoveAlone DEF shared

\* The window of Google, the token's end, and what happens elsewhere.
LEMMA OutsideMoves ==
    ASSUME TabsInv, GoogleSuccess \/ GoogleCancelled \/ TokenExpires \/ EndedElsewhere
    PROVE  /\ BrowserMoves /\ UNCHANGED tab
           /\ cookie' = cookie \/ Status(cookie)' = "live"
           /\ UNCHANGED inbox \/ \E message \in Messages : Post(message)
<1>0. inbox \in [Tabs -> Seq(Messages)]
  BY DEF TabsInv, TabTypeOK
<1>1. ASSUME NEW message \in Messages, Post(message) PROVE inbox' \in [Tabs -> Seq(Messages)]
  BY <1>0, <1>1, Posted DEF Post
<1>2. CASE GoogleSuccess
  <2>1. /\ row' = [row EXCEPT ![NextRow] = "live"] /\ Post("GOOGLE_LOGIN_SUCCESS")
        /\ popup' = FALSE /\ UNCHANGED <<token, tab, counters>>
        /\ "GOOGLE_LOGIN_SUCCESS" \in Messages
    BY <1>2 DEF GoogleSuccess, Messages
  <2>2. cookie' = NextRow
    BY <1>2 DEF GoogleSuccess, SetsCookie, Handler, googleCallback
  <2>3. RowsKeep /\ row'[NextRow] = "live" /\ NextRow \in 0 .. MaxRows /\ NextRow # 0
    BY <1>2, <2>1, RowIssued DEF GoogleSuccess, RowsKeep, TabsInv, TabTypeOK
  <2>4. BrowserMoves
    BY <1>1, <2>1, <2>2, <2>3 DEF TabsInv, TabTypeOK, BrowserMoves, counters
  <2> QED
    BY <2>1, <2>2, <2>3, <2>4 DEF Status
<1>3. CASE GoogleCancelled
  <2>1. /\ Post("GOOGLE_LOGIN_CANCELLED") /\ popup' = FALSE
        /\ UNCHANGED <<shared, row, tab, counters>> /\ RowsKeep
        /\ "GOOGLE_LOGIN_CANCELLED" \in Messages
    BY <1>3, RowsStay DEF GoogleCancelled, Messages
  <2>2. BrowserMoves
    BY <1>1, <2>1 DEF TabsInv, TabTypeOK, BrowserMoves, RowsKeep, shared, counters
  <2> QED
    BY <2>1, <2>2 DEF shared
<1>4. CASE TokenExpires
  <2>1. token' = "none" /\ UNCHANGED <<cookie, row, tab, inbox, popup, counters>> /\ RowsKeep
    BY <1>4, RowsStay DEF TokenExpires
  <2> QED
    BY <2>1 DEF TabsInv, TabTypeOK, BrowserMoves, RowsKeep, counters
<1>5. CASE EndedElsewhere
  <2>1. /\ RowsKeep /\ UNCHANGED <<shared, tab, inbox, popup, opens, popups>>
        /\ ends < MaxEnds /\ ends' = ends + 1
    BY <1>5, SessionsEnd DEF EndedElsewhere
  <2>2. ends' \in 0 .. MaxEnds
    BY <2>1, TabsAssumption DEF TabsInv, TabTypeOK
  <2>3. cookie # 0 => cookie \in Rows /\ row[cookie] # "none"
    BY TabsAssumption DEF TabsInv, TabTypeOK, Rows
  <2> QED
    BY <2>1, <2>2, <2>3 DEF TabsInv, TabTypeOK, BrowserMoves, RowsKeep, shared
<1> QED
  BY <1>2, <1>3, <1>4, <1>5

-----------------------------------------------------------------------------
(* The tabs of the browser: a step                                         *)

\* No tab loses a message.
InboxesKeep ==
    \A q \in Tabs, m \in Messages : Expects(q, m) => Expects(q, m)'

\* What the tab t does with its inbox untouched.
ActsMove(t) ==
    RestMoves(t) \/ ServesMove(t) \/ AnswersMove(t) \/ RetriesMove(t) \/ WandersMove(t)

LEMMA InboxesStay == ASSUME UNCHANGED inbox PROVE InboxesKeep
  BY DEF InboxesKeep, Expects

LEMMA InboxesGrow ==
    ASSUME TabsInv, NEW message \in Messages, Post(message) PROVE InboxesKeep
<1>1. SUFFICES ASSUME NEW q \in Tabs, NEW m \in Messages,
                      \E i \in DOMAIN inbox[q] : inbox[q][i] = m
               PROVE  \E i \in DOMAIN inbox'[q] : inbox'[q][i] = m
  BY DEF InboxesKeep, Expects
<1>2. PICK s \in Seq(Messages) : s = inbox[q] /\ inbox'[q] = Append(s, message)
  BY DEF Post, TabsInv, TabTypeOK
<1>3. \E i \in DOMAIN Append(s, message) : Append(s, message)[i] = m
  BY <1>1, <1>2, Posted
<1> QED
  BY <1>2, <1>3

\* One step is one tab's, or the browser's with every tab where it was.  The cookie is
\* set only with a token or by the callback of Google, whose row is a live one.
LEMMA TabsStep ==
    ASSUME TabsInv, [Next]_vars
    PROVE  /\ BrowserMoves
           /\ token' = "valid" \/ cookie' \in {0, cookie} \/ Status(cookie)' = "live"
           /\ \/ UNCHANGED tab /\ InboxesKeep
              \/ \E t \in Tabs : ActsMove(t) /\ InboxesKeep
              \/ \E t \in Tabs : HearsMove(t) \/ OpensMove(t)
<1>1. CASE UNCHANGED vars
  <2>1. UNCHANGED <<shared, row, inbox, popup, counters>> /\ UNCHANGED <<tab, cookie>>
    BY <1>1 DEF vars, shared, counters
  <2> QED
    BY <2>1, BrowserStays, InboxesStay
<1>2. CASE GoogleSuccess \/ GoogleCancelled \/ TokenExpires \/ EndedElsewhere
  BY <1>2, OutsideMoves, InboxesStay, InboxesGrow
<1>3. ASSUME NEW t \in Tabs, Serve(t)
      PROVE  BrowserMoves /\ ServesMove(t) /\ InboxesKeep /\ UNCHANGED cookie
  BY <1>3, ServeMoves, InboxesStay DEF Serve, shared
<1>4. ASSUME NEW t \in Tabs, Receives(t)
      PROVE  /\ BrowserMoves /\ AnswersMove(t) /\ InboxesKeep
             /\ token' = "valid" \/ cookie' \in {0, cookie}
  <2>1. /\ UNCHANGED inbox \/ Post("LOGOUT")
        /\ "LOGOUT" \in Messages
    BY <1>4 DEF Receives, SignedIn, SignInRefused, Refreshed, RefreshRefused, RefreshFailed, GaveUp,
           LoggedOut, LogoutRefused, Exchanged, ExchangeRefused, Messages
  <2>2. InboxesKeep
    BY <2>1, InboxesStay, InboxesGrow
  <2> QED
    BY <1>4, <2>2, ReceivesMoves, AnswersBrowser
<1>5. ASSUME NEW t \in Tabs, Query(t) \/ Login(t) \/ VerifyEmail(t)
      PROVE  BrowserMoves /\ RestMoves(t) /\ InboxesKeep /\ UNCHANGED cookie
  <2>1. UNCHANGED <<cookie, inbox>>
    BY <1>5 DEF Query, Login, VerifyEmail, shared
  <2> QED
    BY <1>5, <2>1, QueryMoves, SignInFormsMove, InboxesStay
<1>6. ASSUME NEW t \in Tabs, Retry(t)
      PROVE  BrowserMoves /\ RetriesMove(t) /\ InboxesKeep /\ UNCHANGED cookie
  BY <1>6, RetryMoves, InboxesStay DEF Retry, shared
<1>7. ASSUME NEW t \in Tabs, Hear(t)
      PROVE  BrowserMoves /\ HearsMove(t) /\ UNCHANGED cookie
  BY <1>7, HearMoves DEF Hear, shared
<1>8. ASSUME NEW t \in Tabs, Open(t)
      PROVE  BrowserMoves /\ OpensMove(t) /\ UNCHANGED cookie
  BY <1>8, OpenMoves DEF Open, shared
<1>9. ASSUME NEW t \in Tabs, Arrive(t) \/ Browse(t) \/ Follow(t)
      PROVE  BrowserMoves /\ WandersMove(t) /\ InboxesKeep /\ UNCHANGED cookie
  <2>1. UNCHANGED <<cookie, inbox>>
    BY <1>9 DEF Arrive, Browse, Follow, shared
  <2> QED
    BY <1>9, <2>1, ArriveMoves, BrowseMoves, FollowMoves, InboxesStay
<1>10. ASSUME NEW t \in Tabs, User(t), ~ (Login(t) \/ VerifyEmail(t)),
              ~ (Browse(t) \/ Follow(t) \/ Open(t))
       PROVE  /\ BrowserMoves /\ InboxesKeep /\ UNCHANGED cookie
              /\ RestMoves(t) \/ UNCHANGED tab
  BY <1>10, OtherFormsMove, InPlaceMoves, LogoutsMove, InboxesStay DEF User
<1>11. ASSUME NEW t \in Tabs, User(t)
       PROVE  /\ BrowserMoves /\ UNCHANGED cookie
              /\ \/ InboxesKeep /\ (RestMoves(t) \/ WandersMove(t) \/ UNCHANGED tab)
                 \/ OpensMove(t)
  BY <1>5, <1>8, <1>9, <1>10, <1>11
<1> QED
  BY <1>1, <1>2, <1>3, <1>4, <1>5, <1>6, <1>7, <1>9, <1>11 DEF Next, ActsMove

-----------------------------------------------------------------------------
(* The tabs of the browser: the invariant                                  *)

LEMMA TabsInit == ASSUME Init PROVE TabsInv
<1>1. 0 \in 0 .. MaxRows /\ 1 \in 0 .. MaxRows /\ 1 \in Rows /\ 0 \notin Rows
  BY TabsAssumption DEF Rows
<1>2. cookie \in 0 .. MaxRows /\ (cookie # 0 => row[cookie] # "none")
      /\ row \in [Rows -> {"none", "live", "revoked", "gone"}]
      /\ token \in {"none", "valid"}
  BY <1>1 DEF Init
<1>3. PICK n \in Tab : /\ n = Loaded(Middleware("dashboard"))
                       /\ n.op = "none" /\ n.phase = "idle"
                       /\ n.sent = 0 /\ n.got = 0 /\ n.for = "none"
  BY PublicPages, MiddlewareSends, LoadedTab
<1>4. tab = [t \in Tabs |-> n]
  BY <1>3 DEF Init
<1>5. inbox \in [Tabs -> Seq(Messages)]
  <2>1. << >> \in Seq(Messages)
    OBVIOUS
  <2> QED
    BY <2>1 DEF Init
<1>6. popup \in BOOLEAN /\ opens \in 0 .. MaxOpens /\ popups \in 0 .. MaxPopups /\ ends \in 0 .. MaxEnds
  <2>1. popup \in BOOLEAN
    BY DEF Init
  <2>2. opens \in 0 .. MaxOpens /\ popups \in 0 .. MaxPopups /\ ends \in 0 .. MaxEnds
    BY TabsAssumption DEF Init
  <2> QED
    BY <2>1, <2>2
<1>7. \A t \in Tabs : Fits(tab[t])
  BY <1>3, <1>4 DEF Fits
<1>8. TabTypeOK
  BY <1>2, <1>3, <1>4, <1>5, <1>6 DEF TabTypeOK
<1> QED
  BY <1>7, <1>8 DEF TabsInv

LEMMA TabsNext == ASSUME TabsInv, [Next]_vars PROVE TabsInv'
<1>1. BrowserMoves /\ (UNCHANGED tab \/ \E t \in Tabs, n \in Tab : TabIs(t, n))
  BY TabsStep DEF ActsMove, RestMoves, ServesMove, AnswersMove, RetriesMove, WandersMove,
         HearsMove, OpensMove
<1> QED
  BY <1>1, TabsGoOn

LEMMA TabsInvariant == Spec => []TabsInv
  BY TabsInit, TabsNext, PTL DEF Spec

\* The browser is always in the states the module names: a tab that waits has sent a
\* call, and the cookie names a row that was issued and is never forgotten.
THEOREM TabTypeCorrect == Spec => []TabTypeOK
<1>1. TabsInv => TabTypeOK
  BY DEF TabsInv
<1> QED
  BY <1>1, TabsInvariant, PTL
-----------------------------------------------------------------------------
(* The tabs of the browser: what they are on their way to                  *)

\* A tab that is told of a logout, that is leaving, or that has left the dashboard.
Leaves(t) ==
    Expects(t, "LOGOUT") \/ tab[t].nav # "none" \/ tab[t].page # "dashboard"

\* A tab told of a logout leaves the dashboard and does not come back by anything it
\* still waited for, unless a cookie is set again.
LogoutNotLost ==
    [][\A t \in Tabs : Leaves(t) /\ cookie = 0 => Leaves(t)' \/ cookie' # 0]_vars

\* A tab that is told of a sign-in with Google, that asks for its token or refreshes
\* for that, that is on its way to a page, or that shows the dashboard.
Comes(t) ==
    \/ Expects(t, "GOOGLE_LOGIN_SUCCESS")
    \/ tab[t].op = "exchange" \/ tab[t].for = "exchange"
    \/ tab[t].nav # "none" \/ tab[t].page = "dashboard"

\* A tab told of a sign-in with Google comes to the dashboard whatever its exchange
\* ends with, unless the cookie is cleared.
GoogleNotLost ==
    [][\A t \in Tabs : Comes(t) /\ cookie # 0 => Comes(t)' \/ cookie' = 0]_vars

\* A tab that shows the dashboard although its session was revoked or signed out.
Astray(t) ==
    tab[t].page = "dashboard" /\ token # "valid" /\ Status(cookie) \notin {"live", "gone"}

\* It waits for op, sent on behalf of a query.
WaitsFor(t, op, for, phases) ==
    tab[t].op = op /\ tab[t].for = for /\ tab[t].phase \in phases

\* The ways from a query to the login page, in their order: the query is to be made; its
\* refresh cannot succeed; the sign-out clears the cookie, or it is gone; the second
\* try and its refresh come without a cookie; and then no page but a public one is let in.
Returns(t) ==
    \/ tab[t].due
    \/ /\ WaitsFor(t, "refresh", "query", {"sent"})
       /\ Status(tab[t].sent) # "live"
       /\ tab[t].sent = cookie \/ cookie = 0
    \/ WaitsFor(t, "refresh", "query", {"refused"})
    \/ WaitsFor(t, "giveUp", "query", {"sent"}) /\ (tab[t].sent = cookie \/ cookie = 0)
    \/ WaitsFor(t, "giveUp", "query", {"ok"})
    \/ cookie = 0 /\ \/ WaitsFor(t, "giveUp", "query", {"refused"})
                     \/ tab[t].phase = "retry"
                     \/ WaitsFor(t, "refresh", "again", {"sent", "refused"}) /\ tab[t].sent = 0
                     \/ tab[t].nav # "none"

\* A tab of the dashboard that is to ask for something after its session was revoked is
\* on its way to the login page all the time until it is there, the user has signed in,
\* or the row itself is deleted: neither the middleware that sends its first attempt
\* back nor what other tabs do meanwhile leaves it where it is.
EndedNotLost ==
    [][\A t \in Tabs : Astray(t) /\ Returns(t) => Returns(t)' \/ ~ Astray(t)']_vars


\* Where a step leaves a tab and its messages when another tab makes it.
LEMMA OthersStay ==
    ASSUME TabsInv, NEW t \in Tabs, NEW q \in Tabs, q # t
    PROVE  /\ ActsMove(t) \/ HearsMove(t) \/ OpensMove(t) => tab'[q] = tab[q]
           /\ HearsMove(t) \/ OpensMove(t) => inbox'[q] = inbox[q]
<1>1. \A n : TabIs(t, n) => tab'[q] = tab[q]
  BY DEF TabIs, TabsInv, TabTypeOK
<1> QED
  BY <1>1 DEF ActsMove, RestMoves, ServesMove, AnswersMove, RetriesMove, WandersMove,
         HearsMove, OpensMove, TabsInv, TabTypeOK

LEMMA ItsOwn ==
    ASSUME TabsInv, NEW t \in Tabs, NEW n, TabIs(t, n)
    PROVE  tab'[t] = n
  BY DEF TabIs, TabsInv, TabTypeOK

\* The message at the head of the inbox is the one that is obeyed.
LEMMA HearsHead ==
    ASSUME TabsInv, NEW t \in Tabs, HearsMove(t), NEW m \in Messages, Expects(t, m)
    PROVE  Head(inbox[t]) = m \/ Expects(t, m)'
<1>1. /\ inbox[t] \in Seq(Messages) /\ inbox[t] # << >>
      /\ inbox'[t] = Tail(inbox[t])
  BY DEF HearsMove, TabsInv, TabTypeOK
<1> QED
  BY <1>1, Heard DEF Expects

\* A step as one tab sees it: another's, or its own.
LEMMA StepOfTab ==
    ASSUME TabsInv, [Next]_vars, NEW q \in Tabs
    PROVE  \/ /\ tab'[q] = tab[q]
              /\ \A m \in Messages : Expects(q, m) => Expects(q, m)'
           \/ ActsMove(q) /\ \A m \in Messages : Expects(q, m) => Expects(q, m)'
           \/ HearsMove(q)
           \/ OpensMove(q)
<1>1. CASE UNCHANGED tab /\ InboxesKeep
  BY <1>1 DEF InboxesKeep
<1>2. ASSUME NEW t \in Tabs, t # q, ActsMove(t), InboxesKeep
      PROVE  tab'[q] = tab[q] /\ \A m \in Messages : Expects(q, m) => Expects(q, m)'
  BY <1>2, OthersStay DEF InboxesKeep
<1>3. ASSUME NEW t \in Tabs, t # q, HearsMove(t) \/ OpensMove(t)
      PROVE  tab'[q] = tab[q] /\ \A m \in Messages : Expects(q, m) => Expects(q, m)'
  BY <1>3, OthersStay DEF Expects
<1> QED
  BY <1>1, <1>2, <1>3, TabsStep DEF InboxesKeep

LEMMA LeavesStep ==
    ASSUME TabsInv, [Next]_vars, NEW q \in Tabs, Leaves(q), cookie = 0
    PROVE  Leaves(q)'
<1> "LOGOUT" \in Messages /\ "none" \notin Pages /\ "login" \in Pages
  BY PublicPages DEF Messages
<1>1. /\ Expects(q, "LOGOUT") \/ tab[q].nav # "none" \/ tab[q].page # "dashboard"
      /\ tab[q].nav \in Pages \cup {"none"}
  BY TabOf DEF Leaves
<1>2. SUFFICES Expects(q, "LOGOUT")' \/ tab'[q].nav # "none" \/ tab'[q].page # "dashboard"
  BY DEF Leaves
<1>3. CASE /\ tab'[q] = tab[q]
           /\ \A m \in Messages : Expects(q, m) => Expects(q, m)'
  BY <1>1, <1>3
<1>4. CASE ActsMove(q) /\ \A m \in Messages : Expects(q, m) => Expects(q, m)'
  <2>1. PICK n : /\ TabIs(q, n)
                 /\ \/ n.page = tab[q].page /\ n.nav \in {tab[q].nav} \cup Pages
                    \/ tab[q].nav # "none" /\ n.page = Middleware(tab[q].nav)
    BY <1>4 DEF ActsMove, RestMoves, ServesMove, AnswersMove, RetriesMove, WandersMove
  <2>2. tab[q].nav # "none" => Middleware(tab[q].nav) # "dashboard"
    BY <1>1, MiddlewareSends
  <2> QED
    BY <1>1, <1>4, <2>1, <2>2, ItsOwn
<1>5. CASE HearsMove(q)
  <2>1. PICK n : /\ TabIs(q, n) /\ n.page = tab[q].page
                 /\ n.nav = "login" \/ /\ Head(inbox[q]) = "GOOGLE_LOGIN_SUCCESS"
                                       /\ n.nav = tab[q].nav
    BY <1>5 DEF HearsMove
  <2> QED
    BY <1>1, <1>5, <2>1, ItsOwn, HearsHead
<1>6. CASE OpensMove(q)
  BY <1>6, ItsOwn DEF OpensMove
<1> QED
  BY <1>3, <1>4, <1>5, <1>6, StepOfTab

\* Nothing a tab does makes it forget that somebody has signed out.
THEOREM LogoutIsNotLost == Spec => LogoutNotLost
<1>1. ASSUME TabsInv, [Next]_vars
      PROVE  \A t \in Tabs : Leaves(t) /\ cookie = 0 => Leaves(t)' \/ cookie' # 0
  BY <1>1, LeavesStep
<1>2. TabsInv /\ [Next]_vars
      => [\A t \in Tabs : Leaves(t) /\ cookie = 0 => Leaves(t)' \/ cookie' # 0]_vars
  BY <1>1
<1> QED
  BY <1>2, TabsInvariant, PTL DEF Spec, LogoutNotLost

LEMMA ComesStep ==
    ASSUME TabsInv, [Next]_vars, NEW q \in Tabs, Comes(q), cookie # 0
    PROVE  Comes(q)'
<1> DEFINE G == "GOOGLE_LOGIN_SUCCESS"
<1> G \in Messages /\ "none" \notin Pages /\ "login" \in Pages
  BY PublicPages DEF Messages
<1>1. /\ \/ Expects(q, G) \/ "exchange" \in {tab[q].op, tab[q].for}
         \/ tab[q].nav # "none" \/ tab[q].page = "dashboard"
      /\ tab[q].nav \in Pages \cup {"none"}
      /\ tab[q].phase \in {"idle", "retry"} =>
             tab[q].op # "exchange" /\ tab[q].for # "exchange"
  BY TabOf DEF Comes, Fits
<1>2. SUFFICES \/ Expects(q, G)' \/ "exchange" \in {tab'[q].op, tab'[q].for}
               \/ tab'[q].nav # "none" \/ tab'[q].page = "dashboard"
  BY DEF Comes
<1>3. CASE /\ tab'[q] = tab[q]
           /\ \A m \in Messages : Expects(q, m) => Expects(q, m)'
  BY <1>1, <1>3
<1>4. CASE ActsMove(q) /\ \A m \in Messages : Expects(q, m) => Expects(q, m)'
  <2>1. CASE tab[q].nav # "none" /\ \E n : TabIs(q, n) /\ n.page = Middleware(tab[q].nav)
    BY <1>1, <2>1, ItsOwn, MiddlewareSends
  <2>2. CASE \E n : /\ TabIs(q, n)
                    /\ n.page = tab[q].page /\ n.nav \in {tab[q].nav} \cup Pages
                    /\ \/ tab[q].op # "exchange" /\ tab[q].for # "exchange"
                       \/ n.op = tab[q].op /\ n.for = tab[q].for
                       \/ "exchange" \in {n.op, n.for} \/ n.nav \in Pages
    BY <1>1, <1>4, <2>2, ItsOwn
  <2> QED
    BY <1>1, <1>4, <2>1, <2>2 DEF ActsMove, RestMoves, AtRest, ServesMove, AnswersMove,
           RetriesMove, WandersMove
<1>5. CASE HearsMove(q)
  <2>1. PICK n : /\ TabIs(q, n) /\ n.page = tab[q].page
                 /\ n.nav = "login" \/ n.op = "exchange"
    BY <1>5 DEF HearsMove
  <2> QED
    BY <2>1, ItsOwn
<1>6. CASE OpensMove(q)
  BY <1>6, ItsOwn DEF OpensMove
<1> QED
  BY <1>3, <1>4, <1>5, <1>6, StepOfTab

\* Nothing a tab does makes it forget a sign-in with Google.
THEOREM GoogleIsNotLost == Spec => GoogleNotLost
<1>1. ASSUME TabsInv, [Next]_vars
      PROVE  \A t \in Tabs : Comes(t) /\ cookie # 0 => Comes(t)' \/ cookie' = 0
  BY <1>1, ComesStep
<1>2. TabsInv /\ [Next]_vars
      => [\A t \in Tabs : Comes(t) /\ cookie # 0 => Comes(t)' \/ cookie' = 0]_vars
  BY <1>1
<1> QED
  BY <1>2, TabsInvariant, PTL DEF Spec, GoogleNotLost

\* While a tab is astray the cookie can only be cleared, and no row of a call that was
\* refused comes to life.
LEMMA AstrayCookie ==
    ASSUME TabsInv, [Next]_vars, NEW q \in Tabs, Astray(q), Astray(q)'
    PROVE  /\ cookie' \in {0, cookie}
           /\ \A r \in 0 .. MaxRows :
                 (r # 0 => row[r] # "none") /\ Status(r) # "live" => Status(r)' # "live"
<1>1. cookie' \in {0, cookie} /\ RowsKeep
  BY TabsStep DEF Astray, BrowserMoves
<1>2. ASSUME NEW r \in 0 .. MaxRows, r # 0 => row[r] # "none", Status(r) # "live"
      PROVE  Status(r)' # "live"
  BY <1>1, <1>2, TabsAssumption DEF Status, RowsKeep, Rows
<1> QED
  BY <1>1, <1>2

LEMMA ReturnsStep ==
    ASSUME TabsInv, [Next]_vars, NEW q \in Tabs, Astray(q), Returns(q), Astray(q)'
    PROVE  Returns(q)'
<1> "none" \notin Pages /\ "login" \in Pages
  BY PublicPages
<1>1. /\ tab[q].page = "dashboard" /\ token # "valid"
      /\ Status(cookie) # "live" /\ Status(cookie) # "gone"
      /\ tab'[q].page = "dashboard"
      /\ cookie' \in {0, cookie} /\ cookie \in 0 .. MaxRows
      /\ (cookie # 0 => row[cookie] # "none")
      /\ tab[q].sent \in 0 .. MaxRows /\ (tab[q].sent # 0 => row[tab[q].sent] # "none")
      /\ tab[q].nav \in Pages \cup {"none"}
      /\ tab[q].phase \in {"idle", "retry"} <=> tab[q].op = "none"
  BY AstrayCookie, TabOf DEF Astray, Fits, TabsInv, TabTypeOK
<1>2. /\ Status(cookie)' # "live"
      /\ \A r \in {cookie, tab[q].sent} : Status(r) # "live" => Status(r)' # "live"
  BY <1>1, AstrayCookie DEF Astray
<1>3. CASE tab'[q] = tab[q]
  BY <1>1, <1>2, <1>3 DEF Returns, WaitsFor
<1>4. CASE RestMoves(q)
  <2>1. PICK n : /\ TabIs(q, n) /\ n.nav \in {tab[q].nav} \cup Pages
                 /\ \/ n.due = tab[q].due
                    \/ /\ n.op = "refresh" /\ n.for = "query" /\ n.phase = "sent"
                       /\ n.sent = cookie
    BY <1>1, <1>4 DEF RestMoves
  <2>2. tab[q].phase = "idle" /\ tab[q].op = "none"
    BY <1>1, <1>4 DEF RestMoves, AtRest
  <2>3. tab[q].due \/ (cookie = 0 /\ tab[q].nav # "none")
    BY <2>2 DEF Returns, WaitsFor
  <2> QED
    BY <1>1, <1>2, <2>1, <2>3, ItsOwn DEF Returns, WaitsFor
<1>5. CASE ServesMove(q)
  <2>1. PICK n : /\ TabIs(q, n) /\ n.nav = tab[q].nav /\ n.due = tab[q].due
                 /\ n.op = tab[q].op /\ n.for = tab[q].for /\ n.sent = tab[q].sent
                 /\ tab[q].op = "refresh" /\ Status(tab[q].sent) # "live" => n.phase = "refused"
                 /\ tab[q].op = "giveUp" =>
                       \/ n.phase = "ok"
                       \/ /\ n.phase = "refused"
                          /\ tab[q].sent = 0 \/ Status(tab[q].sent) = "gone"
    BY <1>5 DEF ServesMove
  <2>2. tab[q].phase = "sent" /\ tab'[q] = n /\ Status(0) # "live"
    BY <1>5, <2>1, ItsOwn DEF ServesMove, Status
  <2>3. CASE tab[q].due \/ (cookie = 0 /\ tab[q].nav # "none")
    BY <1>1, <2>1, <2>2, <2>3 DEF Returns
  <2>4. CASE tab[q].op = "refresh" /\ tab[q].for = "query" /\ Status(tab[q].sent) # "live"
    BY <2>1, <2>2, <2>4 DEF Returns, WaitsFor
  <2>5. CASE /\ tab[q].op = "giveUp" /\ tab[q].for = "query"
             /\ tab[q].sent = cookie \/ cookie = 0
    BY <1>1, <2>1, <2>2, <2>5 DEF Returns, WaitsFor
  <2>6. CASE cookie = 0 /\ tab[q].op = "refresh" /\ tab[q].for = "again" /\ tab[q].sent = 0
    BY <1>1, <2>1, <2>2, <2>6 DEF Returns, WaitsFor
  <2> QED
    BY <2>2, <2>3, <2>4, <2>5, <2>6 DEF Returns, WaitsFor
<1>6. CASE AnswersMove(q)
  <2>1. PICK n : /\ TabIs(q, n) /\ n.due = tab[q].due
                 /\ n.nav \in {tab[q].nav} \cup Pages
                 /\ tab[q].op = "refresh" /\ tab[q].phase = "refused" =>
                       /\ n.op = "giveUp" /\ n.phase = "sent" /\ n.for = tab[q].for
                       /\ n.sent = cookie /\ n.nav = "login" /\ cookie' = cookie
                 /\ tab[q].op = "giveUp" /\ tab[q].for = "query" =>
                       /\ n.phase = "retry"
                       /\ tab[q].phase = "ok" => cookie' = 0
    BY <1>6 DEF AnswersMove
  <2>2. tab[q].phase # "sent" /\ tab[q].phase # "retry" /\ tab'[q] = n
    BY <1>6, <2>1, ItsOwn DEF AnswersMove
  <2>3. CASE tab[q].due \/ (cookie = 0 /\ tab[q].nav # "none")
    BY <1>1, <2>1, <2>2, <2>3 DEF Returns
  <2>4. CASE tab[q].op = "refresh" /\ tab[q].phase = "refused"
             /\ (tab[q].for = "query" \/ cookie = 0)
    BY <1>1, <2>1, <2>2, <2>4 DEF Returns, WaitsFor
  <2>5. CASE /\ tab[q].op = "giveUp" /\ tab[q].for = "query"
             /\ tab[q].phase = "ok" \/ cookie = 0
    BY <1>1, <2>1, <2>2, <2>5 DEF Returns
  <2> QED
    BY <2>2, <2>3, <2>4, <2>5 DEF Returns, WaitsFor
<1>7. CASE RetriesMove(q)
  <2>1. PICK n : /\ TabIs(q, n) /\ n.nav = tab[q].nav /\ n.due = tab[q].due
                 /\ n.op = "refresh" /\ n.for = "again" /\ n.phase = "sent"
                 /\ n.sent = cookie
    BY <1>1, <1>7 DEF RetriesMove
  <2>2. tab[q].phase = "retry" /\ tab[q].op = "none" /\ tab'[q] = n
    BY <1>1, <1>7, <2>1, ItsOwn DEF RetriesMove
  <2>3. tab[q].due \/ cookie = 0
    BY <2>2 DEF Returns, WaitsFor
  <2> QED
    BY <1>1, <2>1, <2>2, <2>3 DEF Returns, WaitsFor
<1>8. CASE WandersMove(q)
  <2>1. PICK n : /\ TabIs(q, n)
                 /\ n.op = tab[q].op /\ n.phase = tab[q].phase /\ n.sent = tab[q].sent
                 /\ n.for = tab[q].for
                 /\ \/ n.nav \in {tab[q].nav} \cup Pages /\ (n.due = tab[q].due \/ n.due)
                    \/ /\ tab[q].nav # "none" /\ n.page = Middleware(tab[q].nav)
                       /\ n.page = "dashboard" => n.due = tab[q].due
    BY <1>1, <1>8 DEF WandersMove
  <2>2. tab'[q] = n /\ n.page = "dashboard"
    BY <1>1, <2>1, ItsOwn
  <2>3. \/ n.nav \in {tab[q].nav} \cup Pages /\ (n.due = tab[q].due \/ n.due)
        \/ cookie # 0 /\ n.due = tab[q].due
    BY <1>1, <2>1, <2>2, MiddlewareSends
  <2> QED
    BY <1>1, <1>2, <2>1, <2>2, <2>3 DEF Returns, WaitsFor
<1>9. CASE HearsMove(q)
  <2>1. PICK n : /\ TabIs(q, n) /\ n.due = tab[q].due
                 /\ \/ /\ n.nav = "login"
                       /\ n.op = tab[q].op /\ n.phase = tab[q].phase /\ n.sent = tab[q].sent
                       /\ n.for = tab[q].for
                    \/ tab[q].phase = "idle" /\ n.nav = tab[q].nav
    BY <1>9 DEF HearsMove, AtRest
  <2>2. tab'[q] = n
    BY <2>1, ItsOwn
  <2>3. CASE tab[q].phase = "idle" /\ n.nav = tab[q].nav
    <3>1. tab[q].due \/ (cookie = 0 /\ tab[q].nav # "none")
      BY <1>1, <2>3 DEF Returns, WaitsFor
    <3> QED
      BY <1>1, <2>1, <2>2, <2>3, <3>1 DEF Returns
  <2>4. CASE /\ n.nav = "login"
             /\ n.op = tab[q].op /\ n.phase = tab[q].phase /\ n.sent = tab[q].sent
             /\ n.for = tab[q].for
    BY <1>1, <1>2, <2>1, <2>2, <2>4 DEF Returns, WaitsFor
  <2> QED
    BY <2>1, <2>3, <2>4
<1>10. CASE OpensMove(q)
  <2>1. PICK n : TabIs(q, n) /\ (n.due <=> n.page = "dashboard")
    BY <1>10 DEF OpensMove
  <2> QED
    BY <1>1, <2>1, ItsOwn DEF Returns
<1> QED
  BY <1>3, <1>4, <1>5, <1>6, <1>7, <1>8, <1>9, <1>10, StepOfTab DEF ActsMove

\* Nothing any tab does leaves a tab at the dashboard it should not see.
THEOREM EndedIsNotLost == Spec => EndedNotLost
<1>1. ASSUME TabsInv, [Next]_vars
      PROVE  \A t \in Tabs : Astray(t) /\ Returns(t) => Returns(t)' \/ ~ Astray(t)'
  BY <1>1, ReturnsStep
<1>2. TabsInv /\ [Next]_vars
      => [\A t \in Tabs : Astray(t) /\ Returns(t) => Returns(t)' \/ ~ Astray(t)']_vars
  BY <1>1
<1> QED
  BY <1>2, TabsInvariant, PTL DEF Spec, EndedNotLost
=============================================================================
