----------------------- MODULE WorkspaceMemberProofs -----------------------
(* Theorems about WorkspaceMember, for every set of users and requests.     *)
EXTENDS WorkspaceMember, TLAPS

CommitSteps == {"transfer:commit", "role:commit", "leave:commit", "remove:commit"}

Transferring == {"transfer:target", "transfer:commit"}

\* A request that is about to write a member's row has found that row, a
\* transfer has found its owner's: no handler deletes a membership row, so
\* they still exist when the request commits.
RowsFound ==
    \A r \in MemberRequests :
        /\ request[r].step \in CommitSteps => HasRow(request[r].target)
        /\ request[r].step \in Transferring => HasRow(request[r].actor)

MemberInv == MemberTypeOK /\ OwnerHasRow /\ RowsFound

-----------------------------------------------------------------------------
LEMMA MemberRowUpdate ==
    ASSUME NEW m \in MemberRow
    PROVE  /\ \A s \in {"ACTIVE", "LEFT", "REMOVED"} :
                 [m EXCEPT !.status = s] \in MemberRow
           /\ \A role \in Roles : [m EXCEPT !.role = role] \in MemberRow
BY DEF MemberRow, Roles

LEMMA MemberRowIsNotNoRow == NoRow \notin MemberRow
BY DEF MemberRow, NoRow

LEMMA CallInMemberCall ==
    ASSUME NEW step \in MemberSteps, NEW actor \in Users, NEW target \in Users,
           NEW role \in Roles
    PROVE  /\ Call(step, actor, target, role) \in MemberCall
           /\ Call(step, actor, target, role).step = step
           /\ Call(step, actor, target, role).actor = actor
           /\ Call(step, actor, target, role).target = target
           /\ Call(step, actor, target, role).role = role
BY DEF Call, MemberCall

LEMMA IdleHasNoStep == Idle.step = "idle" /\ "idle" \notin MemberSteps
BY DEF Idle, MemberSteps

\* A request's record after its next query: what it knows must hold of the
\* rows as they are now.
LEMMA RequestMoves ==
    ASSUME MemberInv, NEW r \in MemberRequests, NEW c \in MemberCall \cup {Idle},
           request' = [request EXCEPT ![r] = c],
           member' \in [Users -> MemberRow \cup {NoRow}],
           \A u \in Users : HasRow(u) => HasRow(u)',
           ownerId' \in Users, HasRow(ownerId)',
           c.step \in CommitSteps => HasRow(c.target)',
           c.step \in Transferring => HasRow(c.actor)'
    PROVE  MemberInv'
<1>1. MemberTypeOK'
  BY DEF MemberInv, MemberTypeOK
<1>2. OwnerHasRow'
  BY DEF OwnerHasRow, HasRow
<1>3. ASSUME NEW q \in MemberRequests
      PROVE  /\ request'[q].step \in CommitSteps => HasRow(request[q].target)'
             /\ request'[q].step \in Transferring => HasRow(request[q].actor)'
  <2>1. CASE q = r
    <3>1. request'[q] = c
      BY <2>1 DEF MemberInv, MemberTypeOK
    <3> QED
      BY <3>1 DEF HasRow
  <2>2. CASE q # r
    <3>1. request'[q] = request[q]
      BY <2>2 DEF MemberInv, MemberTypeOK
    <3>2. /\ request[q].step \in CommitSteps => HasRow(request[q].target)
          /\ request[q].step \in Transferring => HasRow(request[q].actor)
      BY DEF MemberInv, RowsFound
    <3>3. \/ request[q] = Idle
          \/ request[q].target \in Users /\ request[q].actor \in Users
      BY DEF MemberInv, MemberTypeOK, MemberCall
    <3>4. CASE request[q] = Idle
      BY <3>1, <3>4, IdleHasNoStep DEF CommitSteps, Transferring, MemberSteps
    <3>5. CASE request[q].target \in Users /\ request[q].actor \in Users
      BY <3>1, <3>2, <3>5 DEF HasRow
    <3> QED
      BY <3>3, <3>4, <3>5
  <2> QED
    BY <2>1, <2>2
<1> QED
  BY <1>1, <1>2, <1>3 DEF MemberInv, RowsFound

\* What the type invariant says of a request that is at one of the steps.
LEMMA RequestAtStep ==
    ASSUME MemberInv, NEW r \in MemberRequests, request[r].step \in MemberSteps
    PROVE  request[r] \in MemberCall
BY IdleHasNoStep DEF MemberInv, MemberTypeOK

\* A step that only reads.
LEMMA RequestReads ==
    ASSUME MemberInv, NEW r \in MemberRequests, NEW c \in MemberCall \cup {Idle},
           request' = [request EXCEPT ![r] = c],
           UNCHANGED <<ownerId, member>>,
           c.step \in CommitSteps => HasRow(c.target),
           c.step \in Transferring => HasRow(c.actor)
    PROVE  MemberInv'
<1>1. /\ member' \in [Users -> MemberRow \cup {NoRow}]
      /\ \A u \in Users : HasRow(u) => HasRow(u)'
      /\ ownerId' \in Users /\ HasRow(ownerId)'
      /\ c.step \in CommitSteps => HasRow(c.target)'
      /\ c.step \in Transferring => HasRow(c.actor)'
  BY DEF MemberInv, MemberTypeOK, OwnerHasRow, HasRow
<1> QED
  BY <1>1, RequestMoves

LEMMA RequestEnds ==
    ASSUME MemberInv, NEW r \in MemberRequests, Done(r),
           UNCHANGED <<ownerId, member>>
    PROVE  MemberInv'
BY RequestReads, IdleHasNoStep DEF Done, CommitSteps, Transferring, MemberSteps

\* A step that writes the row of one user and ends.
LEMMA RequestWrites ==
    ASSUME MemberInv, NEW r \in MemberRequests, Done(r),
           NEW u \in Users, NEW row \in MemberRow,
           member' = [member EXCEPT ![u] = row], UNCHANGED ownerId
    PROVE  MemberInv'
<1>1. member' \in [Users -> MemberRow \cup {NoRow}]
  BY DEF MemberInv, MemberTypeOK
<1>2. \A v \in Users : HasRow(v) => HasRow(v)'
  BY MemberRowIsNotNoRow DEF HasRow, MemberInv, MemberTypeOK
<1>3. ownerId' \in Users /\ HasRow(ownerId)'
  BY <1>2 DEF MemberInv, MemberTypeOK, OwnerHasRow, HasRow
<1> QED
  BY <1>1, <1>2, <1>3, RequestMoves, IdleHasNoStep
     DEF Done, CommitSteps, Transferring, MemberSteps

\* Goto changes the step and nothing else of what the request knows.
LEMMA GotoKeepsCall ==
    ASSUME MemberInv, NEW r \in MemberRequests, request[r] \in MemberCall,
           NEW step \in MemberSteps, Goto(r, step)
    PROVE  \E c \in MemberCall :
              /\ c.step = step
              /\ c.actor = request[r].actor
              /\ c.target = request[r].target
              /\ request' = [request EXCEPT ![r] = c]
<1> DEFINE c == [request[r] EXCEPT !.step = step]
<1>1. /\ c \in MemberCall
      /\ c.step = step
      /\ c.actor = request[r].actor
      /\ c.target = request[r].target
  BY DEF MemberCall
<1>2. request' = [request EXCEPT ![r] = c]
  BY DEF Goto
<1> QED
  BY <1>1, <1>2

-----------------------------------------------------------------------------
LEMMA TransferReadWorkspaceKeeps ==
    ASSUME MemberInv, NEW r \in MemberRequests, NEW u \in Users,
           TransferReadWorkspace(r, u)
    PROVE  MemberInv'
<1> DEFINE c == Call("transfer:target", ownerId, u, "OWNER")
<1>1. ownerId \in Users /\ HasRow(ownerId)
  BY DEF MemberInv, MemberTypeOK, OwnerHasRow
<1>2. /\ c \in MemberCall
      /\ c.step = "transfer:target"
      /\ c.actor = ownerId
  BY <1>1, CallInMemberCall DEF MemberSteps, Roles
<1>3. /\ request' = [request EXCEPT ![r] = c]
      /\ UNCHANGED <<ownerId, member>>
  BY DEF TransferReadWorkspace, Begin
<1> HIDE DEF c
<1> QED
  BY <1>1, <1>2, <1>3, RequestReads DEF CommitSteps

LEMMA TransferReadTargetKeeps ==
    ASSUME MemberInv, NEW r \in MemberRequests, TransferReadTarget(r)
    PROVE  MemberInv'
<1>1. request[r] \in MemberCall
  BY RequestAtStep DEF TransferReadTarget, MemberSteps
<1>2. CASE Done(r)
  BY <1>2, RequestEnds DEF TransferReadTarget
<1>3. CASE IsActive(request[r].target) /\ Goto(r, "transfer:commit")
  <2>1. PICK c \in MemberCall : /\ c.step = "transfer:commit"
                                /\ c.actor = request[r].actor
                                /\ c.target = request[r].target
                                /\ request' = [request EXCEPT ![r] = c]
    BY <1>1, <1>3, GotoKeepsCall DEF MemberSteps
  <2>2. HasRow(c.target)
    BY <1>3, <2>1 DEF IsActive, HasRow, NoRow
  <2>3. HasRow(c.actor)
    BY <2>1 DEF MemberInv, RowsFound, Transferring, TransferReadTarget
  <2> QED
    BY <2>1, <2>2, <2>3, RequestReads DEF TransferReadTarget
<1> QED
  BY <1>2, <1>3 DEF TransferReadTarget

\* The rows after the two updates of the transaction.
LEMMA TransferRows ==
    ASSUME MemberInv, NEW r \in MemberRequests, TransferCommit(r)
    PROVE  /\ request[r].actor \in Users
           /\ request[r].target \in Users
           /\ member' \in [Users -> MemberRow \cup {NoRow}]
           /\ member'[request[r].target] \in MemberRow
           /\ \A u \in Users : HasRow(u) => HasRow(u)'
           /\ \A u \in Users :
                 member'[u].role = IF u = request[r].target THEN "OWNER"
                                   ELSE IF u = request[r].actor THEN "MEMBER"
                                   ELSE member[u].role
<1> DEFINE actor  == request[r].actor
           target == request[r].target
           first  == [member EXCEPT ![actor].role = "MEMBER"]
<1>1. actor \in Users /\ target \in Users
  BY RequestAtStep DEF TransferCommit, MemberSteps, MemberCall
<1>2. member \in [Users -> MemberRow \cup {NoRow}]
  BY DEF MemberInv, MemberTypeOK
<1>3. HasRow(actor) /\ HasRow(target)
  BY DEF MemberInv, RowsFound, TransferCommit, CommitSteps, Transferring
<1>4. member[actor] \in MemberRow /\ member[target] \in MemberRow
  BY <1>1, <1>2, <1>3 DEF HasRow
<1>5. /\ first \in [Users -> MemberRow \cup {NoRow}]
      /\ first[actor] \in MemberRow /\ first[target] \in MemberRow
      /\ first[actor].role = "MEMBER"
      /\ \A u \in Users \ {actor} : first[u] = member[u]
  <2>1. [member[actor] EXCEPT !.role = "MEMBER"] \in MemberRow
    BY <1>4, MemberRowUpdate DEF Roles
  <2>2. [member[actor] EXCEPT !.role = "MEMBER"].role = "MEMBER"
    BY <1>4 DEF MemberRow
  <2> QED
    BY <1>1, <1>2, <1>4, <2>1, <2>2
<1>6. [first[target] EXCEPT !.role = "OWNER"] \in MemberRow
  BY <1>5, MemberRowUpdate DEF Roles
<1>7. [first[target] EXCEPT !.role = "OWNER"].role = "OWNER"
  BY <1>5 DEF MemberRow
<1>8. member' = [first EXCEPT ![target] = [first[target] EXCEPT !.role = "OWNER"]]
  BY <1>1, <1>2 DEF TransferCommit
<1> HIDE DEF first
<1>9. /\ member' \in [Users -> MemberRow \cup {NoRow}]
      /\ member'[target] \in MemberRow
  BY <1>1, <1>5, <1>6, <1>8
<1>10. \A u \in Users : HasRow(u) => HasRow(u)'
  BY <1>1, <1>4, <1>5, <1>6, <1>8, MemberRowIsNotNoRow DEF HasRow
<1>11. \A u \in Users : member'[u].role = IF u = target THEN "OWNER"
                                          ELSE IF u = actor THEN "MEMBER"
                                          ELSE member[u].role
  BY <1>1, <1>5, <1>7, <1>8
<1> QED
  BY <1>1, <1>9, <1>10, <1>11

LEMMA TransferCommitKeeps ==
    ASSUME MemberInv, NEW r \in MemberRequests, TransferCommit(r)
    PROVE  MemberInv'
<1>1. ownerId' = request[r].target
  BY DEF TransferCommit
<1>2. request' = [request EXCEPT ![r] = Idle]
  BY DEF TransferCommit, Done
<1>3. ownerId' \in Users /\ HasRow(ownerId)'
  BY <1>1, TransferRows, MemberRowIsNotNoRow DEF HasRow
<1> QED
  BY <1>2, <1>3, TransferRows, RequestMoves, IdleHasNoStep
     DEF CommitSteps, Transferring, MemberSteps

\* The steps that read a member's row before they write it.
LEMMA MemberReadKeeps ==
    ASSUME MemberInv, NEW r \in MemberRequests, NEW u \in Users, NEW role \in Roles,
           RoleRead(r, u, role) \/ LeaveRead(r, u) \/ RemoveRead(r, u)
    PROVE  MemberInv'
<1>1. IsActive(u) /\ UNCHANGED <<ownerId, member>>
  BY DEF RoleRead, LeaveRead, RemoveRead
<1>2. HasRow(u)
  BY <1>1 DEF IsActive, HasRow, NoRow
<1>3. \E step \in {"role:commit", "leave:commit", "remove:commit"}, p \in Roles :
         request' = [request EXCEPT ![r] = Call(step, u, u, p)]
  BY DEF RoleRead, LeaveRead, RemoveRead, Begin, Roles
<1>4. PICK step \in {"role:commit", "leave:commit", "remove:commit"}, p \in Roles :
         request' = [request EXCEPT ![r] = Call(step, u, u, p)]
  BY <1>3
<1>5. /\ Call(step, u, u, p) \in MemberCall
      /\ Call(step, u, u, p).step = step
      /\ Call(step, u, u, p).target = u
  BY CallInMemberCall DEF MemberSteps
<1> QED
  BY <1>1, <1>2, <1>4, <1>5, RequestReads DEF Transferring

\* The steps that write one member's row.
LEMMA MemberCommitKeeps ==
    ASSUME MemberInv, NEW r \in MemberRequests,
           RoleCommit(r) \/ LeaveCommit(r) \/ RemoveCommit(r)
    PROVE  MemberInv'
<1> DEFINE u == request[r].target
<1>1. request[r] \in MemberCall
  BY RequestAtStep DEF RoleCommit, LeaveCommit, RemoveCommit, MemberSteps
<1>2. u \in Users /\ request[r].role \in Roles
  BY <1>1 DEF MemberCall
<1>3. HasRow(u)
  BY DEF MemberInv, RowsFound, CommitSteps, RoleCommit, LeaveCommit, RemoveCommit
<1>4. member[u] \in MemberRow
  BY <1>2, <1>3 DEF MemberInv, MemberTypeOK, HasRow
<1>5. CASE RoleCommit(r)
  <2>1. [member[u] EXCEPT !.role = request[r].role] \in MemberRow
    BY <1>2, <1>4, MemberRowUpdate
  <2> QED
    BY <1>2, <1>5, <2>1, RequestWrites DEF RoleCommit
<1>6. CASE LeaveCommit(r)
  <2>1. [member[u] EXCEPT !.status = "LEFT"] \in MemberRow
    BY <1>4, MemberRowUpdate
  <2> QED
    BY <1>2, <1>6, <2>1, RequestWrites DEF LeaveCommit
<1>7. CASE RemoveCommit(r)
  <2>1. [member[u] EXCEPT !.status = "REMOVED"] \in MemberRow
    BY <1>4, MemberRowUpdate
  <2> QED
    BY <1>2, <1>7, <2>1, RequestWrites DEF RemoveCommit
<1> QED
  BY <1>5, <1>6, <1>7

-----------------------------------------------------------------------------
LEMMA MemberInitInv == MemberInit => MemberInv
<1> SUFFICES ASSUME MemberInit PROVE MemberInv
  OBVIOUS
<1>1. MemberTypeOK
  BY MemberAssumption DEF MemberInit, MemberTypeOK
<1>2. OwnerHasRow
  BY MemberAssumption DEF MemberInit, OwnerHasRow, HasRow, NoRow
<1>3. \A r \in MemberRequests : request[r].step = "idle"
  BY IdleHasNoStep DEF MemberInit
<1> QED
  BY <1>1, <1>2, <1>3 DEF MemberInv, RowsFound, CommitSteps, Transferring

LEMMA MemberNextInv == MemberInv /\ [MemberNext]_memberVars => MemberInv'
<1> SUFFICES ASSUME MemberInv, [MemberNext]_memberVars PROVE MemberInv'
  OBVIOUS
<1>1. ASSUME NEW r \in MemberRequests, MemberStep(r) PROVE MemberInv'
  BY <1>1, TransferReadTargetKeeps, TransferCommitKeeps, MemberReadKeeps,
     MemberCommitKeeps DEF MemberStep, Roles
<1>2. ASSUME NEW r \in MemberRequests, RequestFails(r) PROVE MemberInv'
  BY <1>2, RequestEnds DEF RequestFails
<1>3. ASSUME NEW r \in TransferRequests, Transfer(r) PROVE MemberInv'
  BY <1>3, MemberAssumption, TransferReadWorkspaceKeeps DEF Transfer
<1>4. CASE UNCHANGED memberVars
  BY <1>4 DEF memberVars, MemberInv, MemberTypeOK, OwnerHasRow, RowsFound, HasRow
<1> QED
  BY <1>1, <1>2, <1>3, <1>4 DEF MemberNext

THEOREM MemberInvariant == MemberSpec => []MemberInv
<1> QED
  BY MemberInitInv, MemberNextInv, PTL DEF MemberSpec

\* The tables hold rows of the schema whatever requests of members race.
THEOREM MemberTypeCorrect == MemberSpec => []MemberTypeOK
<1>1. MemberInv => MemberTypeOK
  BY DEF MemberInv
<1> QED
  BY <1>1, MemberInvariant, PTL

\* workspaces.ownerId names a user with a membership row, whatever requests
\* race: transferOwnership never leaves it pointing outside the workspace.
THEOREM OwnerAlwaysHasRow == MemberSpec => []OwnerHasRow
<1>1. MemberInv => OwnerHasRow
  BY DEF MemberInv
<1> QED
  BY <1>1, MemberInvariant, PTL

-----------------------------------------------------------------------------
(* Which steps change the ownerId, and which change nothing of it.          *)

LEMMA OwnerChangesByTransfer ==
    ASSUME MemberNext, ownerId' # ownerId
    PROVE  \E r \in MemberRequests : TransferCommit(r)
BY DEF MemberNext, MemberStep, RequestFails, Transfer, TransferReadWorkspace,
       TransferReadTarget, RoleCommit, LeaveCommit, RemoveCommit, LeaveRead,
       RemoveRead, RoleRead

\* A change of the ownerId gives the new owner the role OWNER in the same
\* step, whatever happened to the row since the target was read.
THEOREM NewOwnerIsPromoted == MemberSpec => TransferPromotes
<1>1. MemberInv /\ [MemberNext]_memberVars
      => [ownerId' # ownerId => member'[ownerId'].role = "OWNER"]_memberVars
  <2> SUFFICES ASSUME MemberInv, MemberNext, ownerId' # ownerId
               PROVE  member'[ownerId'].role = "OWNER"
    BY DEF memberVars
  <2>1. PICK r \in MemberRequests : TransferCommit(r)
    BY OwnerChangesByTransfer
  <2>2. ownerId' = request[r].target
    BY <2>1 DEF TransferCommit
  <2> QED
    BY <2>1, <2>2, TransferRows
<1> QED
  BY <1>1, MemberInvariant, PTL DEF MemberSpec, TransferPromotes

-----------------------------------------------------------------------------
(* One transfer at a time.                                                  *)

\* The owner has not changed since the transfer under way read it, and a role
\* that is about to be written is not OWNER.
TransferIsCurrent ==
    \A r \in MemberRequests :
        /\ request[r].step \in Transferring
           => r \in TransferRequests /\ request[r].actor = ownerId
        /\ request[r].step = "role:commit" => request[r].role # "OWNER"

SoleOwnerInv == SoleOwnerRole /\ TransferIsCurrent

LEMMA SoleOwnerInit == MemberInit => SoleOwnerInv
<1> SUFFICES ASSUME MemberInit PROVE SoleOwnerInv
  OBVIOUS
<1>1. SoleOwnerRole
  <2> SUFFICES ASSUME NEW u \in Users, u # Founder PROVE member[u].role # "OWNER"
    BY DEF MemberInit, SoleOwnerRole
  <2> QED
    BY DEF MemberInit
<1>2. \A r \in MemberRequests : request[r].step = "idle"
  BY IdleHasNoStep DEF MemberInit
<1> QED
  BY <1>1, <1>2 DEF SoleOwnerInv, TransferIsCurrent, Transferring

\* A step of r that leaves ownerId alone keeps what is said of the others.
LEMMA OtherRequestsStayCurrent ==
    ASSUME MemberInv, TransferIsCurrent, UNCHANGED ownerId,
           NEW r \in MemberRequests, NEW c,
           request' = [request EXCEPT ![r] = c],
           c.step \in Transferring => r \in TransferRequests /\ c.actor = ownerId,
           c.step = "role:commit" => c.role # "OWNER"
    PROVE  TransferIsCurrent'
<1>1. \A q \in MemberRequests : request'[q] = IF q = r THEN c ELSE request[q]
  BY DEF MemberInv, MemberTypeOK
<1> QED
  BY <1>1 DEF TransferIsCurrent

LEMMA SoleOwnerNext ==
    ASSUME \A r, s \in TransferRequests : r = s
    PROVE  MemberInv /\ SoleOwnerInv /\ [MemberNext]_memberVars => SoleOwnerInv'
<1> SUFFICES ASSUME MemberInv, SoleOwnerInv, [MemberNext]_memberVars
             PROVE  SoleOwnerInv'
  OBVIOUS
<1> USE DEF SoleOwnerInv
<1>1. ASSUME NEW r \in MemberRequests, Done(r), UNCHANGED ownerId
      PROVE  TransferIsCurrent'
  BY <1>1, OtherRequestsStayCurrent, IdleHasNoStep
     DEF Done, Transferring, MemberSteps
<1>2. ASSUME NEW r \in MemberRequests, TransferReadTarget(r) PROVE SoleOwnerInv'
  <2>1. SoleOwnerRole'
    BY <1>2 DEF TransferReadTarget, SoleOwnerRole
  <2>2. CASE Done(r)
    BY <1>1, <1>2, <2>1, <2>2 DEF TransferReadTarget
  <2>3. CASE Goto(r, "transfer:commit")
    <3>1. request[r] \in MemberCall
      BY <1>2, RequestAtStep DEF TransferReadTarget, MemberSteps
    <3>2. PICK c \in MemberCall : /\ c.step = "transfer:commit"
                                  /\ c.actor = request[r].actor
                                  /\ c.target = request[r].target
                                  /\ request' = [request EXCEPT ![r] = c]
      BY <2>3, <3>1, GotoKeepsCall DEF MemberSteps
    <3>3. r \in TransferRequests /\ request[r].actor = ownerId
      BY <1>2 DEF TransferIsCurrent, TransferReadTarget, Transferring
    <3> QED
      BY <1>2, <2>1, <3>2, <3>3, OtherRequestsStayCurrent DEF TransferReadTarget
  <2> QED
    BY <1>2, <2>2, <2>3 DEF TransferReadTarget
<1>3. ASSUME NEW r \in MemberRequests, TransferCommit(r) PROVE SoleOwnerInv'
  <2>1. r \in TransferRequests /\ request[r].actor = ownerId
    BY <1>3 DEF TransferIsCurrent, TransferCommit, Transferring
  <2>2. ownerId' = request[r].target
    BY <1>3 DEF TransferCommit
  <2>3. SoleOwnerRole'
    BY <1>3, <2>1, <2>2, TransferRows DEF SoleOwnerRole
  <2>4. \A q \in MemberRequests : request'[q] = IF q = r THEN Idle ELSE request[q]
    BY <1>3 DEF TransferCommit, Done, MemberInv, MemberTypeOK
  <2>5. \A q \in MemberRequests : request'[q].step \notin Transferring
    BY <2>1, <2>4, IdleHasNoStep DEF TransferIsCurrent, Transferring, MemberSteps
  <2>6. \A q \in MemberRequests :
           request'[q].step = "role:commit" => request'[q].role # "OWNER"
    BY <2>4, IdleHasNoStep DEF TransferIsCurrent, MemberSteps
  <2> QED
    BY <2>3, <2>5, <2>6 DEF TransferIsCurrent
<1>4. ASSUME NEW r \in MemberRequests, RoleCommit(r) PROVE SoleOwnerInv'
  <2>1. request[r].target \in Users /\ request[r].role # "OWNER"
    BY <1>4, RequestAtStep DEF RoleCommit, MemberSteps, MemberCall, TransferIsCurrent
  <2>2. HasRow(request[r].target)
    BY <1>4 DEF MemberInv, RowsFound, CommitSteps, RoleCommit
  <2>3. SoleOwnerRole'
    BY <1>4, <2>1, <2>2
       DEF RoleCommit, SoleOwnerRole, HasRow, MemberInv, MemberTypeOK, MemberRow
  <2> QED
    BY <1>1, <1>4, <2>3 DEF RoleCommit
<1>5. ASSUME NEW r \in MemberRequests, LeaveCommit(r) \/ RemoveCommit(r)
      PROVE  SoleOwnerInv'
  <2>1. \A u \in Users : member'[u].role = member[u].role
    <3>1. request[r].target \in Users
      BY <1>5, RequestAtStep DEF LeaveCommit, RemoveCommit, MemberSteps, MemberCall
    <3>2. member[request[r].target] \in MemberRow
      BY <1>5, <3>1 DEF MemberInv, MemberTypeOK, RowsFound, CommitSteps, HasRow,
                        LeaveCommit, RemoveCommit
    <3> QED
      BY <1>5, <3>1, <3>2
         DEF LeaveCommit, RemoveCommit, MemberInv, MemberTypeOK, MemberRow
  <2> QED
    BY <1>1, <1>5, <2>1 DEF LeaveCommit, RemoveCommit, SoleOwnerRole
<1>6. ASSUME NEW r \in MemberRequests, NEW u \in Users, NEW role \in Roles,
             RoleRead(r, u, role) \/ LeaveRead(r, u) \/ RemoveRead(r, u)
      PROVE  SoleOwnerInv'
  <2>1. UNCHANGED <<ownerId, member>>
    BY <1>6 DEF RoleRead, LeaveRead, RemoveRead
  <2>2. \E step \in {"role:commit", "leave:commit", "remove:commit"},
            p \in Roles \ {"OWNER"} :
               request' = [request EXCEPT ![r] = Call(step, u, u, p)]
    BY <1>6 DEF RoleRead, LeaveRead, RemoveRead, Begin, Roles
  <2>3. PICK step \in {"role:commit", "leave:commit", "remove:commit"},
             p \in Roles \ {"OWNER"} :
               request' = [request EXCEPT ![r] = Call(step, u, u, p)]
    BY <2>2
  <2>4. Call(step, u, u, p).step = step /\ Call(step, u, u, p).role = p
    BY CallInMemberCall DEF MemberSteps
  <2> QED
    BY <2>1, <2>3, <2>4, OtherRequestsStayCurrent DEF SoleOwnerRole, Transferring
<1>7. ASSUME NEW r \in TransferRequests, Transfer(r) PROVE SoleOwnerInv'
  <2>1. PICK u \in Users : TransferReadWorkspace(r, u)
    BY <1>7 DEF Transfer
  <2> DEFINE c == Call("transfer:target", ownerId, u, "OWNER")
  <2>2. c.step = "transfer:target" /\ c.actor = ownerId
    BY CallInMemberCall DEF MemberInv, MemberTypeOK, MemberSteps, Roles
  <2>3. request' = [request EXCEPT ![r] = c] /\ UNCHANGED <<ownerId, member>>
    BY <2>1 DEF TransferReadWorkspace, Begin
  <2> HIDE DEF c
  <2> QED
    BY <2>2, <2>3, MemberAssumption, OtherRequestsStayCurrent DEF SoleOwnerRole
<1>8. ASSUME NEW r \in MemberRequests, RequestFails(r) PROVE SoleOwnerInv'
  BY <1>1, <1>8 DEF RequestFails, SoleOwnerRole
<1>9. CASE UNCHANGED memberVars
  BY <1>9 DEF memberVars, SoleOwnerRole, TransferIsCurrent
<1> QED
  BY <1>2, <1>3, <1>4, <1>5, <1>6, <1>7, <1>8, <1>9
     DEF MemberNext, MemberStep, Roles

\* When transfers of the ownership do not overlap, the role OWNER is never held
\* by anybody but the ownerId, whatever other requests of members race.
THEOREM SoleOwnerWithoutOverlap ==
    ASSUME \A r, s \in TransferRequests : r = s
    PROVE  MemberSpec => []SoleOwnerRole
<1>1. MemberInv /\ SoleOwnerInv /\ [MemberNext]_memberVars => SoleOwnerInv'
  BY SoleOwnerNext
<1>2. SoleOwnerInv => SoleOwnerRole
  BY DEF SoleOwnerInv
<1> QED
  BY <1>1, <1>2, SoleOwnerInit, MemberInvariant, PTL DEF MemberSpec
=============================================================================
