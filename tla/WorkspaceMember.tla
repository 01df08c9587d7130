-------------------------- MODULE WorkspaceMember --------------------------
(***************************************************************************)
(* Membership and ownership of one workspace, as WorkspaceMemberService    *)
(* and WorkspaceMemberRepository keep them in the tables workspaces        *)
(* (ownerId) and workspace_members (status, role).                         *)
(*                                                                         *)
(* A handler is a sequence of awaited queries.  Handlers of different      *)
(* HTTP requests interleave between two queries, so a request is modelled  *)
(* by one step per query that reads a row another request may write, and   *)
(* by one step for the write or the transaction that ends it.  What a      *)
(* request has read is kept in request[r] until then.                      *)
(***************************************************************************)
CONSTANTS
    Users,            \* the accounts that may belong to the workspace
    Founder,          \* the account that created it
    MemberRequests,   \* the requests in flight that may change a membership
    TransferRequests  \* those of them that may transfer the ownership

ASSUME MemberAssumption ==
    /\ Founder \in Users
    /\ TransferRequests \subseteq MemberRequests

VARIABLES
    ownerId,          \* workspaces.ownerId
    member,           \* workspace_members: the row of each user
    request           \* the requests in flight

memberVars == <<ownerId, member, request>>

-----------------------------------------------------------------------------
(* The rows. [workspaceId, userId] is unique, hence a function of the user. *)

Roles == {"OWNER", "ADMIN", "MEMBER"}

MemberRow == [status : {"ACTIVE", "LEFT", "REMOVED"}, role : Roles]

NoRow == [status |-> "NONE", role |-> "NONE"]

HasRow(u) == member[u] # NoRow

\* findByWorkspaceAndUser filters on the status ACTIVE.
IsActive(u) == member[u].status = "ACTIVE"

\* findInactiveByWorkspaceAndUser
IsInactive(u) == member[u].status \in {"LEFT", "REMOVED"}

-----------------------------------------------------------------------------
(* The requests: the next step, the users it is about, and what was read.  *)

MemberSteps == {"transfer:target", "transfer:commit", "role:commit",
                "leave:commit", "remove:commit"}

MemberCall == [step : MemberSteps, actor : Users, target : Users, role : Roles]

Idle == [step |-> "idle", actor |-> Founder, target |-> Founder, role |-> "MEMBER"]

Call(step, actor, target, role) ==
    [step |-> step, actor |-> actor, target |-> target, role |-> role]

\* Request r goes on to the given step, or ends.
Goto(r, step) == request' = [request EXCEPT ![r].step = step]
Done(r)       == request' = [request EXCEPT ![r] = Idle]
Begin(r, c)   == /\ request[r] = Idle
                 /\ request' = [request EXCEPT ![r] = c]

-----------------------------------------------------------------------------
(* transferOwnership                                                       *)

\* The workspace is read: the caller is its owner and names somebody else.
TransferReadWorkspace(r, target) ==
    /\ target # ownerId
    /\ Begin(r, Call("transfer:target", ownerId, target, "OWNER"))
    /\ UNCHANGED <<ownerId, member>>

\* The target's membership is read: 404 unless it is active.
TransferReadTarget(r) ==
    /\ request[r].step = "transfer:target"
    /\ \/ IsActive(request[r].target) /\ Goto(r, "transfer:commit")
       \/ ~ IsActive(request[r].target) /\ Done(r)
    /\ UNCHANGED <<ownerId, member>>

\* Mutant of TransferCommit: the actor keeps the role.
TransferWithoutDemotion(r) ==
    /\ request[r].step = "transfer:commit"
    /\ member' = [member EXCEPT ![request[r].target].role = "OWNER"]
    /\ ownerId' = request[r].target
    /\ Done(r)

\* One transaction: two role updates, by (workspace, user) whatever the status,
\* and the new ownerId.
TransferCommit(r) ==
    LET actor  == request[r].actor
        target == request[r].target
    IN  /\ request[r].step = "transfer:commit"
        /\ member' = [member EXCEPT ![actor].role = "MEMBER",
                                    ![target].role = "OWNER"]
        /\ ownerId' = target
        /\ Done(r)

-----------------------------------------------------------------------------
(* updateWorkspaceMemberRole                                               *)

\* An active member gets another role, which may not be OWNER.
RoleRead(r, target, role) ==
    /\ IsActive(target)
    /\ role \notin {member[target].role, "OWNER"}
    /\ Begin(r, Call("role:commit", target, target, role))
    /\ UNCHANGED <<ownerId, member>>

RoleCommit(r) ==
    /\ request[r].step = "role:commit"
    /\ member' = [member EXCEPT ![request[r].target].role = request[r].role]
    /\ Done(r)
    /\ UNCHANGED ownerId

-----------------------------------------------------------------------------
(* leaveWorkspace and removeWorkspaceMember                                *)

\* Both read an active member whose role is not OWNER.
LeaveRead(r, u) ==
    /\ IsActive(u)
    /\ member[u].role # "OWNER"
    /\ Begin(r, Call("leave:commit", u, u, "MEMBER"))
    /\ UNCHANGED <<ownerId, member>>

\* Mutant of LeaveCommit: the row is deleted.
LeaveDeletes(r) ==
    /\ request[r].step = "leave:commit"
    /\ member' = [member EXCEPT ![request[r].target] = NoRow]
    /\ Done(r)
    /\ UNCHANGED ownerId

LeaveCommit(r) ==
    /\ request[r].step = "leave:commit"
    /\ member' = [member EXCEPT ![request[r].target].status = "LEFT"]
    /\ Done(r)
    /\ UNCHANGED ownerId

RemoveRead(r, u) ==
    /\ IsActive(u)
    /\ member[u].role # "OWNER"
    /\ Begin(r, Call("remove:commit", u, u, "MEMBER"))
    /\ UNCHANGED <<ownerId, member>>

RemoveCommit(r) ==
    /\ request[r].step = "remove:commit"
    /\ member' = [member EXCEPT ![request[r].target].status = "REMOVED"]
    /\ Done(r)
    /\ UNCHANGED ownerId

-----------------------------------------------------------------------------
\* A request in flight ends early: a query fails, the transaction is rolled
\* back, or the process dies before its commit.
RequestFails(r) ==
    /\ request[r] # Idle
    /\ Done(r)
    /\ UNCHANGED <<ownerId, member>>

\* The founder's row is created with the workspace; the others are rows that
\* accepted invitations have left behind, at any later point of their life.
MemberInit ==
    /\ ownerId = Founder
    /\ member \in {m \in [Users -> MemberRow \cup {NoRow}] :
                     /\ m[Founder] = [status |-> "ACTIVE", role |-> "OWNER"]
                     /\ \A u \in Users \ {Founder} : m[u].role # "OWNER"}
    /\ request = [r \in MemberRequests |-> Idle]

MemberStep(r) ==
    \/ TransferReadTarget(r)
    \/ TransferCommit(r)
    \/ RoleCommit(r)
    \/ LeaveCommit(r)
    \/ RemoveCommit(r)
    \/ \E u \in Users :
          \/ LeaveRead(r, u)
          \/ RemoveRead(r, u)
          \/ \E role \in Roles : RoleRead(r, u, role)

Transfer(r) == \E u \in Users : TransferReadWorkspace(r, u)

MemberNext ==
    \/ \E r \in MemberRequests : MemberStep(r) \/ RequestFails(r)
    \/ \E r \in TransferRequests : Transfer(r)

MemberSpec == MemberInit /\ [][MemberNext]_memberVars

-----------------------------------------------------------------------------
(* Properties                                                              *)

\* The tables hold rows of the schema, a request what its handler has read.
MemberTypeOK ==
    /\ ownerId \in Users
    /\ member \in [Users -> MemberRow \cup {NoRow}]
    /\ request \in [MemberRequests -> MemberCall \cup {Idle}]

\* workspaces.ownerId always names a user who has a membership row in the
\* workspace: a transfer commits for a target that was a member when it was
\* read, whatever was done to that member since.
OwnerHasRow == HasRow(ownerId)

\* The role OWNER is held by the workspace's ownerId and by nobody else: the
\* two tables that record the owner do not disagree by naming two owners.
SoleOwnerRole == \A u \in Users : member[u].role = "OWNER" => u = ownerId

\* Whoever becomes ownerId gets the role OWNER in the same transaction.
TransferPromotes ==
    [][ownerId' # ownerId => member'[ownerId'].role = "OWNER"]_memberVars

\* The owner is an active member: nobody becomes or stays the owner of a
\* workspace they have left or were removed from.
OwnerIsActive == IsActive(ownerId)
=============================================================================
