------------------------- MODULE MembershipContract -------------------------
(***************************************************************************)
(* What the membership and invitation endpoints of a workspace promise     *)
(* when each call takes effect in one step: every status an endpoint       *)
(* checks before it writes is still the status the moment it writes.       *)
(*                                                                         *)
(* WorkspaceInvitation implements it as long as one request is in flight   *)
(* at a time and the expiration job is idle.                               *)
(***************************************************************************)
CONSTANTS Users, Roles, Invitations, Nobody

VARIABLES
    owner,        \* who owns the workspace
    members,      \* the status and role of each user, or Nobody
    invitations,  \* the status, user and role of each invitation
    overdue       \* the invitations past their deadlines

contractVars == <<owner, members, invitations, overdue>>

Active(u)  == members[u].status = "ACTIVE"
Pending(i) == invitations[i].status = "PENDING"

\* An invitation leaves PENDING once and for all.
Close(i, status) ==
    /\ Pending(i)
    /\ invitations' = [invitations EXCEPT ![i].status = status]

-----------------------------------------------------------------------------
\* At most one invitation that could still be accepted per user, and none for
\* an active member.
Invite(i, u, role) ==
    /\ invitations[i].status = "NONE"
    /\ ~ Active(u)
    /\ \A j \in Invitations :
          Pending(j) /\ invitations[j].user = u => j \in overdue
    /\ invitations' = [invitations EXCEPT ![i] =
                         [status |-> "PENDING", user |-> u, role |-> role]]
    /\ UNCHANGED <<owner, members, overdue>>

\* A user who is not an active member becomes one, with the role offered.
Accept(i, u) ==
    /\ ~ Active(u)
    /\ Close(i, "ACCEPTED")
    /\ members' = [members EXCEPT ![u] =
                     [status |-> "ACTIVE", role |-> invitations[i].role]]
    /\ UNCHANGED <<owner, overdue>>

Decline(i) == Close(i, "DECLINED") /\ UNCHANGED <<owner, members, overdue>>

Revoke(i) == Close(i, "REVOKED") /\ UNCHANGED <<owner, members, overdue>>

Expire(i) ==
    /\ i \in overdue
    /\ Close(i, "EXPIRED")
    /\ UNCHANGED <<owner, members, overdue>>

PassDeadline(i) ==
    /\ overdue' = overdue \cup {i}
    /\ UNCHANGED <<owner, members, invitations>>

-----------------------------------------------------------------------------
\* The ownership goes to another active member; nobody else has the role.
TransferTo(u) ==
    /\ u # owner
    /\ Active(u)
    /\ owner' = u
    /\ members' = [members EXCEPT ![owner].role = "MEMBER", ![u].role = "OWNER"]
    /\ UNCHANGED <<invitations, overdue>>

\* The role OWNER is never given to a member this way.
ChangeRole(u, role) ==
    /\ Active(u)
    /\ role # "OWNER"
    /\ members' = [members EXCEPT ![u].role = role]
    /\ UNCHANGED <<owner, invitations, overdue>>

\* A member who leaves or is removed does not have the role OWNER.
Depart(u, status) ==
    /\ Active(u)
    /\ members[u].role # "OWNER"
    /\ members' = [members EXCEPT ![u].status = status]
    /\ UNCHANGED <<owner, invitations, overdue>>

-----------------------------------------------------------------------------
ContractInit ==
    /\ owner \in Users
    /\ members = [u \in Users |->
                    IF u = owner THEN [status |-> "ACTIVE", role |-> "OWNER"]
                    ELSE Nobody]
    /\ \A i \in Invitations : invitations[i].status = "NONE"
    /\ overdue = {}

ContractNext ==
    \/ \E i \in Invitations :
          \/ Decline(i) \/ Revoke(i) \/ Expire(i) \/ PassDeadline(i)
          \/ \E u \in Users :
                Accept(i, u) \/ \E role \in Roles : Invite(i, u, role)
    \/ \E u \in Users :
          \/ TransferTo(u)
          \/ \E role \in Roles : ChangeRole(u, role)
          \/ \E status \in {"LEFT", "REMOVED"} : Depart(u, status)

ContractSpec == ContractInit /\ [][ContractNext]_contractVars
=============================================================================
