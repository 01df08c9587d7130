---------------------------- MODULE MemberPages ----------------------------
(***************************************************************************)
(* The members page of the dashboard, open in a tab of each of several     *)
(* users: what it has read and keeps in its cache for five minutes, what   *)
(* it offers because of that, and the requests to WorkspaceMemberService   *)
(* that the clicks send.                                                   *)
(*                                                                         *)
(* The guard of a route lets pass whoever has the permission in any        *)
(* workspace, and every verified account has one of its own: no click is   *)
(* stopped by it here.  A click the service refuses changes nothing.       *)
(***************************************************************************)
EXTENDS WorkspaceMember

Api == INSTANCE Endpoints

CONSTANT Viewers   \* the users with a tab on the page

\* "detail" is the name of a query, the others are named by the member.
ASSUME ViewersAssumption == Viewers \subseteq Users /\ "detail" \notin Users

VARIABLES
    detail,    \* ['workspace', 'detail']: the viewer's role, "none" without a workspace
    sheet,     \* ['workspace-member', id]: the role of each member, "none" if not cached
    click,     \* for each request the viewer who sent it, and how it was answered
    behind,    \* history: what of this another tab has changed since it was read
    overtaken  \* history: a click came from a page left behind, or while another was
               \* being handled

pageVars == <<detail, sheet, click, behind, overtaken>>

-----------------------------------------------------------------------------
NoClick == [user |-> Founder, reply |-> "none"]

ClickState == [user : Viewers, reply : {"awaited", "ok", "failed"}]

Quiet == \A r \in MemberRequests : click[r] = NoClick

\* What a member's row shows to the queries; a membership that ended shows its
\* role only to the query of the workspace, while the list still names it.
RoleOf(u) == IF IsActive(u) THEN member[u].role ELSE "none"

-----------------------------------------------------------------------------
(* What the page offers                                                    *)

Has(u, permission) ==
    detail[u] # "none" /\ permission \in Api!RolePermissions[detail[u]]

Seen(u, t) == detail[u] # "none" /\ sheet[u][t] # "none"

CanTransferOwnership(u, t) ==
    detail[u] = "OWNER" /\ t # u /\ sheet[u][t] # "OWNER"

\* The dialog lists the other roles but OWNER.
CanUpdateRole(u, t, role) ==
    /\ Has(u, "member.update")
    /\ detail[u] = "OWNER" /\ t # u /\ sheet[u][t] # "OWNER"
    /\ role \notin {"OWNER", sheet[u][t]}

CanRemoveMember(u, t) ==
    /\ Has(u, "member.remove")
    /\ detail[u] \in {"OWNER", "ADMIN"} /\ t # u /\ sheet[u][t] # "OWNER"

\* Mutant of CanLeaveWorkspace: also who owns the workspace.
CanAlwaysLeave(u, t) == t = u

CanLeaveWorkspace(u, t) == t = u /\ detail[u] # "OWNER"

\* The request that a click on what is offered sends, as the service begins it.
Sends(r, u, t) ==
    \/ CanTransferOwnership(u, t) /\ u = ownerId /\ TransferReadWorkspace(r, t)
    \/ \E role \in Roles : CanUpdateRole(u, t, role) /\ RoleRead(r, t, role)
    \/ CanRemoveMember(u, t) /\ RemoveRead(r, t)
    \/ CanLeaveWorkspace(u, t) /\ LeaveRead(r, u)

Click(r, u, t) ==
    /\ Seen(u, t)
    /\ click[r] = NoClick
    /\ Sends(r, u, t)
    /\ click' = [click EXCEPT ![r] = [user |-> u, reply |-> "awaited"]]
    /\ overtaken' = (overtaken \/ ~ Quiet \/ behind[u] \cap {"detail", t} # {})
    /\ UNCHANGED <<detail, sheet, behind>>

-----------------------------------------------------------------------------
(* The queries                                                             *)

FetchDetail(u) ==
    /\ \/ /\ IsActive(u)
          /\ detail' = [detail EXCEPT ![u] = member[u].role]
          /\ behind' = [behind EXCEPT ![u] = @ \ {"detail"}]
       \/ /\ IsInactive(u)
          /\ \E shown \in {member[u].role, "none"} : detail' = [detail EXCEPT ![u] = shown]
          /\ UNCHANGED behind
    /\ UNCHANGED <<memberVars, sheet, click, overtaken>>

\* A member is not found when inactive: what was cached stays, or is dropped.
FetchMember(u, t) ==
    /\ detail[u] # "none"
    /\ \/ /\ IsActive(t)
          /\ sheet' = [sheet EXCEPT ![u][t] = member[t].role]
          /\ behind' = [behind EXCEPT ![u] = @ \ {t}]
       \/ /\ ~ IsActive(t)
          /\ sheet' = [sheet EXCEPT ![u][t] = "none"]
          /\ UNCHANGED behind
    /\ UNCHANGED <<memberVars, detail, click, overtaken>>

-----------------------------------------------------------------------------
(* The service, and its answer                                             *)

\* What the rows that the step changes are to a tab that does not know of it.
Missed(v) ==
    {u \in Users : member'[u] # member[u]}
        \cup (IF member'[v] # member[v] THEN {"detail"} ELSE {})

\* The answer may be a failure although the change is committed: the event could
\* not be published, or the answer is lost.
Commits(r) ==
    /\ click[r].reply = "awaited"
    /\ TransferCommit(r) \/ RoleCommit(r) \/ LeaveCommit(r) \/ RemoveCommit(r)
    /\ \E reply \in {"ok", "failed"} :
          /\ click' = [click EXCEPT ![r].reply = reply]
          /\ behind' = [v \in Viewers |->
                          IF v = click[r].user /\ reply = "ok" THEN behind[v]
                          ELSE behind[v] \cup Missed(v)]
    /\ UNCHANGED <<detail, sheet, overtaken>>

Aborts(r) ==
    /\ click[r].reply = "awaited"
    /\ TransferReadTarget(r) \/ RequestFails(r)
    /\ click' = IF request'[r] = Idle THEN [click EXCEPT ![r].reply = "failed"] ELSE click
    /\ UNCHANGED <<detail, sheet, behind, overtaken>>

\* Mutant of Answered: onSuccess does not invalidate the query of the workspace.
AnsweredWithoutRefetch(r) ==
    /\ click[r].reply \in {"ok", "failed"}
    /\ click' = [click EXCEPT ![r] = NoClick]
    /\ UNCHANGED <<memberVars, detail, sheet, behind, overtaken>>

\* onSuccess invalidates the queries of the workspace and of the list and waits for
\* them to be fetched again, which may fail; not those of the members.
Answered(r) ==
    LET u == click[r].user
    IN  /\ click[r].reply \in {"ok", "failed"}
        /\ click' = [click EXCEPT ![r] = NoClick]
        /\ \/ /\ click[r].reply = "ok"
              /\ detail' = [detail EXCEPT ![u] = RoleOf(u)]
              /\ behind' = [behind EXCEPT ![u] = @ \ {"detail"}]
           \/ /\ click[r].reply = "ok"
              /\ behind' = [behind EXCEPT ![u] = @ \cup {"detail"}]
              /\ UNCHANGED detail
           \/ click[r].reply = "failed" /\ UNCHANGED <<detail, behind>>
    /\ UNCHANGED <<memberVars, sheet, overtaken>>

-----------------------------------------------------------------------------
PagesInit ==
    /\ detail = [u \in Viewers |-> RoleOf(u)]
    /\ sheet = [u \in Viewers |-> [t \in Users |-> "none"]]
    /\ click = [r \in MemberRequests |-> NoClick]
    /\ behind = [u \in Viewers |-> {}]
    /\ overtaken \in BOOLEAN

PagesNext ==
    \/ \E u \in Viewers :
          \/ FetchDetail(u)
          \/ \E t \in Users : FetchMember(u, t)
          \/ \E t \in Users, r \in MemberRequests : Click(r, u, t)
    \/ \E r \in MemberRequests : Commits(r) \/ Aborts(r) \/ Answered(r)

PagesSpec == MemberInit /\ PagesInit /\ [][PagesNext]_<<memberVars, pageVars>>

-----------------------------------------------------------------------------
(* Properties                                                              *)

\* As long as nobody clicks on a page that another tab has left behind, or while
\* another click is being handled, the owner of the workspace is an active member
\* with the role OWNER: what the page offers keeps the service from the sequence of
\* requests that leads out of it.  A tab may well act on what its own clicks have
\* made old.
DashboardKeepsOwner ==
    ~ overtaken => IsActive(ownerId) /\ member[ownerId].role = "OWNER"

\* What such a page offers about a member it shows as they are, the API serves: the
\* role has the permission the route asks for, and the service begins.
OfferedIsServed ==
    ~ overtaken /\ Quiet =>
        \A u \in Viewers, t \in Users, r \in MemberRequests :
            /\ Seen(u, t)
            /\ detail[u] = RoleOf(u) /\ sheet[u][t] = RoleOf(t)
            =>
            /\ CanTransferOwnership(u, t) =>
                  /\ Api!Guard.transferOwnership \in Api!RolePermissions[member[u].role]
                  /\ u = ownerId
                  /\ ENABLED TransferReadWorkspace(r, t)
            /\ \A role \in Roles : CanUpdateRole(u, t, role) =>
                  /\ Api!Guard.updateWorkspaceMemberRole \in Api!RolePermissions[member[u].role]
                  /\ ENABLED RoleRead(r, t, role)
            /\ CanRemoveMember(u, t) =>
                  /\ Api!Guard.removeWorkspaceMember \in Api!RolePermissions[member[u].role]
                  /\ ENABLED RemoveRead(r, t)
            /\ CanLeaveWorkspace(u, t) =>
                  /\ Api!Guard.leaveWorkspace \in Api!RolePermissions[member[u].role]
                  /\ ENABLED LeaveRead(r, t)
=============================================================================
