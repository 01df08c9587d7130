-------------------------- MODULE WorkspaceAccess --------------------------
(***************************************************************************)
(* A request to an endpoint of the API, from the access token it shows to  *)
(* the answer: the guards of its route, the checks of its service          *)
(* (WorkspaceService, UrlService, AdminUserService.changeRole), its write, *)
(* the event and the reply.  Each of these is a query of its own, so that  *)
(* what the guards and the checks have read may be changed by others       *)
(* before the write.                                                       *)
(*                                                                         *)
(* The handlers of a workspace's members are taken in one step here: the   *)
(* queries they consist of are in WorkspaceMember.  What invitations, the  *)
(* logos and the profiles hold is in the modules about them; such a        *)
(* handler writes elsewhere.                                               *)
(***************************************************************************)
EXTENDS Endpoints

CONSTANTS
    Accounts,     \* the users of the product
    Workspaces,   \* the ids workspaces may get
    Links,        \* the short codes links may get
    Requests,     \* the requests in flight
    MaxArrivals,  \* bound: requests received
    MaxTokens     \* bound: access tokens issued

\* "NONE" stands for the owner, and the place, of what does not exist.
ASSUME AccessAssumption ==
    /\ MaxArrivals \in Nat
    /\ MaxTokens \in Nat
    /\ "NONE" \notin Accounts \cup Workspaces

VARIABLES
    accountRole,  \* users.role
    claim,        \* the role in the access token a user shows, "none" without one
    workspace,    \* workspaces: status and ownerId
    member,       \* workspace_members: the row of each user in each workspace
    link,         \* urls: the row of each short code
    request,      \* the requests in flight
    answer,       \* the answer the last step has given, if any
    arrivals,     \* the requests received so far
    tokens,       \* the access tokens issued so far
    held          \* history: what was true of a request at some moment since it arrived

tables == <<accountRole, workspace, member, link>>
counters == <<arrivals, tokens>>
vars == <<accountRole, claim, workspace, member, link, request, answer, arrivals, tokens,
          held>>

-----------------------------------------------------------------------------
(* The rows                                                                *)

WorkspaceRow == [status : {"ACTIVE", "SUSPENDED"}, owner : Accounts]
NoWorkspace == [status |-> "NONE", owner |-> "NONE"]

MemberRow == [status : {"ACTIVE", "LEFT", "REMOVED"}, role : DOMAIN RolePermissions]
NoRow == [status |-> "NONE", role |-> "NONE"]

\* A password of a link counts, the rest of it does not.
LinkRow == [status : {"ACTIVE", "DISABLED"}, at : Workspaces, protected : BOOLEAN]
NoLink == [status |-> "NONE", at |-> "NONE", protected |-> FALSE]

Exists(w) == workspace[w] # NoWorkspace

\* findRoleByUserId: whatever the status of the membership.
HasRow(w, u) == member[w][u] # NoRow

IsActive(w, u) == member[w][u].status = "ACTIVE"

\* Mutant of HasPermission: memberships that ended count.
HasPermissionOfAnyRow(u, permission) ==
    \E w \in Workspaces :
        HasRow(w, u) /\ permission \in RolePermissions[member[w][u].role]

\* The guard passes the query a parameter its route does not have, and a filter
\* on nothing is no filter: an active membership of any workspace will do.
HasPermission(u, permission) ==
    \E w \in Workspaces :
        IsActive(w, u) /\ permission \in RolePermissions[member[w][u].role]

-----------------------------------------------------------------------------
(* The requests: what the controller takes from each, and how far it is.   *)

Steps == {"permit", "check", "write", "publish"}

Targets == Accounts \cup Links \cup {"none"}

Call == [step : Steps, op : Operations, user : Accounts, at : Workspaces,
         about : Targets, written : BOOLEAN]

Idle == [step |-> "idle", op |-> "none", user |-> "none", at |-> "none",
         about |-> "none", written |-> FALSE]

Goto(r, step) == request' = [request EXCEPT ![r].step = step]

Written(r) == request' = [request EXCEPT ![r].step = "publish", ![r].written = TRUE]

NoAnswer == [code |-> 0, written |-> FALSE]

Silent == answer' = NoAnswer

\* The request ends with an answer; "written" says if it has written anything.
Answer(r, code) ==
    /\ answer' = [code |-> code, written |-> request[r].written]
    /\ request' = [request EXCEPT ![r] = Idle]

\* What a request may be about, besides its workspace.
AboutOf(op) ==
    IF "url" \in Controller[op].passes \/ op = "createUrl" THEN Links
    ELSE IF Controller[op].passes \cap {"member", "account"} # {} THEN Accounts
    ELSE {"none"}

-----------------------------------------------------------------------------
\* authenticate, authMiddleware and roleGuard look at the token alone.  A request
\* they refuse does nothing and is not modelled any further.
Receive(r) ==
    /\ request[r] = Idle
    /\ arrivals < MaxArrivals
    /\ \E u \in Accounts, op \in Operations, w \in Workspaces :
          /\ claim[u] \in (IF op \in AdminOperations THEN {"ADMIN"} ELSE {"ADMIN", "USER"})
          /\ \E x \in AboutOf(op) :
                request' = [request EXCEPT ![r] =
                              [step |-> IF Guard[op] = "none" THEN "check" ELSE "permit",
                               op |-> op, user |-> u, at |-> w, about |-> x,
                               written |-> FALSE]]
    /\ arrivals' = arrivals + 1
    /\ Silent
    /\ UNCHANGED <<tables, claim, tokens>>

\* requireWorkspacePermission
Permit(r) ==
    /\ request[r].step = "permit"
    /\ \/ /\ HasPermission(request[r].user, Guard[request[r].op])
          /\ Goto(r, "check")
          /\ Silent
       \/ /\ ~ HasPermission(request[r].user, Guard[request[r].op])
          /\ Answer(r, 403)
    /\ UNCHANGED <<tables, claim, counters>>

-----------------------------------------------------------------------------
(* WorkspaceService: what it checks                                        *)

OwnerOperations ==
    {"deleteWorkspace", "restoreWorkspace", "updateWorkspaceLogo", "deleteWorkspaceLogo"}

\* findById, and the same row again in requireOwner.
RequireOwner(r) ==
    /\ request[r].op \in OwnerOperations
    /\ \/ /\ ~ Exists(request[r].at)
          /\ Answer(r, IF request[r].op \in {"deleteWorkspace", "restoreWorkspace"}
                       THEN 409 ELSE 404)
       \/ /\ Exists(request[r].at)
          /\ workspace[request[r].at].owner # request[r].user
          /\ Answer(r, 403)
       \/ /\ workspace[request[r].at].owner = request[r].user
          /\ Goto(r, "write")
          /\ Silent

\* updateWorkspace: a row of the caller, and no status of it, is asked for.
RequireMember(r) ==
    /\ request[r].op = "updateWorkspace"
    /\ \/ ~ Exists(request[r].at) /\ Answer(r, 409)
       \/ /\ Exists(request[r].at)
          /\ ~ HasRow(request[r].at, request[r].user)
          /\ Answer(r, 403)
       \/ /\ HasRow(request[r].at, request[r].user)
          /\ Goto(r, "write")
          /\ Silent

-----------------------------------------------------------------------------
(* UrlService: what it checks                                              *)

\* The codes an owner of a link chooses are looked up first.
ResolveShortCode(r) ==
    /\ request[r].op = "createUrl"
    /\ \/ ~ HasRow(request[r].at, request[r].user) /\ Answer(r, 403)
       \/ /\ HasRow(request[r].at, request[r].user)
          /\ link[request[r].about] # NoLink
          /\ Answer(r, 409)
       \/ /\ HasRow(request[r].at, request[r].user)
          /\ link[request[r].about] = NoLink
          /\ Goto(r, "write")
          /\ Silent

\* validateWorkspacePermission, then the link, which must be of this workspace.
RequireLink(r) ==
    /\ request[r].op \in {"findById", "updateUrl", "deleteUrl"}
    /\ \/ ~ HasRow(request[r].at, request[r].user) /\ Answer(r, 403)
       \/ /\ HasRow(request[r].at, request[r].user)
          /\ link[request[r].about].at # request[r].at
          /\ Answer(r, 404)
       \/ /\ HasRow(request[r].at, request[r].user)
          /\ link[request[r].about].at = request[r].at
          /\ IF request[r].op = "findById" THEN Answer(r, Controller[request[r].op].success)
             ELSE Goto(r, "write") /\ Silent

-----------------------------------------------------------------------------
(* The other handlers                                                      *)

\* Handlers whose checks and writes are in other modules.
ElsewhereOperations ==
    {"createInvitation", "validateInvitation", "revokeInvitation", "rejectInvitation",
     "updateProfile", "deleteMyAccount", "changePassword", "uploadAvatar",
     "banUser", "unbanUser", "deleteUser", "restoreUser"}

ReadOperations ==
    {"getAllWorkspaces", "listInvitations", "getInvitationById", "listWorkspaceMembers",
     "getWorkspaceMember", "getAllInWorkspaceByWorkspaceId", "getMyProfile",
     "getAllRoles", "getAllUsers", "getUserById"}

\* The answer of a handler that reads: what it found, or that it is not there.
Found(r, here, code) ==
    Answer(r, IF here THEN Controller[request[r].op].success ELSE code)

ListWorkspaces(r) == request[r].op = "getAllWorkspaces" /\ Found(r, TRUE, 404)

ListMembers(r) ==
    request[r].op = "listWorkspaceMembers" /\ Found(r, Exists(request[r].at), 404)

\* It joins the row of the caller, so that there is one for requireMember to find.
GetWorkspaceById(r) ==
    /\ request[r].op = "getWorkspaceById"
    /\ Found(r, HasRow(request[r].at, request[r].user), 404)

ListUrls(r) ==
    /\ request[r].op = "listUrls"
    /\ Found(r, HasRow(request[r].at, request[r].user), 403)

GetMember(r) ==
    /\ request[r].op = "getWorkspaceMember"
    /\ Found(r, IsActive(request[r].at, request[r].about), 404)

ListInvitations(r) ==
    request[r].op = "listInvitations" /\ Found(r, Exists(request[r].at), 409)

GetInvitation(r) ==
    request[r].op = "getInvitationById" /\ \E here \in BOOLEAN : Found(r, here, 409)

\* The trail of a workspace is read by its id, whether there is one or not.
ReadTrail(r) == request[r].op = "getAllInWorkspaceByWorkspaceId" /\ Found(r, TRUE, 404)

ListAccounts(r) == request[r].op = "getAllUsers" /\ Found(r, TRUE, 404)

ListRoles(r) == request[r].op = "getAllRoles" /\ Found(r, TRUE, 404)

\* Accounts are closed, not deleted: a row is found.
GetAccount(r) == request[r].op \in {"getUserById", "getMyProfile"} /\ Found(r, TRUE, 409)

Read(r) ==
    \/ ListWorkspaces(r) \/ GetWorkspaceById(r) \/ ListMembers(r) \/ GetMember(r)
    \/ ListInvitations(r) \/ GetInvitation(r) \/ ReadTrail(r) \/ ListUrls(r)
    \/ ListRoles(r) \/ ListAccounts(r) \/ GetAccount(r)

CheckElsewhere(r) ==
    /\ request[r].op \in ElsewhereOperations
    /\ \/ \E code \in {400, 404, 409} : Answer(r, code)
       \/ Goto(r, "write") /\ Silent

\* createWorkspace looks a slug up that somebody has chosen.  changeRole and the
\* handlers of members check in the step that writes.
CheckLater(r) ==
    /\ request[r].op \in DOMAIN MemberRoutes \cup {"createWorkspace", "acceptInvitation", "changeRole"}
    /\ \/ request[r].op = "createWorkspace" /\ Answer(r, 409)
       \/ Goto(r, "write") /\ Silent

Check(r) ==
    /\ request[r].step = "check"
    /\ \/ RequireOwner(r) \/ RequireMember(r) \/ ResolveShortCode(r) \/ RequireLink(r)
       \/ Read(r) \/ CheckElsewhere(r) \/ CheckLater(r)
    /\ UNCHANGED <<tables, claim, counters>>

-----------------------------------------------------------------------------
(* The writes.  A handler that writes goes on to publish its event.        *)

\* The workspace and the row of its owner are created together.
CreateWorkspace(r) ==
    LET u == request[r].user
    IN  /\ request[r].op = "createWorkspace"
        /\ \E w \in Workspaces :
              /\ ~ Exists(w)
              /\ workspace' = [workspace EXCEPT ![w] = [status |-> "ACTIVE", owner |-> u]]
              /\ member' = [member EXCEPT ![w][u] = [status |-> "ACTIVE", role |-> "OWNER"]]
        /\ Written(r)
        /\ Silent
        /\ UNCHANGED <<accountRole, link>>

\* deleteWorkspace suspends, restoreWorkspace undoes it; by id, whatever it was.
WriteStatus(r) ==
    /\ request[r].op \in DOMAIN SuspensionRoutes
    /\ workspace' = [workspace EXCEPT ![request[r].at].status =
                       IF request[r].op = "deleteWorkspace" THEN "SUSPENDED" ELSE "ACTIVE"]
    /\ Written(r)
    /\ Silent
    /\ UNCHANGED <<accountRole, member, link>>

\* Two requests may have found the code free: the unique index stops the second.
CreateUrl(r) ==
    /\ request[r].op = "createUrl"
    /\ \/ /\ link[request[r].about] # NoLink
          /\ Answer(r, 500)
          /\ UNCHANGED link
       \/ /\ link[request[r].about] = NoLink
          /\ \E protected \in BOOLEAN :
                link' = [link EXCEPT ![request[r].about] =
                           [status |-> "ACTIVE", at |-> request[r].at, protected |-> protected]]
          /\ Written(r)
          /\ Silent
    /\ UNCHANGED <<accountRole, workspace, member>>

\* An update without a password takes the password away.
UpdateUrl(r) ==
    /\ request[r].op = "updateUrl"
    /\ \E protected \in BOOLEAN : link' = [link EXCEPT ![request[r].about].protected = protected]
    /\ Written(r)
    /\ Silent
    /\ UNCHANGED <<accountRole, workspace, member>>

DeleteUrl(r) ==
    /\ request[r].op = "deleteUrl"
    /\ link' = [link EXCEPT ![request[r].about].status = "DISABLED"]
    /\ Written(r)
    /\ Silent
    /\ UNCHANGED <<accountRole, workspace, member>>

\* changeRole does not end the sessions: the tokens issued before stay as they are.
ChangeAccountRole(r) ==
    /\ request[r].op = "changeRole"
    /\ \E role \in {"ADMIN", "USER"} :
          accountRole' = [accountRole EXCEPT ![request[r].about] = role]
    /\ Written(r)
    /\ Silent
    /\ UNCHANGED <<workspace, member, link>>

\* updateWorkspace writes a name; the rest is in the tables of other modules.
WriteElsewhere(r) ==
    /\ request[r].op \in ElsewhereOperations
         \cup {"updateWorkspace", "updateWorkspaceLogo", "deleteWorkspaceLogo"}
    /\ Written(r)
    /\ Silent
    /\ UNCHANGED tables

-----------------------------------------------------------------------------
(* The handlers of members, each in one step: refused, or done.            *)

\* Mutant of Outcomes: whoever leaves has no row any more.
OutcomesWithoutRows(op, w, u, x) ==
    IF op = "leaveWorkspace" THEN {[member[w] EXCEPT ![u] = NoRow]} ELSE {}

\* What WorkspaceMember calls its reads and commits, for the caller u, the
\* member x and the row that results.
Outcomes(op, w, u, x) ==
    CASE op = "leaveWorkspace" ->
           IF IsActive(w, u) /\ member[w][u].role # "OWNER"
           THEN {[member[w] EXCEPT ![u].status = "LEFT"]} ELSE {}
      [] op = "removeWorkspaceMember" ->
           IF IsActive(w, x) /\ member[w][x].role # "OWNER"
           THEN {[member[w] EXCEPT ![x].status = "REMOVED"]} ELSE {}
      [] op = "updateWorkspaceMemberRole" ->
           IF IsActive(w, x)
           THEN {[member[w] EXCEPT ![x].role = role] :
                   role \in {"ADMIN", "MEMBER"} \ {member[w][x].role}} ELSE {}
      [] op = "transferOwnership" ->
           IF workspace[w].owner = u /\ x # u /\ IsActive(w, x)
           THEN {[member[w] EXCEPT ![u].role = "MEMBER", ![x].role = "OWNER"]} ELSE {}
      [] op = "acceptInvitation" ->
           IF Exists(w) /\ ~ IsActive(w, u)
           THEN {[member[w] EXCEPT ![u] = [status |-> "ACTIVE", role |-> role]] :
                   role \in DOMAIN RolePermissions} ELSE {}
      [] OTHER -> {}

WriteMember(r) ==
    LET c == request[r]
        results == Outcomes(c.op, c.at, c.user, c.about)
    IN  /\ c.op \in DOMAIN MemberRoutes \cup {"acceptInvitation"}
        /\ \/ /\ results = {}
              /\ \E code \in {403, 404, 409} : Answer(r, code)
              /\ UNCHANGED <<member, workspace>>
           \/ \E row \in results :
                 /\ member' = [member EXCEPT ![c.at] = row]
                 /\ workspace' = IF c.op = "transferOwnership"
                                 THEN [workspace EXCEPT ![c.at].owner = c.about]
                                 ELSE workspace
                 /\ Written(r)
                 /\ Silent
        /\ UNCHANGED <<accountRole, link>>

Write(r) ==
    /\ request[r].step = "write"
    /\ \/ CreateWorkspace(r) \/ WriteStatus(r)
       \/ CreateUrl(r) \/ UpdateUrl(r) \/ DeleteUrl(r)
       \/ ChangeAccountRole(r) \/ WriteElsewhere(r) \/ WriteMember(r)
    /\ UNCHANGED <<claim, counters>>

-----------------------------------------------------------------------------
\* Mutant of Publish: a handler that returns nothing is taken for one that failed.
PublishChecksResult(r) ==
    /\ request[r].step = "publish"
    /\ Answer(r, IF request[r].op = "deleteUrl" THEN 400
                 ELSE Controller[request[r].op].success)
    /\ UNCHANGED <<tables, claim, counters>>

\* The event is published before the reply; the reply is the controller's.
Publish(r) ==
    /\ request[r].step = "publish"
    /\ Answer(r, Controller[request[r].op].success)
    /\ UNCHANGED <<tables, claim, counters>>

\* A query or the publishing of the event throws: what was written stays written.
Fail(r) ==
    /\ request[r] # Idle
    /\ Answer(r, 500)
    /\ UNCHANGED <<tables, claim, counters>>

\* A login or a refresh: the claim is the role the account has at that time.
IssueToken(u) ==
    /\ tokens < MaxTokens
    /\ claim[u] = "none"
    /\ claim' = [claim EXCEPT ![u] = accountRole[u]]
    /\ tokens' = tokens + 1
    /\ Silent
    /\ UNCHANGED <<tables, request, arrivals>>

\* Fifteen minutes after it was issued a token is worth nothing.
TokenExpires(u) ==
    /\ claim[u] # "none"
    /\ claim' = [claim EXCEPT ![u] = "none"]
    /\ Silent
    /\ UNCHANGED <<tables, request, counters>>

-----------------------------------------------------------------------------
(* History                                                                 *)

\* What is true of a request: the caller owns the workspace ("owner"), holds the
\* permission somewhere ("permitted").
Holds(r) ==
    {right \in {"owner", "permitted"} :
        /\ request[r] # Idle
        /\ right = "owner" => workspace[request[r].at].owner = request[r].user
        /\ right = "permitted" =>
              \E w \in Workspaces :
                  /\ IsActive(w, request[r].user)
                  /\ Guard[request[r].op] \in RolePermissions[member[w][request[r].user].role]}

Remember ==
    held' = [r \in Requests |-> IF request'[r] = Idle THEN {} ELSE held[r] \cup Holds(r)']

-----------------------------------------------------------------------------
\* What seeds, sign-ups and accepted invitations have left behind: a workspace
\* has an owner with the row of one, and the rows of others.
Init ==
    /\ accountRole \in [Accounts -> {"USER", "ADMIN"}]
    /\ claim = [u \in Accounts |-> accountRole[u]]
    /\ workspace \in [Workspaces -> WorkspaceRow \cup {NoWorkspace}]
    /\ member \in [Workspaces -> [Accounts -> MemberRow \cup {NoRow}]]
    /\ \A w \in Workspaces, u \in Accounts :
          /\ workspace[w].owner = u => member[w][u] = [status |-> "ACTIVE", role |-> "OWNER"]
          /\ workspace[w].owner # u => member[w][u].role # "OWNER"
          /\ ~ Exists(w) => member[w][u] = NoRow
    /\ link = [l \in Links |-> NoLink]
    /\ request = [r \in Requests |-> Idle]
    /\ answer = NoAnswer
    /\ arrivals = 0
    /\ tokens = 0
    /\ held = [r \in Requests |-> {}]

Progress(r) == Permit(r) \/ Check(r) \/ Write(r) \/ Publish(r) \/ Fail(r)

Next ==
    /\ \/ \E r \in Requests : Receive(r) \/ Progress(r)
       \/ \E u \in Accounts : IssueToken(u) \/ TokenExpires(u)
    /\ Remember

Spec == Init /\ [][Next]_vars

-----------------------------------------------------------------------------
(* Properties                                                              *)

\* The tables hold rows of the schema, and the requests what their controllers
\* have taken from them.
AccessTypeOK ==
    /\ accountRole \in [Accounts -> {"USER", "ADMIN"}]
    /\ claim \in [Accounts -> {"USER", "ADMIN", "none"}]
    /\ workspace \in [Workspaces -> WorkspaceRow \cup {NoWorkspace}]
    /\ member \in [Workspaces -> [Accounts -> MemberRow \cup {NoRow}]]
    /\ link \in [Links -> LinkRow \cup {NoLink}]
    /\ request \in [Requests -> Call \cup {Idle}]
    /\ arrivals \in 0 .. MaxArrivals
    /\ tokens \in 0 .. MaxTokens
    /\ held \in [Requests -> SUBSET {"owner", "permitted"}]

\* A request writes in this step.
Writes(r) == request'[r].written /\ ~ request[r].written

\* The row that let a request pass its check is still there when it writes:
\* nobody names a workspace, or changes a link of it, who is not on its list of
\* members, whatever happened to them between the two queries; and a link stays
\* in its workspace, and only a request about this workspace changes it.
ChangedFromInside ==
    [][/\ \A r \in Requests :
             Writes(r) /\ request[r].op \in {"updateWorkspace", "createUrl", "updateUrl", "deleteUrl"}
             => HasRow(request[r].at, request[r].user)
       /\ \A l \in Links :
             link[l] # NoLink /\ link'[l] # link[l]
             => /\ link'[l].at = link[l].at
                /\ \E r \in Requests :
                      Writes(r) /\ request[r].at = link[l].at /\ request[r].about = l]_vars

\* A request whose route asks for a permission writes only if the caller has held
\* it at some moment since the request arrived, here or in another workspace; and
\* a workspace is suspended, restored or given a logo on behalf of somebody who
\* owned it at such a moment.
EntitledSometime ==
    [][\A r \in Requests :
          Writes(r) => /\ Guard[request[r].op] # "none" => "permitted" \in held[r]
                       /\ request[r].op \in OwnerOperations => "owner" \in held[r]]_vars

\* A refusal says that nothing was changed, and a result that something was if
\* the endpoint changes anything; an internal error says neither.
AnswerIsHonest ==
    /\ answer.code \in {400, 403, 404, 409} => ~ answer.written
    /\ answer.code = 201 => answer.written
=============================================================================
