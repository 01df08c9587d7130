----------------------------- MODULE Endpoints -----------------------------
(***************************************************************************)
(* The HTTP endpoints about workspaces, their members, invitations and     *)
(* links, and those of administrators: what a route asks of a request      *)
(* before its handler runs, and what a controller makes of the result.     *)
(***************************************************************************)
EXTENDS Naturals

\* The permissions the routes ask for; no route asks for the others seeded.
Permissions ==
    {"workspace.update", "workspace.delete",
     "member.read", "member.update", "member.remove", "member.leave",
     "invitation.create", "invitation.read", "invitation.cancel",
     "url.create", "url.read", "url.update", "url.delete"}

\* What the seed gives to the roles of a workspace: an owner has them all.
RolePermissions ==
    [OWNER  |-> Permissions,
     ADMIN  |-> Permissions \ {"workspace.delete"},
     MEMBER |-> {"member.read", "member.leave", "invitation.read",
                 "url.create", "url.read", "url.update", "url.delete"}]

-----------------------------------------------------------------------------
(* The routes: the permission each asks for, "none" where it asks for none. *)

WorkspaceRoutes ==
    [createWorkspace     |-> "none",
     getAllWorkspaces    |-> "none",
     getWorkspaceById    |-> "none",
     updateWorkspace     |-> "workspace.update",
     updateWorkspaceLogo |-> "workspace.update",
     deleteWorkspaceLogo |-> "workspace.update"]

SuspensionRoutes ==
    [deleteWorkspace  |-> "workspace.delete",
     restoreWorkspace |-> "none"]

InvitationRoutes ==
    [createInvitation   |-> "invitation.create",
     listInvitations    |-> "invitation.read",
     getInvitationById  |-> "invitation.read",
     acceptInvitation   |-> "none",
     validateInvitation |-> "none",
     revokeInvitation   |-> "invitation.cancel",
     rejectInvitation   |-> "none"]

MemberRoutes ==
    [transferOwnership         |-> "workspace.update",
     listWorkspaceMembers      |-> "member.read",
     getWorkspaceMember        |-> "member.read",
     updateWorkspaceMemberRole |-> "member.update",
     leaveWorkspace            |-> "member.leave",
     removeWorkspaceMember     |-> "member.remove"]

UrlRoutes ==
    [createUrl |-> "url.create",
     listUrls  |-> "url.read",
     findById  |-> "url.read",
     updateUrl |-> "url.update",
     deleteUrl |-> "url.delete"]

\* These look at the role of the account only: every account may read an audit
\* trail and its own profile, an administrator the accounts.
AuditRoutes == [getAllInWorkspaceByWorkspaceId |-> "none"]

\* All roles but OWNER, to anybody.
RoleRoutes == [getAllRoles |-> "none"]

UserRoutes ==
    [getMyProfile |-> "none", updateProfile |-> "none", deleteMyAccount |-> "none",
     changePassword |-> "none", uploadAvatar |-> "none"]

AdminRoutes ==
    [getAllUsers |-> "none", getUserById |-> "none", banUser |-> "none",
     unbanUser |-> "none", changeRole |-> "none", deleteUser |-> "none",
     restoreUser |-> "none"]

AdminOperations == DOMAIN AdminRoutes

RouteTables ==
    {WorkspaceRoutes, SuspensionRoutes, InvitationRoutes, MemberRoutes, UrlRoutes,
     AuditRoutes, RoleRoutes, UserRoutes, AdminRoutes}

Operations == UNION {DOMAIN table : table \in RouteTables}

Guard ==
    [op \in Operations |-> (CHOOSE table \in RouteTables : op \in DOMAIN table)[op]]

-----------------------------------------------------------------------------
(* The controllers: what each hands to its service, and how it answers a   *)
(* result.  Every service is handed the id of the resource; "caller" is    *)
(* the user of the access token, "ip" only goes into events.               *)

Handler(passes, success) == [passes |-> passes, success |-> success]

createWorkspace     == Handler({"caller"}, 201)
getAllWorkspaces    == Handler({"caller"}, 200)
getWorkspaceById    == Handler({"workspace", "caller"}, 200)
updateWorkspace     == Handler({"workspace", "caller"}, 200)
deleteWorkspace     == Handler({"workspace", "caller"}, 200)
restoreWorkspace    == Handler({"workspace", "caller"}, 200)
updateWorkspaceLogo == Handler({"workspace", "caller"}, 200)
deleteWorkspaceLogo == Handler({"workspace", "caller"}, 200)

createInvitation   == Handler({"workspace", "caller"}, 201)
listInvitations    == Handler({"workspace"}, 200)
getInvitationById  == Handler({"invitation"}, 200)
acceptInvitation   == Handler({"workspace", "invitation", "caller", "token"}, 200)
validateInvitation == Handler({"token"}, 200)
revokeInvitation   == Handler({"workspace", "invitation"}, 200)
rejectInvitation   == Handler({"token"}, 200)

transferOwnership         == Handler({"workspace", "caller", "member"}, 200)
listWorkspaceMembers      == Handler({"workspace"}, 200)
getWorkspaceMember        == Handler({"workspace", "member"}, 200)
updateWorkspaceMemberRole == Handler({"workspace", "member"}, 200)
leaveWorkspace            == Handler({"workspace", "caller"}, 200)
removeWorkspaceMember     == Handler({"workspace", "member"}, 200)

createUrl == Handler({"workspace", "caller"}, 201)
listUrls  == Handler({"workspace", "caller"}, 200)
findById  == Handler({"workspace", "caller", "url"}, 200)
updateUrl == Handler({"workspace", "caller", "url"}, 200)
deleteUrl == Handler({"workspace", "caller", "url"}, 200)

getAllInWorkspaceByWorkspaceId == Handler({"workspace"}, 200)

getAllRoles == Handler({}, 200)

getMyProfile    == Handler({"caller"}, 200)
updateProfile   == Handler({"caller"}, 200)
deleteMyAccount == Handler({"caller"}, 200)
changePassword  == Handler({"caller"}, 200)
uploadAvatar    == Handler({"caller"}, 200)

getAllUsers == Handler({}, 200)
getUserById == Handler({"account"}, 200)
banUser     == Handler({"account", "caller"}, 200)
unbanUser   == Handler({"account", "caller"}, 200)
changeRole  == Handler({"account", "caller"}, 200)
deleteUser  == Handler({"account", "caller"}, 200)
restoreUser == Handler({"account", "caller"}, 200)

WorkspaceController ==
    [createWorkspace |-> createWorkspace, getAllWorkspaces |-> getAllWorkspaces,
     getWorkspaceById |-> getWorkspaceById, updateWorkspace |-> updateWorkspace,
     deleteWorkspace |-> deleteWorkspace, restoreWorkspace |-> restoreWorkspace,
     updateWorkspaceLogo |-> updateWorkspaceLogo,
     deleteWorkspaceLogo |-> deleteWorkspaceLogo]

InvitationController ==
    [createInvitation |-> createInvitation, listInvitations |-> listInvitations,
     getInvitationById |-> getInvitationById, acceptInvitation |-> acceptInvitation,
     validateInvitation |-> validateInvitation, revokeInvitation |-> revokeInvitation,
     rejectInvitation |-> rejectInvitation]

MemberController ==
    [transferOwnership |-> transferOwnership, listWorkspaceMembers |-> listWorkspaceMembers,
     getWorkspaceMember |-> getWorkspaceMember,
     updateWorkspaceMemberRole |-> updateWorkspaceMemberRole,
     leaveWorkspace |-> leaveWorkspace, removeWorkspaceMember |-> removeWorkspaceMember]

UrlController ==
    [createUrl |-> createUrl, listUrls |-> listUrls, findById |-> findById,
     updateUrl |-> updateUrl, deleteUrl |-> deleteUrl]

OtherControllers ==
    [getAllInWorkspaceByWorkspaceId |-> getAllInWorkspaceByWorkspaceId,
     getAllRoles |-> getAllRoles, getMyProfile |-> getMyProfile, updateProfile |-> updateProfile,
     deleteMyAccount |-> deleteMyAccount, changePassword |-> changePassword,
     uploadAvatar |-> uploadAvatar, getAllUsers |-> getAllUsers,
     getUserById |-> getUserById, banUser |-> banUser, unbanUser |-> unbanUser,
     changeRole |-> changeRole, deleteUser |-> deleteUser, restoreUser |-> restoreUser]

Controllers ==
    {WorkspaceController, InvitationController, MemberController, UrlController,
     OtherControllers}

Controller ==
    [op \in Operations |-> (CHOOSE table \in Controllers : op \in DOMAIN table)[op]]
=============================================================================
