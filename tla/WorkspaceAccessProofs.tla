----------------------- MODULE WorkspaceAccessProofs -----------------------
(***************************************************************************)
(* Theorems about WorkspaceAccess.  They rest on what a request knows at   *)
(* each of its steps, and on what no write takes back: a workspace, a      *)
(* member's row and the workspace of a link last.                          *)
(***************************************************************************)
EXTENDS WorkspaceAccess, TLAPS

-----------------------------------------------------------------------------
(* The tables of Endpoints                                                 *)

\* An endpoint is in the table of one controller.
LEMMA ControllersApart ==
    ASSUME NEW t \in Controllers, NEW s \in Controllers, NEW op \in DOMAIN t,
           op \in DOMAIN s
    PROVE  t = s
<1>1. DOMAIN WorkspaceController =
        {"createWorkspace", "getAllWorkspaces", "getWorkspaceById", "updateWorkspace",
         "deleteWorkspace", "restoreWorkspace", "updateWorkspaceLogo", "deleteWorkspaceLogo"}
  BY DEF WorkspaceController
<1>2. DOMAIN InvitationController =
        {"createInvitation", "listInvitations", "getInvitationById", "acceptInvitation",
         "validateInvitation", "revokeInvitation", "rejectInvitation"}
  BY DEF InvitationController
<1>3. DOMAIN MemberController =
        {"transferOwnership", "listWorkspaceMembers", "getWorkspaceMember",
         "updateWorkspaceMemberRole", "leaveWorkspace", "removeWorkspaceMember"}
  BY DEF MemberController
<1>4. DOMAIN UrlController = {"createUrl", "listUrls", "findById", "updateUrl", "deleteUrl"}
  BY DEF UrlController
<1>5. DOMAIN OtherControllers =
        {"getAllInWorkspaceByWorkspaceId", "getAllRoles", "getMyProfile", "updateProfile",
         "deleteMyAccount", "changePassword", "uploadAvatar", "getAllUsers", "getUserById",
         "banUser", "unbanUser", "changeRole", "deleteUser", "restoreUser"}
  BY DEF OtherControllers
<1>6. CASE t = WorkspaceController
  BY <1>1, <1>2, <1>3, <1>4, <1>5, <1>6 DEF Controllers
<1>7. CASE t = InvitationController
  BY <1>1, <1>2, <1>3, <1>4, <1>5, <1>7 DEF Controllers
<1>8. CASE t = MemberController
  BY <1>1, <1>2, <1>3, <1>4, <1>5, <1>8 DEF Controllers
<1>9. CASE t = UrlController
  BY <1>1, <1>2, <1>3, <1>4, <1>5, <1>9 DEF Controllers
<1>10. CASE t = OtherControllers
  BY <1>1, <1>2, <1>3, <1>4, <1>5, <1>10 DEF Controllers
<1> QED
  BY <1>6, <1>7, <1>8, <1>9, <1>10 DEF Controllers

LEMMA ControllerOf ==
    ASSUME NEW t \in Controllers, NEW op \in Operations, op \in DOMAIN t
    PROVE  Controller[op] = t[op]
<1> DEFINE chosen == CHOOSE s \in Controllers : op \in DOMAIN s
<1>1. chosen \in Controllers /\ op \in DOMAIN chosen
  OBVIOUS
<1>2. chosen = t
  BY <1>1, ControllersApart
<1> QED
  BY <1>2 DEF Controller

\* The endpoints are those of the controllers.
LEMMA OperationsHaveControllers ==
    Operations = UNION {DOMAIN t : t \in Controllers}
  BY DEF Operations, RouteTables, WorkspaceRoutes, SuspensionRoutes, InvitationRoutes,
         MemberRoutes, UrlRoutes, AuditRoutes, RoleRoutes, UserRoutes, AdminRoutes,
         Controllers, WorkspaceController, InvitationController, MemberController,
         UrlController, OtherControllers

\* What the proofs use of the tables: what a request is about, and the replies.
LEMMA AboutAccounts ==
    \A op \in {"transferOwnership", "updateWorkspaceMemberRole", "removeWorkspaceMember"} :
        op \in Operations /\ AboutOf(op) = Accounts
<1>1. \A op \in {"transferOwnership", "updateWorkspaceMemberRole", "removeWorkspaceMember"} :
         /\ op \in Operations
         /\ Controller[op].passes = MemberController[op].passes
  BY ControllerOf, OperationsHaveControllers DEF Controllers, MemberController
<1> QED
  BY <1>1 DEF AboutOf, MemberController, Handler, transferOwnership,
              updateWorkspaceMemberRole, removeWorkspaceMember

LEMMA AboutLinks ==
    \A op \in {"createUrl", "updateUrl", "deleteUrl"} :
        op \in Operations /\ AboutOf(op) = Links
<1>1. \A op \in {"createUrl", "updateUrl", "deleteUrl"} :
         /\ op \in Operations
         /\ Controller[op].passes = UrlController[op].passes
  BY ControllerOf, OperationsHaveControllers DEF Controllers, UrlController
<1> QED
  BY <1>1 DEF AboutOf, UrlController, Handler, createUrl, updateUrl, deleteUrl

LEMMA AboutTargets == ASSUME NEW op PROVE AboutOf(op) \subseteq Targets
  BY DEF AboutOf, Targets

Readers ==
    {"getAllWorkspaces", "getWorkspaceById", "listWorkspaceMembers", "getWorkspaceMember",
     "listInvitations", "getInvitationById", "getAllInWorkspaceByWorkspaceId", "listUrls",
     "getAllRoles", "getAllUsers", "getUserById", "getMyProfile", "findById"}

LEMMA ReadersAnswer ==
    \A op \in Readers : op \in Operations /\ Controller[op].success = 200
<1>1. \A op \in {"getAllWorkspaces", "getWorkspaceById"} :
         op \in Operations /\ Controller[op] = WorkspaceController[op]
  BY ControllerOf, OperationsHaveControllers DEF Controllers, WorkspaceController
<1>2. \A op \in {"listWorkspaceMembers", "getWorkspaceMember"} :
         op \in Operations /\ Controller[op] = MemberController[op]
  BY ControllerOf, OperationsHaveControllers DEF Controllers, MemberController
<1>3. \A op \in {"listInvitations", "getInvitationById"} :
         op \in Operations /\ Controller[op] = InvitationController[op]
  BY ControllerOf, OperationsHaveControllers DEF Controllers, InvitationController
<1>4. \A op \in {"listUrls", "findById"} :
         op \in Operations /\ Controller[op] = UrlController[op]
  BY ControllerOf, OperationsHaveControllers DEF Controllers, UrlController
<1>5. \A op \in {"getAllInWorkspaceByWorkspaceId", "getAllRoles", "getAllUsers",
                 "getUserById", "getMyProfile"} :
         op \in Operations /\ Controller[op] = OtherControllers[op]
  BY ControllerOf, OperationsHaveControllers DEF Controllers, OtherControllers
<1> QED
  BY <1>1, <1>2, <1>3, <1>4, <1>5
     DEF Readers, WorkspaceController, MemberController, InvitationController,
         UrlController, OtherControllers, Handler, getAllWorkspaces, getWorkspaceById,
         listWorkspaceMembers, getWorkspaceMember, listInvitations, getInvitationById,
         listUrls, findById, getAllInWorkspaceByWorkspaceId, getAllRoles, getAllUsers,
         getUserById, getMyProfile

LEMMA SuccessCodes ==
    ASSUME NEW op \in Operations
    PROVE  Controller[op].success \in {200, 201}
<1>1. PICK t \in Controllers : op \in DOMAIN t
  BY OperationsHaveControllers
<1>2. Controller[op] = t[op]
  BY <1>1, ControllerOf
<1>3. t[op].success \in {200, 201}
  <2>1. CASE t = WorkspaceController
    BY <1>1, <2>1 DEF WorkspaceController, Handler, createWorkspace, getAllWorkspaces,
       getWorkspaceById, updateWorkspace, deleteWorkspace, restoreWorkspace,
       updateWorkspaceLogo, deleteWorkspaceLogo
  <2>2. CASE t = InvitationController
    BY <1>1, <2>2 DEF InvitationController, Handler, createInvitation, listInvitations,
       getInvitationById, acceptInvitation, validateInvitation, revokeInvitation,
       rejectInvitation
  <2>3. CASE t = MemberController
    BY <1>1, <2>3 DEF MemberController, Handler, transferOwnership, listWorkspaceMembers,
       getWorkspaceMember, updateWorkspaceMemberRole, leaveWorkspace,
       removeWorkspaceMember
  <2>4. CASE t = UrlController
    BY <1>1, <2>4 DEF UrlController, Handler, createUrl, listUrls, findById, updateUrl,
       deleteUrl
  <2>5. CASE t = OtherControllers
    BY <1>1, <2>5 DEF OtherControllers, Handler, getAllInWorkspaceByWorkspaceId,
       getAllRoles, getMyProfile, updateProfile, deleteMyAccount, changePassword,
       uploadAvatar, getAllUsers, getUserById, banUser, unbanUser, changeRole,
       deleteUser, restoreUser
  <2> QED
    BY <2>1, <2>2, <2>3, <2>4, <2>5 DEF Controllers
<1> QED
  BY <1>2, <1>3

-----------------------------------------------------------------------------
(* The invariant                                                           *)

Naming == {"updateWorkspace", "createUrl", "updateUrl", "deleteUrl"}

\* What the step c of a request is at says of the tables, and of the rights r that
\* were seen since it arrived.
Sound(c, rights) ==
    /\ c.about \in AboutOf(c.op)
    /\ c.written <=> c.step = "publish"
    /\ c.step \in {"check", "write"} /\ Guard[c.op] # "none" => "permitted" \in rights
    /\ c.step = "write" =>
          /\ c.op \in OwnerOperations => Exists(c.at) /\ "owner" \in rights
          /\ c.op \in Naming => HasRow(c.at, c.user)
          /\ c.op \in {"updateUrl", "deleteUrl"} => link[c.about].at = c.at

RequestsSound == \A r \in Requests : request[r] # Idle => Sound(request[r], held[r])

AnswerOK == answer \in [code : Nat, written : BOOLEAN] /\ AnswerIsHonest

\* Whoever owns a workspace is on its list of members.
OwnersListed == \A w \in Workspaces : Exists(w) => HasRow(w, workspace[w].owner)

AccessInv == AccessTypeOK /\ OwnersListed /\ RequestsSound /\ AnswerOK

-----------------------------------------------------------------------------
(* What every step does to the tables                                      *)

TablesOK ==
    /\ accountRole \in [Accounts -> {"USER", "ADMIN"}]
    /\ workspace \in [Workspaces -> WorkspaceRow \cup {NoWorkspace}]
    /\ member \in [Workspaces -> [Accounts -> MemberRow \cup {NoRow}]]
    /\ link \in [Links -> LinkRow \cup {NoLink}]

\* A workspace, a row of a member and the workspace of a link last.
Lasting ==
    /\ \A w \in Workspaces : Exists(w) => Exists(w)'
    /\ \A w \in Workspaces, u \in Accounts : HasRow(w, u) => HasRow(w, u)'
    /\ \A l \in Links : link[l] # NoLink => link'[l] # NoLink /\ link'[l].at = link[l].at

TablesMove == TablesOK' /\ OwnersListed' /\ Lasting

\* The request r goes on as c, with the answer that a step may give.
Moves(r, c) ==
    /\ request' = [request EXCEPT ![r] = c]
    /\ answer' \in [code : Nat, written : BOOLEAN]
    /\ AnswerIsHonest'

LEMMA UnchangedMoves ==
    ASSUME AccessInv, UNCHANGED tables
    PROVE  TablesMove
  BY DEF AccessInv, AccessTypeOK, tables, TablesMove, TablesOK, OwnersListed, Lasting,
         Exists, HasRow

LEMMA OwnersStay ==
    ASSUME AccessInv, TablesOK', Lasting,
           \A w \in Workspaces :
              Exists(w)' => Exists(w) /\ workspace'[w].owner = workspace[w].owner
    PROVE  TablesMove
<1>1. ASSUME NEW w \in Workspaces, Exists(w)'
      PROVE  HasRow(w, workspace[w].owner)'
  <2>1. Exists(w) /\ workspace'[w].owner = workspace[w].owner
    BY <1>1
  <2>2. workspace[w].owner \in Accounts
    BY <2>1 DEF AccessInv, AccessTypeOK, Exists, WorkspaceRow
  <2>3. PICK u \in Accounts : u = workspace[w].owner
    BY <2>2
  <2>4. HasRow(w, u)'
    BY <2>1, <2>3 DEF AccessInv, OwnersListed, Lasting
  <2> QED
    BY <2>1, <2>3, <2>4 DEF HasRow
<1> QED
  BY <1>1 DEF TablesMove, OwnersListed

LEMMA RememberedRights ==
    ASSUME AccessInv, Remember, NEW r \in Requests, request'[r] # Idle
    PROVE  /\ held[r] \subseteq held'[r]
           /\ held'[r] \in SUBSET {"owner", "permitted"}
           /\ Holds(r)' \subseteq held'[r]
<1>1. held'[r] = held[r] \cup Holds(r)'
  BY DEF Remember
<1> QED
  BY <1>1 DEF AccessInv, AccessTypeOK, Holds

\* A request keeps what it knows while others go on.
LEMMA SoundLasts ==
    ASSUME AccessInv, TablesMove, NEW c \in Call, NEW rights, NEW more,
           Sound(c, rights), rights \subseteq more
    PROVE  Sound(c, more)'
<1>1. c.at \in Workspaces /\ c.user \in Accounts
  BY DEF Call
<1>2. c.op \in {"updateUrl", "deleteUrl"} => c.about \in Links
  BY AboutLinks DEF Sound
<1>3. c.about \in Links /\ link[c.about].at = c.at => link[c.about] # NoLink
  BY <1>1, AccessAssumption DEF NoLink
<1> QED
  BY <1>1, <1>2, <1>3 DEF Sound, TablesMove, Lasting

\* The step of one request, once its tables, its answer and what it knows are known.
LEMMA StepKeeps ==
    ASSUME AccessInv, Remember, TablesMove, NEW r \in Requests,
           NEW c \in Call \cup {Idle}, Moves(r, c),
           c # Idle => Sound(c, held[r])',
           claim' \in [Accounts -> {"USER", "ADMIN", "none"}],
           arrivals' \in 0 .. MaxArrivals, tokens' \in 0 .. MaxTokens
    PROVE  AccessInv'
<1>1. request' \in [Requests -> Call \cup {Idle}]
  BY DEF AccessInv, AccessTypeOK, Moves
<1>2. held' \in [Requests -> SUBSET {"owner", "permitted"}]
  <2>1. \A q \in Requests : request'[q] # Idle => held'[q] \in SUBSET {"owner", "permitted"}
    BY RememberedRights
  <2> QED
    BY <2>1 DEF Remember
<1>3. ASSUME NEW q \in Requests, request'[q] # Idle
      PROVE  Sound(request[q], held[q])'
  <2>1. CASE q = r
    <3>1. request'[q] = c
      BY <2>1 DEF Moves, AccessInv, AccessTypeOK
    <3> QED
      BY <2>1, <3>1, <1>3
  <2>2. CASE q # r
    <3>1. request'[q] = request[q]
      BY <2>2 DEF Moves, AccessInv, AccessTypeOK
    <3>2. PICK d : d = request[q]
      OBVIOUS
    <3>3. PICK rights : rights = held[q]
      OBVIOUS
    <3>4. PICK more : more = held'[q]
      OBVIOUS
    <3>5. d \in Call /\ Sound(d, rights)
      BY <1>3, <3>1, <3>2, <3>3 DEF AccessInv, AccessTypeOK, RequestsSound
    <3>6. rights \subseteq more
      BY <1>3, <3>3, <3>4, RememberedRights
    <3>7. Sound(d, more)'
      BY <3>5, <3>6, SoundLasts
    <3> QED
      BY <3>1, <3>2, <3>4, <3>7
  <2> QED
    BY <2>1, <2>2
<1> QED
  BY <1>1, <1>2, <1>3
     DEF AccessInv, AccessTypeOK, RequestsSound, AnswerOK, Moves, TablesMove, TablesOK

-----------------------------------------------------------------------------
(* The ways a request goes on                                              *)

Kept == /\ claim' \in [Accounts -> {"USER", "ADMIN", "none"}]
        /\ arrivals' \in 0 .. MaxArrivals /\ tokens' \in 0 .. MaxTokens

InFlight(r) == request[r] # Idle

LEMMA SoundOf ==
    ASSUME AccessInv, NEW r \in Requests, InFlight(r)
    PROVE  /\ request[r] \in Call /\ Sound(request[r], held[r])
           /\ request[r].at \in Workspaces /\ request[r].user \in Accounts
           /\ request[r].op \in Operations /\ request[r].about \in Targets
           /\ request[r].step \in Steps /\ request[r].written \in BOOLEAN
<1>1. request[r] \in Call /\ Sound(request[r], held[r])
  BY DEF AccessInv, AccessTypeOK, RequestsSound, InFlight
<1> QED
  BY <1>1 DEF Call

\* It is answered: refused before it has written, or given its result after.
LEMMA AnswerKeeps ==
    ASSUME AccessInv, Remember, TablesMove, Kept, NEW r \in Requests, InFlight(r),
           NEW code \in Nat, Answer(r, code),
           code \in {400, 403, 404, 409} => request[r].step # "publish",
           code = 201 => request[r].step = "publish"
    PROVE  AccessInv'
<1>1. Sound(request[r], held[r]) /\ request[r].written \in BOOLEAN
  BY SoundOf
<1>2. request[r].written <=> request[r].step = "publish"
  BY <1>1 DEF Sound
<1>3. Moves(r, Idle)
  <2>1. answer' = [code |-> code, written |-> request[r].written]
    BY DEF Answer
  <2>2. AnswerIsHonest'
    BY <2>1, <1>2 DEF AnswerIsHonest
  <2> QED
    BY <1>1, <2>1, <2>2 DEF Moves, Answer
<1> QED
  BY <1>3, StepKeeps DEF Kept

LEMMA SilentIsHonest ==
    ASSUME Silent
    PROVE  answer' \in [code : Nat, written : BOOLEAN] /\ AnswerIsHonest'
  BY DEF Silent, NoAnswer, AnswerIsHonest

\* It goes on, to a step that writes nothing or to the next step after a write.
LEMMA StepReached ==
    ASSUME AccessInv, Remember, TablesMove, Kept, NEW r \in Requests, InFlight(r),
           Silent, NEW c \in Call, request' = [request EXCEPT ![r] = c],
           c.op = request[r].op, c.about = request[r].about,
           c.written <=> c.step = "publish",
           c.step \in {"check", "write"} /\ Guard[c.op] # "none" => "permitted" \in held'[r],
           c.step = "write" =>
              /\ c.op \in OwnerOperations => Exists(c.at)' /\ "owner" \in held'[r]
              /\ c.op \in Naming => HasRow(c.at, c.user)'
              /\ c.op \in {"updateUrl", "deleteUrl"} => link'[c.about].at = c.at
    PROVE  AccessInv'
<1>1. c.about \in AboutOf(c.op)
  BY SoundOf DEF Sound
<1>2. Sound(c, held[r])'
  BY <1>1 DEF Sound
<1>3. Moves(r, c)
  BY SilentIsHonest DEF Moves
<1> QED
  BY <1>2, <1>3, StepKeeps DEF Kept

\* Its write is done.
LEMMA WrittenKeeps ==
    ASSUME AccessInv, Remember, TablesMove, Kept, NEW r \in Requests, InFlight(r),
           Written(r), Silent
    PROVE  AccessInv'
<1> DEFINE d == [request[r] EXCEPT !.step = "publish", !.written = TRUE]
<1>1. /\ d \in Call /\ d.op = request[r].op /\ d.about = request[r].about
      /\ d.step = "publish" /\ d.written = TRUE
  BY SoundOf DEF Call, Steps
<1>2. PICK c : c = d
  OBVIOUS
<1>3. request' = [request EXCEPT ![r] = c]
  <2>1. request' = [request EXCEPT ![r] = [@ EXCEPT !.step = "publish", !.written = TRUE]]
    BY DEF Written
  <2> QED
    BY <2>1, <1>2
<1> QED
  BY <1>1, <1>2, <1>3, StepReached

\* Its check has passed, and the tables are as the check has read them.
LEMMA CheckedKeeps ==
    ASSUME AccessInv, Remember, UNCHANGED tables, Kept, NEW r \in Requests, InFlight(r),
           request[r].step = "check", Goto(r, "write"), Silent,
           request[r].op \in OwnerOperations =>
              workspace[request[r].at].owner = request[r].user,
           request[r].op \in Naming => HasRow(request[r].at, request[r].user),
           request[r].op \in {"updateUrl", "deleteUrl"} =>
              link[request[r].about].at = request[r].at
    PROVE  AccessInv'
<1> DEFINE d == [request[r] EXCEPT !.step = "write"]
<1>1. /\ d \in Call /\ d.op = request[r].op /\ d.about = request[r].about
      /\ d.at = request[r].at /\ d.user = request[r].user
      /\ d.step = "write" /\ d.written = request[r].written
  BY SoundOf DEF Call, Steps
<1>2. PICK c : c = d
  OBVIOUS
<1>3. request' = [request EXCEPT ![r] = c]
  BY <1>2 DEF Goto
<1>4. request'[r] = c /\ request'[r] # Idle
  BY <1>1, <1>2, <1>3 DEF AccessInv, AccessTypeOK, Idle
<1>5. held[r] \subseteq held'[r] /\ Holds(r)' \subseteq held'[r]
  BY <1>4, RememberedRights
<1>6. Sound(request[r], held[r])
  BY SoundOf
<1>7. c.written <=> c.step = "publish"
  BY <1>1, <1>2, <1>6 DEF Sound
<1>8. Guard[c.op] # "none" => "permitted" \in held'[r]
  BY <1>1, <1>2, <1>5, <1>6 DEF Sound
<1>9. c.op \in OwnerOperations => Exists(c.at)' /\ "owner" \in held'[r]
  <2> SUFFICES ASSUME c.op \in OwnerOperations
               PROVE  Exists(c.at)' /\ "owner" \in held'[r]
    OBVIOUS
  <2>1. workspace[c.at].owner = c.user /\ workspace' = workspace
    BY <1>1, <1>2 DEF tables
  <2>2. c.user # "NONE"
    BY <1>1, <1>2, SoundOf, AccessAssumption
  <2>3. Exists(c.at)'
    BY <2>1, <2>2 DEF Exists, NoWorkspace
  <2>4. "owner" \in Holds(r)'
    BY <1>4, <2>1 DEF Holds
  <2> QED
    BY <2>3, <2>4, <1>5
<1>10. c.op \in Naming => HasRow(c.at, c.user)'
  BY <1>1, <1>2 DEF tables, HasRow
<1>11. c.op \in {"updateUrl", "deleteUrl"} => link'[c.about].at = c.at
  BY <1>1, <1>2 DEF tables
<1>12. TablesMove
  BY UnchangedMoves
<1> QED
  BY <1>1, <1>2, <1>3, <1>7, <1>8, <1>9, <1>10, <1>11, <1>12, StepReached

-----------------------------------------------------------------------------
(* Every action keeps the invariant                                        *)

LEMMA ReceiveKeeps ==
    ASSUME AccessInv, Remember, NEW r \in Requests, Receive(r)
    PROVE  AccessInv'
<1>1. PICK u \in Accounts, op \in Operations, w \in Workspaces :
         \E x \in AboutOf(op) :
            request' = [request EXCEPT ![r] =
                          [step |-> IF Guard[op] = "none" THEN "check" ELSE "permit",
                           op |-> op, user |-> u, at |-> w, about |-> x,
                           written |-> FALSE]]
  BY DEF Receive
<1>2. PICK x \in AboutOf(op) :
         request' = [request EXCEPT ![r] =
                       [step |-> IF Guard[op] = "none" THEN "check" ELSE "permit",
                        op |-> op, user |-> u, at |-> w, about |-> x, written |-> FALSE]]
  BY <1>1
<1> DEFINE d == [step |-> IF Guard[op] = "none" THEN "check" ELSE "permit",
                 op |-> op, user |-> u, at |-> w, about |-> x, written |-> FALSE]
<1>3. PICK c : c = d
  OBVIOUS
<1>4. c \in Call
  BY <1>3, AboutTargets DEF Call, Steps
<1>5. Moves(r, c)
  BY <1>2, <1>3, SilentIsHonest DEF Moves, Receive
<1>6. Sound(c, held[r])'
  BY <1>3 DEF Sound
<1>7. Kept
  BY AccessAssumption DEF Receive, Kept, AccessInv, AccessTypeOK
<1>8. TablesMove
  BY UnchangedMoves DEF Receive
<1> QED
  BY <1>4, <1>5, <1>6, <1>7, <1>8, StepKeeps DEF Kept

LEMMA PermitKeeps ==
    ASSUME AccessInv, Remember, NEW r \in Requests, Permit(r)
    PROVE  AccessInv'
<1>1. InFlight(r) /\ request[r].step = "permit"
  BY DEF Permit, InFlight, Idle
<1>2. Kept /\ UNCHANGED tables
  BY DEF Permit, Kept, counters, AccessInv, AccessTypeOK
<1>3. TablesMove
  BY <1>2, UnchangedMoves
<1>4. CASE Answer(r, 403)
  BY <1>1, <1>2, <1>3, <1>4, AnswerKeeps
<1>5. CASE HasPermission(request[r].user, Guard[request[r].op]) /\ Goto(r, "check") /\ Silent
  <2> DEFINE d == [request[r] EXCEPT !.step = "check"]
  <2>1. /\ d \in Call /\ d.op = request[r].op /\ d.about = request[r].about
        /\ d.user = request[r].user
        /\ d.step = "check" /\ d.written = request[r].written
    BY <1>1, SoundOf DEF Call, Steps
  <2>2. PICK c : c = d
    OBVIOUS
  <2>3. request' = [request EXCEPT ![r] = c]
    BY <1>5, <2>2 DEF Goto
  <2>4. request'[r] = c /\ request'[r] # Idle
    BY <2>1, <2>2, <2>3 DEF AccessInv, AccessTypeOK, Idle
  <2>5. Holds(r)' \subseteq held'[r]
    BY <2>4, RememberedRights
  <2>6. "permitted" \in Holds(r)'
    <3>1. PICK w \in Workspaces :
             /\ IsActive(w, c.user)
             /\ Guard[c.op] \in RolePermissions[member[w][c.user].role]
      BY <1>5, <2>1, <2>2 DEF HasPermission
    <3>2. member' = member
      BY <1>2 DEF tables
    <3> QED
      BY <3>1, <3>2, <2>4 DEF Holds, IsActive
  <2>7. c.written <=> c.step = "publish"
    BY <1>1, <2>1, <2>2, SoundOf DEF Sound
  <2> QED
    BY <1>1, <1>2, <1>3, <1>5, <2>1, <2>2, <2>3, <2>5, <2>6, <2>7, StepReached
<1> QED
  BY <1>4, <1>5 DEF Permit

\* The handlers that read answer with what they have found.
LEMMA ReadKeeps ==
    ASSUME AccessInv, Remember, UNCHANGED tables, Kept, NEW r \in Requests,
           request[r].step = "check", Read(r)
    PROVE  AccessInv'
<1>1. InFlight(r)
  BY DEF InFlight, Idle
<1>2. TablesMove
  BY UnchangedMoves
<1>3. PICK code \in {404, 403, 409}, here \in BOOLEAN :
         request[r].op \in Readers /\ Found(r, here, code)
  <2>1. CASE ListWorkspaces(r) \/ ReadTrail(r) \/ ListAccounts(r) \/ ListRoles(r)
    <3>1. request[r].op \in Readers
      BY <2>1 DEF ListWorkspaces, ReadTrail, ListAccounts, ListRoles, Readers
    <3>2. Found(r, TRUE, 404)
      BY <2>1 DEF ListWorkspaces, ReadTrail, ListAccounts, ListRoles
    <3> QED
      BY <3>1, <3>2
  <2>8. CASE GetAccount(r)
    <3>1. request[r].op \in Readers
      BY <2>8 DEF GetAccount, Readers
    <3>2. Found(r, TRUE, 409)
      BY <2>8 DEF GetAccount
    <3> QED
      BY <3>1, <3>2
  <2>2. CASE ListMembers(r)
    BY <2>2 DEF ListMembers, Readers, Exists
  <2>3. CASE GetWorkspaceById(r)
    BY <2>3 DEF GetWorkspaceById, Readers, HasRow
  <2>4. CASE ListUrls(r)
    BY <2>4 DEF ListUrls, Readers, HasRow
  <2>5. CASE GetMember(r)
    BY <2>5 DEF GetMember, Readers, IsActive
  <2>6. CASE ListInvitations(r)
    BY <2>6 DEF ListInvitations, Readers, Exists
  <2>7. CASE GetInvitation(r)
    BY <2>7 DEF GetInvitation, Readers
  <2> QED
    BY <2>1, <2>2, <2>3, <2>4, <2>5, <2>6, <2>7, <2>8 DEF Read
<1>4. PICK reply \in {200, 403, 404, 409} : Answer(r, reply)
  BY <1>3, ReadersAnswer DEF Found
<1> QED
  BY <1>1, <1>2, <1>4, AnswerKeeps

LEMMA CheckKeeps ==
    ASSUME AccessInv, Remember, NEW r \in Requests, Check(r)
    PROVE  AccessInv'
<1>1. InFlight(r) /\ request[r].step = "check"
  BY DEF Check, InFlight, Idle
<1>2. Kept /\ UNCHANGED tables
  BY DEF Check, Kept, counters, AccessInv, AccessTypeOK
<1>3. TablesMove
  BY <1>2, UnchangedMoves
<1>4. ASSUME NEW code \in {400, 403, 404, 409}, Answer(r, code)
      PROVE  AccessInv'
  BY <1>1, <1>2, <1>3, <1>4, AnswerKeeps
<1>5. CASE RequireOwner(r)
  <2>1. request[r].op \notin Naming
    BY <1>5 DEF RequireOwner, OwnerOperations, Naming
  <2>2. CASE workspace[request[r].at].owner = request[r].user /\ Goto(r, "write") /\ Silent
    BY <1>1, <1>2, <2>1, <2>2, CheckedKeeps DEF Naming
  <2> QED
    BY <1>4, <1>5, <2>2 DEF RequireOwner
<1>6. CASE RequireMember(r)
  <2>1. request[r].op \notin OwnerOperations /\ request[r].op \notin {"updateUrl", "deleteUrl"}
    BY <1>6 DEF RequireMember, OwnerOperations
  <2>2. CASE HasRow(request[r].at, request[r].user) /\ Goto(r, "write") /\ Silent
    BY <1>1, <1>2, <2>1, <2>2, CheckedKeeps
  <2> QED
    BY <1>4, <1>6, <2>2 DEF RequireMember
<1>7. CASE ResolveShortCode(r)
  <2>1. request[r].op \notin OwnerOperations /\ request[r].op \notin {"updateUrl", "deleteUrl"}
    BY <1>7 DEF ResolveShortCode, OwnerOperations
  <2>2. CASE HasRow(request[r].at, request[r].user) /\ Goto(r, "write") /\ Silent
    BY <1>1, <1>2, <2>1, <2>2, CheckedKeeps
  <2> QED
    BY <1>4, <1>7, <2>2 DEF ResolveShortCode
<1>8. CASE RequireLink(r)
  <2>1. request[r].op \notin OwnerOperations
    BY <1>8 DEF RequireLink, OwnerOperations
  <2>2. CASE /\ HasRow(request[r].at, request[r].user)
             /\ link[request[r].about].at = request[r].at
             /\ Goto(r, "write") /\ Silent
    BY <1>1, <1>2, <2>1, <2>2, CheckedKeeps
  <2>3. CASE request[r].op = "findById" /\ Answer(r, Controller[request[r].op].success)
    <3>1. Answer(r, 200)
      BY <2>3, ReadersAnswer DEF Readers
    <3> QED
      BY <1>1, <1>2, <1>3, <3>1, AnswerKeeps
  <2> QED
    BY <1>4, <1>8, <2>2, <2>3 DEF RequireLink
<1>9. CASE Read(r)
  BY <1>1, <1>2, <1>9, ReadKeeps
<1>10. CASE CheckElsewhere(r)
  <2>1. /\ request[r].op \notin OwnerOperations /\ request[r].op \notin Naming
        /\ request[r].op \notin {"updateUrl", "deleteUrl"}
    BY <1>10 DEF CheckElsewhere, ElsewhereOperations, OwnerOperations, Naming
  <2>2. CASE Goto(r, "write") /\ Silent
    BY <1>1, <1>2, <2>1, <2>2, CheckedKeeps
  <2> QED
    BY <1>4, <1>10, <2>2 DEF CheckElsewhere
<1>11. CASE CheckLater(r)
  <2>1. /\ request[r].op \notin OwnerOperations /\ request[r].op \notin Naming
        /\ request[r].op \notin {"updateUrl", "deleteUrl"}
    BY <1>11 DEF CheckLater, MemberRoutes, OwnerOperations, Naming
  <2>2. CASE Goto(r, "write") /\ Silent
    BY <1>1, <1>2, <2>1, <2>2, CheckedKeeps
  <2> QED
    BY <1>4, <1>11, <2>2 DEF CheckLater
<1> QED
  BY <1>5, <1>6, <1>7, <1>8, <1>9, <1>10, <1>11 DEF Check

\* The writes: what each leaves in the tables.
LEMMA WriteMoves ==
    ASSUME AccessInv, NEW r \in Requests, InFlight(r), request[r].step = "write",
           Write(r)
    PROVE  /\ TablesMove /\ Kept
           /\ \/ Written(r) /\ Silent
              \/ \E code \in {403, 404, 409, 500} : Answer(r, code)
<1> USE SoundOf
<1>1. Kept
  BY DEF Write, Kept, counters, AccessInv, AccessTypeOK
<1>2. TablesOK
  BY DEF TablesOK, AccessInv, AccessTypeOK
<1>3. CASE CreateWorkspace(r)
  <2>1. PICK w \in Workspaces :
           /\ ~ Exists(w)
           /\ workspace' = [workspace EXCEPT ![w] = [status |-> "ACTIVE", owner |-> request[r].user]]
           /\ member' = [member EXCEPT ![w][request[r].user] = [status |-> "ACTIVE", role |-> "OWNER"]]
    BY <1>3 DEF CreateWorkspace
  <2>2. UNCHANGED <<accountRole, link>> /\ Written(r) /\ Silent
    BY <1>3 DEF CreateWorkspace
  <2>3. TablesOK'
    BY <1>2, <2>1, <2>2 DEF TablesOK, WorkspaceRow, MemberRow, RolePermissions
  <2>4. Lasting
    BY <1>2, <2>1, <2>2 DEF TablesOK, Lasting, Exists, HasRow, NoWorkspace, NoRow
  <2>5. OwnersListed'
    <3> SUFFICES ASSUME NEW v \in Workspaces, Exists(v)'
                 PROVE  HasRow(v, workspace[v].owner)'
      BY DEF OwnersListed
    <3>1. CASE v = w
      BY <1>2, <2>1, <3>1 DEF TablesOK, HasRow, NoRow
    <3>2. CASE v # w
      BY <1>2, <2>1, <3>2 DEF TablesOK, HasRow, Exists, AccessInv, OwnersListed
    <3> QED
      BY <3>1, <3>2
  <2> QED
    BY <1>1, <2>2, <2>3, <2>4, <2>5 DEF TablesMove
<1>4. CASE WriteStatus(r)
  <2>1. Exists(request[r].at)
    BY <1>4 DEF WriteStatus, SuspensionRoutes, Sound, OwnerOperations
  <2>2. /\ workspace' = [workspace EXCEPT ![request[r].at].status =
                           IF request[r].op = "deleteWorkspace" THEN "SUSPENDED" ELSE "ACTIVE"]
        /\ Written(r) /\ Silent /\ UNCHANGED <<accountRole, member, link>>
    BY <1>4 DEF WriteStatus
  <2>3. workspace[request[r].at] \in WorkspaceRow
    BY <1>2, <2>1 DEF TablesOK, Exists
  <2>4. /\ workspace'[request[r].at] \in WorkspaceRow
        /\ workspace'[request[r].at].owner = workspace[request[r].at].owner
    BY <1>2, <2>2, <2>3 DEF TablesOK, WorkspaceRow
  <2>5. TablesOK'
    BY <1>2, <2>2, <2>4 DEF TablesOK
  <2>6. Lasting
    BY <1>2, <2>2, <2>4, AccessAssumption
       DEF TablesOK, Lasting, Exists, HasRow, NoWorkspace, WorkspaceRow
  <2>7. \A w \in Workspaces :
           Exists(w)' => Exists(w) /\ workspace'[w].owner = workspace[w].owner
    BY <1>2, <2>1, <2>2, <2>4 DEF TablesOK, Exists
  <2> QED
    BY <1>1, <2>2, <2>5, <2>6, <2>7, OwnersStay
<1>5. CASE CreateUrl(r)
  <2>1. request[r].about \in Links
    BY <1>5, AboutLinks DEF CreateUrl, Sound
  <2>2. CASE Answer(r, 500) /\ UNCHANGED link
    BY <1>1, <1>5, <2>2, UnchangedMoves DEF CreateUrl, tables
  <2>3. ASSUME NEW protected \in BOOLEAN, link[request[r].about] = NoLink,
               link' = [link EXCEPT ![request[r].about] =
                          [status |-> "ACTIVE", at |-> request[r].at, protected |-> protected]]
        PROVE  TablesMove
    <3>1. TablesOK'
      BY <1>2, <1>5, <2>1, <2>3 DEF TablesOK, LinkRow, CreateUrl
    <3>2. Lasting
      BY <1>2, <1>5, <2>1, <2>3 DEF TablesOK, Lasting, CreateUrl, Exists, HasRow
    <3> QED
      BY <1>5, <3>1, <3>2, OwnersStay DEF CreateUrl, Exists
  <2> QED
    BY <1>1, <1>5, <2>2, <2>3 DEF CreateUrl
<1>6. CASE UpdateUrl(r)
  <2>1. request[r].about \in Links
    BY <1>6, AboutLinks DEF UpdateUrl, Sound
  <2>2. link[request[r].about] \in LinkRow
    BY <1>2, <1>6, <2>1, AccessAssumption DEF UpdateUrl, Sound, TablesOK, NoLink
  <2>3. PICK protected \in BOOLEAN :
           link' = [link EXCEPT ![request[r].about].protected = protected]
    BY <1>6 DEF UpdateUrl
  <2>4. link'[request[r].about] \in LinkRow /\ link'[request[r].about].at = link[request[r].about].at
    BY <1>2, <2>1, <2>2, <2>3 DEF TablesOK, LinkRow
  <2>5. UNCHANGED <<accountRole, workspace, member>> /\ Written(r) /\ Silent
    BY <1>6 DEF UpdateUrl
  <2>6. TablesOK'
    BY <1>2, <2>3, <2>4, <2>5 DEF TablesOK
  <2>7. Lasting
    BY <1>2, <2>1, <2>3, <2>4, <2>5, AccessAssumption
       DEF TablesOK, Lasting, Exists, HasRow, LinkRow, NoLink
  <2> QED
    BY <1>1, <2>5, <2>6, <2>7, OwnersStay DEF Exists
<1>7. CASE DeleteUrl(r)
  <2>1. request[r].about \in Links
    BY <1>7, AboutLinks DEF DeleteUrl, Sound
  <2>2. link[request[r].about] \in LinkRow
    BY <1>2, <1>7, <2>1, AccessAssumption DEF DeleteUrl, Sound, TablesOK, NoLink
  <2>3. link' = [link EXCEPT ![request[r].about].status = "DISABLED"]
    BY <1>7 DEF DeleteUrl
  <2>4. link'[request[r].about] \in LinkRow /\ link'[request[r].about].at = link[request[r].about].at
    BY <1>2, <2>1, <2>2, <2>3 DEF TablesOK, LinkRow
  <2>5. UNCHANGED <<accountRole, workspace, member>> /\ Written(r) /\ Silent
    BY <1>7 DEF DeleteUrl
  <2>6. TablesOK'
    BY <1>2, <2>3, <2>4, <2>5 DEF TablesOK
  <2>7. Lasting
    BY <1>2, <2>1, <2>3, <2>4, <2>5, AccessAssumption
       DEF TablesOK, Lasting, Exists, HasRow, LinkRow, NoLink
  <2> QED
    BY <1>1, <2>5, <2>6, <2>7, OwnersStay DEF Exists
<1>8. CASE ChangeAccountRole(r)
  <2>1. TablesOK'
    BY <1>2, <1>8 DEF TablesOK, ChangeAccountRole
  <2>2. Lasting
    BY <1>2, <1>8 DEF TablesOK, ChangeAccountRole, Lasting, Exists, HasRow
  <2> QED
    BY <1>1, <1>8, <2>1, <2>2, OwnersStay DEF ChangeAccountRole, Exists
<1>9. CASE WriteElsewhere(r)
  BY <1>1, <1>9, UnchangedMoves DEF WriteElsewhere
<1>10. CASE WriteMember(r)
  <2> DEFINE c == request[r]
             results == Outcomes(c.op, c.at, c.user, c.about)
  <2>1. CASE \E code \in {403, 404, 409} : Answer(r, code) /\ UNCHANGED <<member, workspace>>
    BY <1>1, <1>10, <2>1, UnchangedMoves DEF WriteMember, tables
  <2>2. ASSUME NEW row \in results,
               member' = [member EXCEPT ![c.at] = row],
               workspace' = IF c.op = "transferOwnership"
                            THEN [workspace EXCEPT ![c.at].owner = c.about] ELSE workspace
        PROVE  TablesMove
    <3>1. member[c.at] \in [Accounts -> MemberRow \cup {NoRow}]
      BY <1>2 DEF TablesOK
    <3>2. UNCHANGED <<accountRole, link>>
      BY <1>10 DEF WriteMember
    <3>3. /\ row \in [Accounts -> MemberRow \cup {NoRow}]
          /\ \A u \in Accounts : member[c.at][u] # NoRow => row[u] # NoRow
          /\ c.op = "transferOwnership" =>
                /\ workspace[c.at].owner = c.user
                /\ c.about \in Accounts /\ row[c.about] # NoRow
      <4>1. c.user \in Accounts
        OBVIOUS
      <4>2. c.op \in {"transferOwnership", "updateWorkspaceMemberRole", "removeWorkspaceMember"}
            => c.about \in Accounts
        BY AboutAccounts DEF Sound
      <4>3. CASE c.op = "leaveWorkspace"
        BY <2>2, <3>1, <4>1, <4>3 DEF Outcomes, MemberRow, NoRow, IsActive
      <4>4. CASE c.op = "removeWorkspaceMember"
        <5>1. /\ member[c.at][c.about].status = "ACTIVE"
              /\ row = [member[c.at] EXCEPT ![c.about].status = "REMOVED"]
          BY <2>2, <4>4 DEF Outcomes, IsActive
        <5> QED
          BY <3>1, <4>2, <4>4, <5>1 DEF MemberRow, NoRow
      <4>5. CASE c.op = "updateWorkspaceMemberRole"
        <5>1. /\ member[c.at][c.about].status = "ACTIVE"
              /\ \E role \in {"ADMIN", "MEMBER"} :
                    row = [member[c.at] EXCEPT ![c.about].role = role]
          BY <2>2, <4>5 DEF Outcomes, IsActive
        <5> QED
          BY <3>1, <4>2, <4>5, <5>1 DEF MemberRow, NoRow, RolePermissions
      <4>6. CASE c.op = "transferOwnership"
        <5>1. /\ workspace[c.at].owner = c.user
              /\ member[c.at][c.about].status = "ACTIVE"
              /\ row = [member[c.at] EXCEPT ![c.user].role = "MEMBER", ![c.about].role = "OWNER"]
          BY <2>2, <4>6 DEF Outcomes, IsActive
        <5>2. member[c.at][c.user] # NoRow
          <6>1. c.at \in Workspaces
            OBVIOUS
          <6> HIDE DEF c
          <6>2. Exists(c.at)
            BY <5>1, <4>1, AccessAssumption DEF Exists, NoWorkspace
          <6> QED
            BY <6>1, <6>2, <5>1 DEF AccessInv, OwnersListed, HasRow
        <5>3. member[c.at][c.user] \in MemberRow /\ member[c.at][c.about] \in MemberRow
          <6>1. c.about \in Accounts
            BY <4>2, <4>6
          <6>2. member[c.at][c.about] # NoRow
            <7> HIDE DEF c, results
            <7> QED
              BY <5>1 DEF NoRow
          <6>3. /\ member[c.at][c.user] \in MemberRow \cup {NoRow}
                /\ member[c.at][c.about] \in MemberRow \cup {NoRow}
            <7> HIDE DEF c
            <7> QED
              BY <3>1, <4>1, <6>1
          <6> QED
            BY <5>2, <6>2, <6>3
        <5>4. /\ [member[c.at][c.user] EXCEPT !.role = "MEMBER"] \in MemberRow
              /\ [member[c.at][c.about] EXCEPT !.role = "OWNER"] \in MemberRow
          BY <5>3 DEF MemberRow, RolePermissions
        <5>5. NoRow \notin MemberRow
          BY DEF MemberRow, NoRow
        <5>6. c.about # c.user
          BY <2>2, <4>6 DEF Outcomes
        <5>7. row = [u \in Accounts |->
                       IF u = c.about THEN [member[c.at][u] EXCEPT !.role = "OWNER"]
                       ELSE IF u = c.user THEN [member[c.at][u] EXCEPT !.role = "MEMBER"]
                       ELSE member[c.at][u]]
          <6> HIDE DEF c
          <6> QED
            BY <3>1, <4>1, <4>2, <4>6, <5>1, <5>6
        <5> HIDE DEF c
        <5>8. row \in [Accounts -> MemberRow \cup {NoRow}]
          BY <3>1, <5>4, <5>7
        <5>9. \A u \in Accounts : member[c.at][u] # NoRow => row[u] # NoRow
          BY <3>1, <5>4, <5>5, <5>7
        <5>10. c.about \in Accounts /\ row[c.about] # NoRow
          BY <3>1, <4>2, <4>6, <5>3, <5>5, <5>9
        <5> QED
          BY <5>1, <5>8, <5>9, <5>10
      <4>7. CASE c.op = "acceptInvitation"
        <5>1. PICK role \in DOMAIN RolePermissions :
                 row = [member[c.at] EXCEPT ![c.user] = [status |-> "ACTIVE", role |-> role]]
          BY <2>2, <4>7 DEF Outcomes
        <5>2. PICK joined \in MemberRow : joined = [status |-> "ACTIVE", role |-> role]
          BY <5>1 DEF MemberRow
        <5>3. joined # NoRow
          BY <5>2 DEF NoRow
        <5> HIDE DEF c
        <5>4. row = [member[c.at] EXCEPT ![c.user] = joined]
          BY <5>1, <5>2
        <5> QED
          BY <3>1, <4>1, <4>7, <5>3, <5>4
      <4> QED
        BY <1>10, <2>2, <4>3, <4>4, <4>5, <4>6, <4>7
           DEF WriteMember, Outcomes, MemberRoutes
    <3>4. c.op = "transferOwnership" => workspace[c.at] \in WorkspaceRow
      BY <1>2, <3>3, AccessAssumption DEF TablesOK, NoWorkspace
    <3>5. TablesOK'
      BY <1>2, <2>2, <3>2, <3>3, <3>4 DEF TablesOK, WorkspaceRow
    <3>6. Lasting
      BY <1>2, <2>2, <3>2, <3>3, <3>4, AccessAssumption
         DEF TablesOK, Lasting, Exists, HasRow, WorkspaceRow, NoWorkspace
    <3>7. OwnersListed'
      <4> SUFFICES ASSUME NEW v \in Workspaces, Exists(v)'
                   PROVE  HasRow(v, workspace[v].owner)'
        BY DEF OwnersListed
      <4>1. CASE v = c.at /\ c.op = "transferOwnership"
        <5>1. workspace'[v].owner = c.about /\ member'[v] = row
          BY <1>2, <2>2, <3>4, <4>1 DEF TablesOK, WorkspaceRow
        <5> QED
          BY <3>3, <4>1, <5>1 DEF HasRow
      <4>2. CASE v # c.at \/ c.op # "transferOwnership"
        <5>1. workspace'[v] = workspace[v]
          BY <1>2, <2>2, <4>2 DEF TablesOK
        <5>2. HasRow(v, workspace[v].owner) /\ workspace[v].owner \in Accounts
          BY <1>2, <5>1 DEF AccessInv, OwnersListed, Exists, TablesOK, WorkspaceRow
        <5>3. PICK u \in Accounts : u = workspace[v].owner
          BY <5>2
        <5>4. HasRow(v, u)'
          BY <3>6, <5>2, <5>3 DEF Lasting
        <5> QED
          BY <5>1, <5>3, <5>4 DEF HasRow
      <4> QED
        BY <4>1, <4>2
    <3> QED
      BY <3>5, <3>6, <3>7 DEF TablesMove
  <2> QED
    BY <1>1, <1>10, <2>1, <2>2 DEF WriteMember
<1> QED
  BY <1>3, <1>4, <1>5, <1>6, <1>7, <1>8, <1>9, <1>10 DEF Write

LEMMA WriteKeeps ==
    ASSUME AccessInv, Remember, NEW r \in Requests, Write(r)
    PROVE  AccessInv'
<1>1. InFlight(r) /\ request[r].step = "write"
  BY DEF Write, InFlight, Idle
<1>2. /\ TablesMove /\ Kept
      /\ \/ Written(r) /\ Silent
         \/ \E code \in {403, 404, 409, 500} : Answer(r, code)
  BY <1>1, WriteMoves
<1>3. CASE Written(r) /\ Silent
  BY <1>1, <1>2, <1>3, WrittenKeeps
<1>4. ASSUME NEW code \in {403, 404, 409, 500}, Answer(r, code)
      PROVE  AccessInv'
  BY <1>1, <1>2, <1>4, AnswerKeeps
<1> QED
  BY <1>2, <1>3, <1>4

LEMMA PublishKeeps ==
    ASSUME AccessInv, Remember, NEW r \in Requests, Publish(r)
    PROVE  AccessInv'
<1>1. InFlight(r) /\ request[r].step = "publish"
  BY DEF Publish, InFlight, Idle
<1>2. Kept /\ UNCHANGED tables
  BY DEF Publish, Kept, counters, AccessInv, AccessTypeOK
<1>3. TablesMove
  BY <1>2, UnchangedMoves
<1>4. PICK code \in {200, 201} : Answer(r, code)
  <2>1. Controller[request[r].op].success \in {200, 201}
    BY <1>1, SoundOf, SuccessCodes
  <2> QED
    BY <2>1 DEF Publish
<1> QED
  BY <1>1, <1>2, <1>3, <1>4, AnswerKeeps

LEMMA FailKeeps ==
    ASSUME AccessInv, Remember, NEW r \in Requests, Fail(r)
    PROVE  AccessInv'
<1>1. InFlight(r) /\ Answer(r, 500)
  BY DEF Fail, InFlight
<1>2. Kept /\ UNCHANGED tables
  BY DEF Fail, Kept, counters, AccessInv, AccessTypeOK
<1>3. TablesMove
  BY <1>2, UnchangedMoves
<1> QED
  BY <1>1, <1>2, <1>3, AnswerKeeps

\* A token comes or goes: the requests are where they were.
LEMMA TokensKeep ==
    ASSUME AccessInv, Remember, UNCHANGED <<tables, request>>, Silent, Kept
    PROVE  AccessInv'
<1>1. TablesMove
  BY UnchangedMoves
<1>2. held' \in [Requests -> SUBSET {"owner", "permitted"}]
  <2>1. \A q \in Requests : request'[q] # Idle => held'[q] \in SUBSET {"owner", "permitted"}
    BY RememberedRights
  <2> QED
    BY <2>1 DEF Remember
<1>3. ASSUME NEW q \in Requests, request'[q] # Idle
      PROVE  Sound(request[q], held[q])'
  <2>1. PICK d : d = request[q]
    OBVIOUS
  <2>2. PICK rights : rights = held[q]
    OBVIOUS
  <2>3. PICK more : more = held'[q]
    OBVIOUS
  <2>4. d \in Call /\ Sound(d, rights)
    BY <1>3, <2>1, <2>2 DEF AccessInv, AccessTypeOK, RequestsSound
  <2>5. rights \subseteq more
    BY <1>3, <2>2, <2>3, RememberedRights
  <2>6. Sound(d, more)'
    BY <1>1, <2>4, <2>5, SoundLasts
  <2> QED
    BY <2>1, <2>3, <2>6
<1> QED
  BY <1>1, <1>2, <1>3, SilentIsHonest
     DEF AccessInv, AccessTypeOK, RequestsSound, AnswerOK, TablesMove, TablesOK, Kept

-----------------------------------------------------------------------------
(* The invariant of the specification                                      *)

LEMMA AccessInvInit == Init => AccessInv
<1> SUFFICES ASSUME Init PROVE AccessInv
  OBVIOUS
<1>1. AccessTypeOK
  <2>1. claim \in [Accounts -> {"USER", "ADMIN", "none"}]
    BY DEF Init
  <2> QED
    BY <2>1, AccessAssumption DEF Init, AccessTypeOK
<1>2. OwnersListed
  <2> SUFFICES ASSUME NEW w \in Workspaces, Exists(w) PROVE HasRow(w, workspace[w].owner)
    BY DEF OwnersListed
  <2>1. workspace[w].owner \in Accounts
    BY <1>1 DEF AccessTypeOK, Exists, WorkspaceRow
  <2> QED
    BY <2>1 DEF Init, HasRow, NoRow
<1> QED
  BY <1>1, <1>2 DEF Init, AccessInv, RequestsSound, AnswerOK, NoAnswer, AnswerIsHonest

LEMMA AccessInvStep == AccessInv /\ [Next]_vars => AccessInv'
<1> SUFFICES ASSUME AccessInv, [Next]_vars PROVE AccessInv'
  OBVIOUS
<1>1. CASE UNCHANGED vars
  BY <1>1 DEF vars, tables, counters, AccessInv, AccessTypeOK, OwnersListed, RequestsSound,
              Sound, AnswerOK, AnswerIsHonest, Exists, HasRow
<1>2. ASSUME NEW r \in Requests, Receive(r), Remember PROVE AccessInv'
  BY <1>2, ReceiveKeeps
<1>3. ASSUME NEW r \in Requests, Progress(r), Remember PROVE AccessInv'
  BY <1>3, PermitKeeps, CheckKeeps, WriteKeeps, PublishKeeps, FailKeeps DEF Progress
<1>4. ASSUME NEW u \in Accounts, IssueToken(u), Remember PROVE AccessInv'
  <2>1. Kept
    <3>1. claim' \in [Accounts -> {"USER", "ADMIN", "none"}]
      BY <1>4 DEF IssueToken, AccessInv, AccessTypeOK
    <3> QED
      BY <1>4, <3>1, AccessAssumption DEF IssueToken, Kept, AccessInv, AccessTypeOK
  <2> QED
    BY <1>4, <2>1, TokensKeep DEF IssueToken
<1>5. ASSUME NEW u \in Accounts, TokenExpires(u), Remember PROVE AccessInv'
  <2>1. Kept
    BY <1>5 DEF TokenExpires, counters, Kept, AccessInv, AccessTypeOK
  <2> QED
    BY <1>5, <2>1, TokensKeep DEF TokenExpires
<1> QED
  BY <1>1, <1>2, <1>3, <1>4, <1>5 DEF Next

\* In every state each request in flight is sound: what its guard and its check
\* have found is remembered, and what its write needs is still in the tables.
THEOREM AccessInvariant == Spec => []AccessInv
  BY AccessInvInit, AccessInvStep, PTL DEF Spec

\* The tables hold rows of the schema, and the requests what their controllers
\* have taken from them.
THEOREM AccessTypeCorrect == Spec => []AccessTypeOK
  BY AccessInvariant, PTL DEF AccessInv

\* No endpoint refuses what it has done, or reports as created what it has not:
\* errorHandler and the replies of the controllers tell the truth.
THEOREM AnswersAreHonest == Spec => []AnswerIsHonest
  BY AccessInvariant, PTL DEF AccessInv, AnswerOK

-----------------------------------------------------------------------------
(* The writes                                                              *)

\* A request writes in its write step, and in no other.
LEMMA OnlyWritesWrite ==
    ASSUME AccessInv, Next, NEW r \in Requests, Writes(r)
    PROVE  Write(r)
<1>1. request \in [Requests -> Call \cup {Idle}]
  BY DEF AccessInv, AccessTypeOK
<1>2. Idle.written = FALSE
  BY DEF Idle
<1>3. ASSUME NEW q \in Requests, NEW step, Goto(q, step)
      PROVE  FALSE
  <2>1. request'[r].written = request[r].written
    BY <1>3 DEF Goto, AccessInv, AccessTypeOK, Call, Idle
  <2> QED
    BY <2>1 DEF Writes
<1>4. ASSUME NEW q \in Requests, NEW code, Answer(q, code)
      PROVE  FALSE
  <2>1. request'[r] = Idle \/ request'[r] = request[r]
    BY <1>4 DEF Answer, AccessInv, AccessTypeOK
  <2> QED
    BY <2>1, <1>2 DEF Writes
<1>5. ASSUME NEW q \in Requests, Receive(q)
      PROVE  FALSE
  <2>1. request'[r].written = FALSE \/ request'[r] = request[r]
    BY <1>5 DEF Receive, AccessInv, AccessTypeOK
  <2> QED
    BY <2>1 DEF Writes
<1>6. ASSUME NEW q \in Requests, Write(q)
      PROVE  q = r
  <2>1. InFlight(q) /\ request[q].step = "write"
    BY <1>6 DEF Write, InFlight, Idle
  <2>2. Written(q) \/ \E code : Answer(q, code)
    BY <1>6, <2>1, WriteMoves
  <2>3. CASE Written(q)
    BY <2>3 DEF Written, Writes, AccessInv, AccessTypeOK
  <2> QED
    BY <2>2, <2>3, <1>4
<1>7. ASSUME NEW q \in Requests, Permit(q) \/ Check(q) \/ Publish(q) \/ Fail(q)
      PROVE  FALSE
  <2>1. (\E step : Goto(q, step)) \/ (\E code : Answer(q, code))
    <3>1. CASE Permit(q)
      BY <3>1 DEF Permit
    <3>2. CASE Check(q)
      BY <3>2 DEF Check, RequireOwner, RequireMember, ResolveShortCode, RequireLink, Read,
                  CheckElsewhere, CheckLater, Found, ListWorkspaces, GetWorkspaceById,
                  ListMembers, GetMember, ListInvitations, GetInvitation, ReadTrail, ListUrls,
                  ListRoles, ListAccounts, GetAccount
    <3>3. CASE Publish(q) \/ Fail(q)
      BY <3>3 DEF Publish, Fail
    <3> QED
      BY <1>7, <3>1, <3>2, <3>3
  <2> QED
    BY <2>1, <1>3, <1>4
<1>8. ASSUME NEW u \in Accounts, IssueToken(u) \/ TokenExpires(u)
      PROVE  FALSE
  BY <1>8 DEF IssueToken, TokenExpires, Writes
<1> QED
  BY <1>5, <1>6, <1>7, <1>8 DEF Next, Progress

\* What is known of a request that writes.
LEMMA WriterIsSound ==
    ASSUME AccessInv, Next, NEW r \in Requests, Writes(r)
    PROVE  /\ request[r].step = "write" /\ Sound(request[r], held[r])
           /\ request[r].op \in OwnerOperations => "owner" \in held[r]
           /\ Guard[request[r].op] # "none" => "permitted" \in held[r]
           /\ request[r].op \in Naming => HasRow(request[r].at, request[r].user)
<1>1. Write(r)
  BY OnlyWritesWrite
<1>2. request[r].step = "write" /\ InFlight(r)
  BY <1>1 DEF Write, InFlight, Idle
<1>3. Sound(request[r], held[r])
  BY <1>2, SoundOf
<1> QED
  BY <1>2, <1>3 DEF Sound

\* A link that is there changes in the hands of a request about its workspace.
LEMMA LinkChangesInside ==
    ASSUME AccessInv, Next, NEW l \in Links, link[l] # NoLink, link'[l] # link[l]
    PROVE  /\ link'[l].at = link[l].at
           /\ \E r \in Requests :
                 Writes(r) /\ request[r].at = link[l].at /\ request[r].about = l
<1>1. PICK r \in Requests : Write(r)
  BY DEF Next, Progress, Receive, Permit, Check, Publish, Fail, IssueToken, TokenExpires, tables
<1>2. InFlight(r) /\ request[r].step = "write"
  BY <1>1 DEF Write, InFlight, Idle
<1>3. TablesMove
  BY <1>1, <1>2, WriteMoves
<1>4. Sound(request[r], held[r])
  BY <1>2, SoundOf
<1>5. CreateUrl(r) \/ UpdateUrl(r) \/ DeleteUrl(r)
  BY <1>1 DEF Write, CreateWorkspace, WriteStatus, ChangeAccountRole, WriteElsewhere,
              WriteMember, tables
<1>6. request[r].about = l /\ request[r].op \in {"updateUrl", "deleteUrl"} /\ Written(r)
  <2>1. link \in [Links -> LinkRow \cup {NoLink}]
    BY DEF AccessInv, AccessTypeOK
  <2>2. CASE CreateUrl(r)
    BY <2>1, <2>2 DEF CreateUrl
  <2>3. CASE UpdateUrl(r)
    BY <2>1, <2>3 DEF UpdateUrl
  <2>4. CASE DeleteUrl(r)
    BY <2>1, <2>4 DEF DeleteUrl
  <2> QED
    BY <1>5, <2>2, <2>3, <2>4
<1>7. link[l].at = request[r].at
  BY <1>2, <1>4, <1>6 DEF Sound
<1>8. Writes(r)
  <2>1. request'[r].written = TRUE
    BY <1>2, <1>6, SoundOf DEF Written, AccessInv, AccessTypeOK, Call
  <2>2. request[r].written = FALSE
    BY <1>2, <1>4, SoundOf DEF Sound
  <2> QED
    BY <2>1, <2>2 DEF Writes
<1> QED
  BY <1>3, <1>6, <1>7, <1>8 DEF TablesMove, Lasting

\* The row a check of WorkspaceService or UrlService has found is there at the
\* write, and a link changes only on behalf of its own workspace.
THEOREM ChangesComeFromInside == Spec => ChangedFromInside
<1> DEFINE Inside ==
             /\ \A r \in Requests :
                   Writes(r) /\ request[r].op \in {"updateWorkspace", "createUrl", "updateUrl", "deleteUrl"}
                   => HasRow(request[r].at, request[r].user)
             /\ \A l \in Links :
                   link[l] # NoLink /\ link'[l] # link[l]
                   => /\ link'[l].at = link[l].at
                      /\ \E r \in Requests :
                            Writes(r) /\ request[r].at = link[l].at /\ request[r].about = l
<1>1. AccessInv /\ [Next]_vars => [Inside]_vars
  BY WriterIsSound, LinkChangesInside DEF Naming
<1> QED
  BY <1>1, AccessInvariant, PTL DEF Spec, ChangedFromInside

\* requireWorkspacePermission and requireOwner have seen, at some moment since the
\* request arrived, what they are there to see.
THEOREM WritersWereEntitled == Spec => EntitledSometime
<1>1. AccessInv /\ [Next]_vars =>
        [\A r \in Requests :
          Writes(r) => /\ Guard[request[r].op] # "none" => "permitted" \in held[r]
                       /\ request[r].op \in OwnerOperations => "owner" \in held[r]]_vars
  BY WriterIsSound
<1> QED
  BY <1>1, AccessInvariant, PTL DEF Spec, EntitledSometime
=============================================================================
