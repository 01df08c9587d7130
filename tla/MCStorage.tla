----------------------------- MODULE MCStorage -----------------------------
(* The rows and the objects of one user: the account and its first         *)
(* sign-ins, the avatar, the logo of a workspace.  They share no state     *)
(* that the three modules keep: a behaviour is of one of them, and the     *)
(* others stay as they began.                                              *)
EXTENDS Accounts, WorkspaceBranding, ProfileAvatar, TLC

VARIABLE of

StorageInit ==
    /\ of \in {"account", "logo", "avatar"}
    /\ AccountsInit /\ BrandingInit /\ AvatarInit
    /\ of # "logo" => logoUrl = NoLogo
    /\ of # "avatar" => avatarUrl.key = 0

StorageNext ==
    \/ of = "account" /\ AccountsNext /\ UNCHANGED <<of, brandingVars, avatarVars>>
    \/ of = "logo"    /\ BrandingNext /\ UNCHANGED <<of, accountVars, avatarVars>>
    \/ of = "avatar"  /\ AvatarNext   /\ UNCHANGED <<of, accountVars, brandingVars>>

StorageSpec ==
    StorageInit /\ [][StorageNext]_<<of, accountVars, brandingVars, avatarVars>>

StorageSymmetry ==
    Permutations(AccountRequests) \cup Permutations(LogoRequests) \cup Permutations(Tabs)
=============================================================================
