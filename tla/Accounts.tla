------------------------------ MODULE Accounts ------------------------------
(***************************************************************************)
(* How an account comes into being: registration, the verification of its  *)
(* email address, the sign-in with Google, and what an administrator does  *)
(* to it, as AuthService, OAuthService and AdminUserService write the      *)
(* tables users, email_verification_tokens, oauth_accounts and workspaces  *)
(* for one email address.                                                  *)
(*                                                                         *)
(* A request is split between the query that decides and the transaction   *)
(* that writes.  The foreign keys cascade: what belongs to an account goes *)
(* with it.  Sessions models what happens after the sign-in.               *)
(***************************************************************************)
EXTENDS Naturals, FiniteSets

CONSTANTS
    AccountRequests,  \* the requests in flight
    MaxAccounts,      \* bound: the rows ever inserted in users
    MaxTokens,        \* bound: the rows ever inserted in email_verification_tokens
    MaxLinks,         \* bound: the rows of oauth_accounts
    MaxWorkspaces     \* bound: the workspaces the account is given

ASSUME AccountsAssumption ==
    /\ MaxAccounts \in Nat
    /\ MaxTokens \in Nat
    /\ MaxLinks \in Nat
    /\ MaxWorkspaces \in Nat

VARIABLES
    user,        \* the row of users with this email address
    token,       \* email_verification_tokens, in the order of insertion
    links,       \* how many rows of oauth_accounts name the Google account
    workspaces,  \* how many workspaces the account has been given
    calls,       \* the requests in flight
    spent,       \* history: how often each token has verified the account
    signedIn,    \* history: the account has completed a sign-in
    lapses       \* history: what has happened that makes less hold

accountVars == <<user, token, links, workspaces, calls, spent, signedIn, lapses>>

-----------------------------------------------------------------------------
(* The rows                                                                *)

TokenIds   == 1..MaxTokens
AccountIds == 0..MaxAccounts

UserStatus  == {"ACTIVE", "SUSPENDED", "DELETED", "PENDING_VERIFICATION"}
TokenStates == {"unused", "live", "expired", "deleted"}

\* id = 0: there is no such row, or none yet
UserRow == [id : AccountIds, exists : BOOLEAN, status : UserStatus, verified : BOOLEAN]

HasToken(t)     == token[t] \in {"live", "expired"}
IsNextToken(t)  == token[t] = "unused" /\ \A q \in 1..(t - 1) : token[q] # "unused"
Is(id)          == user.exists /\ user.id = id

\* overlap: two requests have been in flight at once
\* resentSettled: a token was requested for an account that has its workspace
\* linkedPending: a Google account was linked to one that has none
Lapses == {"overlap", "resentSettled", "linkedPending"}

AccountCalls ==
    [step : {"register", "google:email", "google:create"}]
    \cup [step : {"resend"}, id : AccountIds, old : SUBSET TokenIds]
    \cup [step : {"verify"}, id : AccountIds, token : TokenIds]
    \cup [step : {"google:link", "login"}, id : AccountIds]

NoCall == [step |-> "none"]

In(r, step) == calls[r].step = step
Busy        == {r \in AccountRequests : ~ In(r, "none")}

\* A request that begins while another is in flight overlaps with it.
Overlap == IF Busy = {} THEN {} ELSE {"overlap"}

Starts(r, call) ==
    /\ In(r, "none")
    /\ calls' = [calls EXCEPT ![r] = call]
    /\ lapses' = lapses \cup Overlap
Goes(r, call) == calls' = [calls EXCEPT ![r] = call] /\ UNCHANGED lapses
Ends(r)       == calls' = [calls EXCEPT ![r] = NoCall] /\ UNCHANGED lapses

\* A request of one step.
AtOnce == (\E r \in AccountRequests : In(r, "none")) /\ UNCHANGED calls
Alone  == AtOnce /\ lapses' = lapses \cup Overlap

-----------------------------------------------------------------------------
(* Registration                                                            *)

\* registerUser finds no account.  (It refuses an address that has one: an
\* ACTIVE account is a conflict, and checkUserStatus throws for every other
\* status, PENDING_VERIFICATION included.)
RegisterRead(r) ==
    /\ ~ user.exists
    /\ Starts(r, [step |-> "register"])
    /\ UNCHANGED <<user, token, links, workspaces, spent, signedIn>>

\* createPendingUser, one transaction; a second insertion of the address fails.
RegisterCommit(r, t) ==
    /\ In(r, "register")
    /\ ~ user.exists
    /\ user.id < MaxAccounts
    /\ IsNextToken(t)
    /\ user' = [id |-> user.id + 1, exists |-> TRUE,
                status |-> "PENDING_VERIFICATION", verified |-> FALSE]
    /\ token' = [token EXCEPT ![t] = "live"]
    /\ Ends(r)
    /\ UNCHANGED <<links, workspaces, spent, signedIn>>

-----------------------------------------------------------------------------
(* The verification of the address                                         *)

\* resendVerificationEmail finds the account, whatever its status, and
\* deleteByUserId starts: it deletes the tokens its statement sees.
ResendRead(r) ==
    /\ user.exists
    /\ In(r, "none")
    /\ calls' = [calls EXCEPT ![r] = [step |-> "resend", id |-> user.id,
                                      old |-> {t \in TokenIds : HasToken(t)}]]
    /\ lapses' = lapses \cup Overlap \cup (IF workspaces > 0 THEN {"resentSettled"} ELSE {})
    /\ UNCHANGED <<user, token, links, workspaces, spent, signedIn>>

\* Mutant of ResendCommit: the older tokens are kept.
ResendKeepsOld(r, t) ==
    /\ In(r, "resend")
    /\ Is(calls[r].id)
    /\ IsNextToken(t)
    /\ token' = [token EXCEPT ![t] = "live"]
    /\ Ends(r)
    /\ UNCHANGED <<user, links, workspaces, spent, signedIn>>

\* sendVerificationEmail commits: the new token in place of those.
ResendCommit(r, t) ==
    /\ In(r, "resend")
    /\ Is(calls[r].id)
    /\ IsNextToken(t)
    /\ token' = [q \in TokenIds |-> CASE q = t -> "live"
                                      [] q \in calls[r].old -> "deleted"
                                      [] OTHER -> token[q]]
    /\ Ends(r)
    /\ UNCHANGED <<user, links, workspaces, spent, signedIn>>

TokenExpires(t) ==
    /\ token[t] = "live"
    /\ token' = [token EXCEPT ![t] = "expired"]
    /\ UNCHANGED <<user, links, workspaces, calls, spent, signedIn, lapses>>

\* verifyEmail deletes a token that has expired.
VerifyExpired(t) ==
    /\ token[t] = "expired"
    /\ token' = [token EXCEPT ![t] = "deleted"]
    /\ Alone
    /\ UNCHANGED <<user, links, workspaces, spent, signedIn>>

\* verifyEmail finds the token and its account; it looks at neither the
\* account's status nor whether it is verified.
VerifyRead(r, t) ==
    /\ token[t] = "live"
    /\ Starts(r, [step |-> "verify", id |-> user.id, token |-> t])
    /\ UNCHANGED <<user, token, links, workspaces, spent, signedIn>>

Verified(r, given) ==
    /\ workspaces + given <= MaxWorkspaces
    /\ user' = [user EXCEPT !.status = "ACTIVE", !.verified = TRUE]
    /\ workspaces' = workspaces + given
    /\ token' = [token EXCEPT ![calls[r].token] = "deleted"]
    /\ spent' = [spent EXCEPT ![calls[r].token] = @ + 1]
    /\ Goes(r, [step |-> "login", id |-> calls[r].id])
    /\ UNCHANGED <<links, signedIn>>

\* Mutant of VerifyCommit: the token is deleted by deleteMany, which does not
\* fail when another request has deleted it.
VerifyLenient(r) == In(r, "verify") /\ Is(calls[r].id) /\ Verified(r, 1)

\* Mutant of VerifyCommit: the workspace is left to a later step.
VerifyWithoutWorkspace(r) ==
    In(r, "verify") /\ Is(calls[r].id) /\ HasToken(calls[r].token) /\ Verified(r, 0)

\* One transaction: the account becomes ACTIVE and verified and gets its
\* workspace; the deletion of the token by id fails, and rolls all of it back,
\* if the token is gone.
VerifyCommit(r) ==
    In(r, "verify") /\ Is(calls[r].id) /\ HasToken(calls[r].token) /\ Verified(r, 1)

-----------------------------------------------------------------------------
(* Signing in                                                              *)

\* loginUser, with the right password.
PasswordLogin(r) ==
    /\ user.exists /\ user.verified /\ user.status = "ACTIVE"
    /\ Starts(r, [step |-> "login", id |-> user.id])
    /\ UNCHANGED <<user, token, links, workspaces, spent, signedIn>>

\* findOrCreateUser: the Google account is linked; the status is not looked at.
GoogleLogin(r) ==
    /\ links > 0
    /\ Starts(r, [step |-> "login", id |-> user.id])
    /\ UNCHANGED <<user, token, links, workspaces, spent, signedIn>>

\* It is not, and findByEmail follows.
GoogleUnknown(r) ==
    /\ links = 0
    /\ Starts(r, [step |-> "google:email"])
    /\ UNCHANGED <<user, token, links, workspaces, spent, signedIn>>

GoogleReadEmail(r) ==
    /\ In(r, "google:email")
    /\ Goes(r, IF user.exists THEN [step |-> "google:link", id |-> user.id]
                              ELSE [step |-> "google:create"])
    /\ UNCHANGED <<user, token, links, workspaces, spent, signedIn>>

\* The account is linked as it is: not verified, and without a workspace, if it
\* was pending.  Nothing in the schema forbids a second row.
GoogleLink(r) ==
    /\ In(r, "google:link")
    /\ Is(calls[r].id)
    /\ links < MaxLinks
    /\ links' = links + 1
    /\ lapses' = lapses \cup (IF workspaces = 0 THEN {"linkedPending"} ELSE {})
    /\ calls' = [calls EXCEPT ![r] = [step |-> "login", id |-> user.id]]
    /\ UNCHANGED <<user, token, workspaces, spent, signedIn>>

\* One transaction; the insertion fails if the address has got an account.
GoogleCreate(r) ==
    /\ In(r, "google:create")
    /\ ~ user.exists
    /\ user.id < MaxAccounts /\ MaxLinks > 0 /\ MaxWorkspaces > 0
    /\ \E emailVerified \in BOOLEAN :
          user' = [id |-> user.id + 1, exists |-> TRUE,
                   status |-> "ACTIVE", verified |-> emailVerified]
    /\ links' = 1
    /\ workspaces' = 1
    /\ Goes(r, [step |-> "login", id |-> user.id + 1])
    /\ UNCHANGED <<token, spent, signedIn>>

\* completeLogin: the session is inserted if the account is still there.
CompleteLogin(r) ==
    /\ In(r, "login")
    /\ Is(calls[r].id)
    /\ signedIn' = TRUE
    /\ Ends(r)
    /\ UNCHANGED <<user, token, links, workspaces, spent>>

-----------------------------------------------------------------------------
(* The administrator, and the user's own deletion                          *)

UpdateStatus(new) ==
    /\ user.exists
    /\ user' = [user EXCEPT !.status = new]
    /\ Alone
    /\ UNCHANGED <<token, links, workspaces, spent, signedIn>>

BanUser         == UpdateStatus("SUSPENDED")
UnbanUser       == UpdateStatus("ACTIVE")   \* and restoreUser
DeleteMyAccount == UpdateStatus("DELETED")

\* deleteUser: the row goes, and with it all that refers to it.
DeleteUser ==
    /\ user.exists
    /\ user' = [user EXCEPT !.exists = FALSE]
    /\ token' = [t \in TokenIds |-> IF HasToken(t) THEN "deleted" ELSE token[t]]
    /\ links' = 0
    /\ workspaces' = 0
    /\ signedIn' = FALSE
    /\ spent' = [t \in TokenIds |-> 0]
    /\ AtOnce
    /\ lapses' = (lapses \cap {"overlap"}) \cup Overlap

-----------------------------------------------------------------------------
\* A query fails, a row the request refers to is gone, or the process ends; the
\* transaction is rolled back.
CallFails(r) ==
    /\ ~ In(r, "none")
    /\ Ends(r)
    /\ UNCHANGED <<user, token, links, workspaces, spent, signedIn>>

AccountsInit ==
    /\ user = [id |-> 0, exists |-> FALSE,
               status |-> "PENDING_VERIFICATION", verified |-> FALSE]
    /\ token = [t \in TokenIds |-> "unused"]
    /\ links = 0
    /\ workspaces = 0
    /\ calls = [r \in AccountRequests |-> NoCall]
    /\ spent = [t \in TokenIds |-> 0]
    /\ signedIn = FALSE
    /\ lapses = {}

AccountStep(r) ==
    \/ RegisterRead(r) \/ ResendRead(r) \/ VerifyCommit(r)
    \/ PasswordLogin(r) \/ GoogleLogin(r) \/ GoogleUnknown(r)
    \/ GoogleReadEmail(r) \/ GoogleLink(r) \/ GoogleCreate(r)
    \/ CompleteLogin(r) \/ CallFails(r)
    \/ \E t \in TokenIds : RegisterCommit(r, t) \/ ResendCommit(r, t) \/ VerifyRead(r, t)

AccountsNext ==
    \/ \E r \in AccountRequests : AccountStep(r)
    \/ \E t \in TokenIds : TokenExpires(t) \/ VerifyExpired(t)
    \/ BanUser \/ UnbanUser \/ DeleteMyAccount \/ DeleteUser

AccountsSpec == AccountsInit /\ [][AccountsNext]_accountVars

-----------------------------------------------------------------------------
(* Properties                                                              *)

\* The rows are in states of the schema, what refers to an account is gone when
\* the account is, and a request knows what its handler has read.
AccountsTypeOK ==
    /\ user \in UserRow
    /\ token \in [TokenIds -> TokenStates]
    /\ links \in 0..MaxLinks
    /\ workspaces \in 0..MaxWorkspaces
    /\ calls \in [AccountRequests -> AccountCalls \cup {NoCall}]
    /\ spent \in [TokenIds -> Nat]
    /\ signedIn \in BOOLEAN
    /\ lapses \subseteq Lapses
    /\ ~ user.exists => links = 0 /\ workspaces = 0 /\ \A t \in TokenIds : ~ HasToken(t)

\* A token verifies the account once, although it is read before the
\* transaction: two verifications at once, or one while the token is replaced.
TokenVerifiesOnce == \A t \in TokenIds : spent[t] <= 1

\* An account is given one workspace, and a mail with a new token makes those
\* before it useless, unless requests overlapped (deleteMany of one does not see
\* what the other inserts) or a token was requested when it had its workspace.
OneDefaultWorkspace ==
    /\ workspaces > 1 => lapses \cap {"overlap", "resentSettled"} # {}
    /\ Cardinality({t \in TokenIds : HasToken(t)}) > 1 => "overlap" \in lapses

\* Who has signed in has a workspace, unless Google was linked to an account
\* that waited for its verification.
SignedInHasWorkspace ==
    signedIn => workspaces > 0 \/ "linkedPending" \in lapses
=============================================================================
