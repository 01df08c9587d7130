------------------------------ MODULE Sessions ------------------------------
(***************************************************************************)
(* The sessions of one account: its rows in refresh_tokens and             *)
(* password_reset_tokens, and users.status, as AuthService, UserService    *)
(* and AdminUserService read and write them.                               *)
(*                                                                         *)
(* A request is split where a query of it decides on rows that another     *)
(* request may change before it writes.  An update by id that decides      *)
(* nothing (revoke, ban, logout) is one step.  The bulk delete of a        *)
(* password reset takes two: the rows it deletes are those its statement   *)
(* sees when it starts (READ COMMITTED), and other transactions commit     *)
(* before it ends.                                                         *)
(***************************************************************************)
EXTENDS Naturals

CONSTANTS
    SessionRequests,  \* the requests in flight
    RefreshRequests,  \* those of them that may refresh a session
    MaxSessions,      \* bound: the rows ever inserted in refresh_tokens
    MaxResetTokens,   \* bound: the rows ever inserted in password_reset_tokens
    GoogleLinked      \* whether a Google account is linked to this one

ASSUME SessionAssumption ==
    /\ RefreshRequests \subseteq SessionRequests
    /\ MaxSessions \in Nat
    /\ MaxResetTokens \in Nat
    /\ GoogleLinked \in BOOLEAN

VARIABLES
    status,   \* users.status; "GONE" when the row is deleted
    session,  \* refresh_tokens, in the order of insertion
    reset,    \* password_reset_tokens, in the order of insertion
    pending,  \* the requests in flight
    origin,   \* history: the login each session descends from, its parent,
              \* and the resets that preceded the login's password check
    resets,   \* history: the number of resets that have changed the password
    uses      \* history: how often each reset token has changed it

sessionVars == <<status, session, reset, pending, origin, resets, uses>>

-----------------------------------------------------------------------------
(* The rows.                                                               *)

SessionIds == 1..MaxSessions
ResetIds   == 1..MaxResetTokens

UserStates    == {"ACTIVE", "SUSPENDED", "DELETED", "GONE"}
SessionStates == {"absent", "live", "expired", "revoked"}
ResetStates   == {"unused", "live", "expired", "deleted"}

HasSession(s) == session[s] # "absent"
HasReset(t)   == reset[t] \in {"live", "expired"}

\* root = 0: never inserted; parent = 0: inserted by a login.
Origin == [root : 0..MaxSessions, parent : 0..MaxSessions, resets : Nat]

NoOrigin == [root |-> 0, parent |-> 0, resets |-> 0]

Inserted(s) == origin[s].root # 0

\* Ids are random in the code; here the first unused one is taken.
IsNextSession(s) == /\ ~ Inserted(s)
                    /\ \A q \in SessionIds : q < s => Inserted(q)
IsNextReset(t)   == /\ reset[t] = "unused"
                    /\ \A q \in ResetIds : q < t => reset[q] # "unused"

\* revokeAllByUserId and revokeAllByUserIdExcept
RevokedExcept(kept) ==
    [s \in SessionIds |-> IF HasSession(s) /\ s \notin kept THEN "revoked"
                                                            ELSE session[s]]

-----------------------------------------------------------------------------
(* The requests: the next step and what was read.                          *)

Calls ==
    [step : {"login"}, resets : Nat]
        \cup [step : {"refresh", "others"}, session : SessionIds]
        \cup [step : {"forgot"}, old : SUBSET ResetIds]
        \cup [step : {"reset:delete"}, token : ResetIds]
        \cup [step : {"reset:commit"}, token : ResetIds, sessions : SUBSET SessionIds]

Idle == [step |-> "idle"]

At(r, step)    == pending[r].step = step
Begin(r, call) == At(r, "idle") /\ pending' = [pending EXCEPT ![r] = call]
Goto(r, call)  == pending' = [pending EXCEPT ![r] = call]
Done(r)        == pending' = [pending EXCEPT ![r] = Idle]

\* A handler of one step runs in a free place among the requests.
Handled == /\ \E r \in SessionRequests : At(r, "idle")
           /\ UNCHANGED pending

\* A reset updates the users row first and holds its lock until it commits.
UserRowFree == \A r \in SessionRequests : ~ At(r, "reset:commit")

-----------------------------------------------------------------------------
(* Login: the user is read and checked, then completeLogin inserts a row.  *)

\* loginUser: the status is checked with the password.
LoginRead(r) ==
    /\ status = "ACTIVE"
    /\ Begin(r, [step |-> "login", resets |-> resets])
    /\ UNCHANGED <<status, session, reset, origin, resets, uses>>

\* loginWithGoogle: the linked account is found; its status is not looked at.
GoogleLoginRead(r) ==
    /\ GoogleLinked
    /\ status # "GONE"
    /\ Begin(r, [step |-> "login", resets |-> resets])
    /\ UNCHANGED <<status, session, reset, origin, resets, uses>>

\* verifyEmail with a resent token: the account becomes ACTIVE and is logged in.
VerifyEmail(r) ==
    /\ status # "GONE"
    /\ UserRowFree
    /\ status' = "ACTIVE"
    /\ Begin(r, [step |-> "login", resets |-> resets])
    /\ UNCHANGED <<session, reset, origin, resets, uses>>

\* completeLogin: the insertion fails only if the user is gone (foreign key).
LoginCommit(r, s) ==
    /\ At(r, "login")
    /\ status # "GONE"
    /\ IsNextSession(s)
    /\ session' = [session EXCEPT ![s] = "live"]
    /\ origin' = [origin EXCEPT ![s] = [root |-> s, parent |-> 0,
                                        resets |-> pending[r].resets]]
    /\ Done(r)
    /\ UNCHANGED <<status, reset, resets, uses>>

-----------------------------------------------------------------------------
(* refresh                                                                 *)

\* Mutant of RefreshRead: the column revoked is not looked at.
RefreshReadAny(r, s) ==
    /\ HasSession(s)
    /\ Begin(r, [step |-> "refresh", session |-> s])
    /\ UNCHANGED <<status, session, reset, origin, resets, uses>>

\* The row is found, neither revoked nor expired.
RefreshRead(r, s) ==
    /\ session[s] = "live"
    /\ Begin(r, [step |-> "refresh", session |-> s])
    /\ UNCHANGED <<status, session, reset, origin, resets, uses>>

\* Mutant of RefreshCommit: the old row is not revoked.
RefreshCommitKeepsOld(r, s) ==
    LET old == pending[r].session
    IN  /\ At(r, "refresh")
        /\ HasSession(old)
        /\ IsNextSession(s)
        /\ session' = [session EXCEPT ![s] = "live"]
        /\ origin' = [origin EXCEPT ![s] = [origin[old] EXCEPT !.parent = old]]
        /\ Done(r)
        /\ UNCHANGED <<status, reset, resets, uses>>

\* One transaction: the new row, and revoked = true on the old one by id, which
\* fails and rolls back the new row if the old one has been deleted.
RefreshCommit(r, s) ==
    LET old == pending[r].session
    IN  /\ At(r, "refresh")
        /\ HasSession(old)
        /\ IsNextSession(s)
        /\ session' = [session EXCEPT ![s] = "live", ![old] = "revoked"]
        /\ origin' = [origin EXCEPT ![s] = [origin[old] EXCEPT !.parent = old]]
        /\ Done(r)
        /\ UNCHANGED <<status, reset, resets, uses>>

-----------------------------------------------------------------------------
(* Logout                                                                  *)

\* logout: by token, whatever the row's state.
Logout(s) ==
    /\ HasSession(s)
    /\ session' = [session EXCEPT ![s] = "revoked"]
    /\ Handled
    /\ UNCHANGED <<status, reset, origin, resets, uses>>

\* logoutSession: by id, an active one.
LogoutSession(s) ==
    /\ session[s] = "live"
    /\ session' = [session EXCEPT ![s] = "revoked"]
    /\ Handled
    /\ UNCHANGED <<status, reset, origin, resets, uses>>

\* logoutAllOtherSessions arrives: the session to keep is the one named in the
\* caller's access token, which stays valid after the session has been rotated.
LogoutOthersRequest(r, s) ==
    /\ Inserted(s)
    /\ Begin(r, [step |-> "others", session |-> s])
    /\ UNCHANGED <<status, session, reset, origin, resets, uses>>

\* Mutant of LogoutOthersCommit: the caller's session is revoked as well.
LogoutOthersRevokesAll(r) ==
    /\ At(r, "others")
    /\ session' = RevokedExcept({})
    /\ Done(r)
    /\ UNCHANGED <<status, reset, origin, resets, uses>>

LogoutOthersCommit(r) ==
    /\ At(r, "others")
    /\ session' = RevokedExcept({pending[r].session})
    /\ Done(r)
    /\ UNCHANGED <<status, reset, origin, resets, uses>>

SessionExpires(s) ==
    /\ session[s] = "live"
    /\ session' = [session EXCEPT ![s] = "expired"]
    /\ UNCHANGED <<status, reset, pending, origin, resets, uses>>

-----------------------------------------------------------------------------
(* Password reset                                                          *)

\* forgotPassword reads the user; its transaction starts by deleting the
\* account's tokens, those its statement sees.
ForgotRead(r) ==
    /\ status = "ACTIVE"
    /\ Begin(r, [step |-> "forgot", old |-> {t \in ResetIds : HasReset(t)}])
    /\ UNCHANGED <<status, session, reset, origin, resets, uses>>

ForgotCommit(r, t) ==
    /\ At(r, "forgot")
    /\ status # "GONE"
    /\ IsNextReset(t)
    /\ reset' = [q \in ResetIds |-> CASE q = t -> "live"
                                      [] q \in pending[r].old -> "deleted"
                                      [] OTHER -> reset[q]]
    /\ Done(r)
    /\ UNCHANGED <<status, session, origin, resets, uses>>

ResetTokenExpires(t) ==
    /\ reset[t] = "live"
    /\ reset' = [reset EXCEPT ![t] = "expired"]
    /\ UNCHANGED <<status, session, pending, origin, resets, uses>>

\* validatePasswordResetToken deletes an expired token it is given.
ResetExpired(t) ==
    /\ reset[t] = "expired"
    /\ reset' = [reset EXCEPT ![t] = "deleted"]
    /\ Handled
    /\ UNCHANGED <<status, session, origin, resets, uses>>

\* resetPassword: the token is valid, its user exists.
ResetRead(r, t) ==
    /\ reset[t] = "live"
    /\ Begin(r, [step |-> "reset:delete", token |-> t])
    /\ UNCHANGED <<status, session, reset, origin, resets, uses>>

\* Mutant of ResetDelete: deleteMany, which does not fail on a missing token.
ResetDeleteLenient(r) ==
    LET t == pending[r].token
    IN  /\ At(r, "reset:delete")
        /\ status # "GONE"
        /\ UserRowFree
        /\ reset' = [reset EXCEPT ![t] = "deleted"]
        /\ Goto(r, [step |-> "reset:commit", token |-> t,
                    sessions |-> {s \in SessionIds : HasSession(s)}])
        /\ UNCHANGED <<status, session, origin, resets, uses>>

\* The transaction locks the users row.  The token is deleted outside of it, by
\* id: a missing token fails, and the password stays; a deleted one stays
\* deleted even if the transaction then fails.  deleteByUserId starts.
ResetDelete(r) ==
    LET t == pending[r].token
    IN  /\ At(r, "reset:delete")
        /\ HasReset(t)
        /\ UserRowFree
        /\ reset' = [reset EXCEPT ![t] = "deleted"]
        /\ Goto(r, [step |-> "reset:commit", token |-> t,
                    sessions |-> {s \in SessionIds : HasSession(s)}])
        /\ UNCHANGED <<status, session, origin, resets, uses>>

\* Mutant of ResetCommit: the sessions are left alone.
ResetCommitPasswordOnly(r) ==
    /\ At(r, "reset:commit")
    /\ resets' = resets + 1
    /\ uses' = [uses EXCEPT ![pending[r].token] = @ + 1]
    /\ Done(r)
    /\ UNCHANGED <<status, session, reset, origin>>

ResetCommit(r) ==
    /\ At(r, "reset:commit")
    /\ session' = [s \in SessionIds |-> IF s \in pending[r].sessions THEN "absent"
                                                                   ELSE session[s]]
    /\ resets' = resets + 1
    /\ uses' = [uses EXCEPT ![pending[r].token] = @ + 1]
    /\ Done(r)
    /\ UNCHANGED <<status, reset, origin>>

-----------------------------------------------------------------------------
(* The account's status                                                    *)

\* userRepository.update by id
SetStatus(new) ==
    /\ status # "GONE"
    /\ UserRowFree
    /\ status' = new
    /\ Handled
    /\ UNCHANGED <<reset, origin, resets, uses>>

BanUser == SetStatus("SUSPENDED") /\ session' = RevokedExcept({})

UnbanUser == SetStatus("ACTIVE") /\ UNCHANGED session

RestoreUser == SetStatus("ACTIVE") /\ UNCHANGED session

\* deleteMyAccount revokes nothing.
DeleteMyAccount == SetStatus("DELETED") /\ UNCHANGED session

\* deleteUser removes the row; the foreign keys cascade.
DeleteUser ==
    /\ status # "GONE"
    /\ UserRowFree
    /\ status' = "GONE"
    /\ session' = [s \in SessionIds |-> "absent"]
    /\ reset' = [t \in ResetIds |-> IF HasReset(t) THEN "deleted" ELSE reset[t]]
    /\ Handled
    /\ UNCHANGED <<origin, resets, uses>>

-----------------------------------------------------------------------------
\* A request ends early: a query fails (a row it updates or deletes by id is
\* gone), its transaction is rolled back, or the process dies.
RequestFails(r) ==
    /\ ~ At(r, "idle")
    /\ Done(r)
    /\ UNCHANGED <<status, session, reset, origin, resets, uses>>

\* A verified account that has not logged in yet.
SessionInit ==
    /\ status = "ACTIVE"
    /\ session = [s \in SessionIds |-> "absent"]
    /\ reset = [t \in ResetIds |-> "unused"]
    /\ pending = [r \in SessionRequests |-> Idle]
    /\ origin = [s \in SessionIds |-> NoOrigin]
    /\ resets = 0
    /\ uses = [t \in ResetIds |-> 0]

SessionStep(r) ==
    \/ LoginRead(r) \/ GoogleLoginRead(r) \/ VerifyEmail(r)
    \/ LogoutOthersCommit(r)
    \/ ForgotRead(r)
    \/ ResetDelete(r) \/ ResetCommit(r)
    \/ RequestFails(r)
    \/ \E s \in SessionIds : \/ LoginCommit(r, s)
                             \/ RefreshCommit(r, s)
                             \/ LogoutOthersRequest(r, s)
    \/ \E t \in ResetIds : ForgotCommit(r, t) \/ ResetRead(r, t)

SessionNext ==
    \/ \E r \in SessionRequests : SessionStep(r)
    \/ \E r \in RefreshRequests, s \in SessionIds : RefreshRead(r, s)
    \/ \E s \in SessionIds : Logout(s) \/ LogoutSession(s) \/ SessionExpires(s)
    \/ \E t \in ResetIds : ResetTokenExpires(t) \/ ResetExpired(t)
    \/ BanUser \/ UnbanUser \/ RestoreUser \/ DeleteMyAccount \/ DeleteUser

SessionSpec == SessionInit /\ [][SessionNext]_sessionVars

-----------------------------------------------------------------------------
(* Properties                                                              *)

\* The rows are in states of the schema, a request knows what its handler has
\* read, and a session row has been inserted by a login or a refresh.
SessionTypeOK ==
    /\ status \in UserStates
    /\ session \in [SessionIds -> SessionStates]
    /\ reset \in [ResetIds -> ResetStates]
    /\ pending \in [SessionRequests -> Calls \cup {Idle}]
    /\ origin \in [SessionIds -> Origin]
    /\ resets \in Nat
    /\ uses \in [ResetIds -> Nat]
    /\ \A s \in SessionIds : HasSession(s) => Inserted(s)

\* Single flight: with one refresh at a time, every login has at most one
\* session that can still be refreshed, whatever else happens to the account.
OneLivePerLogin ==
    \A s, q \in SessionIds :
        /\ session[s] = "live" /\ session[q] = "live"
        /\ origin[s].root = origin[q].root
        => s = q

\* A reset token changes the password once at most, although it is checked
\* before the transaction and deleted outside of it.
ResetTokenSpentOnce == \A t \in ResetIds : uses[t] <= 1

\* The session an access token names survives the caller's own request to log
\* out of the others, if it has not been rotated or revoked in the meantime.
LogoutOthersSparesCaller ==
    [][\A r \in SessionRequests :
          At(r, "others") /\ session[pending[r].session] = "live"
              /\ pending'[r] = Idle
          => session'[pending[r].session] = "live"]_sessionVars

\* After a password reset, only sessions of logins that came after it are left.
ResetEndsSessions ==
    \A s \in SessionIds : session[s] = "live" => origin[s].resets = resets

\* A suspended account has no session that can be refreshed.
BannedIsLoggedOut ==
    status = "SUSPENDED" => \A s \in SessionIds : session[s] # "live"
=============================================================================
