-------------------------- MODULE SessionContract --------------------------
(***************************************************************************)
(* What the endpoints of authentication promise of the sessions and the    *)
(* reset tokens of an account when each call takes effect in one step:     *)
(* what is checked before a row is written is still so when it is.         *)
(*                                                                         *)
(* Sessions implements it while no two requests overlap and no Google      *)
(* login passes over the account's status.  Time is left out: a session or *)
(* token that is only past its date counts as open.                        *)
(***************************************************************************)
EXTENDS Naturals

CONSTANTS Sessions, Tokens

VARIABLES
    status,    \* of the account
    sessions,  \* of each: not there yet, open, closed
    login,     \* the login each session descends from
    tokens,    \* for a password reset: not there yet, open, closed
    password   \* how often it has been reset

contractVars == <<status, sessions, login, tokens, password>>

Open(row)  == row = "open"
Close(row) == IF row = "open" THEN "closed" ELSE row
EndAllBut(kept) == sessions' = [s \in Sessions |-> IF s \in kept THEN sessions[s]
                                                               ELSE Close(sessions[s])]

-----------------------------------------------------------------------------
\* A session of a new login, for an account that is active.
SignIn(s) ==
    /\ status = "ACTIVE"
    /\ sessions[s] = "none"
    /\ sessions' = [sessions EXCEPT ![s] = "open"]
    /\ login' = [login EXCEPT ![s] = s]
    /\ UNCHANGED <<status, tokens, password>>

\* An open session is exchanged for one of the same login, not while suspended.
Exchange(old, s) ==
    /\ status # "SUSPENDED"
    /\ Open(sessions[old])
    /\ sessions[s] = "none"
    /\ sessions' = [sessions EXCEPT ![s] = "open", ![old] = "closed"]
    /\ login' = [login EXCEPT ![s] = login[old]]
    /\ UNCHANGED <<status, tokens, password>>

End(s) ==
    /\ Open(sessions[s])
    /\ sessions' = [sessions EXCEPT ![s] = "closed"]
    /\ UNCHANGED <<status, login, tokens, password>>

EndOthers(s) == EndAllBut({s}) /\ UNCHANGED <<status, login, tokens, password>>

-----------------------------------------------------------------------------
\* A new token takes the place of those there were.
IssueToken(t) ==
    /\ status = "ACTIVE"
    /\ tokens[t] = "none"
    /\ tokens' = [q \in Tokens |-> IF q = t THEN "open" ELSE Close(tokens[q])]
    /\ UNCHANGED <<status, sessions, login, password>>

\* A token that is too old, or whose reset failed, is of no use again.
DropToken(t) ==
    /\ Open(tokens[t])
    /\ tokens' = [tokens EXCEPT ![t] = "closed"]
    /\ UNCHANGED <<status, sessions, login, password>>

\* The password changes for an open token, and every session ends with it.
ResetPassword(t) ==
    /\ Open(tokens[t])
    /\ tokens' = [tokens EXCEPT ![t] = "closed"]
    /\ EndAllBut({})
    /\ password' = password + 1
    /\ UNCHANGED <<status, login>>

-----------------------------------------------------------------------------
\* Activated by its owner or an administrator, or left by its owner: the sessions
\* are what they were.
Become(new) ==
    /\ new # "SUSPENDED"
    /\ status # "GONE"
    /\ status' = new
    /\ UNCHANGED <<sessions, login, tokens, password>>

Suspend ==
    /\ status # "GONE"
    /\ status' = "SUSPENDED"
    /\ EndAllBut({})
    /\ UNCHANGED <<login, tokens, password>>

Remove ==
    /\ status # "GONE"
    /\ status' = "GONE"
    /\ EndAllBut({})
    /\ tokens' = [t \in Tokens |-> Close(tokens[t])]
    /\ UNCHANGED <<login, password>>

-----------------------------------------------------------------------------
ContractInit ==
    /\ status = "ACTIVE"
    /\ sessions = [s \in Sessions |-> "none"]
    /\ login = [s \in Sessions |-> 0]
    /\ tokens = [t \in Tokens |-> "none"]
    /\ password = 0

ContractNext ==
    \/ \E s \in Sessions : SignIn(s) \/ End(s) \/ EndOthers(s)
    \/ \E old, s \in Sessions : Exchange(old, s)
    \/ \E t \in Tokens : IssueToken(t) \/ DropToken(t) \/ ResetPassword(t)
    \/ \E new \in {"ACTIVE", "DELETED"} : Become(new)
    \/ Suspend \/ Remove

ContractSpec == ContractInit /\ [][ContractNext]_contractVars

-----------------------------------------------------------------------------
\* What follows: a login has one session at a time, an account one reset token, and a
\* suspended account no session.
OneOfEach ==
    /\ \A s \in Sessions :
          sessions[s] # "none" =>
             \E first \in Sessions : login[s] = first /\ sessions[first] # "none"
    /\ \A s, q \in Sessions :
          Open(sessions[s]) /\ Open(sessions[q]) /\ login[s] = login[q] => s = q
    /\ \A t, q \in Tokens : Open(tokens[t]) /\ Open(tokens[q]) => t = q
    /\ status = "SUSPENDED" => \A s \in Sessions : ~ Open(sessions[s])
=============================================================================
