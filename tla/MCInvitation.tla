---------------------------- MODULE MCInvitation ----------------------------
(* Instances of InvitationsInSeries for TLC.                               *)
EXTENDS InvitationsInSeries, TLC

CONSTANTS o, a, r1, r2

\* What keeps a race small: the requests are about invitations to be a member.
SmallRace ==
    \A r \in AllRequests :
        request'[r] # Idle => /\ request'[r].step \in InvitationSteps
                              /\ request'[r].role = "MEMBER"

\* What keeps a series small: two invitations.
SmallSeries == inv'[MaxInvitations] = NoInvitation

MCNext == KindNext /\ IF kind = "race" THEN SmallRace ELSE SmallSeries

MCSpec == KindInit /\ [][MCNext]_kindVars

\* The requests play the same part.
Alike == Permutations(InvitationRequests)
=============================================================================
