------------------------------ MODULE MCMember ------------------------------
(***************************************************************************)
(* Instances of WorkspaceMember, MemberPages, WorkspaceInvitation and      *)
(* Realtime for TLC.  A behaviour is of one kind: requests about the       *)
(* members of a workspace race; or its members page is open in two tabs;   *)
(* or the invitations of another one grow old under the job, with restarts *)
(* and failed passes; or the socket of a tab comes and goes.  What belongs *)
(* to the other kinds rests.                                               *)
(***************************************************************************)
EXTENDS MemberPages, Realtime

CONSTANTS o, a, b, r1, r2, t1

VARIABLES kind, ownerOf, memberOf, requestOf, inv, clock, job, restarts, failures

Aging ==
    INSTANCE WorkspaceInvitation WITH
        Users <- {o, a}, MemberRequests <- {}, TransferRequests <- {},
        InvitationRequests <- {r2}, InvitedRoles <- {"MEMBER"},
        MaxInvitations <- 2, MaxRestarts <- 2, MaxFailures <- 2,
        ownerId <- ownerOf, member <- memberOf, request <- requestOf

agingVars == <<ownerOf, memberOf, requestOf, inv, clock, job, restarts, failures>>

othersThanAging == <<memberVars, pageVars, realtimeVars, kind>>

mcVars == <<othersThanAging, agingVars>>

MCInit ==
    /\ kind \in {"racing", "pages", "aging", "socket"}
    /\ MemberInit
    /\ PagesInit
    /\ Aging!Init
    /\ RealtimeInit
    /\ kind \in {"aging", "socket"} => \A u \in Users \ {Founder} : member[u] = NoRow
    /\ overtaken = (kind # "pages")
    /\ kind = "pages" => \A u \in Users \ Viewers : member[u] = NoRow
    /\ kind # "socket" => accessToken = 0

\* The properties of the pages speak of what happens before a click is overtaken.
MCNext ==
    /\ UNCHANGED kind
    /\ \/ /\ kind = "racing"
          /\ MemberNext
          /\ UNCHANGED <<agingVars, pageVars, realtimeVars>>
       \/ /\ kind = "pages" /\ ~ overtaken
          /\ PagesNext
          /\ UNCHANGED <<agingVars, realtimeVars>>
       \/ /\ kind = "aging"
          /\ Aging!Next
          /\ UNCHANGED <<memberVars, pageVars, realtimeVars>>
       \/ /\ kind = "socket"
          /\ RealtimeNext
          /\ UNCHANGED <<memberVars, pageVars, agingVars>>

\* Where invitations age, time passes, a timer that is due fires and its pass
\* goes on; the clients owe nothing.  The socket has the fairness of its module.
MCSpec ==
    /\ MCInit
    /\ [][MCNext]_mcVars
    /\ WF_mcVars(kind = "aging" /\ Aging!JobStep /\ UNCHANGED othersThanAging)
    /\ WF_mcVars(kind = "aging" /\ Aging!Tick /\ UNCHANGED othersThanAging)
    /\ RealtimeFairness

\* An invitation the job's timer was set for does not stay pending for ever, if the
\* process does not restart when its deadline has passed.
ScheduledInvitationCloses == Aging!ScheduledInvitationCloses
=============================================================================
