------------------------ MODULE InvitationsInSeries ------------------------
(***************************************************************************)
(* WorkspaceInvitation with behaviours of two kinds: in a race requests,   *)
(* the job and its faults interleave; in series one request at a time      *)
(* acts, and the job and the process never fail.                           *)
(***************************************************************************)
EXTENDS WorkspaceInvitation

VARIABLE kind

kindVars == <<vars, kind>>

KindInit == Init /\ kind \in {"race", "series"}

OneAtATime ==
    \A q, r \in AllRequests : request[q] # Idle /\ request[r] # Idle => q = r

KindNext ==
    /\ Next
    /\ kind = "series" => OneAtATime' /\ faults' = <<0, 0>>
    /\ UNCHANGED kind

KindSpec == KindInit /\ [][KindNext]_kindVars

-----------------------------------------------------------------------------
(* Properties of requests in series                                        *)

\* In series, every handler does what its endpoint promises in one step.
SerialContract ==
    /\ Contract!ContractInit
    /\ [][kind = "series" => Contract!ContractNext]_(Contract!contractVars)
=============================================================================
