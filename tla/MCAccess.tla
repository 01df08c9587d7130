------------------------------ MODULE MCAccess ------------------------------
(* Instances of WorkspaceAccess for TLC. *)
EXTENDS WorkspaceAccess, TLC

CONSTANTS o, a, w1, w2, l1, r1, r2

\* The founder o of w1 is an administrator of the product, the founder a of w2
\* is not.  a has any row, or none, in w1, and o none or an old one in w2.
MCInit ==
    /\ Init
    /\ accountRole = (o :> "ADMIN" @@ a :> "USER")
    /\ workspace[w1] = [status |-> "ACTIVE", owner |-> o]
    /\ workspace[w2] \in {NoWorkspace, [status |-> "ACTIVE", owner |-> a]}
    /\ member[w2][o] \in {NoRow, [status |-> "LEFT", role |-> "ADMIN"]}

\* What keeps the instance small: the handlers that write nothing here come
\* alone, and the token of the administrator changes while no request is in
\* flight.
Small ==
    /\ \A r \in Requests :
          request'[r].op \in ReadOperations \cup ElsewhereOperations
          => \A q \in Requests : request'[q] # Idle => q = r
    /\ claim'[a] = claim[a]
    /\ claim' # claim => \A r \in Requests : request[r] = Idle

MCSpec == MCInit /\ [][Next /\ Small]_vars

\* The requests play the same part.
Alike == Permutations(Requests)
=============================================================================
