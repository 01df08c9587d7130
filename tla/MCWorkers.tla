----------------------------- MODULE MCWorkers -----------------------------
(***************************************************************************)
(* Instances of UrlCache and EventWorkers for TLC: what the workers of one *)
(* process do with the events of the URLs, and with one event of each      *)
(* shape of callback (one row or two, several rows in turn, a mail that is *)
(* not waited for, a mail without a notification).  The workers share      *)
(* neither queues nor rows: a behaviour is about the cache or about the    *)
(* rest.                                                                   *)
(***************************************************************************)
EXTENDS UrlCache, EventWorkers

CONSTANTS r1, r2, u1, u2

VARIABLE about

Between(key, p, q) == [key |-> key, party |-> [x \in {p, q} |-> IF x = p THEN u1 ELSE u2],
                       members |-> << >>]

OfferedEvents ==
    {Between("workspace.invitation.accepted", "inviterId", "inviteeId"),
     Between("workspace.ownership.transferred", "newOwner", "previousOwner"),
     Between("user.action", "adminId", "targetUserId"),
     [key |-> "workspace.deleted", party |-> [x \in {"ownerId"} |-> u1],
      members |-> <<u1, u2>>]}

\* Every event there is has a callback of well-formed commands.
ASSUME \A e \in Event, w \in Workers : Callback(e, w) \in Seq(Commands)

mcVars == <<about, urlVars, eventVars>>

MCInit == UrlInit /\ WorkersInit /\ about \in {"cache", "rest"}

OfCache(A) == about = "cache" /\ A /\ UNCHANGED <<about, eventVars>>
OfRest(A)  == about = "rest" /\ A /\ UNCHANGED <<about, urlVars>>

\* What keeps the rest small: of a command that fails, a restart and the end of
\* an account, two happen at most.
TwoFaults == failed + restarts + Cardinality(Users \ users) <= 2

MCSpec ==
    /\ MCInit
    /\ [][OfCache(UrlNext) \/ OfRest(WorkersNext /\ TwoFaults')]_mcVars
    /\ \A n \in Bodies :
          WF_mcVars(OfCache(n \in DOMAIN log /\ (Handle(n) \/ HandleFails(n) \/ Settle(n))))
    /\ \A m \in Ids : WF_mcVars(OfRest(Work(m)))
=============================================================================
