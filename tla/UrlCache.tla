------------------------------ MODULE UrlCache ------------------------------
(***************************************************************************)
(* One short URL: its row, as UrlService writes it, and its copy in Redis, *)
(* as UrlCacheWorker derives it from the events published after each       *)
(* commit.  Nothing but the order of the commits tells two contents of the *)
(* row apart, so contents are numbered.                                    *)
(***************************************************************************)
EXTENDS EventDelivery

CONSTANTS
    UrlRequests,   \* the requests in flight
    MaxVersions,   \* bound: the commits on the row
    MaxFailures,   \* bound: the callbacks that fail
    MaxCrashes     \* bound: the crashes of the worker

ASSUME UrlAssumption ==
    /\ Queues = {"URL_CREATED", "URL_UPDATED", "URL_DELETED"}
    /\ Bodies = 1..MaxVersions
    /\ MaxVersions \in Nat /\ MaxFailures \in Nat /\ MaxCrashes \in Nat

VARIABLES
    version,   \* the commits on the row so far; 0: no row
    deleted,   \* whether urls.deletedAt is set
    publishing,\* what a request has committed and not yet published
    cache,     \* the contents under url:<id>; 0: no key
    lost,      \* history: the commits whose event was never published
    applied,   \* history: how often each event has reached the cache
    failures,  \* history: the callbacks that failed
    crashes    \* history: the crashes of the worker

rowVars == <<version, deleted, publishing, lost>>
workerVars == <<cache, applied, failures, crashes>>
urlVars == <<log, rowVars, workerVars>>

-----------------------------------------------------------------------------
(* UrlService: one commit, then one event.  The read before it decides     *)
(* nothing, as a row is never removed and findById shows the deleted ones. *)

None == [queue |-> "none", body |-> 0]

Commit(r, q) ==
    /\ publishing[r] = None
    /\ version < MaxVersions
    /\ version' = version + 1
    /\ publishing' = [publishing EXCEPT ![r] = [queue |-> q, body |-> version + 1]]
    /\ UNCHANGED <<log, lost, workerVars>>

CreateUrl(r) == version = 0 /\ Commit(r, "URL_CREATED") /\ UNCHANGED deleted

UpdateUrl(r) == version > 0 /\ Commit(r, "URL_UPDATED") /\ UNCHANGED deleted

DeleteUrl(r) == version > 0 /\ Commit(r, "URL_DELETED") /\ deleted' = TRUE

\* Mutant of PublishChange: published again, as its confirmation was lost.
PublishChangeRetried(r) ==
    /\ publishing[r] # None
    /\ Publish(publishing[r].queue, publishing[r].body)
    /\ publishing' \in {publishing, [publishing EXCEPT ![r] = None]}
    /\ UNCHANGED <<version, deleted, lost, workerVars>>

PublishChange(r) ==
    /\ publishing[r] # None
    /\ Publish(publishing[r].queue, publishing[r].body)
    /\ publishing' = [publishing EXCEPT ![r] = None]
    /\ UNCHANGED <<version, deleted, lost, workerVars>>

\* The process dies, or the channel is gone, between the commit and the event.
PublishFails(r) ==
    /\ publishing[r] # None
    /\ lost' = lost \cup {publishing[r].body}
    /\ publishing' = [publishing EXCEPT ![r] = None]
    /\ UNCHANGED <<log, version, deleted, workerVars>>

-----------------------------------------------------------------------------
(* UrlCacheWorker: set, set, del.                                          *)

CacheAfter(i) == IF log[i].queue = "URL_DELETED" THEN 0 ELSE log[i].body

Apply(i) ==
    /\ cache' = CacheAfter(i)
    /\ applied' = [applied EXCEPT ![log[i].body] = @ + 1]

Handle(i) ==
    /\ Deliver(i, "handled")
    /\ Apply(i)
    /\ UNCHANGED <<rowVars, failures, crashes>>

\* The command rejects: it was not executed, or its reply was lost.
HandleFails(i) ==
    /\ failures < MaxFailures
    /\ failures' = failures + 1
    /\ Deliver(i, "failed")
    /\ Apply(i) \/ UNCHANGED <<cache, applied>>
    /\ UNCHANGED <<rowVars, crashes>>

Settle(i) == /\ Ack(i) \/ Nack(i)
             /\ UNCHANGED <<rowVars, workerVars>>

WorkerCrash ==
    /\ crashes < MaxCrashes
    /\ crashes' = crashes + 1
    /\ Requeue
    /\ UNCHANGED <<rowVars, cache, applied, failures>>

-----------------------------------------------------------------------------
UrlInit ==
    /\ log = <<>>
    /\ version = 0
    /\ deleted = FALSE
    /\ publishing = [r \in UrlRequests |-> None]
    /\ cache = 0
    /\ lost = {}
    /\ applied = [v \in Bodies |-> 0]
    /\ failures = 0
    /\ crashes = 0

UrlNext ==
    \/ \E r \in UrlRequests : \/ CreateUrl(r) \/ UpdateUrl(r) \/ DeleteUrl(r)
                              \/ PublishChange(r) \/ PublishFails(r)
    \/ \E i \in DOMAIN log : Handle(i) \/ HandleFails(i) \/ Settle(i)
    \/ WorkerCrash

UrlSpec == UrlInit /\ [][UrlNext]_urlVars

\* The broker keeps delivering, and a callback that has ended is answered.
UrlFairSpec ==
    /\ UrlSpec
    /\ \A n \in Bodies :
          /\ WF_urlVars(n \in DOMAIN log /\ (Handle(n) \/ HandleFails(n)))
          /\ WF_urlVars(n \in DOMAIN log /\ Settle(n))

-----------------------------------------------------------------------------
(* Properties                                                              *)

\* The row, the queues and the copy are well-formed, and nothing the worker
\* knows of is newer than the row.
UrlTypeOK ==
    /\ log \in Seq(Message)
    /\ version \in 0..MaxVersions
    /\ deleted \in BOOLEAN
    /\ publishing \in [UrlRequests -> [queue : Queues, body : 1..version] \cup {None}]
    /\ cache \in 0..version
    /\ lost \subseteq 1..version
    /\ applied \in [Bodies -> Nat]
    /\ failures \in 0..MaxFailures
    /\ crashes \in 0..MaxCrashes

Published(v) == \E i \in DOMAIN log : log[i].body = v

\* Each commit is in exactly one place: its request has yet to publish it, it
\* was lost in between, or it was published, once; and what has been
\* acknowledged has reached the cache.
ChangesAccounted ==
    /\ \A v \in 1..version :
          LET waiting == \E r \in UrlRequests : publishing[r].body = v
          IN  /\ waiting \/ v \in lost \/ Published(v)
              /\ ~ (waiting /\ (v \in lost \/ Published(v)))
              /\ ~ (v \in lost /\ Published(v))
    /\ \A i, j \in DOMAIN log : log[i].body = log[j].body => i = j
    /\ \A i \in DOMAIN log : InState(i, "acked") => applied[log[i].body] > 0

\* At-least-once delivery costs a second application only where a callback has
\* failed or the worker has crashed before acknowledging.
RepeatedOnlyOnFailure ==
    \A v \in Bodies : applied[v] <= 1 + failures + crashes

\* Every event published reaches the cache in the end, whatever fails.
EveryEventApplied ==
    \A v \in Bodies : Published(v) ~> applied[v] > 0

Drained == /\ \A r \in UrlRequests : publishing[r] = None
           /\ \A i \in DOMAIN log : InState(i, "acked")

\* When every change has been published and handled, a deleted URL has no copy.
DeletedNotCached == Drained /\ lost = {} /\ deleted => cache = 0
=============================================================================
