--------------------------- MODULE WorkersProofs ---------------------------
(***************************************************************************)
(* Theorems about UrlCache, for any number of requests, commits, failed    *)
(* callbacks and crashes, and about EventWorkers, for any users, events,   *)
(* failing commands, restarts and deletions.                               *)
(***************************************************************************)
EXTENDS UrlCache, EventWorkers, SequenceTheorems, TLAPS

-----------------------------------------------------------------------------
(***************************************************************************)
(* The cache of URLs                                                       *)
(***************************************************************************)
(* What happens to the events                                              *)

LEMMA PublishFields ==
    ASSUME log \in Seq(Message), NEW q \in Queues, NEW body \in Bodies, Publish(q, body)
    PROVE  /\ log' \in Seq(Message)
           /\ DOMAIN log' = DOMAIN log \cup {Len(log) + 1}
           /\ Len(log) + 1 \notin DOMAIN log
           /\ \A i \in DOMAIN log : log'[i] = log[i]
           /\ log'[Len(log) + 1] = [queue |-> q, body |-> body, state |-> "ready"]
<1> DEFINE new == [queue |-> q, body |-> body, state |-> "ready"]
<1>1. new \in Message
  BY DEF Message, MessageStates
<1>2. log' = Append(log, new)
  BY DEF Publish
<1> HIDE DEF new
<1>3. /\ log' \in Seq(Message)
      /\ DOMAIN log' = DOMAIN log \cup {Len(log) + 1}
      /\ Len(log) + 1 \notin DOMAIN log
      /\ \A i \in DOMAIN log : log'[i] = log[i]
      /\ log'[Len(log) + 1] = new
  BY <1>1, <1>2
<1> QED BY <1>3 DEF new

\* The same events, in other states.
SameEvents ==
    /\ log' \in Seq(Message)
    /\ DOMAIN log' = DOMAIN log
    /\ \A i \in DOMAIN log : /\ log'[i].queue = log[i].queue
                             /\ log'[i].body = log[i].body

LEMMA MoveFields ==
    ASSUME log \in Seq(Message), NEW i \in DOMAIN log, NEW state \in MessageStates,
           log' = [log EXCEPT ![i].state = state]
    PROVE  /\ SameEvents
           /\ log'[i].state = state
           /\ \A j \in DOMAIN log \ {i} : log'[j] = log[j]
<1> DEFINE new == [log[i] EXCEPT !.state = state]
<1>1. log[i] \in Message
  OBVIOUS
<1>2. /\ new \in Message /\ new.state = state
      /\ new.queue = log[i].queue /\ new.body = log[i].body
  BY <1>1 DEF Message
<1>3. log' = [log EXCEPT ![i] = new]
  OBVIOUS
<1> HIDE DEF new
<1>4. /\ log' \in Seq(Message) /\ DOMAIN log' = DOMAIN log
      /\ log'[i] = new /\ \A j \in DOMAIN log \ {i} : log'[j] = log[j]
  BY <1>2, <1>3
<1> QED BY <1>2, <1>4 DEF SameEvents

LEMMA RequeueFields ==
    ASSUME log \in Seq(Message), Requeue
    PROVE  /\ SameEvents
           /\ \A i \in DOMAIN log :
                 IF log[i].state \in {"handled", "failed"}
                 THEN log'[i].state = "ready"
                 ELSE log'[i] = log[i]
<1>1. /\ DOMAIN log' = DOMAIN log
      /\ \A i \in DOMAIN log : log'[i] = IF log[i].state \in {"handled", "failed"}
                                         THEN [log[i] EXCEPT !.state = "ready"]
                                         ELSE log[i]
  BY DEF Requeue
<1>2. ASSUME NEW i \in DOMAIN log
      PROVE  /\ log'[i] \in Message
             /\ log'[i].queue = log[i].queue /\ log'[i].body = log[i].body
             /\ IF log[i].state \in {"handled", "failed"}
                THEN log'[i].state = "ready"
                ELSE log'[i] = log[i]
  <2>1. log[i] \in Message
    OBVIOUS
  <2> QED BY <1>1, <2>1 DEF Message, MessageStates
<1>3. log' \in Seq(Message)
  <2>1. log' = [i \in 1..Len(log) |-> log'[i]] /\ Len(log) \in Nat
    BY <1>1 DEF Requeue
  <2>2. \A i \in 1..Len(log) : log'[i] \in Message
    BY <1>2
  <2> QED BY <2>1, <2>2
<1> QED BY <1>1, <1>2, <1>3 DEF SameEvents

-----------------------------------------------------------------------------
(* Types                                                                   *)

\* An event tells of a commit, and no two requests wait to publish the same one.
EventsKnown == \A i \in DOMAIN log : log[i].body <= version

OnePublisher ==
    \A r, s \in UrlRequests :
        publishing[r] # None /\ publishing[r].body = publishing[s].body => r = s

UrlTypeInv == UrlTypeOK /\ EventsKnown /\ OnePublisher

LEMMA UrlTypeOfInit == UrlInit => UrlTypeInv
<1> SUFFICES ASSUME UrlInit PROVE UrlTypeInv
  OBVIOUS
<1>1. log \in Seq(Message) /\ EventsKnown
  BY DEF UrlInit, EventsKnown
<1>2. publishing \in [UrlRequests -> [queue : Queues, body : 1..version] \cup {None}]
  BY DEF UrlInit
<1>3. /\ version \in 0..MaxVersions /\ cache \in 0..version
      /\ failures \in 0..MaxFailures /\ crashes \in 0..MaxCrashes
  BY UrlAssumption DEF UrlInit
<1>4. deleted \in BOOLEAN /\ lost \subseteq 1..version /\ applied \in [Bodies -> Nat]
  BY DEF UrlInit
<1>5. OnePublisher
  BY DEF UrlInit, OnePublisher
<1> QED BY <1>1, <1>2, <1>3, <1>4, <1>5 DEF UrlTypeInv, UrlTypeOK

LEMMA BodyKnown ==
    ASSUME UrlTypeInv, NEW i \in DOMAIN log
    PROVE  log[i] \in Message /\ log[i].body \in Bodies /\ log[i].body \in 1..version
<1>1. log[i] \in Message
  BY DEF UrlTypeInv, UrlTypeOK
<1>2. log[i].body \in 1..MaxVersions /\ log[i].body <= version /\ version \in 0..MaxVersions
  BY <1>1, UrlAssumption DEF Message, UrlTypeInv, UrlTypeOK, EventsKnown
<1> QED BY <1>1, <1>2, UrlAssumption

LEMMA WaitingKnown ==
    ASSUME UrlTypeInv, NEW r \in UrlRequests, publishing[r] # None
    PROVE  /\ publishing[r].queue \in Queues
           /\ publishing[r].body \in Bodies
           /\ publishing[r].body \in 1..version
<1>1. publishing[r] \in [queue : Queues, body : 1..version]
  BY DEF UrlTypeInv, UrlTypeOK
<1>2. publishing[r].body \in 1..version /\ version \in 0..MaxVersions
  BY <1>1 DEF UrlTypeInv, UrlTypeOK
<1> QED BY <1>1, <1>2, UrlAssumption

\* The commits of the three handlers.
Committed(r) == \E q \in Queues : Commit(r, q) /\ deleted' \in BOOLEAN

LEMMA CommitFields ==
    ASSUME UrlTypeInv, NEW r \in UrlRequests, CreateUrl(r) \/ UpdateUrl(r) \/ DeleteUrl(r)
    PROVE  Committed(r)
  BY UrlAssumption DEF CreateUrl, UpdateUrl, DeleteUrl, Committed, UrlTypeInv, UrlTypeOK

LEMMA UrlTypeOfCommit ==
    ASSUME UrlTypeInv, NEW r \in UrlRequests, Committed(r)
    PROVE  UrlTypeInv'
<1>1. PICK q \in Queues : Commit(r, q) /\ deleted' \in BOOLEAN
  BY DEF Committed
<1> DEFINE new == [queue |-> q, body |-> version + 1]
<1>2. /\ version \in Nat /\ version' = version + 1 /\ version' \in 0..MaxVersions
      /\ version' \in 1..version'
      /\ publishing[r] = None /\ publishing' = [publishing EXCEPT ![r] = new]
      /\ UNCHANGED <<log, lost, workerVars>>
  BY <1>1, UrlAssumption DEF Commit, UrlTypeInv, UrlTypeOK
<1>3. 0..version \subseteq 0..version' /\ 1..version \subseteq 1..version'
  BY <1>2
<1>4. new \in [queue : Queues, body : 1..version'] /\ new.body = version + 1
  BY <1>2
<1> HIDE DEF new
<1>5. \A s \in UrlRequests \ {r} : publishing'[s] = publishing[s]
  BY <1>2 DEF UrlTypeInv, UrlTypeOK
<1>6. publishing'[r] = new
  BY <1>2 DEF UrlTypeInv, UrlTypeOK
<1>7. publishing' \in [UrlRequests -> [queue : Queues, body : 1..version'] \cup {None}]
  <2>1. publishing \in [UrlRequests -> [queue : Queues, body : 1..version] \cup {None}]
    BY DEF UrlTypeInv, UrlTypeOK
  <2>2. [queue : Queues, body : 1..version] \subseteq [queue : Queues, body : 1..version']
    BY <1>3
  <2> QED BY <1>2, <1>4, <2>1, <2>2
<1>8. UrlTypeOK'
  BY <1>1, <1>2, <1>3, <1>7 DEF UrlTypeInv, UrlTypeOK, workerVars
<1>9. EventsKnown'
  <2>1. ASSUME NEW i \in DOMAIN log PROVE log[i].body <= version'
    BY <1>2, <2>1, BodyKnown
  <2> QED BY <1>2, <2>1 DEF EventsKnown
<1>10. OnePublisher'
  <2>1. ASSUME NEW s \in UrlRequests \ {r}
        PROVE  publishing[s].body # version + 1
    BY <1>2, WaitingKnown DEF None
  <2> QED BY <1>4, <1>5, <1>6, <2>1 DEF UrlTypeInv, OnePublisher
<1> QED BY <1>8, <1>9, <1>10 DEF UrlTypeInv

LEMMA UrlTypeOfPublish ==
    ASSUME UrlTypeInv, NEW r \in UrlRequests, PublishChange(r) \/ PublishFails(r)
    PROVE  UrlTypeInv'
<1>1. /\ publishing[r] # None /\ publishing' = [publishing EXCEPT ![r] = None]
      /\ UNCHANGED <<version, deleted, workerVars>>
  BY DEF PublishChange, PublishFails
<1>2. /\ publishing'[r] = None
      /\ \A s \in UrlRequests \ {r} : publishing'[s] = publishing[s]
      /\ publishing' \in [UrlRequests -> [queue : Queues, body : 1..version] \cup {None}]
  BY <1>1 DEF UrlTypeInv, UrlTypeOK
<1>3. /\ publishing[r].queue \in Queues /\ publishing[r].body \in Bodies
      /\ publishing[r].body \in 1..version
  BY <1>1, WaitingKnown
<1>4. log' \in Seq(Message) /\ EventsKnown'
  <2>1. CASE PublishChange(r)
    <3>1. Publish(publishing[r].queue, publishing[r].body)
      BY <2>1 DEF PublishChange
    <3>2. /\ log' \in Seq(Message)
          /\ DOMAIN log' = DOMAIN log \cup {Len(log) + 1}
          /\ \A i \in DOMAIN log : log'[i] = log[i]
          /\ log'[Len(log) + 1] = [queue |-> publishing[r].queue,
                                    body |-> publishing[r].body, state |-> "ready"]
      BY <1>3, <3>1, PublishFields DEF UrlTypeInv, UrlTypeOK
    <3>3. \A i \in DOMAIN log' : log'[i].body <= version
      BY <1>3, <3>2 DEF UrlTypeInv, EventsKnown
    <3> QED BY <1>1, <3>2, <3>3 DEF EventsKnown
  <2>2. CASE PublishFails(r)
    BY <1>1, <2>2 DEF PublishFails, UrlTypeInv, UrlTypeOK, EventsKnown
  <2> QED BY <2>1, <2>2
<1>5. lost' \subseteq 1..version
  BY <1>3 DEF PublishChange, PublishFails, UrlTypeInv, UrlTypeOK
<1>6. UrlTypeOK'
  BY <1>1, <1>2, <1>4, <1>5 DEF UrlTypeInv, UrlTypeOK, workerVars
<1>7. OnePublisher'
  BY <1>2 DEF UrlTypeInv, OnePublisher, None
<1> QED BY <1>4, <1>6, <1>7 DEF UrlTypeInv

LEMMA AppliedFields ==
    ASSUME UrlTypeInv, NEW i \in DOMAIN log, Apply(i)
    PROVE  /\ cache' \in 0..version
           /\ applied' \in [Bodies -> Nat]
           /\ applied'[log[i].body] = applied[log[i].body] + 1
           /\ \A v \in Bodies \ {log[i].body} : applied'[v] = applied[v]
<1>1. log[i].body \in Bodies /\ log[i].body \in 1..version
  BY BodyKnown
<1>2. version \in Nat /\ applied \in [Bodies -> Nat]
  BY UrlAssumption DEF UrlTypeInv, UrlTypeOK
<1> QED BY <1>1, <1>2 DEF Apply, CacheAfter

\* The steps of the worker.
LEMMA UrlTypeOfWorker ==
    ASSUME UrlTypeInv, SameEvents, UNCHANGED rowVars,
           cache' \in 0..version, applied' \in [Bodies -> Nat],
           failures' \in 0..MaxFailures, crashes' \in 0..MaxCrashes
    PROVE  UrlTypeInv'
  BY DEF UrlTypeInv, UrlTypeOK, EventsKnown, OnePublisher, SameEvents, rowVars

\* Handle, HandleFails, Settle and WorkerCrash, by what they do to the event.
LEMMA HandleFields ==
    ASSUME UrlTypeInv, NEW i \in DOMAIN log, Handle(i)
    PROVE  /\ log[i].state = "ready" /\ log'[i].state = "handled" /\ SameEvents
           /\ \A j \in DOMAIN log \ {i} : log'[j] = log[j]
           /\ Apply(i)
           /\ UNCHANGED <<rowVars, failures, crashes>>
  BY MoveFields DEF Handle, Deliver, IsHead, InState, MessageStates, UrlTypeInv, UrlTypeOK

LEMMA HandleFailsFields ==
    ASSUME UrlTypeInv, NEW i \in DOMAIN log, HandleFails(i)
    PROVE  /\ log[i].state = "ready" /\ log'[i].state = "failed" /\ SameEvents
           /\ \A j \in DOMAIN log \ {i} : log'[j] = log[j]
           /\ Apply(i) \/ UNCHANGED <<cache, applied>>
           /\ failures' = failures + 1 /\ failures' \in 0..MaxFailures
           /\ UNCHANGED <<rowVars, crashes>>
<1>1. failures' = failures + 1 /\ failures' \in 0..MaxFailures
  BY UrlAssumption DEF HandleFails, UrlTypeInv, UrlTypeOK
<1>2. /\ log[i].state = "ready" /\ log'[i].state = "failed" /\ SameEvents
      /\ \A j \in DOMAIN log \ {i} : log'[j] = log[j]
  BY MoveFields DEF HandleFails, Deliver, IsHead, InState, MessageStates, UrlTypeInv, UrlTypeOK
<1> QED BY <1>1, <1>2 DEF HandleFails

LEMMA SettleFields ==
    ASSUME UrlTypeInv, NEW i \in DOMAIN log, Settle(i)
    PROVE  /\ \/ log[i].state = "handled" /\ log'[i].state = "acked"
              \/ log[i].state = "failed" /\ log'[i].state = "ready"
           /\ SameEvents
           /\ \A j \in DOMAIN log \ {i} : log'[j] = log[j]
           /\ UNCHANGED <<rowVars, workerVars>>
  BY MoveFields DEF Settle, Ack, Nack, InState, MessageStates, UrlTypeInv, UrlTypeOK

LEMMA CrashFields ==
    ASSUME UrlTypeInv, WorkerCrash
    PROVE  /\ \A i \in DOMAIN log :
                 IF log[i].state \in {"handled", "failed"}
                 THEN log'[i].state = "ready"
                 ELSE log'[i] = log[i]
           /\ SameEvents
           /\ crashes' = crashes + 1 /\ crashes' \in 0..MaxCrashes
           /\ UNCHANGED <<rowVars, cache, applied, failures>>
<1>1. crashes' = crashes + 1 /\ crashes' \in 0..MaxCrashes
  BY UrlAssumption DEF WorkerCrash, UrlTypeInv, UrlTypeOK
<1>2. Requeue /\ log \in Seq(Message)
  BY DEF WorkerCrash, UrlTypeInv, UrlTypeOK
<1> QED BY <1>1, <1>2, RequeueFields DEF WorkerCrash

LEMMA UrlTypeOfNext ==
    ASSUME UrlTypeInv, [UrlNext]_urlVars
    PROVE  UrlTypeInv'
<1>0. /\ cache \in 0..version /\ applied \in [Bodies -> Nat]
      /\ failures \in 0..MaxFailures /\ crashes \in 0..MaxCrashes
  BY DEF UrlTypeInv, UrlTypeOK
<1>1. ASSUME NEW r \in UrlRequests, \/ CreateUrl(r) \/ UpdateUrl(r) \/ DeleteUrl(r)
                                    \/ PublishChange(r) \/ PublishFails(r)
      PROVE  UrlTypeInv'
  BY <1>1, CommitFields, UrlTypeOfCommit, UrlTypeOfPublish
<1>2. ASSUME NEW i \in DOMAIN log, Handle(i)
      PROVE  UrlTypeInv'
  BY <1>0, <1>2, HandleFields, AppliedFields, UrlTypeOfWorker
<1>3. ASSUME NEW i \in DOMAIN log, HandleFails(i)
      PROVE  UrlTypeInv'
  BY <1>0, <1>3, HandleFailsFields, AppliedFields, UrlTypeOfWorker
<1>4. ASSUME NEW i \in DOMAIN log, Settle(i)
      PROVE  UrlTypeInv'
  BY <1>0, <1>4, SettleFields, UrlTypeOfWorker DEF workerVars
<1>5. ASSUME WorkerCrash
      PROVE  UrlTypeInv'
  BY <1>0, <1>5, CrashFields, UrlTypeOfWorker
<1>6. CASE UNCHANGED urlVars
  BY <1>6 DEF urlVars, rowVars, workerVars, UrlTypeInv, UrlTypeOK, EventsKnown, OnePublisher
<1> QED BY <1>1, <1>2, <1>3, <1>4, <1>5, <1>6 DEF UrlNext

\* The row, the queues and the copy stay well-formed, and the worker never
\* knows of anything newer than the row.
THEOREM UrlTypeCorrect == UrlSpec => []UrlTypeOK
<1>1. UrlTypeInv => UrlTypeOK
  BY DEF UrlTypeInv
<1>2. UrlTypeInv /\ [UrlNext]_urlVars => UrlTypeInv'
  BY UrlTypeOfNext
<1> QED BY <1>1, <1>2, UrlTypeOfInit, PTL DEF UrlSpec

-----------------------------------------------------------------------------
(* Every change is accounted for                                           *)

Waiting(v) == \E r \in UrlRequests : publishing[r].body = v

InOnePlace(v) ==
    /\ Waiting(v) \/ v \in lost \/ Published(v)
    /\ ~ (Waiting(v) /\ (v \in lost \/ Published(v)))
    /\ ~ (v \in lost /\ Published(v))

PublishedOnce == \A i, j \in DOMAIN log : log[i].body = log[j].body => i = j

\* An event that has been handled has reached the cache.
HandledIsApplied ==
    \A i \in DOMAIN log :
        log[i].state \in {"handled", "acked"} => applied[log[i].body] > 0

AccountInv ==
    /\ UrlTypeInv
    /\ \A v \in 1..version : InOnePlace(v)
    /\ PublishedOnce
    /\ HandledIsApplied

LEMMA AccountOfCommit ==
    ASSUME AccountInv, UrlTypeInv', NEW r \in UrlRequests, Committed(r)
    PROVE  AccountInv'
<1>1. PICK q \in Queues : Commit(r, q)
  BY DEF Committed
<1>2. /\ version \in Nat /\ version' = version + 1
      /\ publishing[r] = None
      /\ publishing' = [publishing EXCEPT ![r] = [queue |-> q, body |-> version + 1]]
      /\ UNCHANGED <<log, lost, applied>>
  BY <1>1 DEF Commit, AccountInv, UrlTypeInv, UrlTypeOK, workerVars
<1>3. /\ publishing'[r].body = version + 1
      /\ \A s \in UrlRequests \ {r} : publishing'[s] = publishing[s]
  BY <1>2 DEF AccountInv, UrlTypeInv, UrlTypeOK
<1>4. ASSUME NEW v \in 1..version
      PROVE  InOnePlace(v)'
  <2>1. InOnePlace(v)
    BY DEF AccountInv
  <2>2. v # version + 1 /\ v # 0
    BY <1>2
  <2>3. Waiting(v)' <=> Waiting(v)
    BY <1>2, <1>3, <2>2 DEF Waiting, None
  <2> QED BY <1>2, <2>1, <2>3 DEF InOnePlace, Published
<1>5. ASSUME NEW v, v = version + 1
      PROVE  InOnePlace(v)'
  <2>1. Waiting(v)'
    BY <1>3, <1>5 DEF Waiting
  <2>2. v \notin lost
    BY <1>2, <1>5 DEF AccountInv, UrlTypeInv, UrlTypeOK
  <2>3. ~ Published(v)
    BY <1>2, <1>5, BodyKnown DEF Published, AccountInv
  <2> QED BY <1>2, <2>1, <2>2, <2>3 DEF InOnePlace, Published
<1>6. \A v \in 1..version' : v \in 1..version \/ v = version + 1
  BY <1>2
<1>7. PublishedOnce' /\ HandledIsApplied'
  BY <1>2 DEF AccountInv, PublishedOnce, HandledIsApplied
<1> QED BY <1>4, <1>5, <1>6, <1>7 DEF AccountInv

LEMMA AccountOfPublish ==
    ASSUME AccountInv, UrlTypeInv', NEW r \in UrlRequests, PublishChange(r) \/ PublishFails(r)
    PROVE  AccountInv'
<1>0. PICK body : body = publishing[r].body
  OBVIOUS
<1>1. /\ publishing[r] # None /\ publishing' = [publishing EXCEPT ![r] = None]
      /\ UNCHANGED <<version, applied>>
  BY DEF PublishChange, PublishFails, workerVars
<1>2. publishing[r].queue \in Queues /\ body \in Bodies /\ body \in 1..version
  BY <1>0, <1>1, WaitingKnown DEF AccountInv
<1>3. /\ publishing'[r].body = 0
      /\ \A s \in UrlRequests \ {r} : publishing'[s] = publishing[s]
  BY <1>1 DEF AccountInv, UrlTypeInv, UrlTypeOK, None
<1>4. \A s \in UrlRequests \ {r} : publishing[s].body # body
  BY <1>0, <1>1 DEF AccountInv, UrlTypeInv, OnePublisher
<1>5. /\ ~ Waiting(body)'
      /\ \A v \in 1..version : v # body => (Waiting(v)' <=> Waiting(v))
  BY <1>0, <1>2, <1>3, <1>4 DEF Waiting
<1>6. body \notin lost /\ ~ Published(body)
  <2>1. Waiting(body) /\ InOnePlace(body)
    BY <1>0, <1>2 DEF Waiting, AccountInv
  <2> QED BY <2>1 DEF InOnePlace
<1>7. CASE PublishChange(r)
  <2> DEFINE last == Len(log) + 1
  <2>1. Publish(publishing[r].queue, body) /\ UNCHANGED lost
    BY <1>0, <1>7 DEF PublishChange
  <2>2. /\ DOMAIN log' = DOMAIN log \cup {last} /\ last \notin DOMAIN log
        /\ \A i \in DOMAIN log : log'[i] = log[i]
        /\ log'[last] = [queue |-> publishing[r].queue, body |-> body, state |-> "ready"]
    BY <1>2, <2>1, PublishFields DEF AccountInv, UrlTypeInv, UrlTypeOK
  <2> HIDE DEF last
  <2>3. log'[last].body = body /\ log'[last].state = "ready"
    BY <2>2
  <2>4. Published(body)' /\ \A v : v # body => (Published(v)' <=> Published(v))
    BY <2>2, <2>3 DEF Published
  <2>5. ASSUME NEW v \in 1..version
        PROVE  InOnePlace(v)'
    <3>1. InOnePlace(v)
      BY DEF AccountInv
    <3>2. CASE v = body
      BY <1>5, <1>6, <2>1, <2>4, <3>2 DEF InOnePlace
    <3>3. CASE v # body
      BY <1>5, <2>1, <2>4, <3>1, <3>3 DEF InOnePlace
    <3> QED BY <3>2, <3>3
  <2>6. PublishedOnce'
    <3>1. \A i \in DOMAIN log : log[i].body # body
      BY <1>6 DEF Published
    <3> QED BY <2>2, <2>3, <3>1 DEF AccountInv, PublishedOnce
  <2>7. HandledIsApplied'
    BY <1>1, <2>2, <2>3 DEF AccountInv, HandledIsApplied
  <2> QED BY <1>1, <2>5, <2>6, <2>7 DEF AccountInv
<1>8. CASE PublishFails(r)
  <2>1. lost' = lost \cup {body} /\ UNCHANGED log
    BY <1>0, <1>8 DEF PublishFails
  <2>2. ASSUME NEW v \in 1..version
        PROVE  InOnePlace(v)'
    <3>1. InOnePlace(v)
      BY DEF AccountInv
    <3>2. CASE v = body
      BY <1>5, <1>6, <2>1, <3>2 DEF InOnePlace, Published
    <3>3. CASE v # body
      BY <1>5, <2>1, <3>1, <3>3 DEF InOnePlace, Published
    <3> QED BY <3>2, <3>3
  <2>3. PublishedOnce' /\ HandledIsApplied'
    BY <1>1, <2>1 DEF AccountInv, PublishedOnce, HandledIsApplied
  <2> QED BY <1>1, <2>2, <2>3 DEF AccountInv
<1> QED BY <1>7, <1>8

LEMMA AccountOfWorker ==
    ASSUME AccountInv, UrlTypeInv', SameEvents, UNCHANGED rowVars, HandledIsApplied'
    PROVE  AccountInv'
<1>1. ASSUME NEW v \in 1..version
      PROVE  InOnePlace(v)'
  <2>1. Published(v)' <=> Published(v)
    BY DEF Published, SameEvents
  <2>2. InOnePlace(v)
    BY DEF AccountInv
  <2> QED BY <2>1, <2>2 DEF InOnePlace, Waiting, rowVars
<1>2. PublishedOnce'
  BY DEF AccountInv, PublishedOnce, SameEvents
<1> QED BY <1>1, <1>2 DEF AccountInv, rowVars

LEMMA HandledOfApply ==
    ASSUME AccountInv, SameEvents, NEW i \in DOMAIN log,
           \A j \in DOMAIN log \ {i} : log'[j] = log[j],
           Apply(i)
    PROVE  HandledIsApplied'
<1>1. /\ \A j \in DOMAIN log : log[j].body \in Bodies
      /\ applied \in [Bodies -> Nat]
  BY BodyKnown DEF AccountInv, UrlTypeInv, UrlTypeOK
<1>2. /\ applied'[log[i].body] = applied[log[i].body] + 1
      /\ \A v \in Bodies \ {log[i].body} : applied'[v] = applied[v]
  BY AppliedFields DEF AccountInv
<1>3. \A v \in Bodies : /\ applied[v] \in Nat /\ applied'[v] \in Nat
                        /\ applied'[v] >= applied[v]
  BY <1>1, <1>2
<1>4. applied'[log[i].body] > 0
  BY <1>1, <1>2
<1>5. ASSUME NEW j \in DOMAIN log, log'[j].state \in {"handled", "acked"}
      PROVE  applied'[log[j].body] > 0
  <2>1. CASE j = i
    BY <1>4, <2>1
  <2>2. CASE j # i
    <3>1. applied[log[j].body] > 0
      BY <1>5, <2>2 DEF AccountInv, HandledIsApplied
    <3>2. log[j].body \in Bodies
      BY <1>1
    <3> QED BY <1>3, <3>1, <3>2
  <2> QED BY <2>1, <2>2
<1> QED BY <1>5 DEF HandledIsApplied, SameEvents

LEMMA AccountOfNext ==
    ASSUME AccountInv, [UrlNext]_urlVars
    PROVE  AccountInv'
<1>1. UrlTypeInv /\ UrlTypeInv'
  BY UrlTypeOfNext DEF AccountInv
<1>2. ASSUME NEW r \in UrlRequests, \/ CreateUrl(r) \/ UpdateUrl(r) \/ DeleteUrl(r)
                                    \/ PublishChange(r) \/ PublishFails(r)
      PROVE  AccountInv'
  BY <1>1, <1>2, CommitFields, AccountOfCommit, AccountOfPublish
<1>3. ASSUME NEW i \in DOMAIN log, Handle(i)
      PROVE  AccountInv'
  BY <1>1, <1>3, HandleFields, HandledOfApply, AccountOfWorker
<1>4. ASSUME NEW i \in DOMAIN log, HandleFails(i)
      PROVE  AccountInv'
  <2>1. /\ log'[i].state = "failed" /\ SameEvents
        /\ \A j \in DOMAIN log \ {i} : log'[j] = log[j]
        /\ Apply(i) \/ UNCHANGED <<cache, applied>>
        /\ UNCHANGED rowVars
    BY <1>1, <1>4, HandleFailsFields
  <2>2. HandledIsApplied'
    <3>1. CASE Apply(i)
      BY <2>1, <3>1, HandledOfApply
    <3>2. CASE UNCHANGED <<cache, applied>>
      BY <2>1, <3>2 DEF AccountInv, HandledIsApplied, SameEvents
    <3> QED BY <2>1, <3>1, <3>2
  <2> QED BY <1>1, <2>1, <2>2, AccountOfWorker
<1>5. ASSUME NEW i \in DOMAIN log, Settle(i)
      PROVE  AccountInv'
  <2>1. /\ \/ log[i].state = "handled" /\ log'[i].state = "acked"
           \/ log[i].state = "failed" /\ log'[i].state = "ready"
        /\ SameEvents
        /\ \A j \in DOMAIN log \ {i} : log'[j] = log[j]
        /\ UNCHANGED <<rowVars, applied>>
    BY <1>1, <1>5, SettleFields DEF workerVars
  <2>2. HandledIsApplied'
    BY <2>1 DEF AccountInv, HandledIsApplied, SameEvents
  <2> QED BY <1>1, <2>1, <2>2, AccountOfWorker
<1>6. ASSUME WorkerCrash
      PROVE  AccountInv'
  <2>1. /\ \A i \in DOMAIN log : IF log[i].state \in {"handled", "failed"}
                                 THEN log'[i].state = "ready"
                                 ELSE log'[i] = log[i]
        /\ SameEvents /\ UNCHANGED <<rowVars, applied>>
    BY <1>1, <1>6, CrashFields
  <2>2. HandledIsApplied'
    BY <2>1 DEF AccountInv, HandledIsApplied, SameEvents
  <2> QED BY <1>1, <2>1, <2>2, AccountOfWorker
<1>7. CASE UNCHANGED urlVars
  BY <1>1, <1>7 DEF urlVars, rowVars, workerVars, AccountInv, InOnePlace, Waiting,
                    Published, PublishedOnce, HandledIsApplied
<1> QED BY <1>2, <1>3, <1>4, <1>5, <1>6, <1>7 DEF UrlNext

LEMMA AccountOfInit == UrlInit => AccountInv
<1> SUFFICES ASSUME UrlInit PROVE AccountInv
  OBVIOUS
<1>1. 1..version = {} /\ DOMAIN log = {}
  BY DEF UrlInit
<1> QED BY <1>1, UrlTypeOfInit DEF AccountInv, PublishedOnce, HandledIsApplied

\* No commit disappears without trace or is published twice, whatever fails;
\* and nothing is acknowledged before it has reached the cache.
THEOREM EveryChangeAccounted == UrlSpec => []ChangesAccounted
<1>1. AccountInv => ChangesAccounted
  BY DEF AccountInv, ChangesAccounted, InOnePlace, Waiting, PublishedOnce, HandledIsApplied, InState
<1>2. AccountInv /\ [UrlNext]_urlVars => AccountInv'
  BY AccountOfNext
<1> QED BY <1>1, <1>2, AccountOfInit, PTL DEF UrlSpec

-----------------------------------------------------------------------------
(* Applied again only after a failure                                      *)

\* Each failure or crash can cost an event one application; one more belongs to
\* the callback that succeeded, once the event is handled or acknowledged.
Unhandled(v) ==
    \A i \in DOMAIN log : log[i].body = v => log[i].state \in {"ready", "failed"}

Charged ==
    \A v \in Bodies : /\ applied[v] <= failures + crashes + 1
                      /\ Unhandled(v) => applied[v] <= failures + crashes

ChargeInv == AccountInv /\ Charged

LEMMA ChargeNumbers ==
    ASSUME UrlTypeInv
    PROVE  /\ applied \in [Bodies -> Nat] /\ failures \in Nat /\ crashes \in Nat
           /\ \A i \in DOMAIN log : log[i].body \in Bodies
  BY BodyKnown, UrlAssumption DEF UrlTypeInv, UrlTypeOK

\* A step that applies nothing, and after which no more events are unhandled.
LEMMA ChargeKept ==
    ASSUME ChargeInv, UNCHANGED <<applied, failures, crashes>>,
           \A v \in Bodies : Unhandled(v)' => Unhandled(v)
    PROVE  Charged'
  BY DEF ChargeInv, Charged

LEMMA ChargeOfRequest ==
    ASSUME ChargeInv, NEW r \in UrlRequests,
           Committed(r) \/ PublishChange(r) \/ PublishFails(r)
    PROVE  Charged'
<1>0. UrlTypeInv
  BY DEF ChargeInv, AccountInv
<1>1. UNCHANGED <<applied, failures, crashes>>
  BY DEF Committed, Commit, PublishChange, PublishFails, workerVars
<1>2. CASE Committed(r) \/ PublishFails(r)
  <2>1. UNCHANGED log
    BY <1>2 DEF Committed, Commit, PublishFails
  <2> QED BY <1>1, <2>1, ChargeKept DEF Unhandled
<1>3. CASE PublishChange(r)
  <2>1. /\ publishing[r].queue \in Queues /\ publishing[r].body \in Bodies
        /\ Publish(publishing[r].queue, publishing[r].body)
    BY <1>0, <1>3, WaitingKnown DEF PublishChange
  <2>2. DOMAIN log \subseteq DOMAIN log' /\ \A i \in DOMAIN log : log'[i] = log[i]
    BY <1>0, <2>1, PublishFields DEF UrlTypeInv, UrlTypeOK
  <2> QED BY <1>1, <2>2, ChargeKept DEF Unhandled
<1> QED BY <1>2, <1>3

LEMMA ChargeOfHandle ==
    ASSUME ChargeInv, NEW i \in DOMAIN log, Handle(i)
    PROVE  Charged'
<1>0. UrlTypeInv /\ PublishedOnce
  BY DEF ChargeInv, AccountInv
<1>1. /\ log[i].state = "ready" /\ log'[i].state = "handled" /\ SameEvents
      /\ \A j \in DOMAIN log \ {i} : log'[j] = log[j]
      /\ Apply(i) /\ UNCHANGED <<failures, crashes>>
  BY <1>0, HandleFields
<1>2. /\ applied' \in [Bodies -> Nat]
      /\ applied'[log[i].body] = applied[log[i].body] + 1
      /\ \A v \in Bodies \ {log[i].body} : applied'[v] = applied[v]
  BY <1>0, <1>1, AppliedFields
<1>3. /\ applied \in [Bodies -> Nat] /\ failures \in Nat /\ crashes \in Nat
      /\ log[i].body \in Bodies
  BY <1>0, ChargeNumbers
<1>4. Unhandled(log[i].body)
  BY <1>0, <1>1 DEF PublishedOnce, Unhandled
<1>5. applied[log[i].body] <= failures + crashes
  BY <1>3, <1>4 DEF ChargeInv, Charged
<1>6. ASSUME NEW v \in Bodies
      PROVE  /\ applied'[v] <= failures + crashes + 1
             /\ Unhandled(v)' => applied'[v] <= failures + crashes
  <2>1. CASE v = log[i].body
    <3>1. ~ Unhandled(v)'
      BY <1>1, <2>1 DEF Unhandled, SameEvents
    <3>2. applied'[v] <= failures + crashes + 1
      BY <1>2, <1>3, <1>5, <2>1
    <3> QED BY <3>1, <3>2
  <2>2. CASE v # log[i].body
    <3>1. Unhandled(v)' => Unhandled(v)
      BY <1>1, <2>2 DEF Unhandled, SameEvents
    <3>2. applied'[v] = applied[v]
      BY <1>2, <2>2
    <3> QED BY <3>1, <3>2 DEF ChargeInv, Charged
  <2> QED BY <2>1, <2>2
<1> QED BY <1>1, <1>6 DEF Charged

LEMMA ChargeOfFailure ==
    ASSUME ChargeInv, NEW i \in DOMAIN log, HandleFails(i)
    PROVE  Charged'
<1>0. UrlTypeInv /\ PublishedOnce
  BY DEF ChargeInv, AccountInv
<1>1. /\ log[i].state = "ready" /\ SameEvents
      /\ \A j \in DOMAIN log \ {i} : log'[j] = log[j]
      /\ Apply(i) \/ UNCHANGED <<cache, applied>>
      /\ failures' = failures + 1 /\ UNCHANGED crashes
  BY <1>0, HandleFailsFields
<1>2. /\ applied \in [Bodies -> Nat] /\ failures \in Nat /\ crashes \in Nat
      /\ log[i].body \in Bodies
  BY <1>0, ChargeNumbers
<1>3. /\ applied'[log[i].body] \in {applied[log[i].body], applied[log[i].body] + 1}
      /\ \A v \in Bodies \ {log[i].body} : applied'[v] = applied[v]
  <2>1. CASE Apply(i)
    BY <1>0, <2>1, AppliedFields
  <2>2. CASE UNCHANGED <<cache, applied>>
    BY <2>2
  <2> QED BY <1>1, <2>1, <2>2
<1>4. Unhandled(log[i].body)
  BY <1>0, <1>1 DEF PublishedOnce, Unhandled
<1>5. applied[log[i].body] <= failures + crashes
  BY <1>2, <1>4 DEF ChargeInv, Charged
<1>6. ASSUME NEW v \in Bodies
      PROVE  applied'[v] <= failures' + crashes'
  <2>1. CASE v = log[i].body
    BY <1>1, <1>2, <1>3, <1>5, <2>1
  <2>2. CASE v # log[i].body
    <3>1. applied'[v] = applied[v] /\ applied[v] <= failures + crashes + 1
      BY <1>3, <2>2 DEF ChargeInv, Charged
    <3> QED BY <1>1, <1>2, <3>1
  <2> QED BY <2>1, <2>2
<1>7. \A v \in Bodies : applied'[v] \in Nat
  BY <1>2, <1>3
<1>8. failures' \in Nat /\ crashes' \in Nat
  BY <1>1, <1>2
<1>9. \A v \in Bodies : applied'[v] <= failures' + crashes' + 1
  BY <1>6, <1>7, <1>8
<1> QED BY <1>6, <1>9 DEF Charged

LEMMA ChargeOfSettle ==
    ASSUME ChargeInv, NEW i \in DOMAIN log, Settle(i)
    PROVE  Charged'
<1>1. /\ \/ log[i].state = "handled" /\ log'[i].state = "acked"
         \/ log[i].state = "failed" /\ log'[i].state = "ready"
      /\ SameEvents
      /\ \A j \in DOMAIN log \ {i} : log'[j] = log[j]
      /\ UNCHANGED <<applied, failures, crashes>>
  BY SettleFields DEF ChargeInv, AccountInv, workerVars
<1> QED BY <1>1, ChargeKept DEF Unhandled, SameEvents

LEMMA ChargeOfCrash ==
    ASSUME ChargeInv, WorkerCrash
    PROVE  Charged'
<1>1. crashes' = crashes + 1 /\ UNCHANGED <<applied, failures>>
  BY CrashFields DEF ChargeInv, AccountInv
<1>2. applied \in [Bodies -> Nat] /\ failures \in Nat /\ crashes \in Nat
  BY ChargeNumbers DEF ChargeInv, AccountInv
<1>3. ASSUME NEW v \in Bodies
      PROVE  /\ applied'[v] <= failures' + crashes' + 1
             /\ applied'[v] <= failures' + crashes'
  <2>1. applied[v] <= failures + crashes + 1 /\ applied[v] \in Nat
    BY <1>2 DEF ChargeInv, Charged
  <2> QED BY <1>1, <1>2, <2>1
<1> QED BY <1>3 DEF Charged

LEMMA ChargeOfNext ==
    ASSUME ChargeInv, [UrlNext]_urlVars
    PROVE  ChargeInv'
<1>1. AccountInv' /\ UrlTypeInv
  BY AccountOfNext DEF ChargeInv, AccountInv
<1>2. CASE UrlNext
  BY <1>1, <1>2, CommitFields, ChargeOfRequest, ChargeOfHandle, ChargeOfFailure,
     ChargeOfSettle, ChargeOfCrash DEF UrlNext, ChargeInv
<1>3. CASE UNCHANGED urlVars
  BY <1>1, <1>3, ChargeKept DEF urlVars, workerVars, ChargeInv, Unhandled
<1> QED BY <1>2, <1>3

\* An event reaches the cache once, and once more for each failed callback or
\* crash at most, however the deliveries of the queues interleave.
THEOREM RepetitionsPaidFor == UrlSpec => []RepeatedOnlyOnFailure
<1>1. UrlInit => ChargeInv
  <2>1. ASSUME UrlInit PROVE Charged
    BY <2>1 DEF UrlInit, Charged
  <2> QED BY <2>1, AccountOfInit DEF ChargeInv
<1>2. ChargeInv => RepeatedOnlyOnFailure
  <2> SUFFICES ASSUME ChargeInv, NEW v \in Bodies
               PROVE  applied[v] <= 1 + failures + crashes
    BY DEF RepeatedOnlyOnFailure
  <2>1. /\ applied \in [Bodies -> Nat] /\ failures \in Nat /\ crashes \in Nat
    BY ChargeNumbers DEF ChargeInv, AccountInv
  <2>2. applied[v] <= failures + crashes + 1
    BY DEF ChargeInv, Charged
  <2> QED BY <2>1, <2>2
<1>3. ChargeInv /\ [UrlNext]_urlVars => ChargeInv'
  BY ChargeOfNext
<1> QED BY <1>1, <1>2, <1>3, PTL DEF UrlSpec

-----------------------------------------------------------------------------
(* Every event is on its way                                               *)

\* Where a step leaves an event that was published: it keeps its place, comes to the
\* worker in the order of its queue, is acknowledged once the cache has it, and is back
\* in the queue only for a callback that failed or a crash.
GoesOn(i) ==
    /\ i \in DOMAIN log'
    /\ log'[i].queue = log[i].queue /\ log'[i].body = log[i].body
    /\ \/ log'[i].state = log[i].state
       \/ /\ IsHead(i)
          /\ \/ /\ log'[i].state = "handled"
                /\ applied'[log[i].body] = applied[log[i].body] + 1
             \/ log'[i].state = "failed" /\ failures' = failures + 1
       \/ log[i].state = "handled" /\ log'[i].state = "acked" /\ applied[log[i].body] > 0
       \/ log[i].state = "failed" /\ log'[i].state = "ready"
       \/ log[i].state = "handled" /\ log'[i].state = "ready" /\ crashes' = crashes + 1

\* No event is lost, overtaken in its queue, or given back for nothing.
EventsGoOn == [][\A i \in DOMAIN log : GoesOn(i)]_urlVars

LEMMA AllGoOn ==
    ASSUME AccountInv, UrlNext
    PROVE  \A i \in DOMAIN log : GoesOn(i)
<1>0. UrlTypeInv /\ log \in Seq(Message)
  BY DEF AccountInv, UrlTypeInv, UrlTypeOK
<1>1. ASSUME UNCHANGED log PROVE \A i \in DOMAIN log : GoesOn(i)
  BY <1>1 DEF GoesOn
<1>2. ASSUME NEW r \in UrlRequests, PublishChange(r)
      PROVE  \A i \in DOMAIN log : GoesOn(i)
  <2>1. \A i \in DOMAIN log : i \in DOMAIN log' /\ log'[i] = log[i]
    BY <1>0, <1>2, WaitingKnown, PublishFields DEF PublishChange
  <2> QED
    BY <2>1 DEF GoesOn
<1>3. ASSUME NEW j \in DOMAIN log, NEW outcome \in {"handled", "failed"}, Deliver(j, outcome),
             outcome = "handled" => applied'[log[j].body] = applied[log[j].body] + 1,
             outcome = "failed" => failures' = failures + 1
      PROVE  \A i \in DOMAIN log : GoesOn(i)
  BY <1>0, <1>3, MoveFields DEF Deliver, GoesOn, SameEvents, MessageStates
<1>4. ASSUME NEW j \in DOMAIN log, Handle(j)
      PROVE  \A i \in DOMAIN log : GoesOn(i)
  <2>1. applied'[log[j].body] = applied[log[j].body] + 1
    BY <1>0, <1>4, BodyKnown DEF Handle, Apply, UrlTypeInv, UrlTypeOK
  <2> QED
    BY <1>3, <1>4, <2>1 DEF Handle
<1>5. ASSUME NEW j \in DOMAIN log, HandleFails(j)
      PROVE  \A i \in DOMAIN log : GoesOn(i)
  BY <1>3, <1>5 DEF HandleFails
<1>6. ASSUME NEW j \in DOMAIN log, Settle(j)
      PROVE  \A i \in DOMAIN log : GoesOn(i)
  <2>1. log[j].state = "handled" => applied[log[j].body] > 0
    BY DEF AccountInv, HandledIsApplied
  <2> QED
    BY <1>0, <1>6, <2>1, MoveFields DEF Settle, Ack, Nack, InState, GoesOn, SameEvents, MessageStates
<1>7. ASSUME WorkerCrash
      PROVE  \A i \in DOMAIN log : GoesOn(i)
  BY <1>0, <1>7, RequeueFields DEF WorkerCrash, GoesOn, SameEvents
<1>8. ASSUME NEW r \in UrlRequests,
             CreateUrl(r) \/ UpdateUrl(r) \/ DeleteUrl(r) \/ PublishFails(r)
      PROVE  UNCHANGED log
  BY <1>8 DEF CreateUrl, UpdateUrl, DeleteUrl, Commit, PublishFails
<1> QED
  BY <1>1, <1>2, <1>4, <1>5, <1>6, <1>7, <1>8 DEF UrlNext

\* Once published an event stays and keeps its place until it is acknowledged, which it
\* is only when it has reached the cache: what EveryEventApplied rests on, whatever
\* fails and in whatever order the requests publish.
THEOREM EventsAreHandledInOrder == UrlSpec => EventsGoOn
<1>1. AccountInv /\ [UrlNext]_urlVars => [\A i \in DOMAIN log : GoesOn(i)]_urlVars
  BY AllGoOn
<1>2. AccountInv /\ [UrlNext]_urlVars => AccountInv'
  BY AccountOfNext
<1> QED
  BY <1>1, <1>2, AccountOfInit, PTL DEF UrlSpec, EventsGoOn

-----------------------------------------------------------------------------
(***************************************************************************)
(* The workers of events                                                   *)
(***************************************************************************)
(* The tables                                                              *)

\* An event is audited for one of its parties.
LEMMA OneAuditParty ==
    ASSUME NEW k, NEW p, NEW q, <<k, p>> \in Audited, <<k, q>> \in Audited
    PROVE  p = q
BY DEF Audited, SignInAudit, RecoveryAudit, AccountAudit, AdminAudit, UrlAudit, WorkspaceAudit,
   PendingAudit, ClosedAudit, MemberAudit, AuthEvents, AccountEvents, UrlEvents, WorkspaceEvents,
   MemberEvents

LEMMA EventShape ==
    ASSUME NEW e \in Event
    PROVE  /\ e.key \in Keys
           /\ e.party \in [PartiesOf(e.key) -> Users]
           /\ e.members \in Seq(Users)
           /\ \A i, j \in 1..Len(e.members) : e.members[i] = e.members[j] => i = j
<1>1. PICK k \in Keys : e \in [key : {k}, party : [PartiesOf(k) -> Users],
                              members : UNION {[1..n -> Users] : n \in 0..2}]
  BY DEF Event
<1>2. e.key = k /\ e.party \in [PartiesOf(e.key) -> Users]
  BY <1>1
<1>3. PICK n \in 0..2 : e.members \in [1..n -> Users]
  BY <1>1
<1>4. e.members \in Seq(Users)
  BY <1>3
<1>5. \A i, j \in DOMAIN e.members : e.members[i] = e.members[j] => i = j
  BY DEF Event
<1> QED
  BY <1>2, <1>4, <1>5

LEMMA NoticeParties ==
    ASSUME NEW e \in Event
    PROVE  /\ e.key \in {"workspace.invitation.created", "workspace.invitation.accepted",
                         "workspace.invitation.rejected", "workspace.invitation.revoked"}
                 => e.party["inviterId"] \in Users /\ e.party["inviteeId"] \in Users
           /\ e.key = "workspace.ownership.transferred"
                 => e.party["newOwner"] \in Users /\ e.party["previousOwner"] \in Users
           /\ e.key \in {"workspace.member.role.updated", "workspace.member.remove"}
                 => e.party["userId"] \in Users
           /\ e.key = "workspace.member.leave" => e.party["ownerId"] \in Users
<1>1. e.party \in [PartiesOf(e.key) -> Users]
  BY EventShape
<1>2. \A p : <<e.key, p>> \in RoutingKeys => e.party[p] \in Users
  BY <1>1 DEF PartiesOf
<1>3. /\ \A k \in {"workspace.invitation.created", "workspace.invitation.accepted",
                   "workspace.invitation.rejected", "workspace.invitation.revoked"} :
            <<k, "inviterId">> \in InvitationEvents /\ <<k, "inviteeId">> \in InvitationEvents
      /\ <<"workspace.ownership.transferred", "newOwner">> \in MemberEvents
      /\ <<"workspace.ownership.transferred", "previousOwner">> \in MemberEvents
      /\ \A k \in {"workspace.member.role.updated", "workspace.member.remove"} :
            <<k, "userId">> \in MemberEvents
      /\ <<"workspace.member.leave", "ownerId">> \in MemberEvents
  BY DEF InvitationEvents, MemberEvents
<1>4. InvitationEvents \subseteq RoutingKeys /\ MemberEvents \subseteq RoutingKeys
  BY DEF RoutingKeys
<1> QED
  BY <1>2, <1>3, <1>4

LEMMA OneUserAudited ==
    ASSUME NEW e \in Event
    PROVE  /\ Named(e, Audited) \subseteq Users
           /\ \A u, v \in Named(e, Audited) : u = v
<1>1. e.party \in [PartiesOf(e.key) -> Users]
  BY EventShape
<1>2. Named(e, Audited) \subseteq Users
  BY <1>1 DEF Named
<1>3. ASSUME NEW u \in Named(e, Audited), NEW v \in Named(e, Audited) PROVE u = v
  BY <1>3, OneAuditParty DEF Named
<1> QED
  BY <1>2, <1>3

\* What the proofs need to know of a callback: an audit worker inserts one row for
\* one user, a mail worker sends its mails in one step, and a notification worker
\* inserts no second row for a user.
ShapeOf(cb, w) ==
    /\ cb \in Seq(Commands)
    /\ w = "audit" => Len(cb) = 1 /\ cb[1].op = "audit"
    /\ w = "audit" => \A u, v \in cb[1].users : u = v
    /\ w = "mail" => Len(cb) <= 1 /\ \A i \in 1..Len(cb) : cb[i].op = "mail"
    /\ w = "notification" =>
          /\ \A i \in 1..Len(cb) : cb[i].op \in {"note", "push"}
          /\ \A i, j \in 1..Len(cb) :
                cb[i].op = "note" /\ cb[j].op = "note" /\ cb[i].users \cap cb[j].users # {}
                => i = j

LEMMA StepIsCommand ==
    ASSUME NEW op \in {"audit", "note", "push", "mail"}, NEW us \in SUBSET Users
    PROVE  Step(op, us) \in Commands /\ Step(op, us).op = op /\ Step(op, us).users = us
BY DEF Step, Commands

LEMMA NoSteps == \A w : ShapeOf(<< >>, w) \/ w = "audit"
<1>1. << >> \in Seq(Commands) /\ Len(<< >>) = 0
  OBVIOUS
<1> QED
  BY <1>1 DEF ShapeOf

LEMMA AuditCallback ==
    ASSUME NEW e \in Event
    PROVE  ShapeOf(Callback(e, "audit"), "audit")
<1>1. Callback(e, "audit") = <<Step("audit", Named(e, Audited))>>
  BY DEF Callback
<1>2. Named(e, Audited) \in SUBSET Users /\ \A u, v \in Named(e, Audited) : u = v
  BY OneUserAudited
<1>3. PICK c \in Commands : c = Step("audit", Named(e, Audited)) /\ c.op = "audit"
                           /\ c.users = Named(e, Audited)
  BY <1>2, StepIsCommand
<1>4. <<c>> \in Seq(Commands) /\ Len(<<c>>) = 1 /\ <<c>>[1] = c
  OBVIOUS
<1> QED
  BY <1>1, <1>2, <1>3, <1>4 DEF ShapeOf

LEMMA MailCallback ==
    ASSUME NEW e \in Event
    PROVE  ShapeOf(Callback(e, "mail"), "mail")
<1> DEFINE all == Named(e, Mailed) \cup (IF e.key \in MembersMailed THEN Members(e) ELSE {})
<1>1. Callback(e, "mail") = IF all = {} THEN << >> ELSE <<Step("mail", all)>>
  BY DEF Callback, Mails
<1>2. all \in SUBSET Users
  <2>1. e.party \in [PartiesOf(e.key) -> Users] /\ e.members \in [1..Len(e.members) -> Users]
    BY EventShape
  <2>2. Named(e, Mailed) \subseteq Users
    BY <2>1 DEF Named
  <2>3. Members(e) \subseteq Users
    BY <2>1 DEF Members
  <2> QED
    BY <2>2, <2>3
<1> HIDE DEF all
<1>3. CASE all = {}
  BY <1>1, <1>3, NoSteps
<1>4. CASE all # {}
  <2>1. PICK c \in Commands : c = Step("mail", all) /\ c.op = "mail"
    BY <1>2, StepIsCommand
  <2>2. <<c>> \in Seq(Commands) /\ Len(<<c>>) = 1 /\ <<c>>[1] = c
    OBVIOUS
  <2>3. ShapeOf(<<c>>, "mail")
    BY <2>1, <2>2 DEF ShapeOf
  <2>4. Callback(e, "mail") = <<c>>
    BY <1>1, <1>4, <2>1
  <2> QED
    BY <2>3, <2>4
<1> QED
  BY <1>3, <1>4

\* One row, and what is published about it.
LEMMA ShortNotice ==
    ASSUME NEW us \in SUBSET Users, NEW vs \in SUBSET Users
    PROVE  ShapeOf(<<Step("note", us), Step("push", vs)>>, "notification")
BY StepIsCommand DEF ShapeOf

LEMMA TransferNotice ==
    ASSUME NEW us \in SUBSET Users, NEW vs \in SUBSET Users, NEW ws \in SUBSET Users
    PROVE  ShapeOf(<<Step("note", us), Step("push", vs), Step("push", ws)>>, "notification")
BY StepIsCommand DEF ShapeOf

LEMMA DeletionNotice ==
    ASSUME NEW e \in Event
    PROVE  ShapeOf(DeletionNotices(e), "notification")
<1> DEFINE n == Len(e.members)
           cb == DeletionNotices(e)
<1>1. n \in Nat /\ e.members \in [1..n -> Users]
  BY EventShape
<1>2. ASSUME NEW i \in 1..(2 * n)
      PROVE  /\ i % 2 = 1 => (i + 1) \div 2 \in 1..n /\ i = 2 * ((i + 1) \div 2) - 1
             /\ i \in Nat
  BY <1>1
<1>3. ASSUME NEW i \in 1..(2 * n)
      PROVE  /\ cb[i] \in Commands
             /\ cb[i].op \in {"note", "push"}
             /\ cb[i].op = "note" => i % 2 = 1 /\ cb[i].users = {e.members[(i + 1) \div 2]}
  <2>1. cb[i] = IF i % 2 = 1 THEN Step("note", {e.members[(i + 1) \div 2]}) ELSE Step("push", {})
    BY DEF DeletionNotices
  <2>2. CASE i % 2 = 1
    BY <1>1, <1>2, <2>1, <2>2, StepIsCommand
  <2>3. CASE i % 2 # 1
    BY <2>1, <2>3, StepIsCommand
  <2> QED
    BY <2>2, <2>3
<1>4. 2 * n \in Nat
  BY <1>1
<1>5. cb \in Seq(Commands) /\ Len(cb) = 2 * n
  <2>1. cb = [i \in 1..(2 * n) |-> cb[i]]
    BY DEF DeletionNotices
  <2> HIDE DEF cb
  <2>2. cb \in [1..(2 * n) -> Commands]
    BY <1>3, <2>1
  <2> QED
    BY <1>4, <2>2
<1>6. ASSUME NEW i \in 1..(2 * n), NEW j \in 1..(2 * n), cb[i].op = "note", cb[j].op = "note",
             cb[i].users \cap cb[j].users # {}
      PROVE  i = j
  <2> DEFINE a == (i + 1) \div 2
             b == (j + 1) \div 2
  <2>1. a \in 1..n /\ b \in 1..n /\ i = 2 * a - 1 /\ j = 2 * b - 1
    BY <1>2, <1>3, <1>6
  <2>2. e.members[a] = e.members[b]
    BY <1>3, <1>6
  <2> HIDE DEF a, b
  <2>3. a = b
    BY <2>1, <2>2, EventShape
  <2> QED
    BY <2>1, <2>3
<1> HIDE DEF cb, n
<1> QED
  BY <1>3, <1>5, <1>6 DEF ShapeOf, cb

LEMMA NoticeCallback ==
    ASSUME NEW e \in Event
    PROVE  ShapeOf(Callback(e, "notification"), "notification")
<1>1. Callback(e, "notification") = Notices(e)
  BY DEF Callback
<1>2. CASE e.key \in NoticedInvitations
  <2>1. e.party["inviterId"] \in Users /\ e.party["inviteeId"] \in Users
    BY <1>2, NoticeParties DEF NoticedInvitations
  <2>4. e.key \notin NoticedMembers /\ e.key # "workspace.deleted"
    BY <1>2 DEF NoticedInvitations, NoticedMembers, MemberEvents
  <2>2. Notices(e) = InvitationNotices(e)
    BY <1>2, <2>4 DEF Notices
  <2>3. PICK u \in Users, v \in Users :
           InvitationNotices(e) = <<Step("note", {u}), Step("push", {v})>>
    BY <1>2, <2>1 DEF InvitationNotices, NoticedInvitations, Notify
  <2> QED
    BY <1>1, <2>2, <2>3, ShortNotice
<1>3. CASE e.key \in NoticedMembers
  <2>1. e.key \in {"workspace.ownership.transferred", "workspace.member.leave",
                    "workspace.member.role.updated", "workspace.member.remove"}
    BY <1>3 DEF NoticedMembers, MemberEvents
  <2>5. e.key \notin NoticedInvitations /\ e.key # "workspace.deleted"
    BY <2>1 DEF NoticedInvitations
  <2>2. Notices(e) = MemberNotices(e)
    BY <1>3, <2>5 DEF Notices
  <2>3. CASE e.key = "workspace.ownership.transferred"
    <3>1. e.party["newOwner"] \in Users /\ e.party["previousOwner"] \in Users
      BY <2>3, NoticeParties
    <3>2. MemberNotices(e) =
             <<Step("note", {e.party["newOwner"], e.party["previousOwner"]}),
               Step("push", {e.party["newOwner"]}), Step("push", {e.party["previousOwner"]})>>
      BY <2>3 DEF MemberNotices
    <3> QED
      BY <1>1, <2>2, <3>1, <3>2, TransferNotice
  <2>4. CASE e.key # "workspace.ownership.transferred"
    <3>1. PICK u \in Users : MemberNotices(e) = <<Step("note", {u}), Step("push", {u})>>
      BY <2>1, <2>4, NoticeParties DEF MemberNotices, Notify
    <3> QED
      BY <1>1, <2>2, <3>1, ShortNotice
  <2> QED
    BY <2>3, <2>4
<1>4. CASE e.key = "workspace.deleted"
  BY <1>1, <1>4, DeletionNotice
     DEF Notices, NoticedInvitations, NoticedMembers, MemberEvents
<1>5. CASE /\ e.key \notin NoticedInvitations /\ e.key \notin NoticedMembers
           /\ e.key # "workspace.deleted"
  <2>1. Notices(e) = << >>
    BY <1>5 DEF Notices
  <2> QED
    BY <1>1, <2>1, NoSteps
<1> QED
  BY <1>2, <1>3, <1>4, <1>5

LEMMA CallbackShape ==
    ASSUME NEW e \in Event, NEW w \in Workers
    PROVE  ShapeOf(Callback(e, w), w)
BY AuditCallback, MailCallback, NoticeCallback DEF Workers

-----------------------------------------------------------------------------
(* The invariant                                                           *)

\* The event of a message, and the part of its callback that has been done.
Of(m)   == events[m[1]]
Done(m) == {i \in 1..Len(StepsOf(m)) :
              In(m, "acked") \/ (In(m, "running") /\ i < messages[m].step)}

AuditDone(m)   == \E i \in Done(m) : StepsOf(m)[i].op = "audit"
NoteDone(m, u) == \E i \in Done(m) : StepsOf(m)[i].op = "note" /\ u \in StepsOf(m)[i].users
MailDone(m)    == \E i \in Done(m) : StepsOf(m)[i].op = "mail"
One(b)         == IF b THEN 1 ELSE 0

\* A message is an event with the callback of its worker; one that has not been
\* published has left nothing.
Known(m) ==
    /\ ~ In(m, "none") => /\ m[1] \in 1..Len(events)
                          /\ StepsOf(m) = Callback(Of(m), m[2])
    /\ In(m, "running") => messages[m].step \in 1..(Len(StepsOf(m)) + 1)
    /\ In(m, "none") => /\ audits[m] = 0 /\ m \notin floating
                        /\ \A u \in Users : notes[m][u] = 0 /\ mails[m][u] = 0

\* What a callback has gone past is stored, for the users who are still there.
Stored(m) ==
    \A i \in Done(m) : \A u \in StepsOf(m)[i].users \cap users :
        /\ StepsOf(m)[i].op = "audit" => audits[m] >= 1
        /\ StepsOf(m)[i].op = "note" => notes[m][u] >= 1

\* Every copy but the one of the pass that is under way, or was the last, had a
\* restart or a return to the queue behind it.
Paid(m) ==
    /\ audits[m] <= restarts + One(AuditDone(m))
    /\ \A u \in Users :
          /\ notes[m][u] <= messages[m].tries + One(NoteDone(m, u))
          /\ mails[m][u] <= restarts
                + One(MailDone(m) /\ ~ (m \in floating /\ u \in Loose(m)))
    /\ m \in floating => MailDone(m)

Sound(m) == Known(m) /\ Stored(m) /\ Paid(m)

WorkersInv == WorkersTypeOK /\ \A m \in Ids : Sound(m)

MessageState == [state : States, step : Nat, tries : 0..MaxTries, callback : Seq(Commands)]

-----------------------------------------------------------------------------
(* One message                                                             *)

LEMMA MessageTypes ==
    ASSUME WorkersInv, NEW m \in Ids
    PROVE  /\ messages[m] \in MessageState /\ messages \in [Ids -> MessageState]
           /\ StepsOf(m) \in Seq(Commands) /\ Len(StepsOf(m)) \in Nat
           /\ audits[m] \in Nat /\ notes[m] \in [Users -> Nat] /\ mails[m] \in [Users -> Nat]
           /\ messages[m].tries \in Nat /\ restarts \in Nat
           /\ m[1] \in 1..MaxEvents /\ m[2] \in Workers
<1>1. messages[m] \in MessageState /\ messages \in [Ids -> MessageState]
  BY DEF WorkersInv, WorkersTypeOK, MessageState
<1>2. messages[m].tries \in 0..MaxTries /\ StepsOf(m) \in Seq(Commands)
  BY <1>1 DEF MessageState, StepsOf
<1>3. restarts \in 0..MaxWorkerRestarts /\ MaxTries \in Nat /\ MaxWorkerRestarts \in Nat
  BY WorkersAssumption DEF WorkersInv, WorkersTypeOK
<1>4. audits[m] \in Nat /\ notes[m] \in [Users -> Nat] /\ mails[m] \in [Users -> Nat]
  BY DEF WorkersInv, WorkersTypeOK
<1>5. m[1] \in 1..MaxEvents /\ m[2] \in Workers
  BY DEF Ids
<1> QED
  BY <1>1, <1>2, <1>3, <1>4, <1>5

LEMMA MessageShape ==
    ASSUME WorkersInv, NEW m \in Ids, ~ In(m, "none")
    PROVE  ShapeOf(StepsOf(m), m[2]) /\ Of(m) \in Event /\ m[1] \in 1..Len(events)
<1>1. m[1] \in 1..Len(events) /\ StepsOf(m) = Callback(Of(m), m[2])
  BY DEF WorkersInv, Sound, Known
<1>2. Of(m) \in Event
  BY <1>1 DEF WorkersInv, WorkersTypeOK, Of
<1> QED
  BY <1>1, <1>2, MessageTypes, CallbackShape

\* A step that takes a message no further in its callback, and leaves no effect.
LEMMA NoFurther ==
    ASSUME WorkersInv, NEW m \in Ids,
           StepsOf(m)' = StepsOf(m), Done(m)' = Done(m),
           messages'[m].tries = messages[m].tries,
           In(m, "none")' <=> In(m, "none"),
           In(m, "running")' => messages'[m].step \in 1..(Len(StepsOf(m)) + 1),
           audits'[m] = audits[m], notes'[m] = notes[m], mails'[m] = mails[m],
           m \in floating' <=> m \in floating,
           ~ In(m, "none") => m[1] \in 1..Len(events') /\ events'[m[1]] = events[m[1]],
           restarts' \in Nat, restarts <= restarts', users' \subseteq users
    PROVE  Sound(m)'
<1> USE MessageTypes
<1>1. Sound(m)
  BY DEF WorkersInv
<1>2. Known(m)'
  BY <1>1 DEF Sound, Known, Of
<1>3. Stored(m)'
  BY <1>1 DEF Sound, Stored
<1>4. m \in floating => Loose(m)' = Loose(m)
  BY <1>1 DEF Sound, Known, Loose
<1>5. One(AuditDone(m))' = One(AuditDone(m)) /\ (MailDone(m)' <=> MailDone(m))
  BY DEF AuditDone, MailDone, One
<1>6. audits'[m] <= restarts' + One(AuditDone(m))'
  <2>1. One(AuditDone(m)) \in Nat
    BY DEF One
  <2> QED
    BY <1>1, <1>5, <2>1 DEF Sound, Paid
<1>7. ASSUME NEW u \in Users
      PROVE  /\ notes'[m][u] <= messages'[m].tries + One(NoteDone(m, u))'
             /\ mails'[m][u] <= restarts'
                   + One(MailDone(m) /\ ~ (m \in floating /\ u \in Loose(m)))'
  <2>1. One(NoteDone(m, u))' = One(NoteDone(m, u))
    BY DEF NoteDone, One
  <2>2. One(MailDone(m) /\ ~ (m \in floating /\ u \in Loose(m)))'
           = One(MailDone(m) /\ ~ (m \in floating /\ u \in Loose(m)))
    BY <1>4, <1>5 DEF One
  <2>3. One(MailDone(m) /\ ~ (m \in floating /\ u \in Loose(m))) \in Nat
    BY DEF One
  <2>4. mails[m][u] \in Nat
    OBVIOUS
  <2> QED
    BY <1>1, <2>1, <2>2, <2>3, <2>4 DEF Sound, Paid
<1>8. m \in floating' => MailDone(m)'
  BY <1>1, <1>5 DEF Sound, Paid
<1> QED
  BY <1>2, <1>3, <1>6, <1>7, <1>8 DEF Sound, Paid

\* A message that a step leaves alone.
LEMMA Untouched ==
    ASSUME WorkersInv, NEW m \in Ids, messages'[m] = messages[m],
           audits'[m] = audits[m], notes'[m] = notes[m], mails'[m] = mails[m],
           m \in floating' <=> m \in floating,
           ~ In(m, "none") => m[1] \in 1..Len(events') /\ events'[m[1]] = events[m[1]],
           restarts' \in Nat, restarts <= restarts', users' \subseteq users
    PROVE  Sound(m)'
<1>1. /\ StepsOf(m)' = StepsOf(m)
      /\ In(m, "none")' <=> In(m, "none")
      /\ In(m, "running")' <=> In(m, "running")
      /\ In(m, "acked")' <=> In(m, "acked")
  BY DEF StepsOf, In
<1>2. Done(m)' = Done(m)
  BY <1>1 DEF Done
<1>3. In(m, "running")' => messages'[m].step \in 1..(Len(StepsOf(m)) + 1)
  BY <1>1 DEF WorkersInv, Sound, Known
<1> QED
  BY <1>1, <1>2, <1>3, NoFurther

\* The next command of a callback: what it is, and what is known of those before.
LEMMA NextCommand ==
    ASSUME WorkersInv, NEW m \in Ids, NEW op, AtStep(m, op)
    PROVE  /\ ~ In(m, "none") /\ messages[m].step \in 1..Len(StepsOf(m))
           /\ Current(m) = StepsOf(m)[messages[m].step] /\ Current(m).op = op
           /\ Current(m).users \subseteq Users
           /\ messages[m].step \notin Done(m)
           /\ op = "audit" => m[2] = "audit"
           /\ op = "mail" => m[2] = "mail"
           /\ op \in {"note", "push"} => m[2] = "notification"
           /\ op \in {"audit", "mail"} => Done(m) = {} /\ Len(StepsOf(m)) = 1
           /\ ~ AuditDone(m) /\ ~ MailDone(m) /\ m \notin floating
           /\ audits[m] <= restarts /\ \A u \in Users : mails[m][u] <= restarts
<1>1. In(m, "running") /\ ~ In(m, "none") /\ ~ In(m, "acked")
  BY DEF AtStep, In
<1>2. messages[m].step \in 1..Len(StepsOf(m))
  <2>1. messages[m].step \in 1..(Len(StepsOf(m)) + 1) /\ messages[m].step <= Len(StepsOf(m))
    BY <1>1 DEF AtStep, WorkersInv, Sound, Known
  <2> QED
    BY <2>1, MessageTypes
<1>3. Current(m) = StepsOf(m)[messages[m].step] /\ Current(m).op = op /\ Current(m) \in Commands
  BY <1>2, MessageTypes DEF AtStep, Current
<1>4. Current(m).users \subseteq Users
  BY <1>3 DEF Commands
<1>5. messages[m].step \notin Done(m) /\ \A i \in Done(m) : i < messages[m].step
  BY <1>1, <1>2 DEF Done
<1>6. ShapeOf(StepsOf(m), m[2]) /\ m[2] \in {"audit", "notification", "mail"}
  BY <1>1, MessageShape, MessageTypes DEF Workers
<1>7. CASE m[2] = "notification"
  <2>1. op \in {"note", "push"}
    BY <1>2, <1>3, <1>6, <1>7 DEF ShapeOf
  <2>2. ~ AuditDone(m) /\ ~ MailDone(m)
    BY <1>6, <1>7 DEF ShapeOf, AuditDone, MailDone, Done
  <2> QED
    BY <1>1, <1>2, <1>3, <1>4, <1>5, <1>7, <2>1, <2>2, MessageTypes
       DEF WorkersInv, Sound, Paid, One
<1>8. CASE m[2] \in {"audit", "mail"}
  <2>1. Len(StepsOf(m)) = 1 /\ op = m[2]
    <3>1. Len(StepsOf(m)) <= 1
      <4>1. CASE m[2] = "audit"
        <5>1. Len(StepsOf(m)) = 1
          BY <1>6, <4>1 DEF ShapeOf
        <5> QED
          BY <5>1
      <4>2. CASE m[2] = "mail"
        BY <1>6, <4>2 DEF ShapeOf
      <4> QED
        BY <1>8, <4>1, <4>2
    <3>2. Len(StepsOf(m)) = 1 /\ messages[m].step = 1
      <4> DEFINE n == Len(StepsOf(m))
                 s == messages[m].step
      <4>1. n \in Nat /\ s \in 1..n /\ n <= 1
        BY <1>2, <3>1, MessageTypes
      <4> HIDE DEF n, s
      <4>2. n = 1 /\ s = 1
        BY <4>1
      <4> QED
        BY <4>2 DEF n, s
    <3>3. StepsOf(m)[1].op = m[2]
      <4>1. CASE m[2] = "audit"
        BY <1>6, <4>1 DEF ShapeOf
      <4>2. CASE m[2] = "mail"
        BY <1>6, <3>2, <4>2 DEF ShapeOf
      <4> QED
        BY <1>8, <4>1, <4>2
    <3> QED
      BY <1>3, <3>2, <3>3
  <2>2. Done(m) = {}
    BY <1>2, <1>5, <2>1 DEF Done
  <2>3. ~ AuditDone(m) /\ ~ MailDone(m)
    BY <2>2 DEF AuditDone, MailDone
  <2> QED
    BY <1>1, <1>2, <1>3, <1>4, <1>5, <1>8, <2>1, <2>2, <2>3, MessageTypes
       DEF WorkersInv, Sound, Paid, One
<1> QED
  BY <1>6, <1>7, <1>8

\* A command that succeeds takes its callback one step further.
LEMMA OneFurther ==
    ASSUME WorkersInv, NEW m \in Ids, NEW op, AtStep(m, op), Advance(m), UNCHANGED events
    PROVE  /\ messages' \in [Ids -> MessageState]
           /\ \A n \in Ids \ {m} : messages'[n] = messages[n]
           /\ StepsOf(m)' = StepsOf(m) /\ Done(m)' = Done(m) \cup {messages[m].step}
           /\ messages'[m].tries = messages[m].tries
           /\ Known(m)'
<1>1. /\ messages \in [Ids -> MessageState] /\ messages[m].step \in 1..Len(StepsOf(m))
      /\ Len(StepsOf(m)) \in Nat
  BY NextCommand, MessageTypes
<1>2. /\ messages'[m] = [messages[m] EXCEPT !.step = messages[m].step + 1]
      /\ \A n \in Ids \ {m} : messages'[n] = messages[n]
      /\ messages' = [messages EXCEPT ![m] = [messages[m] EXCEPT !.step = messages[m].step + 1]]
  BY <1>1 DEF Advance, MessageState
<1>3. [messages[m] EXCEPT !.step = messages[m].step + 1] \in MessageState
  <2>1. messages[m] \in MessageState /\ messages[m].step + 1 \in Nat
    BY <1>1 DEF MessageState
  <2> QED
    BY <2>1 DEF MessageState
<1>4. messages' \in [Ids -> MessageState]
  BY <1>1, <1>2, <1>3
<1>5. /\ messages'[m].step = messages[m].step + 1 /\ messages'[m].state = messages[m].state
      /\ messages'[m].tries = messages[m].tries
      /\ messages'[m].callback = messages[m].callback
  BY <1>1, <1>2 DEF MessageState
<1>6. StepsOf(m)' = StepsOf(m) /\ In(m, "running") /\ In(m, "running")'
  BY <1>5 DEF StepsOf, AtStep, In
<1>7. ~ In(m, "acked") /\ ~ In(m, "acked")' /\ ~ In(m, "none") /\ ~ In(m, "none")'
  BY <1>6 DEF In
<1>8. Done(m)' = Done(m) \cup {messages[m].step}
  BY <1>1, <1>5, <1>6, <1>7 DEF Done
<1>9. Known(m)'
  BY <1>1, <1>5, <1>6, <1>7 DEF Known, Of, WorkersInv, Sound
<1> QED
  BY <1>2, <1>4, <1>5, <1>6, <1>8, <1>9

-----------------------------------------------------------------------------
(* The commands                                                            *)

\* What one message's step leaves alone is still sound in the others.
LEMMA OthersUntouched ==
    ASSUME WorkersInv, NEW m \in Ids, NEW n \in Ids, n # m,
           messages'[n] = messages[n], audits'[n] = audits[n],
           notes'[n] = notes[n], mails'[n] = mails[n],
           floating' \ {m} = floating \ {m}, UNCHANGED <<users, events, restarts>>
    PROVE  Sound(n)'
<1>1. ~ In(n, "none") => n[1] \in 1..Len(events') /\ events'[n[1]] = events[n[1]]
  BY DEF WorkersInv, Sound, Known
<1>2. n \in floating' <=> n \in floating
  OBVIOUS
<1>3. restarts \in Nat /\ restarts' \in Nat /\ restarts <= restarts' /\ users' \subseteq users
  BY MessageTypes
<1> QED
  BY <1>1, <1>2, <1>3, Untouched

LEMMA TypesKept ==
    ASSUME WorkersInv, messages' \in [Ids -> MessageState], audits' \in [Ids -> Nat],
           notes' \in [Ids -> [Users -> Nat]], mails' \in [Ids -> [Users -> Nat]],
           floating' \subseteq Ids, pushed' \subseteq Ids \X Users,
           failed' \in 0..MaxFailedCommands, restarts' \in 0..MaxWorkerRestarts,
           users' \subseteq users, UNCHANGED events,
           \A m \in Ids : In(m, "none")' <=> In(m, "none")
    PROVE  WorkersTypeOK'
BY DEF WorkersInv, WorkersTypeOK, MessageState

LEMMA AuditLogKeeps ==
    ASSUME WorkersInv, NEW m \in Ids, CreateAuditLog(m)
    PROVE  WorkersInv'
<1>1. /\ AtStep(m, "audit") /\ Advance(m) /\ Possible(m)
      /\ audits' = [audits EXCEPT ![m] = @ + 1]
      /\ UNCHANGED <<users, events, notes, mails, floating, pushed, failed, restarts>>
  BY DEF CreateAuditLog
<1>2. /\ audits' \in [Ids -> Nat] /\ audits'[m] = audits[m] + 1
      /\ \A n \in Ids \ {m} : audits'[n] = audits[n]
  BY <1>1 DEF WorkersInv, WorkersTypeOK
<1>3. /\ messages' \in [Ids -> MessageState] /\ \A n \in Ids \ {m} : messages'[n] = messages[n]
      /\ StepsOf(m)' = StepsOf(m) /\ Done(m)' = Done(m) \cup {messages[m].step}
      /\ messages'[m].tries = messages[m].tries /\ Known(m)'
  BY <1>1, OneFurther
<1>4. /\ Current(m) = StepsOf(m)[messages[m].step] /\ Current(m).op = "audit" /\ m[2] = "audit"
      /\ Done(m) = {} /\ Len(StepsOf(m)) = 1 /\ messages[m].step \in 1..Len(StepsOf(m))
      /\ audits[m] <= restarts /\ m \notin floating
  BY <1>1, NextCommand
<1>5. \A n \in Ids : In(n, "none")' <=> In(n, "none")
  <2>1. ~ In(m, "none") /\ ~ In(m, "none")'
    BY <1>1, <1>3 DEF AtStep, In, Advance, MessageState, WorkersInv, WorkersTypeOK
  <2> QED
    BY <1>3, <2>1 DEF In
<1>6. WorkersTypeOK'
  BY <1>1, <1>2, <1>3, <1>5, TypesKept DEF WorkersInv, WorkersTypeOK
<1>7. Stored(m)'
  BY <1>1, <1>2, <1>3, <1>4, MessageTypes DEF Stored
<1>8. Paid(m)'
  <2>1. AuditDone(m)'
    BY <1>3, <1>4 DEF AuditDone
  <2>2. ~ MailDone(m)' /\ ~ MailDone(m)
    BY <1>3, <1>4 DEF MailDone
  <2>3. \A u \in Users : ~ NoteDone(m, u)' /\ ~ NoteDone(m, u)
    BY <1>3, <1>4 DEF NoteDone
  <2>4. Paid(m)
    BY DEF WorkersInv, Sound
  <2> QED
    BY <1>1, <1>2, <1>3, <1>4, <2>1, <2>2, <2>3, <2>4, MessageTypes DEF Paid, One
<1>9. \A n \in Ids \ {m} : Sound(n)'
  BY <1>1, <1>2, <1>3, OthersUntouched
<1> QED
  BY <1>3, <1>6, <1>7, <1>8, <1>9 DEF WorkersInv, Sound

\* A message that runs stays known to the queues when only it takes a step.
LEMMA NoneKept ==
    ASSUME WorkersInv, NEW m \in Ids, ~ In(m, "none"), ~ In(m, "none")',
           \A n \in Ids \ {m} : messages'[n] = messages[n]
    PROVE  \A n \in Ids : In(n, "none")' <=> In(n, "none")
BY DEF In

LEMMA NotificationKeeps ==
    ASSUME WorkersInv, NEW m \in Ids, CreateNotification(m)
    PROVE  WorkersInv'
<1> DEFINE us == Current(m).users
<1>1. /\ AtStep(m, "note") /\ Advance(m) /\ Possible(m)
      /\ notes' = [notes EXCEPT ![m] = [u \in Users |-> @[u] + (IF u \in us THEN 1 ELSE 0)]]
      /\ UNCHANGED <<users, events, audits, mails, floating, pushed, failed, restarts>>
  BY DEF CreateNotification
<1>2. /\ messages' \in [Ids -> MessageState] /\ \A n \in Ids \ {m} : messages'[n] = messages[n]
      /\ StepsOf(m)' = StepsOf(m) /\ Done(m)' = Done(m) \cup {messages[m].step}
      /\ messages'[m].tries = messages[m].tries /\ Known(m)'
  BY <1>1, OneFurther
<1>3. /\ ~ In(m, "none") /\ messages[m].step \in 1..Len(StepsOf(m))
      /\ Current(m) = StepsOf(m)[messages[m].step] /\ Current(m).op = "note"
      /\ us \subseteq Users /\ messages[m].step \notin Done(m)
      /\ m[2] = "notification" /\ ~ AuditDone(m) /\ ~ MailDone(m) /\ m \notin floating
  BY <1>1, NextCommand
<1> HIDE DEF us
<1>4. /\ notes' \in [Ids -> [Users -> Nat]]
      /\ \A u \in Users : notes'[m][u] = notes[m][u] + (IF u \in us THEN 1 ELSE 0)
      /\ \A n \in Ids \ {m} : notes'[n] = notes[n]
  <2>1. notes \in [Ids -> [Users -> Nat]]
    BY DEF WorkersInv, WorkersTypeOK
  <2> DEFINE row == [u \in Users |-> notes[m][u] + (IF u \in us THEN 1 ELSE 0)]
  <2>2. row \in [Users -> Nat]
    BY <2>1
  <2>3. notes' = [notes EXCEPT ![m] = row]
    BY <1>1
  <2>4. \A u \in Users : row[u] = notes[m][u] + (IF u \in us THEN 1 ELSE 0)
    OBVIOUS
  <2> HIDE DEF row
  <2>5. notes' \in [Ids -> [Users -> Nat]] /\ notes'[m] = row
    BY <2>1, <2>2, <2>3
  <2>6. \A n \in Ids \ {m} : notes'[n] = notes[n]
    BY <2>1, <2>3
  <2> QED
    BY <2>4, <2>5, <2>6
<1>5. \A n \in Ids : In(n, "none")' <=> In(n, "none")
  BY <1>1, <1>2, <1>3, NoneKept, MessageTypes DEF In, Advance, AtStep, MessageState
<1>6. WorkersTypeOK'
  BY <1>1, <1>2, <1>4, <1>5, TypesKept DEF WorkersInv, WorkersTypeOK
<1>7. Stored(m)'
  <2> SUFFICES ASSUME NEW i \in Done(m)', NEW u \in StepsOf(m)[i].users \cap users
               PROVE  /\ StepsOf(m)[i].op = "audit" => audits[m] >= 1
                      /\ StepsOf(m)[i].op = "note" => notes'[m][u] >= 1
    BY <1>1, <1>2 DEF Stored
  <2>1. u \in Users /\ notes[m][u] \in Nat /\ notes'[m][u] >= notes[m][u]
    <3>1. u \in Users
      BY DEF WorkersInv, WorkersTypeOK
    <3>2. notes[m][u] \in Nat
      BY <3>1, MessageTypes
    <3> QED
      BY <1>4, <3>1, <3>2
  <2>2. CASE i \in Done(m)
    <3>1. /\ StepsOf(m)[i].op = "audit" => audits[m] >= 1
          /\ StepsOf(m)[i].op = "note" => notes[m][u] >= 1
      BY <2>2 DEF WorkersInv, Sound, Stored
    <3>2. notes'[m][u] \in Nat
      BY <1>4, <2>1
    <3> QED
      BY <2>1, <3>1, <3>2
  <2>3. CASE i = messages[m].step
    <3>1. u \in us /\ StepsOf(m)[i].op = "note"
      BY <1>3, <2>3 DEF us
    <3> QED
      BY <1>4, <2>1, <3>1
  <2> QED
    BY <1>2, <2>2, <2>3
<1>8. Paid(m)'
  <2>1. ~ AuditDone(m)' /\ ~ MailDone(m)'
    BY <1>2, <1>3 DEF AuditDone, MailDone
  <2>2. Paid(m)
    BY DEF WorkersInv, Sound
  <2>3. ASSUME NEW u \in Users
        PROVE  notes'[m][u] <= messages'[m].tries + One(NoteDone(m, u))'
    <3>1. NoteDone(m, u) => NoteDone(m, u)'
      BY <1>2 DEF NoteDone
    <3>2. u \in us => ~ NoteDone(m, u) /\ NoteDone(m, u)'
      <4> SUFFICES ASSUME u \in us PROVE ~ NoteDone(m, u) /\ NoteDone(m, u)'
        OBVIOUS
      <4>1. NoteDone(m, u)'
        BY <1>2, <1>3 DEF NoteDone, us
      <4>2. ShapeOf(StepsOf(m), "notification")
        BY <1>3, MessageShape
      <4>3. ASSUME NEW i \in Done(m), StepsOf(m)[i].op = "note", u \in StepsOf(m)[i].users
            PROVE  FALSE
        <5>1. i \in 1..Len(StepsOf(m)) /\ i # messages[m].step
          BY <1>3, <4>3 DEF Done
        <5>2. StepsOf(m)[i].users \cap StepsOf(m)[messages[m].step].users # {}
          BY <1>3, <4>3 DEF us
        <5> QED
          BY <1>3, <4>2, <4>3, <5>1, <5>2 DEF ShapeOf
      <4> QED
        BY <4>1, <4>3 DEF NoteDone
    <3>3. notes[m][u] <= messages[m].tries + One(NoteDone(m, u))
      BY <2>2 DEF Paid
    <3>4. notes[m][u] \in Nat /\ messages[m].tries \in Nat
      BY MessageTypes
    <3> QED
      BY <1>2, <1>4, <3>1, <3>2, <3>3, <3>4 DEF One
  <2> QED
    BY <1>1, <1>3, <2>1, <2>2, <2>3 DEF Paid, One
<1>9. \A n \in Ids \ {m} : Sound(n)'
  BY <1>1, <1>2, <1>4, OthersUntouched
<1> QED
  BY <1>2, <1>6, <1>7, <1>8, <1>9 DEF WorkersInv, Sound

LEMMA RealtimeKeeps ==
    ASSUME WorkersInv, NEW m \in Ids, PublishRealtime(m)
    PROVE  WorkersInv'
<1>1. /\ AtStep(m, "push") /\ Advance(m)
      /\ pushed' = pushed \cup {<<m, u>> : u \in Current(m).users}
      /\ UNCHANGED <<users, events, audits, notes, mails, floating, failed, restarts>>
  BY DEF PublishRealtime
<1>2. /\ messages' \in [Ids -> MessageState] /\ \A n \in Ids \ {m} : messages'[n] = messages[n]
      /\ StepsOf(m)' = StepsOf(m) /\ Done(m)' = Done(m) \cup {messages[m].step}
      /\ messages'[m].tries = messages[m].tries /\ Known(m)'
  BY <1>1, OneFurther
<1>3. /\ ~ In(m, "none") /\ messages[m].step \in 1..Len(StepsOf(m))
      /\ Current(m) = StepsOf(m)[messages[m].step] /\ Current(m).op = "push"
      /\ Current(m).users \subseteq Users
      /\ ~ AuditDone(m) /\ ~ MailDone(m) /\ m \notin floating
  BY <1>1, NextCommand
<1>4. pushed' \subseteq Ids \X Users
  BY <1>1, <1>3 DEF WorkersInv, WorkersTypeOK
<1>5. \A n \in Ids : In(n, "none")' <=> In(n, "none")
  BY <1>1, <1>2, <1>3, NoneKept, MessageTypes DEF In, Advance, AtStep, MessageState
<1>6. WorkersTypeOK'
  BY <1>1, <1>2, <1>4, <1>5, TypesKept DEF WorkersInv, WorkersTypeOK
<1>7. Stored(m)'
  BY <1>1, <1>2, <1>3 DEF Stored, WorkersInv, Sound
<1>8. Paid(m)'
  <2>1. ~ AuditDone(m)' /\ ~ MailDone(m)'
    BY <1>2, <1>3 DEF AuditDone, MailDone
  <2>2. \A u \in Users : NoteDone(m, u)' <=> NoteDone(m, u)
    BY <1>2, <1>3 DEF NoteDone
  <2>3. Paid(m)
    BY DEF WorkersInv, Sound
  <2> QED
    BY <1>1, <1>2, <1>3, <2>1, <2>2, <2>3 DEF Paid, One
<1>9. \A n \in Ids \ {m} : Sound(n)'
  BY <1>1, <1>2, OthersUntouched
<1> QED
  BY <1>2, <1>6, <1>7, <1>8, <1>9 DEF WorkersInv, Sound

LEMMA MailsKeep ==
    ASSUME WorkersInv, NEW m \in Ids, SendMails(m)
    PROVE  WorkersInv'
<1>1. /\ AtStep(m, "mail") /\ Advance(m)
      /\ floating' = floating \cup (IF Loose(m) # {} THEN {m} ELSE {})
      /\ UNCHANGED <<users, events, audits, notes, pushed, failed, restarts>>
  BY DEF SendMails
<1>2. PICK sent \in SUBSET (Current(m).users \ Loose(m)) :
          mails' = [mails EXCEPT ![m] = [u \in Users |-> @[u] + (IF u \in sent THEN 1 ELSE 0)]]
  BY DEF SendMails
<1>3. /\ messages' \in [Ids -> MessageState] /\ \A n \in Ids \ {m} : messages'[n] = messages[n]
      /\ StepsOf(m)' = StepsOf(m) /\ Done(m)' = Done(m) \cup {messages[m].step}
      /\ messages'[m].tries = messages[m].tries /\ Known(m)'
  BY <1>1, OneFurther
<1>4. /\ ~ In(m, "none") /\ messages[m].step \in 1..Len(StepsOf(m))
      /\ Current(m) = StepsOf(m)[messages[m].step] /\ Current(m).op = "mail"
      /\ Done(m) = {} /\ ~ AuditDone(m) /\ ~ MailDone(m)
      /\ \A u \in Users : mails[m][u] <= restarts
  BY <1>1, NextCommand
<1>5. /\ mails' \in [Ids -> [Users -> Nat]]
      /\ \A u \in Users : mails'[m][u] = mails[m][u] + (IF u \in sent THEN 1 ELSE 0)
      /\ \A n \in Ids \ {m} : mails'[n] = mails[n]
  <2>1. mails \in [Ids -> [Users -> Nat]]
    BY DEF WorkersInv, WorkersTypeOK
  <2> DEFINE row == [u \in Users |-> mails[m][u] + (IF u \in sent THEN 1 ELSE 0)]
  <2>2. row \in [Users -> Nat]
    BY <2>1
  <2>3. mails' = [mails EXCEPT ![m] = row]
    BY <1>2
  <2>4. \A u \in Users : row[u] = mails[m][u] + (IF u \in sent THEN 1 ELSE 0)
    OBVIOUS
  <2> HIDE DEF row
  <2>5. mails' \in [Ids -> [Users -> Nat]] /\ mails'[m] = row
    BY <2>1, <2>2, <2>3
  <2>6. \A n \in Ids \ {m} : mails'[n] = mails[n]
    BY <2>1, <2>3
  <2> QED
    BY <2>4, <2>5, <2>6
<1>6. \A n \in Ids : In(n, "none")' <=> In(n, "none")
  BY <1>1, <1>3, <1>4, NoneKept, MessageTypes DEF In, Advance, AtStep, MessageState
<1>7. WorkersTypeOK'
  <2>1. floating' \subseteq Ids
    BY <1>1 DEF WorkersInv, WorkersTypeOK
  <2> QED
    BY <1>1, <1>3, <1>5, <1>6, <2>1, TypesKept DEF WorkersInv, WorkersTypeOK
<1>8. Stored(m)'
  BY <1>1, <1>3, <1>4 DEF Stored
<1>9. Paid(m)'
  <2>1. ~ AuditDone(m)' /\ MailDone(m)'
    BY <1>3, <1>4 DEF AuditDone, MailDone
  <2>2. \A u \in Users : NoteDone(m, u)' <=> NoteDone(m, u)
    BY <1>3, <1>4 DEF NoteDone
  <2>3. Loose(m)' = Loose(m)
    BY <1>1, <1>4, MessageShape DEF Loose
  <2>4. m \in floating' <=> Loose(m) # {}
    <3>1. m \notin floating
      BY <1>1, NextCommand
    <3> QED
      BY <1>1, <3>1
  <2>5. Paid(m)
    BY DEF WorkersInv, Sound
  <2>6. ASSUME NEW u \in Users
        PROVE  mails'[m][u] <= restarts'
                  + One(MailDone(m) /\ ~ (m \in floating /\ u \in Loose(m)))'
    <3>1. mails[m][u] <= restarts /\ mails[m][u] \in Nat /\ restarts \in Nat
      BY <1>4, MessageTypes
    <3>2. u \in Loose(m) => u \notin sent
      BY <1>2
    <3> QED
      BY <1>1, <1>5, <2>1, <2>3, <3>1, <3>2 DEF One
  <2> QED
    BY <1>1, <1>3, <1>4, <2>1, <2>2, <2>5, <2>6 DEF Paid, One
<1>10. \A n \in Ids \ {m} : Sound(n)'
  BY <1>1, <1>3, <1>5, OthersUntouched
<1> QED
  BY <1>3, <1>7, <1>8, <1>9, <1>10 DEF WorkersInv, Sound

LEMMA FailureKeeps ==
    ASSUME WorkersInv, NEW m \in Ids, CommandFails(m)
    PROVE  WorkersInv'
<1>1. /\ GiveBack(m) /\ UNCHANGED <<users, events, audits, notes, mails, floating, pushed, restarts>>
      /\ failed' = failed \/ (failed < MaxFailedCommands /\ failed' = failed + 1)
  BY DEF CommandFails, effects
<1>2. PICK op \in {"audit", "note", "push"} : AtStep(m, op)
  BY DEF CommandFails
<1>3. /\ ~ In(m, "none") /\ ~ AuditDone(m) /\ ~ MailDone(m) /\ m \notin floating
      /\ audits[m] <= restarts /\ \A u \in Users : mails[m][u] <= restarts
  BY <1>2, NextCommand
<1>4. /\ messages' \in [Ids -> MessageState] /\ \A n \in Ids \ {m} : messages'[n] = messages[n]
      /\ messages'[m].state = "ready" /\ messages'[m].tries = messages[m].tries + 1
      /\ messages'[m].callback = messages[m].callback
  <2>1. /\ messages[m].tries < MaxTries
        /\ messages' = [messages EXCEPT ![m] =
                          [messages[m] EXCEPT !.state = "ready", !.tries = messages[m].tries + 1]]
    BY <1>1, MessageTypes DEF GiveBack, MessageState
  <2>2. messages[m].tries + 1 \in 0..MaxTries
    BY <2>1, MessageTypes, WorkersAssumption
  <2> DEFINE new == [messages[m] EXCEPT !.state = "ready", !.tries = messages[m].tries + 1]
  <2>3. /\ new \in MessageState /\ new.state = "ready" /\ new.tries = messages[m].tries + 1
        /\ new.callback = messages[m].callback
    BY <2>2, MessageTypes DEF MessageState, States
  <2> HIDE DEF new
  <2>4. messages' = [messages EXCEPT ![m] = new]
    BY <2>1 DEF new
  <2> QED
    BY <2>3, <2>4, MessageTypes
<1>5. /\ StepsOf(m)' = StepsOf(m) /\ Done(m)' = {}
      /\ ~ In(m, "none")' /\ ~ In(m, "running")' /\ ~ In(m, "acked")'
  BY <1>4 DEF StepsOf, Done, In
<1>6. \A n \in Ids : In(n, "none")' <=> In(n, "none")
  BY <1>3, <1>4, <1>5, NoneKept
<1>7. WorkersTypeOK'
  <2>1. failed' \in 0..MaxFailedCommands
    BY <1>1, WorkersAssumption DEF WorkersInv, WorkersTypeOK
  <2> QED
    BY <1>1, <1>4, <1>6, <2>1, TypesKept DEF WorkersInv, WorkersTypeOK
<1>8. Sound(m)'
  <2>1. Known(m)'
    BY <1>1, <1>3, <1>5 DEF Known, WorkersInv, Sound, Of
  <2>2. Stored(m)'
    BY <1>5 DEF Stored
  <2>3. ~ AuditDone(m)' /\ ~ MailDone(m)' /\ \A u \in Users : ~ NoteDone(m, u)'
    BY <1>5 DEF AuditDone, MailDone, NoteDone
  <2>4. ASSUME NEW u \in Users
        PROVE  notes[m][u] <= messages[m].tries + 1
    <3>1. notes[m][u] <= messages[m].tries + One(NoteDone(m, u))
      BY DEF WorkersInv, Sound, Paid
    <3>2. notes[m][u] \in Nat /\ messages[m].tries \in Nat
      BY MessageTypes
    <3> QED
      BY <3>1, <3>2 DEF One
  <2>5. Paid(m)'
    BY <1>1, <1>3, <1>4, <2>3, <2>4, MessageTypes DEF Paid, One
  <2> QED
    BY <2>1, <2>2, <2>5 DEF Sound
<1>9. \A n \in Ids \ {m} : Sound(n)'
  BY <1>1, <1>4, OthersUntouched
<1> QED
  BY <1>7, <1>8, <1>9 DEF WorkersInv

-----------------------------------------------------------------------------
(* RabbitMQ, the mails under way, the process and the users                *)

LEMMA DeliveryKeeps ==
    ASSUME WorkersInv, NEW m \in Ids, DeliverMessage(m)
    PROVE  WorkersInv'
<1> DEFINE new == [messages[m] EXCEPT !.state = "running", !.step = 1]
<1>1. /\ In(m, "ready") /\ messages' = [messages EXCEPT ![m] = new]
      /\ UNCHANGED <<users, events, audits, notes, mails, floating, pushed, failed, restarts>>
  BY MessageTypes DEF DeliverMessage, effects, MessageState
<1>2. /\ new \in MessageState /\ new.state = "running" /\ new.step = 1
      /\ new.tries = messages[m].tries /\ new.callback = messages[m].callback
  BY MessageTypes DEF MessageState, States
<1> HIDE DEF new
<1>3. /\ messages' \in [Ids -> MessageState] /\ \A n \in Ids \ {m} : messages'[n] = messages[n]
      /\ messages'[m] = new
  BY <1>1, MessageTypes, <1>2
<1>4. /\ StepsOf(m)' = StepsOf(m) /\ Done(m)' = {} /\ Done(m) = {}
      /\ ~ In(m, "none")' /\ ~ In(m, "none") /\ ~ In(m, "running")
  BY <1>1, <1>2, <1>3 DEF StepsOf, Done, In
<1>5. \A n \in Ids : In(n, "none")' <=> In(n, "none")
  BY <1>3, <1>4, NoneKept
<1>6. WorkersTypeOK'
  BY <1>1, <1>3, <1>5, TypesKept DEF WorkersInv, WorkersTypeOK
<1>7. messages'[m].step \in 1..(Len(StepsOf(m)) + 1)
  BY <1>2, <1>3, MessageTypes
<1>8. m[1] \in 1..Len(events') /\ events'[m[1]] = events[m[1]]
  BY <1>1, <1>4, MessageShape
<1>9. messages'[m].tries = messages[m].tries /\ restarts' \in Nat /\ restarts <= restarts'
  BY <1>1, <1>2, <1>3, MessageTypes
<1>10. Sound(m)'
  BY <1>1, <1>4, <1>7, <1>8, <1>9, NoFurther
<1>11. \A n \in Ids \ {m} : Sound(n)'
  BY <1>1, <1>3, OthersUntouched
<1> QED
  BY <1>6, <1>10, <1>11 DEF WorkersInv

LEMMA AcknowledgementKeeps ==
    ASSUME WorkersInv, NEW m \in Ids, Acknowledge(m)
    PROVE  WorkersInv'
<1> DEFINE new == [messages[m] EXCEPT !.state = "acked"]
<1>1. /\ In(m, "running") /\ messages[m].step > Len(StepsOf(m))
      /\ messages' = [messages EXCEPT ![m] = new]
      /\ UNCHANGED <<users, events, audits, notes, mails, floating, pushed, failed, restarts>>
  BY MessageTypes DEF Acknowledge, effects, MessageState
<1>2. /\ new \in MessageState /\ new.state = "acked"
      /\ new.tries = messages[m].tries /\ new.callback = messages[m].callback
  BY MessageTypes DEF MessageState, States
<1> HIDE DEF new
<1>3. /\ messages' \in [Ids -> MessageState] /\ \A n \in Ids \ {m} : messages'[n] = messages[n]
      /\ messages'[m] = new
  BY <1>1, MessageTypes, <1>2
<1>4. StepsOf(m)' = StepsOf(m) /\ ~ In(m, "none")' /\ ~ In(m, "none") /\ ~ In(m, "running")'
  BY <1>1, <1>2, <1>3 DEF StepsOf, In
<1>5. Done(m)' = Done(m)
  <2>1. Done(m) = 1..Len(StepsOf(m))
    <3>1. messages[m].step \in Nat /\ Len(StepsOf(m)) \in Nat
      BY MessageTypes DEF MessageState
    <3>2. \A i \in 1..Len(StepsOf(m)) : i < messages[m].step
      BY <1>1, <3>1
    <3> QED
      BY <1>1, <3>2 DEF Done
  <2>2. Done(m)' = 1..Len(StepsOf(m))
    BY <1>2, <1>3, <1>4 DEF Done, In
  <2> QED
    BY <2>1, <2>2
<1>6. \A n \in Ids : In(n, "none")' <=> In(n, "none")
  BY <1>3, <1>4, NoneKept
<1>7. WorkersTypeOK'
  BY <1>1, <1>3, <1>6, TypesKept DEF WorkersInv, WorkersTypeOK
<1>8. m[1] \in 1..Len(events') /\ events'[m[1]] = events[m[1]]
  BY <1>1, <1>4, MessageShape
<1>9. messages'[m].tries = messages[m].tries /\ restarts' \in Nat /\ restarts <= restarts'
  BY <1>1, <1>2, <1>3, MessageTypes
<1>10. Sound(m)'
  BY <1>1, <1>4, <1>5, <1>8, <1>9, NoFurther
<1>11. \A n \in Ids \ {m} : Sound(n)'
  BY <1>1, <1>3, OthersUntouched
<1> QED
  BY <1>7, <1>10, <1>11 DEF WorkersInv

\* The queues of an event that is published: its messages have left nothing yet.
LEMMA PublicationKeeps ==
    ASSUME WorkersInv, NEW e \in Event, PublishEvent(e)
    PROVE  WorkersInv'
<1> DEFINE new(m) == m[1] = Len(events) + 1 /\ Callback(e, m[2]) # << >>
<1>1. /\ Len(events) < MaxEvents /\ events' = Append(events, e)
      /\ messages' = [m \in Ids |-> IF new(m) THEN Ready(Callback(e, m[2])) ELSE messages[m]]
      /\ UNCHANGED <<users, audits, notes, mails, floating, pushed, failed, restarts>>
  BY DEF PublishEvent, effects
<1>2. /\ events \in Seq(Event) /\ events' \in Seq(Event) /\ Len(events) \in Nat
      /\ Len(events') = Len(events) + 1 /\ events'[Len(events) + 1] = e
      /\ \A i \in 1..Len(events) : i \in 1..Len(events') /\ events'[i] = events[i]
  BY <1>1 DEF WorkersInv, WorkersTypeOK
<1>3. ASSUME NEW m \in Ids, new(m)
      PROVE  /\ In(m, "none") /\ messages'[m] \in MessageState
             /\ messages'[m].state = "ready" /\ messages'[m].tries = 0
             /\ messages'[m].callback = Callback(e, m[2])
  <2>1. Callback(e, m[2]) \in Seq(Commands)
    BY MessageTypes, CallbackShape DEF ShapeOf
  <2>2. messages'[m] = Ready(Callback(e, m[2]))
    BY <1>1, <1>3
  <2>3. 0 \in 0..MaxTries
    BY WorkersAssumption
  <2>4. In(m, "none")
    <3>1. m[1] = Len(events) + 1 /\ ~ (m[1] \in 1..Len(events))
      BY <1>2, <1>3
    <3> QED
      BY <3>1 DEF WorkersInv, Sound, Known
  <2>5. ASSUME NEW cb \in Seq(Commands)
        PROVE  /\ Ready(cb) \in MessageState /\ Ready(cb).state = "ready" /\ Ready(cb).tries = 0
               /\ Ready(cb).callback = cb
    <3>4. << >> \in Seq(Commands)
      OBVIOUS
    <3>1. PICK empty \in Seq(Commands) : empty = << >>
      BY <3>4
    <3>2. NoMessage = [state |-> "none", step |-> 0, tries |-> 0, callback |-> empty]
      BY <3>1 DEF NoMessage
    <3>3. NoMessage \in MessageState /\ NoMessage.tries = 0
      BY <2>3, <3>2 DEF MessageState, States
    <3> QED
      BY <3>3 DEF Ready, MessageState, States
  <2> QED
    BY <2>1, <2>2, <2>4, <2>5
<1>4. \A m \in Ids : ~ new(m) => messages'[m] = messages[m]
  BY <1>1
<1>5. messages' \in [Ids -> MessageState]
  <2>1. \A m \in Ids : messages'[m] \in MessageState
    BY <1>3, <1>4, MessageTypes
  <2>2. messages' = [m \in Ids |-> messages'[m]]
    BY <1>1
  <2> HIDE DEF new
  <2> QED
    BY <2>1, <2>2
<1>6. ASSUME NEW m \in Ids, new(m) PROVE Sound(m)' /\ m[1] \in DOMAIN events'
  <2>1. m[1] \in 1..Len(events') /\ Of(m)' = e
    BY <1>2, <1>6 DEF Of
  <2>2. StepsOf(m)' = Callback(e, m[2]) /\ Done(m)' = {}
    BY <1>3, <1>6 DEF StepsOf, Done, In
  <2>3. ~ In(m, "none")' /\ ~ In(m, "running")'
    BY <1>3, <1>6 DEF In
  <2>4. Known(m)'
    BY <2>1, <2>2, <2>3 DEF Known
  <2>5. Stored(m)'
    BY <2>2 DEF Stored
  <2>6. /\ audits'[m] = 0 /\ m \notin floating'
        /\ \A u \in Users : notes'[m][u] = 0 /\ mails'[m][u] = 0
    BY <1>1, <1>3, <1>6 DEF WorkersInv, Sound, Known
  <2>7. messages'[m].tries = 0 /\ restarts' \in Nat
    BY <1>1, <1>3, <1>6, MessageTypes
  <2>8. Paid(m)'
    BY <2>6, <2>7 DEF Paid, One
  <2> QED
    BY <1>2, <2>1, <2>4, <2>5, <2>8 DEF Sound
<1> HIDE DEF new
<1>7. ASSUME NEW m \in Ids, ~ new(m) PROVE Sound(m)'
  <2>1. ~ In(m, "none") => m[1] \in 1..Len(events') /\ events'[m[1]] = events[m[1]]
    BY <1>2 DEF WorkersInv, Sound, Known
  <2>2. /\ messages'[m] = messages[m] /\ restarts' \in Nat /\ restarts <= restarts'
        /\ users' \subseteq users /\ (m \in floating' <=> m \in floating)
        /\ audits'[m] = audits[m] /\ notes'[m] = notes[m] /\ mails'[m] = mails[m]
    BY <1>1, <1>4, <1>7, MessageTypes
  <2> QED
    BY <2>1, <2>2, Untouched
<1>8. WorkersTypeOK'
  <2>1. \A m \in Ids : ~ In(m, "none")' => m[1] \in DOMAIN events'
    <3> SUFFICES ASSUME NEW m \in Ids, ~ In(m, "none")', ~ new(m) PROVE m[1] \in DOMAIN events'
      BY <1>6
    <3>1. ~ In(m, "none")
      BY <1>4 DEF In
    <3>2. m[1] \in 1..Len(events)
      BY <3>1 DEF WorkersInv, Sound, Known
    <3> QED
      BY <1>2, <3>2
  <2>2. Len(events') <= MaxEvents
    BY <1>1, <1>2, WorkersAssumption
  <2> QED
    BY <1>1, <1>2, <1>5, <2>1, <2>2 DEF WorkersInv, WorkersTypeOK, MessageState
<1> QED
  BY <1>6, <1>7, <1>8 DEF WorkersInv

LEMMA LooseMailKeeps ==
    ASSUME WorkersInv, NEW m \in Ids, LooseMailSent(m)
    PROVE  WorkersInv'
<1>1. /\ m \in floating /\ floating' = floating \ {m}
      /\ mails' = [mails EXCEPT ![m] = [u \in Users |-> @[u] + (IF u \in Loose(m) THEN 1 ELSE 0)]]
      /\ UNCHANGED <<users, events, messages, audits, notes, pushed, failed, restarts>>
  BY DEF LooseMailSent
<1>2. /\ mails' \in [Ids -> [Users -> Nat]]
      /\ \A u \in Users : mails'[m][u] = mails[m][u] + (IF u \in Loose(m) THEN 1 ELSE 0)
      /\ \A n \in Ids \ {m} : mails'[n] = mails[n]
  <2>1. mails \in [Ids -> [Users -> Nat]]
    BY DEF WorkersInv, WorkersTypeOK
  <2> DEFINE row == [u \in Users |-> mails[m][u] + (IF u \in Loose(m) THEN 1 ELSE 0)]
  <2>2. row \in [Users -> Nat]
    BY <2>1
  <2>3. mails' = [mails EXCEPT ![m] = row]
    BY <1>1
  <2>4. \A u \in Users : row[u] = mails[m][u] + (IF u \in Loose(m) THEN 1 ELSE 0)
    OBVIOUS
  <2> HIDE DEF row
  <2>5. mails' \in [Ids -> [Users -> Nat]] /\ mails'[m] = row
    BY <2>1, <2>2, <2>3
  <2>6. \A n \in Ids \ {m} : mails'[n] = mails[n]
    BY <2>1, <2>3
  <2> QED
    BY <2>4, <2>5, <2>6
<1>3. MailDone(m) /\ ~ In(m, "none") /\ Paid(m)
  BY <1>1 DEF WorkersInv, Sound, Paid, Known
<1>4. \A n \in Ids : In(n, "none")' <=> In(n, "none")
  BY <1>1 DEF In
<1>5. WorkersTypeOK'
  BY <1>1, <1>2, <1>4, TypesKept, MessageTypes DEF WorkersInv, WorkersTypeOK, MessageState
<1>6. /\ StepsOf(m)' = StepsOf(m) /\ Done(m)' = Done(m) /\ Loose(m)' = Loose(m)
      /\ m \notin floating'
  BY <1>1 DEF StepsOf, Done, In, Loose
<1>7. Known(m)'
  BY <1>1, <1>3, <1>6 DEF Known, Of, In, WorkersInv, Sound
<1>8. Stored(m)'
  BY <1>1, <1>6 DEF Stored, WorkersInv, Sound
<1>9. Paid(m)'
  <2>1. MailDone(m)' /\ (AuditDone(m)' <=> AuditDone(m))
    BY <1>3, <1>6 DEF MailDone, AuditDone
  <2>2. \A u \in Users : NoteDone(m, u)' <=> NoteDone(m, u)
    BY <1>6 DEF NoteDone
  <2>3. ASSUME NEW u \in Users
        PROVE  mails'[m][u] <= restarts + 1
    <3>1. mails[m][u] <= restarts + One(~ (u \in Loose(m)))
      BY <1>1, <1>3 DEF Paid, One
    <3>2. mails[m][u] \in Nat /\ restarts \in Nat
      BY MessageTypes
    <3> QED
      BY <1>2, <3>1, <3>2 DEF One
  <2> QED
    BY <1>1, <1>3, <1>6, <2>1, <2>2, <2>3 DEF Paid, One
<1>10. \A n \in Ids \ {m} : Sound(n)'
  BY <1>1, <1>2, OthersUntouched
<1> QED
  BY <1>5, <1>7, <1>8, <1>9, <1>10 DEF WorkersInv, Sound

\* What was running is requeued, and mails under way are lost: every copy a
\* message has left, it may leave again.
LEMMA RestartKeeps ==
    ASSUME WorkersInv, Restarted
    PROVE  WorkersInv'
<1>1. /\ restarts < MaxWorkerRestarts /\ restarts' = restarts + 1 /\ floating' = {}
      /\ \A m \in Ids : In(m, "running") => messages[m].tries < MaxTries
      /\ UNCHANGED <<users, events, audits, notes, mails, pushed, failed>>
  BY DEF Restarted
<1> DEFINE new(m) == [messages[m] EXCEPT !.state = "ready", !.tries = messages[m].tries + 1]
<1>7. messages' = [m \in Ids |-> IF In(m, "running") THEN new(m) ELSE messages[m]]
  BY MessageTypes DEF Restarted, MessageState
<1>8. ASSUME NEW m \in Ids, messages[m].tries + 1 \in 0..MaxTries
      PROVE  /\ new(m) \in MessageState /\ new(m).state = "ready"
             /\ new(m).tries = messages[m].tries + 1 /\ new(m).callback = messages[m].callback
  BY <1>8, MessageTypes DEF MessageState, States
<1> HIDE DEF new
<1>2. ASSUME NEW m \in Ids
      PROVE  /\ messages'[m] \in MessageState /\ StepsOf(m)' = StepsOf(m)
             /\ ~ In(m, "running")' /\ (In(m, "none")' <=> In(m, "none"))
             /\ IF In(m, "running")
                THEN messages'[m].tries = messages[m].tries + 1 /\ Done(m)' = {}
                ELSE messages'[m].tries = messages[m].tries /\ Done(m)' = Done(m)
  <2>1. CASE In(m, "running")
    <3>1. messages'[m] = new(m)
      BY <1>7, <2>1
    <3>2. messages[m].tries + 1 \in 0..MaxTries
      BY <1>1, <2>1, MessageTypes, WorkersAssumption
    <3>3. /\ new(m) \in MessageState /\ new(m).state = "ready"
          /\ new(m).tries = messages[m].tries + 1 /\ new(m).callback = messages[m].callback
      BY <1>8, <3>2
    <3>4. ~ In(m, "acked")' /\ ~ In(m, "running")' /\ ~ In(m, "none")'
      BY <3>1, <3>3 DEF In
    <3>5. Done(m)' = {} /\ StepsOf(m)' = StepsOf(m)
      BY <3>1, <3>3, <3>4 DEF Done, StepsOf
    <3>6. ~ In(m, "none")
      BY <2>1 DEF In
    <3> QED
      BY <2>1, <3>1, <3>3, <3>4, <3>5, <3>6
  <2>2. CASE ~ In(m, "running")
    <3>1. messages'[m] = messages[m]
      BY <1>7, <2>2
    <3> QED
      BY <2>2, <3>1, MessageTypes DEF In, Done, StepsOf
  <2> QED
    BY <2>1, <2>2
<1>3. messages' \in [Ids -> MessageState]
  <2>1. messages' = [m \in Ids |-> messages'[m]]
    BY <1>7
  <2> QED
    BY <1>2, <2>1
<1>4. restarts' \in 0..MaxWorkerRestarts
  BY <1>1, WorkersAssumption DEF WorkersInv, WorkersTypeOK
<1>5. WorkersTypeOK'
  BY <1>1, <1>2, <1>3, <1>4, TypesKept DEF WorkersInv, WorkersTypeOK
<1>6. ASSUME NEW m \in Ids PROVE Sound(m)'
  <2>1. Sound(m) /\ Done(m)' \subseteq Done(m)
    BY <1>2 DEF WorkersInv
  <2>2. Known(m)'
    BY <1>1, <1>2, <2>1 DEF Sound, Known, Of
  <2>3. Stored(m)'
    BY <1>1, <1>2, <2>1 DEF Sound, Stored
  <2>4. audits'[m] <= restarts'
    BY <1>1, <2>1, MessageTypes DEF Sound, Paid, One
  <2>5. ASSUME NEW u \in Users
        PROVE  /\ mails'[m][u] <= restarts'
               /\ notes'[m][u] <= messages'[m].tries + One(NoteDone(m, u))'
    <3>1. /\ mails[m][u] <= restarts + One(MailDone(m) /\ ~ (m \in floating /\ u \in Loose(m)))
          /\ notes[m][u] <= messages[m].tries + One(NoteDone(m, u))
          /\ mails[m][u] \in Nat /\ notes[m][u] \in Nat /\ restarts \in Nat
          /\ messages[m].tries \in Nat
      BY <2>1, MessageTypes DEF Sound, Paid
    <3>2. ~ In(m, "running") => (NoteDone(m, u)' <=> NoteDone(m, u))
      BY <1>2 DEF NoteDone
    <3> QED
      BY <1>1, <1>2, <3>1, <3>2 DEF One
  <2>6. m \notin floating'
    BY <1>1
  <2>7. restarts' \in Nat /\ audits'[m] \in Nat
    BY <1>1, MessageTypes
  <2>8. Paid(m)'
    <3>1. audits'[m] <= restarts' + One(AuditDone(m))'
      BY <2>4, <2>7 DEF One
    <3>2. \A u \in Users : mails'[m][u] <= restarts'
             + One(MailDone(m) /\ ~ (m \in floating /\ u \in Loose(m)))'
      <4>1. \A u \in Users : mails'[m][u] \in Nat
        BY <1>1, MessageTypes
      <4> QED
        BY <2>5, <2>7, <4>1 DEF One
    <3> QED
      BY <2>5, <2>6, <3>1, <3>2 DEF Paid
  <2> QED
    BY <2>2, <2>3, <2>8 DEF Sound
<1> QED
  BY <1>5, <1>6 DEF WorkersInv

\* The rows that go with a user: no other user's rows go with them, since an audit
\* log is connected to one user and a notification is counted for each.
LEMMA DeletionKeeps ==
    ASSUME WorkersInv, NEW u \in Users, UserDeleted(u)
    PROVE  WorkersInv'
<1> DEFINE gone(m) == m[1] \in DOMAIN events /\ u \in Named(events[m[1]], Audited)
<1>1. /\ users' = users \ {u}
      /\ audits' = [m \in Ids |-> IF gone(m) THEN 0 ELSE audits[m]]
      /\ notes' = [m \in Ids |-> [notes[m] EXCEPT ![u] = 0]]
      /\ UNCHANGED <<events, messages, mails, floating, pushed, failed, restarts>>
  BY DEF UserDeleted
<1>2. ASSUME NEW m \in Ids
      PROVE  /\ audits'[m] \in Nat /\ audits'[m] <= audits[m]
             /\ ~ gone(m) => audits'[m] = audits[m]
             /\ notes'[m] \in [Users -> Nat]
             /\ \A v \in Users : /\ notes'[m][v] <= notes[m][v]
                                 /\ v # u => notes'[m][v] = notes[m][v]
  BY <1>1, MessageTypes
<1>3. audits' \in [Ids -> Nat] /\ notes' \in [Ids -> [Users -> Nat]]
  <2>1. audits' = [m \in Ids |-> audits'[m]] /\ notes' = [m \in Ids |-> notes'[m]]
    BY <1>1
  <2> QED
    BY <1>2, <2>1
<1>4. ASSUME NEW m \in Ids
      PROVE  /\ StepsOf(m)' = StepsOf(m) /\ Done(m)' = Done(m) /\ Loose(m)' = Loose(m)
             /\ In(m, "none")' <=> In(m, "none")
             /\ In(m, "running")' <=> In(m, "running")
  BY <1>1 DEF StepsOf, Done, Loose, In
<1>5. WorkersTypeOK'
  BY <1>1, <1>3, <1>4, TypesKept DEF WorkersInv, WorkersTypeOK, MessageState
<1>6. ASSUME NEW m \in Ids PROVE Sound(m)'
  <2>1. Sound(m)
    BY DEF WorkersInv
  <2>2. Known(m)'
    <3>1. In(m, "none") => audits'[m] = 0 /\ \A v \in Users : notes'[m][v] = 0
      BY <1>2, <2>1, MessageTypes DEF Sound, Known
    <3> QED
      BY <1>1, <1>4, <2>1, <3>1 DEF Sound, Known, Of
  <2>3. Stored(m)'
    <3> SUFFICES ASSUME NEW i \in Done(m), NEW v \in StepsOf(m)[i].users \cap (users \ {u})
                 PROVE  /\ StepsOf(m)[i].op = "audit" => audits'[m] >= 1
                        /\ StepsOf(m)[i].op = "note" => notes'[m][v] >= 1
      BY <1>1, <1>4 DEF Stored
    <3>1. v \in Users /\ v # u
      BY DEF WorkersInv, WorkersTypeOK
    <3>2. /\ StepsOf(m)[i].op = "audit" => audits[m] >= 1
          /\ StepsOf(m)[i].op = "note" => notes[m][v] >= 1
      BY <2>1 DEF Sound, Stored
    <3>3. ASSUME StepsOf(m)[i].op = "audit" PROVE ~ gone(m)
      <4>1. ~ In(m, "none") /\ i \in 1..Len(StepsOf(m))
        BY DEF Done, In
      <4>2. ShapeOf(StepsOf(m), m[2]) /\ Of(m) \in Event /\ m[2] \in Workers
        BY <4>1, MessageShape, MessageTypes
      <4>3. m[2] = "audit"
        <5>1. m[2] # "mail"
          BY <3>3, <4>1, <4>2 DEF ShapeOf
        <5>2. m[2] # "notification"
          BY <3>3, <4>1, <4>2 DEF ShapeOf
        <5> QED
          BY <4>2, <5>1, <5>2 DEF Workers
      <4>4. StepsOf(m) = <<Step("audit", Named(Of(m), Audited))>>
        BY <2>1, <4>1, <4>3 DEF Sound, Known, Callback
      <4>5. i = 1 /\ StepsOf(m)[i].users = Named(Of(m), Audited)
        BY <4>1, <4>4 DEF Step
      <4>6. \A x, y \in Named(Of(m), Audited) : x = y
        BY <4>2, OneUserAudited
      <4> QED
        BY <3>1, <4>5, <4>6 DEF Of
    <3> QED
      BY <1>2, <3>1, <3>2, <3>3
  <2>4. Paid(m)'
    <3>1. (AuditDone(m)' <=> AuditDone(m)) /\ (MailDone(m)' <=> MailDone(m))
      BY <1>4 DEF AuditDone, MailDone
    <3>2. \A v \in Users : NoteDone(m, v)' <=> NoteDone(m, v)
      BY <1>4 DEF NoteDone
    <3>3. audits'[m] <= restarts + One(AuditDone(m))
      BY <1>2, <2>1, MessageTypes DEF Sound, Paid, One
    <3>4. \A v \in Users : notes'[m][v] <= messages[m].tries + One(NoteDone(m, v))
      BY <1>2, <2>1, MessageTypes DEF Sound, Paid, One
    <3> QED
      BY <1>1, <1>4, <2>1, <3>1, <3>2, <3>3, <3>4 DEF Sound, Paid, One
  <2> QED
    BY <2>2, <2>3, <2>4 DEF Sound
<1> QED
  BY <1>5, <1>6 DEF WorkersInv

-----------------------------------------------------------------------------
(* The theorems                                                            *)

LEMMA WorkersStart == WorkersInit => WorkersInv
<1> SUFFICES ASSUME WorkersInit PROVE WorkersInv
  OBVIOUS
<1>1. /\ users = Users /\ events = << >> /\ floating = {} /\ pushed = {}
      /\ failed = 0 /\ restarts = 0
      /\ audits = [m \in Ids |-> 0]
      /\ notes = [m \in Ids |-> [u \in Users |-> 0]]
      /\ mails = [m \in Ids |-> [u \in Users |-> 0]]
  BY DEF WorkersInit
<1>2. NoMessage \in MessageState /\ NoMessage.state = "none" /\ NoMessage.tries = 0
  <2>1. << >> \in Seq(Commands) /\ 0 \in 0..MaxTries
    BY WorkersAssumption
  <2>2. PICK empty \in Seq(Commands) : empty = << >>
    BY <2>1
  <2>3. NoMessage = [state |-> "none", step |-> 0, tries |-> 0, callback |-> empty]
    BY <2>2 DEF NoMessage
  <2> QED
    BY <2>1, <2>3 DEF MessageState, States
<1>3. messages \in [Ids -> MessageState] /\ \A m \in Ids : messages[m] = NoMessage
  BY <1>2 DEF WorkersInit
<1>4. \A m \in Ids : In(m, "none") /\ ~ In(m, "running") /\ ~ In(m, "acked") /\ Done(m) = {}
  BY <1>2, <1>3 DEF In, Done
<1>5. events \in Seq(Event) /\ Len(events) = 0
  BY <1>1
<1>6. WorkersTypeOK
  <2>1. failed \in 0..MaxFailedCommands /\ restarts \in 0..MaxWorkerRestarts /\ 0 <= MaxEvents
    BY <1>1, WorkersAssumption
  <2>2. /\ audits \in [Ids -> Nat] /\ notes \in [Ids -> [Users -> Nat]]
        /\ mails \in [Ids -> [Users -> Nat]]
    BY <1>1
  <2> QED
    BY <1>1, <1>3, <1>4, <1>5, <2>1, <2>2 DEF WorkersTypeOK, MessageState
<1>7. ASSUME NEW m \in Ids PROVE Sound(m)
  <2>1. /\ audits[m] = 0 /\ m \notin floating /\ messages[m].tries = 0
        /\ \A u \in Users : notes[m][u] = 0 /\ mails[m][u] = 0
    BY <1>1, <1>2, <1>3
  <2>2. Known(m) /\ Stored(m)
    BY <1>4, <2>1 DEF Known, Stored
  <2>3. Paid(m)
    BY <1>1, <2>1 DEF Paid, One
  <2> QED
    BY <2>2, <2>3 DEF Sound
<1> QED
  BY <1>6, <1>7 DEF WorkersInv

LEMMA WorkersStep == WorkersInv /\ [WorkersNext]_eventVars => WorkersInv'
<1> SUFFICES ASSUME WorkersInv, [WorkersNext]_eventVars PROVE WorkersInv'
  OBVIOUS
<1>1. ASSUME NEW e \in Offered, PublishEvent(e) PROVE WorkersInv'
  BY <1>1, PublicationKeeps, OfferedAssumption
<1>2. ASSUME NEW m \in Ids, Work(m) PROVE WorkersInv'
  BY <1>2, DeliveryKeeps, AcknowledgementKeeps, AuditLogKeeps, NotificationKeeps, RealtimeKeeps,
     MailsKeep, FailureKeeps DEF Work
<1>3. ASSUME NEW m \in Ids, LooseMailSent(m) PROVE WorkersInv'
  BY <1>3, LooseMailKeeps
<1>4. ASSUME Restarted PROVE WorkersInv'
  BY <1>4, RestartKeeps
<1>5. ASSUME NEW u \in Users, UserDeleted(u) PROVE WorkersInv'
  BY <1>5, DeletionKeeps
<1>6. CASE UNCHANGED eventVars
  <2>1. UNCHANGED <<users, events, messages, audits, notes, mails, floating, pushed, failed, restarts>>
    BY <1>6 DEF eventVars
  <2>2. WorkersTypeOK'
    BY <2>1 DEF WorkersInv, WorkersTypeOK, In
  <2>3. ASSUME NEW m \in Ids PROVE Sound(m)'
    <3>1. ~ In(m, "none") => m[1] \in 1..Len(events')
      BY <2>1 DEF WorkersInv, Sound, Known
    <3> QED
      BY <2>1, <3>1, Untouched, MessageTypes
  <2> QED
    BY <2>2, <2>3 DEF WorkersInv
<1> QED
  BY <1>1, <1>2, <1>3, <1>4, <1>5, <1>6 DEF WorkersNext, Crash, LooseMailFails

\* The inductive invariant: a message's callback is the one of its worker for its
\* event, what the callback has gone past is stored, and each copy it has left is
\* paid for by a fault or by the pass under way.
THEOREM WorkersInvariant == WorkersSpec => []WorkersInv
BY WorkersStart, WorkersStep, PTL DEF WorkersSpec

\* The tables and the messages of the workers stay well-formed.
THEOREM WorkersTypeCorrect == WorkersSpec => []WorkersTypeOK
<1>1. WorkersInv => WorkersTypeOK
  BY DEF WorkersInv
<1> QED
  BY <1>1, WorkersInvariant, PTL

\* channel.ack comes only after what the callback had to store: no sequence of
\* failing commands, restarts and deletions leaves an acknowledged event without
\* the audit log or the notification of a user who is still there.
THEOREM AcknowledgedIsStored == WorkersSpec => []AckedIsStored
<1>1. WorkersInv => AckedIsStored
  <2> SUFFICES ASSUME WorkersInv, NEW m \in Ids, In(m, "acked"), NEW i \in DOMAIN StepsOf(m),
                      NEW u \in StepsOf(m)[i].users \cap users
               PROVE  /\ StepsOf(m)[i].op = "audit" => audits[m] >= 1
                      /\ StepsOf(m)[i].op = "note" => notes[m][u] >= 1
    BY DEF AckedIsStored
  <2>1. i \in Done(m)
    BY MessageTypes DEF Done
  <2> QED
    BY <2>1 DEF WorkersInv, Sound, Stored
<1> QED
  BY <1>1, WorkersInvariant, PTL

\* A second audit log or mail of an event has a restart behind it, a second
\* notification a return to the queue, whatever the events and their number.
THEOREM RepetitionsHaveFaults == WorkersSpec => []RepeatedOnlyOnFault
<1>1. WorkersInv => RepeatedOnlyOnFault
  <2> SUFFICES ASSUME WorkersInv, NEW m \in Ids
               PROVE  /\ audits[m] <= 1 + restarts
                      /\ \A u \in Users : /\ mails[m][u] <= 1 + restarts
                                          /\ notes[m][u] <= 1 + messages[m].tries
    BY DEF RepeatedOnlyOnFault
  <2>1. Paid(m)
    BY DEF WorkersInv, Sound
  <2> QED
    BY <2>1, MessageTypes DEF Paid, One
<1> QED
  BY <1>1, WorkersInvariant, PTL

-----------------------------------------------------------------------------
(* Every message is on its way                                             *)

\* What a step of the system is for one message: nothing, its publication, its
\* delivery, one command, the acknowledgement behind the last one, or the way back to
\* its queue, which a user who is gone or a new fault has to pay for.
Leads(m) ==
    \/ messages'[m] = messages[m]
    \/ In(m, "none") /\ In(m, "ready")' /\ messages'[m].tries = 0
    \/ /\ StepsOf(m)' = StepsOf(m)
       /\ \/ /\ messages'[m].tries = messages[m].tries
             /\ \/ In(m, "ready") /\ In(m, "running")' /\ messages'[m].step = 1
                \/ /\ In(m, "running") /\ In(m, "running")'
                   /\ messages[m].step <= Len(StepsOf(m))
                   /\ messages'[m].step = messages[m].step + 1
                \/ /\ In(m, "running") /\ In(m, "acked")'
                   /\ messages[m].step > Len(StepsOf(m))
          \/ /\ In(m, "running") /\ In(m, "ready")'
             /\ messages'[m].tries = messages[m].tries + 1
             /\ Gone(m) \/ failed' + restarts' > failed + restarts

\* No message is lost, or goes back to its queue for nothing.
MessagesGoOn == [][\A m \in Ids : Leads(m)]_eventVars

\* A message whose users are all there is never stopped: one that runs has a command to
\* take whose rows exist, or is to be acknowledged, and it has been given back no more
\* often than there were faults, so that the bound on that stands in no one's way.
NoneStopped ==
    \A m \in Ids : ~ Gone(m) =>
        /\ messages[m].tries <= failed + restarts
        /\ In(m, "running") =>
              /\ messages[m].tries < MaxTries
              /\ \/ messages[m].step = Len(StepsOf(m)) + 1
                 \/ \E op \in {"audit", "note", "push", "mail"} :
                       AtStep(m, op) /\ (op \in {"audit", "note"} => Possible(m))

LEMMA FaultsCount ==
    ASSUME WorkersInv
    PROVE  /\ failed \in Nat /\ restarts \in Nat
           /\ failed <= MaxFailedCommands /\ restarts <= MaxWorkerRestarts
  BY WorkersAssumption DEF WorkersInv, WorkersTypeOK

\* A step of one message's worker, seen from it.
LEMMA StepLeads ==
    ASSUME WorkersInv, NEW m \in Ids, NEW op,
           AtStep(m, op), Advance(m)
    PROVE  Leads(m)
<1>1. PICK s \in MessageState : s = messages[m]
  BY MessageTypes
<1>2. messages'[m] = [s EXCEPT !.step = @ + 1]
  BY <1>1, MessageTypes DEF Advance
<1>3. s.state = "running" /\ s.step <= Len(s.callback)
  BY <1>1 DEF AtStep, In, StepsOf
<1>4. /\ messages'[m].state = s.state /\ messages'[m].step = s.step + 1
      /\ messages'[m].tries = s.tries /\ messages'[m].callback = s.callback
  BY <1>2 DEF MessageState
<1> QED
  BY <1>1, <1>3, <1>4 DEF Leads, In, StepsOf

LEMMA BackLeads ==
    ASSUME WorkersInv, NEW m \in Ids, In(m, "running"),
           messages'[m] = [messages[m] EXCEPT !.state = "ready", !.tries = @ + 1],
           Gone(m) \/ failed' + restarts' > failed + restarts
    PROVE  Leads(m)
<1>1. PICK s \in MessageState : s = messages[m]
  BY MessageTypes
<1>2. /\ messages'[m].state = "ready" /\ messages'[m].tries = s.tries + 1
      /\ messages'[m].callback = s.callback
  BY <1>1 DEF MessageState
<1> QED
  BY <1>1, <1>2 DEF Leads, In, StepsOf

LEMMA WorkLeads ==
    ASSUME WorkersInv, NEW m \in Ids, Work(m)
    PROVE  \A q \in Ids : Leads(q)
<1>1. messages \in [Ids -> MessageState] /\ messages[m] \in MessageState
  BY MessageTypes
<1>2. \A q \in Ids \ {m} : messages'[q] = messages[q]
  BY <1>1 DEF Work, DeliverMessage, Acknowledge, CreateAuditLog, CreateNotification, PublishRealtime,
         SendMails, CommandFails, Advance, GiveBack
<1>3. Leads(m)
  <2>1. CASE DeliverMessage(m)
    <3>1. PICK s \in MessageState : s = messages[m]
      BY <1>1
    <3>2. messages'[m] = [s EXCEPT !.state = "running", !.step = 1]
      BY <1>1, <2>1, <3>1 DEF DeliverMessage
    <3>3. s.state = "ready"
      BY <2>1, <3>1 DEF DeliverMessage, In
    <3>4. /\ messages'[m].state = "running" /\ messages'[m].step = 1
          /\ messages'[m].tries = messages[m].tries
          /\ messages'[m].callback = messages[m].callback
      BY <3>1, <3>2 DEF MessageState
    <3> QED
      BY <3>1, <3>3, <3>4 DEF Leads, In, StepsOf
  <2>2. CASE Acknowledge(m)
    <3>1. PICK s \in MessageState : s = messages[m]
      BY <1>1
    <3>2. messages'[m] = [s EXCEPT !.state = "acked"]
      BY <1>1, <2>2, <3>1 DEF Acknowledge
    <3>3. s.state = "running" /\ s.step > Len(s.callback)
      BY <2>2, <3>1 DEF Acknowledge, In, StepsOf
    <3>4. /\ messages'[m].state = "acked" /\ messages'[m].tries = messages[m].tries
          /\ messages'[m].callback = messages[m].callback
      BY <3>1, <3>2 DEF MessageState
    <3> QED
      BY <3>1, <3>3, <3>4 DEF Leads, In, StepsOf
  <2>3. CASE CreateAuditLog(m) \/ CreateNotification(m) \/ PublishRealtime(m) \/ SendMails(m)
    BY <2>3, StepLeads DEF CreateAuditLog, CreateNotification, PublishRealtime, SendMails
  <2>4. CASE CommandFails(m)
    <3>1. /\ In(m, "running") /\ messages[m].step <= Len(StepsOf(m))
          /\ messages'[m] = [messages[m] EXCEPT !.state = "ready", !.tries = @ + 1]
      BY <1>1, <2>4 DEF CommandFails, AtStep, GiveBack
    <3>2. CASE Current(m).op # "push" /\ ~ Possible(m)
      <4>1. /\ Current(m).op \in {"audit", "note"} /\ ~ Current(m).users \subseteq users
            /\ Current(m) = StepsOf(m)[messages[m].step]
        BY <2>4, <3>2 DEF CommandFails, AtStep, Possible, Current
      <4>2. messages[m].step \in DOMAIN StepsOf(m)
        BY <3>1, MessageTypes DEF WorkersInv, Sound, Known
      <4>3. Gone(m)
        BY <4>1, <4>2 DEF Gone
      <4> QED
        BY <3>1, <4>3, BackLeads
    <3>3. CASE failed' = failed + 1
      <4>1. failed' + restarts' > failed + restarts
        BY <2>4, <3>3, FaultsCount DEF CommandFails
      <4> QED
        BY <3>1, <4>1, BackLeads
    <3> QED
      BY <2>4, <3>2, <3>3 DEF CommandFails
  <2> QED
    BY <2>1, <2>2, <2>3, <2>4 DEF Work
<1> QED
  BY <1>2, <1>3 DEF Leads

LEMMA AllLead ==
    ASSUME WorkersInv, [WorkersNext]_eventVars
    PROVE  \A m \in Ids : Leads(m)
<1>1. CASE UNCHANGED messages
  BY <1>1 DEF Leads
<1>2. ASSUME NEW e, PublishEvent(e), NEW m \in Ids PROVE Leads(m)
  <2>1. messages'[m] = IF m[1] = Len(events) + 1 /\ Callback(e, m[2]) # << >>
                       THEN Ready(Callback(e, m[2])) ELSE messages[m]
    BY <1>2 DEF PublishEvent
  <2>2. m[1] = Len(events) + 1 => In(m, "none")
    <3>1. Len(events) \in Nat /\ (~ In(m, "none") => m[1] \in 1..Len(events))
      BY DEF WorkersInv, WorkersTypeOK, Sound, Known
    <3> QED
      BY <3>1
  <2> QED
    BY <2>1, <2>2 DEF Leads, In, Ready, NoMessage
<1>3. ASSUME Restarted, NEW m \in Ids PROVE Leads(m)
  <2>1. messages'[m] = IF In(m, "running")
                       THEN [messages[m] EXCEPT !.state = "ready", !.tries = @ + 1]
                       ELSE messages[m]
    BY <1>3 DEF Restarted
  <2>2. failed' + restarts' > failed + restarts
    <3>1. failed' = failed /\ restarts' = restarts + 1
      BY <1>3 DEF Restarted
    <3> QED
      BY <3>1, FaultsCount
  <2> QED
    BY <2>1, <2>2, BackLeads DEF Leads
<1> QED
  BY <1>1, <1>2, <1>3, WorkLeads DEF WorkersNext, Crash, LooseMailFails, LooseMailSent, UserDeleted,
     eventVars

\* Once published a message stays until it is acknowledged, behind its last command, and
\* goes back to its queue only for a user who is gone or a fault: what the handling of
\* every message rests on, whatever the events, their callbacks and the users.
THEOREM MessagesAreHandledInOrder == WorkersSpec => MessagesGoOn
<1>1. WorkersInv /\ [WorkersNext]_eventVars => [\A m \in Ids : Leads(m)]_eventVars
  BY AllLead
<1> QED
  BY <1>1, WorkersInvariant, PTL DEF WorkersSpec, MessagesGoOn

TriesPaid == \A m \in Ids : ~ Gone(m) => messages[m].tries <= failed + restarts

LEMMA TriesStayPaid ==
    ASSUME WorkersInv, TriesPaid, [WorkersNext]_eventVars
    PROVE  TriesPaid'
<1>1. /\ users' \subseteq users /\ failed' \in Nat /\ restarts' \in Nat
      /\ failed <= failed' /\ restarts <= restarts'
  <2>1. /\ users' = users \/ \E u \in Users : users' = users \ {u}
        /\ failed' \in {failed, failed + 1} /\ restarts' \in {restarts, restarts + 1}
    <3>1. ASSUME NEW m \in Ids, Work(m)
          PROVE  users' = users /\ failed' \in {failed, failed + 1} /\ restarts' = restarts
      BY <3>1 DEF Work, DeliverMessage, Acknowledge, CreateAuditLog, CreateNotification,
             PublishRealtime, SendMails, CommandFails
    <3>2. ASSUME Restarted PROVE users' = users /\ failed' = failed /\ restarts' = restarts + 1
      BY <3>2 DEF Restarted
    <3>3. ASSUME NEW e, PublishEvent(e) PROVE UNCHANGED <<users, failed, restarts>>
      BY <3>3 DEF PublishEvent
    <3>4. ASSUME NEW m, LooseMailSent(m) PROVE UNCHANGED <<users, failed, restarts>>
      BY <3>4 DEF LooseMailSent
    <3>5. ASSUME NEW u, UserDeleted(u)
          PROVE  users' = users \ {u} /\ UNCHANGED <<failed, restarts>>
      BY <3>5 DEF UserDeleted
    <3> QED
      BY <3>1, <3>2, <3>3, <3>4, <3>5 DEF WorkersNext, Crash, LooseMailFails, eventVars
  <2> QED
    BY <2>1, FaultsCount
<1>2. SUFFICES ASSUME NEW m \in Ids, ~ Gone(m)' PROVE messages'[m].tries <= failed' + restarts'
  BY DEF TriesPaid
<1>3. messages[m].tries \in Nat /\ failed \in Nat /\ restarts \in Nat
  BY MessageTypes, FaultsCount
<1>4. StepsOf(m)' = StepsOf(m) => ~ Gone(m)
  BY <1>1, <1>2 DEF Gone
<1>5. CASE messages'[m] = messages[m]
  BY <1>1, <1>3, <1>4, <1>5 DEF TriesPaid, StepsOf
<1>6. CASE messages'[m].tries = 0
  BY <1>1, <1>6
<1>7. CASE StepsOf(m)' = StepsOf(m)
           /\ \/ messages'[m].tries = messages[m].tries
              \/ /\ messages'[m].tries = messages[m].tries + 1
                 /\ Gone(m) \/ failed' + restarts' > failed + restarts
  BY <1>1, <1>3, <1>4, <1>7 DEF TriesPaid
<1> QED
  BY <1>5, <1>6, <1>7, AllLead DEF Leads

\* A message whose users are all there always has a step of its own to take.
THEOREM NoMessageIsStopped == WorkersSpec => []NoneStopped
<1>1. WorkersInit => TriesPaid
  BY DEF WorkersInit, TriesPaid, NoMessage
<1>2. WorkersInv /\ TriesPaid /\ [WorkersNext]_eventVars => TriesPaid'
  BY TriesStayPaid
<1>3. WorkersInv /\ TriesPaid => NoneStopped
  <2> SUFFICES ASSUME WorkersInv, TriesPaid, NEW m \in Ids, ~ Gone(m)
               PROVE  /\ messages[m].tries <= failed + restarts
                      /\ In(m, "running") =>
                            /\ messages[m].tries < MaxTries
                            /\ \/ messages[m].step = Len(StepsOf(m)) + 1
                               \/ \E op \in {"audit", "note", "push", "mail"} :
                                     AtStep(m, op) /\ (op \in {"audit", "note"} => Possible(m))
    BY DEF NoneStopped
  <2>1. messages[m].tries <= failed + restarts /\ messages[m].tries \in Nat
    BY MessageTypes DEF TriesPaid
  <2>2. messages[m].tries < MaxTries
    BY <2>1, FaultsCount, WorkersAssumption
  <2>3. ASSUME In(m, "running"), messages[m].step # Len(StepsOf(m)) + 1
        PROVE  \E op \in {"audit", "note", "push", "mail"} :
                  AtStep(m, op) /\ (op \in {"audit", "note"} => Possible(m))
    <3>1. messages[m].step \in 1..(Len(StepsOf(m)) + 1) /\ Len(StepsOf(m)) \in Nat
      BY <2>3, MessageTypes DEF WorkersInv, Sound, Known
    <3>2. messages[m].step \in DOMAIN StepsOf(m) /\ messages[m].step <= Len(StepsOf(m))
      BY <2>3, <3>1, MessageTypes
    <3>3. Current(m) \in Commands
      BY <3>2, MessageTypes DEF Current
    <3>4. Current(m).op \in {"audit", "note"} => Possible(m)
      BY <3>2 DEF Gone, Possible, Current
    <3>5. PICK op \in {"audit", "note", "push", "mail"} : op = Current(m).op
      BY <3>3 DEF Commands
    <3> QED
      BY <2>3, <3>2, <3>4, <3>5 DEF AtStep
  <2> QED
    BY <2>1, <2>2, <2>3
<1> QED
  BY <1>1, <1>2, <1>3, WorkersInvariant, PTL DEF WorkersSpec
=============================================================================
