---------------------------- MODULE EventWorkers ----------------------------
(***************************************************************************)
(* What the workers make of the domain events: audit logs, notifications   *)
(* with their realtime message, and mails.  Each routing key has a queue   *)
(* of its own for each of the three kinds of worker that listen to it; a   *)
(* callback may take several commands, any of which may fail, and a        *)
(* message whose callback failed is requeued without end.                  *)
(*                                                                         *)
(* The tables are relations between a routing key and the fields of the    *)
(* event that name the users concerned.                                    *)
(***************************************************************************)
EXTENDS Naturals, Sequences, FiniteSets

CONSTANTS
    Users,        \* ids of users
    Offered,      \* bound: the events that may be published
    MaxEvents,    \* bound: events published
    MaxFailedCommands,  \* bound: commands that fail though nothing is wrong with them
    MaxWorkerRestarts,   \* bound: restarts of the process
    MaxDeleted,   \* bound: users deleted
    MaxTries      \* bound: times one message is given back to its queue

ASSUME WorkersAssumption ==
    /\ MaxEvents \in Nat /\ MaxFailedCommands \in Nat /\ MaxWorkerRestarts \in Nat
    /\ MaxDeleted \in Nat /\ MaxTries \in Nat
    /\ MaxTries > MaxFailedCommands + MaxWorkerRestarts

VARIABLES
    users,        \* the users whose rows exist
    events,       \* the events published
    messages,     \* per event and kind of worker: where the message is, and
                  \* what its callback does
    audits,       \* audit logs a message has left
    notes,        \* notifications a message has left, per user
    mails,        \* mails a message has sent, per user
    floating,     \* messages with a mail nobody waits for still under way
    pushed,       \* realtime messages published in Redis: message, user
    failed,     \* commands that have failed
    restarts       \* restarts so far

eventVars == <<users, events, messages, audits, notes, mails, floating,
                pushed, failed, restarts>>

-----------------------------------------------------------------------------
(* The events: for each routing key, the users its payload names.          *)

AuthEvents ==
    {"user.registered", "user.login", "user.logout", "auth.email.verified",
     "auth.email.verification.resent", "auth.password.reset.requested",
     "auth.password.reset.success", "user.session.revoked"} \X {"userId"}

AccountEvents ==
    {"user.profile.updated", "user.password.changed", "user.avatar.updated",
     "user.account.deleted"} \X {"userId"}

AdminEvents == {"user.action"} \X {"adminId", "targetUserId"}

UrlEvents == {"url.created", "url.updated", "url.deleted"} \X {"userId"}

\* Besides, workspace.deleted carries the list of the members.
WorkspaceEvents == {<<"workspace.created", "ownerId">>,
                    <<"workspace.updated", "updatedBy">>,
                    <<"workspace.deleted", "ownerId">>}

InvitationEvents ==
    {"workspace.invitation.created", "workspace.invitation.accepted",
     "workspace.invitation.rejected", "workspace.invitation.revoked",
     "workspace.invitation.expired"} \X {"inviterId", "inviteeId"}

MemberEvents ==
    ({"workspace.ownership.transferred"} \X {"newOwner", "previousOwner"})
    \cup ({"workspace.member.leave"} \X {"userId", "ownerId"})
    \cup ({"workspace.member.role.updated", "workspace.member.remove"}
              \X {"userId"})

RoutingKeys == AuthEvents \cup AccountEvents \cup AdminEvents \cup UrlEvents
                \cup WorkspaceEvents \cup InvitationEvents \cup MemberEvents

Keys       == {x[1] : x \in RoutingKeys}
PartiesOf(k) == {x[2] : x \in {y \in RoutingKeys : y[1] = k}}

\* The parties of an event are different users; a deleted workspace has
\* members, each of them once.
Event == {e \in UNION {[key : {k}, party : [PartiesOf(k) -> Users],
                        members : UNION {[1..n -> Users] : n \in 0..2}] :
                          k \in Keys} :
            /\ \A p, q \in DOMAIN e.party : e.party[p] = e.party[q] => p = q
            /\ \A i, j \in DOMAIN e.members : e.members[i] = e.members[j] => i = j
            /\ e.key = "workspace.deleted" <=> e.members # << >>}

ASSUME OfferedAssumption == Offered \subseteq Event

-----------------------------------------------------------------------------
(* Audit workers: one insertion per event, connected to one user.          *)

SignInAudit     == {x \in AuthEvents : x[1] \in {"user.registered", "user.login", "user.logout"}}
RecoveryAudit   == AuthEvents \ SignInAudit
AccountAudit    == AccountEvents
AdminAudit      == {<<"user.action", "adminId">>}
UrlAudit        == UrlEvents
WorkspaceAudit  == WorkspaceEvents
PendingAudit    == {"workspace.invitation.created", "workspace.invitation.accepted"}
                      \X {"inviterId"}
ClosedAudit     == {"workspace.invitation.expired", "workspace.invitation.rejected",
                    "workspace.invitation.revoked"} \X {"inviterId"}
MemberAudit     == {x \in MemberEvents : x[2] \in {"newOwner", "userId"}}

Audited == SignInAudit \cup RecoveryAudit \cup AccountAudit \cup AdminAudit
              \cup UrlAudit \cup WorkspaceAudit \cup PendingAudit \cup ClosedAudit
              \cup MemberAudit

-----------------------------------------------------------------------------
(* Mail workers: the users a mail goes to; the mails of one event are sent *)
(* together, and what goes wrong with them is only logged.                 *)

AuthMail ==
    {"user.registered", "auth.password.reset.requested", "auth.email.verified"}
        \X {"userId"}

AdminMail == {<<"user.action", "targetUserId">>}

InvitationMail ==
    {<<"workspace.invitation.created", "inviteeId">>,
     <<"workspace.invitation.accepted", "inviterId">>,
     <<"workspace.invitation.accepted", "inviteeId">>,
     <<"workspace.invitation.rejected", "inviterId">>,
     <<"workspace.invitation.revoked", "inviteeId">>}

MemberMail ==
    {<<"workspace.ownership.transferred", "newOwner">>,
     <<"workspace.ownership.transferred", "previousOwner">>,
     <<"workspace.member.role.updated", "userId">>,
     <<"workspace.member.leave", "ownerId">>,
     <<"workspace.member.remove", "userId">>}

\* sendWorkspaceDeletedEmail goes to all the members.
MembersMailed == {"workspace.deleted"}

Mailed == AuthMail \cup AdminMail \cup InvitationMail \cup MemberMail

\* sendAcceptanceEmailToInviter does not wait for sendMail.
NotWaitedFor == {<<"workspace.invitation.accepted", "inviterId">>}

-----------------------------------------------------------------------------
(* The steps of a callback: commands with the users they name.             *)

Commands == [op : {"audit", "note", "push", "mail"}, users : SUBSET Users]

Step(op, us) == [op |-> op, users |-> us]

\* The users that a table gives for an event.
Named(e, table) == {e.party[p] : p \in {q \in DOMAIN e.party : <<e.key, q>> \in table}}

Members(e) == {e.members[i] : i \in DOMAIN e.members}

\* Insert the row, then publish it with the user's id.
Notify(u) == <<Step("note", {u}), Step("push", {u})>>

\* The notification about a revocation is connected to the inviter and
\* published to the invitee.
InvitationNotices(e) ==
    CASE e.key = "workspace.invitation.created" -> Notify(e.party["inviteeId"])
      [] e.key \in {"workspace.invitation.accepted", "workspace.invitation.rejected"} ->
            Notify(e.party["inviterId"])
      [] e.key = "workspace.invitation.revoked" ->
            <<Step("note", {e.party["inviterId"]}), Step("push", {e.party["inviteeId"]})>>

\* A transfer inserts both rows with one createMany, then publishes them.
MemberNotices(e) ==
    CASE e.key = "workspace.ownership.transferred" ->
            <<Step("note", {e.party["newOwner"], e.party["previousOwner"]}),
              Step("push", {e.party["newOwner"]}), Step("push", {e.party["previousOwner"]})>>
      [] e.key \in {"workspace.member.role.updated", "workspace.member.remove"} ->
            Notify(e.party["userId"])
      [] e.key = "workspace.member.leave" -> Notify(e.party["ownerId"])

\* One member after the other; what is published is the row alone, without
\* the user's id that the subscriber looks for.
DeletionNotices(e) ==
    [i \in 1..(2 * Len(e.members)) |->
        IF i % 2 = 1 THEN Step("note", {e.members[(i + 1) \div 2]})
                     ELSE Step("push", {})]

NoticedInvitations == {"workspace.invitation.created", "workspace.invitation.accepted",
                       "workspace.invitation.rejected", "workspace.invitation.revoked"}
NoticedMembers     == {x[1] : x \in MemberEvents}

Notices(e) == CASE e.key \in NoticedInvitations -> InvitationNotices(e)
                [] e.key \in NoticedMembers -> MemberNotices(e)
                [] e.key = "workspace.deleted" -> DeletionNotices(e)
                [] OTHER -> << >>

Mails(e) == LET all == Named(e, Mailed)
                         \cup (IF e.key \in MembersMailed THEN Members(e) ELSE {})
            IN IF all = {} THEN << >> ELSE <<Step("mail", all)>>

Workers == {"audit", "notification", "mail"}

\* What the callback of a worker does with an event; nothing if no queue of
\* that worker is bound to the routing key.
Callback(e, w) == CASE w = "audit" -> <<Step("audit", Named(e, Audited))>>
                    [] w = "notification" -> Notices(e)
                    [] w = "mail" -> Mails(e)

-----------------------------------------------------------------------------
(* Messages: an event in the queue of a worker.                            *)

Ids == (1..MaxEvents) \X Workers

States == {"none", "ready", "running", "acked"}

NoMessage == [state |-> "none", step |-> 0, tries |-> 0, callback |-> << >>]

Ready(callback) == [NoMessage EXCEPT !.state = "ready", !.callback = callback]

In(m, state)   == messages[m].state = state
StepsOf(m)     == messages[m].callback
Current(m)     == StepsOf(m)[messages[m].step]
AtStep(m, op)  == /\ In(m, "running")
                  /\ messages[m].step <= Len(StepsOf(m))
                  /\ Current(m).op = op
Advance(m)     == messages' = [messages EXCEPT ![m].step = @ + 1]

\* Mutant of GiveBack: channel.nack(message, false, false).
GiveBackDrops(m) == messages' = [messages EXCEPT ![m].state = "none"]

\* channel.nack(message, false, true): back to the queue.
GiveBack(m) ==
    /\ messages[m].tries < MaxTries
    /\ messages' = [messages EXCEPT ![m].state = "ready", ![m].tries = @ + 1]

\* The rows a command refers to exist.
Possible(m)    == Current(m).users \subseteq users

\* A user that the callback refers to by a foreign key is gone.
Gone(m) == \E i \in DOMAIN StepsOf(m) :
              /\ StepsOf(m)[i].op \in {"audit", "note"}
              /\ ~ StepsOf(m)[i].users \subseteq users

WorkersInit ==
    /\ users = Users
    /\ events = << >>
    /\ messages = [m \in Ids |-> NoMessage]
    /\ audits = [m \in Ids |-> 0]
    /\ notes = [m \in Ids |-> [u \in Users |-> 0]]
    /\ mails = [m \in Ids |-> [u \in Users |-> 0]]
    /\ floating = {} /\ pushed = {}
    /\ failed = 0 /\ restarts = 0

-----------------------------------------------------------------------------
(* RabbitMQ and the consumer                                               *)

effects == <<audits, notes, mails, floating, pushed>>

\* Publisher.publish: the exchange copies the event to every bound queue.
PublishEvent(e) ==
    /\ Len(events) < MaxEvents
    /\ events' = Append(events, e)
    /\ messages' = [m \in Ids |->
                      IF m[1] = Len(events) + 1 /\ Callback(e, m[2]) # << >>
                      THEN Ready(Callback(e, m[2])) ELSE messages[m]]
    /\ UNCHANGED <<users, effects, failed, restarts>>

\* The message is given to the callback, which starts from its beginning.
DeliverMessage(m) ==
    /\ In(m, "ready")
    /\ messages' = [messages EXCEPT ![m].state = "running", ![m].step = 1]
    /\ UNCHANGED <<users, events, effects, failed, restarts>>

\* Mutant of Acknowledge: the message is acknowledged while its callback runs.
AcknowledgeEarly(m) ==
    /\ In(m, "running")
    /\ messages' = [messages EXCEPT ![m].state = "acked"]
    /\ UNCHANGED <<users, events, effects, failed, restarts>>

\* channel.ack, when the callback has ended.
Acknowledge(m) ==
    /\ In(m, "running")
    /\ messages[m].step > Len(StepsOf(m))
    /\ messages' = [messages EXCEPT ![m].state = "acked"]
    /\ UNCHANGED <<users, events, effects, failed, restarts>>

-----------------------------------------------------------------------------
(* The callbacks                                                           *)

\* Mutant of CreateAuditLog: the message is requeued when the row is there.
CreateAuditLogThenFail(m) ==
    /\ AtStep(m, "audit")
    /\ Possible(m)
    /\ audits' = [audits EXCEPT ![m] = @ + 1]
    /\ GiveBack(m)
    /\ UNCHANGED <<users, events, notes, mails, floating, pushed, failed, restarts>>

CreateAuditLog(m) ==
    /\ AtStep(m, "audit")
    /\ Possible(m)
    /\ audits' = [audits EXCEPT ![m] = @ + 1]
    /\ Advance(m)
    /\ UNCHANGED <<users, events, notes, mails, floating, pushed, failed, restarts>>

\* create or createMany of the notification repository
CreateNotification(m) ==
    /\ AtStep(m, "note")
    /\ Possible(m)
    /\ notes' = [notes EXCEPT ![m] =
                   [u \in Users |-> @[u] + (IF u \in Current(m).users THEN 1 ELSE 0)]]
    /\ Advance(m)
    /\ UNCHANGED <<users, events, audits, mails, floating, pushed, failed, restarts>>

\* redisPublisher.publish
PublishRealtime(m) ==
    /\ AtStep(m, "push")
    /\ pushed' = pushed \cup {<<m, u>> : u \in Current(m).users}
    /\ Advance(m)
    /\ UNCHANGED <<users, events, audits, notes, mails, floating, failed, restarts>>

Loose(m) == Named(events[m[1]], NotWaitedFor)

\* The mails are tried together and some arrive; whether they do or not, the
\* callback ends well.  One that is not waited for is still under way then.
SendMails(m) ==
    /\ AtStep(m, "mail")
    /\ \E sent \in SUBSET (Current(m).users \ Loose(m)) :
          mails' = [mails EXCEPT ![m] =
                      [u \in Users |-> @[u] + (IF u \in sent THEN 1 ELSE 0)]]
    /\ floating' = floating \cup (IF Loose(m) # {} THEN {m} ELSE {})
    /\ Advance(m)
    /\ UNCHANGED <<users, events, audits, notes, pushed, failed, restarts>>

\* A command fails: the database, or Redis, is away for a moment, or a row it
\* refers to does not exist.
CommandFails(m) ==
    /\ AtStep(m, "audit") \/ AtStep(m, "note") \/ AtStep(m, "push")
    /\ \/ /\ Current(m).op # "push" /\ ~ Possible(m)
          /\ UNCHANGED failed
       \/ /\ failed < MaxFailedCommands
          /\ failed' = failed + 1
    /\ GiveBack(m)
    /\ UNCHANGED <<users, events, effects, restarts>>

\* The mail nobody waits for arrives.
LooseMailSent(m) ==
    /\ m \in floating
    /\ mails' = [mails EXCEPT ![m] =
                   [u \in Users |-> @[u] + (IF u \in Loose(m) THEN 1 ELSE 0)]]
    /\ floating' = floating \ {m}
    /\ UNCHANGED <<users, events, messages, audits, notes, pushed, failed, restarts>>

-----------------------------------------------------------------------------
(* The process, and the users                                              *)

\* What has not been acknowledged is requeued; mails under way are lost.
Restarted ==
    /\ restarts < MaxWorkerRestarts
    /\ restarts' = restarts + 1
    /\ \A m \in Ids : In(m, "running") => messages[m].tries < MaxTries
    /\ messages' = [m \in Ids |->
                      IF In(m, "running")
                      THEN [messages[m] EXCEPT !.state = "ready", !.tries = @ + 1]
                      ELSE messages[m]]
    /\ floating' = {}
    /\ UNCHANGED <<users, events, audits, notes, mails, pushed, failed>>

Crash == Restarted

\* The mail nobody waits for fails: an unhandled rejection ends the process.
LooseMailFails(m) == m \in floating /\ Restarted

\* An administrator deletes a user: audit logs and notifications of the user
\* go with the row (onDelete: Cascade).
UserDeleted(u) ==
    /\ u \in users
    /\ Cardinality(Users \ users) < MaxDeleted
    /\ users' = users \ {u}
    /\ audits' = [m \in Ids |->
                    IF m[1] \in DOMAIN events /\ u \in Named(events[m[1]], Audited)
                    THEN 0 ELSE audits[m]]
    /\ notes' = [m \in Ids |-> [notes[m] EXCEPT ![u] = 0]]
    /\ UNCHANGED <<events, messages, mails, floating, pushed, failed, restarts>>

-----------------------------------------------------------------------------
Work(m) == \/ DeliverMessage(m) \/ Acknowledge(m)
           \/ CreateAuditLog(m) \/ CreateNotification(m) \/ PublishRealtime(m)
           \/ SendMails(m) \/ CommandFails(m)

WorkersNext ==
    \/ \E e \in Offered : PublishEvent(e)
    \/ \E m \in Ids : Work(m) \/ LooseMailSent(m) \/ LooseMailFails(m)
    \/ Crash
    \/ \E u \in Users : UserDeleted(u)

\* The event loop goes on with every callback, and RabbitMQ gives every
\* requeued message out again.
WorkersSpec == /\ WorkersInit /\ [][WorkersNext]_eventVars
               /\ \A m \in Ids : WF_eventVars(Work(m))

-----------------------------------------------------------------------------
(* Properties                                                              *)

\* The tables and the messages are well-formed; a message not yet published
\* has left nothing.
WorkersTypeOK ==
    /\ users \subseteq Users
    /\ events \in Seq(Event) /\ Len(events) <= MaxEvents
    /\ messages \in [Ids -> [state : States, step : Nat, tries : 0..MaxTries,
                            callback : Seq(Commands)]]
    /\ audits \in [Ids -> Nat]
    /\ notes \in [Ids -> [Users -> Nat]] /\ mails \in [Ids -> [Users -> Nat]]
    /\ floating \subseteq Ids
    /\ pushed \subseteq Ids \X Users
    /\ failed \in 0..MaxFailedCommands /\ restarts \in 0..MaxWorkerRestarts
    /\ \A m \in Ids : ~ In(m, "none") => m[1] \in DOMAIN events

\* A message is acknowledged only when all it had to store is stored, as far
\* as the users concerned still exist: whoever missed the realtime message, or
\* had no socket, has the notification.
AckedIsStored ==
    \A m \in Ids : In(m, "acked") =>
        \A i \in DOMAIN StepsOf(m) : \A u \in StepsOf(m)[i].users \cap users :
            /\ StepsOf(m)[i].op = "audit" => audits[m] >= 1
            /\ StepsOf(m)[i].op = "note" => notes[m][u] >= 1

\* At-least-once delivery costs a second copy only where it must: an audit log or
\* a mail is repeated by a restart before the acknowledgement and by nothing
\* else, a notification also by a message that was requeued.
RepeatedOnlyOnFault ==
    \A m \in Ids :
        /\ audits[m] <= 1 + restarts
        /\ \A u \in Users : /\ mails[m][u] <= 1 + restarts
                           /\ notes[m][u] <= 1 + messages[m].tries

\* Every message is acknowledged in the end, unless such a user is deleted.
EveryMessageHandled ==
    \A m \in Ids : In(m, "ready") ~> (In(m, "acked") \/ Gone(m))
=============================================================================
