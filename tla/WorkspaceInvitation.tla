------------------------ MODULE WorkspaceInvitation ------------------------
(***************************************************************************)
(* The invitations of one workspace (workspace_invitations), the handlers  *)
(* of WorkspaceInvitationService, the background                           *)
(* WorkspaceInvitationExpirationJob, and the membership they act on.       *)
(*                                                                         *)
(* Invitations are numbered in the order of their creation.  Each is given *)
(* seven days, so they also pass their deadlines in that order, and the    *)
(* clock is the number of deadlines that have passed.                      *)
(***************************************************************************)
EXTENDS WorkspaceMember, Naturals, FiniteSets

CONSTANTS
    InvitationRequests,  \* the requests in flight that may be about invitations
    InvitedRoles,        \* the roles that the invitations in the model carry
    MaxInvitations,      \* bound: invitations ever created
    MaxRestarts,         \* bound: restarts of the process
    MaxFailures          \* bound: failed passes of the job

ASSUME InvitationAssumption ==
    /\ InvitedRoles \subseteq Roles
    /\ MaxInvitations \in Nat
    /\ MaxRestarts \in Nat
    /\ MaxFailures \in Nat

VARIABLES
    inv,       \* workspace_invitations: the row of each invitation
    clock,     \* the invitations 1..clock are past expiresAt
    job,       \* the expiration job: its timer, or the pass under way
    restarts,  \* the restarts so far
    failures   \* the failed passes so far

faults == <<restarts, failures>>

vars == <<ownerId, member, request, inv, clock, job, faults>>

-----------------------------------------------------------------------------
(* The rows.  acceptedAt stands for "acceptedAt is not null".              *)

Invitations == 1 .. MaxInvitations

Closed == {"ACCEPTED", "DECLINED", "REVOKED", "EXPIRED"}

InvitationRow == [status : {"PENDING"} \cup Closed, user : Users,
                  role : Roles, acceptedAt : BOOLEAN]

NoInvitation ==
    [status |-> "NONE", user |-> Founder, role |-> "MEMBER", acceptedAt |-> FALSE]

Pending(i) == inv[i].status = "PENDING"
Overdue(i) == i <= clock

\* What findPendingByEmail looks for: pending, and expiresAt in the future.
Live(i) == Pending(i) /\ ~ Overdue(i)

LiveFor(u) == {i \in Invitations : Live(i) /\ inv[i].user = u}

\* Mutant of UpdateStatus: the rows are found by the invited user, not the id.
UpdateStatusByUser(i, status) ==
    inv' = [j \in Invitations |->
              IF inv[j] # NoInvitation /\ inv[j].user = inv[i].user
              THEN [inv[j] EXCEPT !.status = status,
                                  !.acceptedAt = (status = "ACCEPTED")]
              ELSE inv[j]]

\* updateStatus writes status and, whatever it was, acceptedAt.
UpdateStatus(i, status) ==
    inv' = [inv EXCEPT ![i].status = status, ![i].acceptedAt = (status = "ACCEPTED")]

-----------------------------------------------------------------------------
(* The requests about invitations.  inv is 0 where there is none yet.      *)

InvitationSteps ==
    {"create:pending", "create:found", "create:insert",
     "accept:begin", "accept:reactivate", "accept:create",
     "DECLINED", "REVOKED", "EXPIRED"}

InvitationCall == [step : InvitationSteps, inv : 0 .. MaxInvitations,
                   user : Users, role : Roles]

ICall(step, i, u, role) == [step |-> step, inv |-> i, user |-> u, role |-> role]

-----------------------------------------------------------------------------
(* createInvitation                                                        *)

\* The invitee, an active account, is not an active member.
CreateReadMember(r, u, role) ==
    /\ ~ IsActive(u)
    /\ Begin(r, ICall("create:pending", 0, u, role))
    /\ UNCHANGED <<ownerId, member, inv, clock, job, faults>>

\* Mutant of CreateReadPending: a pending invitation does not stop the next one.
CreateIgnoresPending(r) ==
    /\ request[r].step = "create:pending"
    /\ Goto(r, "create:insert")
    /\ UNCHANGED <<ownerId, member, inv, clock, job, faults>>

\* findPendingByEmail finds an invitation or nothing.
CreateReadPending(r) ==
    /\ request[r].step = "create:pending"
    /\ \/ /\ LiveFor(request[r].user) = {}
          /\ Goto(r, "create:insert")
       \/ \E i \in LiveFor(request[r].user) :
             request' = [request EXCEPT ![r].step = "create:found", ![r].inv = i]
    /\ UNCHANGED <<ownerId, member, inv, clock, job, faults>>

\* Conflict; if the deadline has passed since the query, the row is expired first.
CreateConflict(r) ==
    /\ request[r].step = "create:found"
    /\ \/ Overdue(request[r].inv) /\ Goto(r, "EXPIRED")
       \/ ~ Overdue(request[r].inv) /\ Done(r)
    /\ UNCHANGED <<ownerId, member, inv, clock, job, faults>>

CreateInsert(r) ==
    /\ request[r].step = "create:insert"
    /\ \E i \in Invitations :
          /\ inv[i] = NoInvitation
          /\ \A j \in 1 .. (i - 1) : inv[j] # NoInvitation
          /\ inv' = [inv EXCEPT ![i] =
                       [status |-> "PENDING", user |-> request[r].user,
                        role |-> request[r].role, acceptedAt |-> FALSE]]
    /\ Done(r)
    /\ UNCHANGED <<ownerId, member, clock, job, faults>>

-----------------------------------------------------------------------------
(* validateInvitationForAccept: the row is read by its token; a pending one *)
(* past its deadline is expired instead of what the caller asked for.      *)

Validate(r, i, c) ==
    /\ Pending(i)
    /\ Begin(r, IF Overdue(i) THEN [c EXCEPT !.step = "EXPIRED"] ELSE c)
    /\ UNCHANGED <<ownerId, member, inv, clock, job, faults>>

\* The signed-in user is not compared with the invited one.
AcceptValidate(r, i, u) == Validate(r, i, ICall("accept:begin", i, u, inv[i].role))

RejectValidate(r, i) == Validate(r, i, ICall("DECLINED", i, inv[i].user, inv[i].role))

\* The endpoint that only validates: it writes nothing unless the row is overdue.
ValidateInvitation(r, i) ==
    /\ Overdue(i)
    /\ Validate(r, i, ICall("EXPIRED", i, inv[i].user, inv[i].role))

\* Mutant of RevokeRead: a closed invitation is revoked, too.
RevokeUnchecked(r, i) ==
    /\ inv[i] # NoInvitation
    /\ Begin(r, ICall("REVOKED", i, inv[i].user, inv[i].role))
    /\ UNCHANGED <<ownerId, member, inv, clock, job, faults>>

\* revokeInvitation reads the row by its id and does not look at the deadline.
RevokeRead(r, i) ==
    /\ Pending(i)
    /\ Begin(r, ICall("REVOKED", i, inv[i].user, inv[i].role))
    /\ UNCHANGED <<ownerId, member, inv, clock, job, faults>>

-----------------------------------------------------------------------------
(* acceptInvitation: the transaction                                       *)

\* Its first query looks for a membership that was left or removed.
AcceptReadMember(r) ==
    /\ request[r].step = "accept:begin"
    /\ \/ IsInactive(request[r].user) /\ Goto(r, "accept:reactivate")
       \/ ~ IsInactive(request[r].user) /\ Goto(r, "accept:create")
    /\ UNCHANGED <<ownerId, member, inv, clock, job, faults>>

\* Mutant of Join: the invitation is left pending.
JoinWithoutAccepting(r) ==
    /\ member' = [member EXCEPT ![request[r].user] =
                    [status |-> "ACTIVE", role |-> request[r].role]]
    /\ Done(r)
    /\ UNCHANGED <<ownerId, inv, clock, job, faults>>

\* The membership and the invitation are written together.
Join(r) ==
    /\ member' = [member EXCEPT ![request[r].user] =
                    [status |-> "ACTIVE", role |-> request[r].role]]
    /\ UpdateStatus(request[r].inv, "ACCEPTED")
    /\ Done(r)
    /\ UNCHANGED <<ownerId, clock, job, faults>>

\* The row that was found is set to ACTIVE by its id, whatever it is by now.
AcceptReactivate(r) ==
    /\ request[r].step = "accept:reactivate"
    /\ Join(r)

\* A row that exists breaks the unique constraint and rolls the transaction back.
AcceptCreate(r) ==
    /\ request[r].step = "accept:create"
    /\ \/ ~ HasRow(request[r].user) /\ Join(r)
       \/ /\ HasRow(request[r].user)
          /\ Done(r)
          /\ UNCHANGED <<ownerId, member, inv, clock, job, faults>>

-----------------------------------------------------------------------------
\* rejectInvitation, revokeInvitation and handleInvitationExpired end with an
\* updateStatus by id, whatever the status is by now.
CommitStatus(r) ==
    /\ request[r].step \in {"DECLINED", "REVOKED", "EXPIRED"}
    /\ UpdateStatus(request[r].inv, request[r].step)
    /\ Done(r)
    /\ UNCHANGED <<ownerId, member, clock, job, faults>>

-----------------------------------------------------------------------------
(* The expiration job.  One timer at a time: "off" when none is set,       *)
(* "armed" for the deadline of an invitation, "retry" for 60 seconds after *)
(* a failed pass; "run" while a pass works through its batch.              *)

JobState == [at : {"off", "armed", "retry", "run"},
             target : 0 .. MaxInvitations, batch : SUBSET Invitations]

Job(at, target, batch) == [at |-> at, target |-> target, batch |-> batch]

JobOff == Job("off", 0, {})

\* findNextPendingExpiration: the earliest deadline still to come, or no timer.
ScheduleNext ==
    IF \E i \in Invitations : Live(i)
    THEN \E i \in Invitations :
            /\ Live(i)
            /\ \A j \in Invitations : Live(j) => i <= j
            /\ job' = Job("armed", i, {})
    ELSE job' = JobOff

\* Mutant of JobFires: the query forgets the deadline.
JobTakesAllPending ==
    /\ \/ job.at = "armed" /\ Overdue(job.target)
       \/ job.at = "retry"
    /\ job' = Job("run", 0, {i \in Invitations : Pending(i)})
    /\ UNCHANGED <<ownerId, member, request, inv, clock, faults>>

\* The timer fires and run() reads the pending invitations past their deadlines.
JobFires ==
    /\ \/ job.at = "armed" /\ Overdue(job.target)
       \/ job.at = "retry"
    /\ job' = Job("run", 0, {i \in Invitations : Pending(i) /\ Overdue(i)})
    /\ UNCHANGED <<ownerId, member, request, inv, clock, faults>>

\* expire(id): the status by id, and not acceptedAt.
JobExpires ==
    /\ job.at = "run"
    /\ \E i \in job.batch :
          /\ inv' = [inv EXCEPT ![i].status = "EXPIRED"]
          /\ job' = [job EXCEPT !.batch = @ \ {i}]
    /\ UNCHANGED <<ownerId, member, request, clock, faults>>

JobReschedules ==
    /\ job.at = "run"
    /\ job.batch = {}
    /\ ScheduleNext
    /\ UNCHANGED <<ownerId, member, request, inv, clock, faults>>

\* Mutant of JobFails: no retry is scheduled.
JobGivesUp ==
    /\ job.at = "run"
    /\ failures < MaxFailures
    /\ failures' = failures + 1
    /\ job' = JobOff
    /\ UNCHANGED <<ownerId, member, request, inv, clock, restarts>>

\* A query or a publish of the pass throws: the rest of the batch is dropped.
JobFails ==
    /\ job.at = "run"
    /\ failures < MaxFailures
    /\ failures' = failures + 1
    /\ job' = Job("retry", 0, {})
    /\ UNCHANGED <<ownerId, member, request, inv, clock, restarts>>

-----------------------------------------------------------------------------
\* The process dies, and with it all that is in flight; registerJobs calls
\* start() before the server listens again.
Restart ==
    /\ restarts < MaxRestarts
    /\ restarts' = restarts + 1
    /\ request' = [r \in DOMAIN request |-> Idle]
    /\ ScheduleNext
    /\ UNCHANGED <<ownerId, member, inv, clock, failures>>

\* The next deadline passes.
Tick ==
    /\ \E i \in Invitations :
          /\ i = clock + 1
          /\ inv[i] # NoInvitation
          /\ clock' = i
    /\ UNCHANGED <<ownerId, member, request, inv, job, faults>>

-----------------------------------------------------------------------------
AllRequests == MemberRequests \cup InvitationRequests

Init ==
    /\ ownerId = Founder
    /\ member = [u \in Users |-> IF u = Founder
                                 THEN [status |-> "ACTIVE", role |-> "OWNER"]
                                 ELSE NoRow]
    /\ request = [r \in AllRequests |-> Idle]
    /\ inv = [i \in Invitations |-> NoInvitation]
    /\ clock = 0
    /\ job = JobOff
    /\ restarts = 0
    /\ failures = 0

\* The next query of a request about an invitation.
InvitationStep(r) ==
    \/ CreateReadPending(r)
    \/ CreateConflict(r)
    \/ CreateInsert(r)
    \/ AcceptReadMember(r)
    \/ AcceptReactivate(r)
    \/ AcceptCreate(r)
    \/ CommitStatus(r)

\* A client sends a request about an invitation.
InvitationBegins(r) ==
    \/ \E u \in Users, role \in InvitedRoles : CreateReadMember(r, u, role)
    \/ \E i \in Invitations :
          \/ RejectValidate(r, i)
          \/ ValidateInvitation(r, i)
          \/ RevokeRead(r, i)
          \/ \E u \in Users : AcceptValidate(r, i, u)

MembershipChanges ==
    /\ MemberNext
    /\ UNCHANGED <<inv, clock, job, faults>>

InvitationFails(r) ==
    /\ RequestFails(r)
    /\ UNCHANGED <<inv, clock, job, faults>>

JobStep == JobFires \/ JobExpires \/ JobReschedules

Next ==
    \/ MembershipChanges
    \/ \E r \in InvitationRequests :
          InvitationBegins(r) \/ InvitationStep(r) \/ InvitationFails(r)
    \/ JobStep
    \/ JobFails
    \/ Restart
    \/ Tick

Spec == Init /\ [][Next]_vars

-----------------------------------------------------------------------------
(* Properties                                                              *)

\* The rows, the requests in flight and the job have the shape of the schema
\* and of the handlers.
TypeOK ==
    /\ ownerId \in Users
    /\ member \in [Users -> MemberRow \cup {NoRow}]
    /\ request \in [AllRequests -> MemberCall \cup InvitationCall \cup {Idle}]
    /\ inv \in [Invitations -> InvitationRow \cup {NoInvitation}]
    /\ clock \in 0 .. MaxInvitations
    /\ job \in JobState
    /\ restarts \in 0 .. MaxRestarts
    /\ failures \in 0 .. MaxFailures

\* Status and dates of an invitation agree: no path of the service or of the job
\* gives EXPIRED to one that could still have been accepted, and acceptedAt says
\* what the status says, with one exception: expire() of the job overwrites the
\* status alone, so an accepted invitation it had in its batch keeps the date.
DatesHonest ==
    \A i \in Invitations :
        /\ inv[i].status = "EXPIRED" => Overdue(i)
        /\ inv[i].status = "ACCEPTED" => inv[i].acceptedAt
        /\ inv[i].acceptedAt => inv[i].status \in {"ACCEPTED", "EXPIRED"}

\* Nobody joins, or comes back after leaving or being removed, but in a step
\* that marks an invitation ACCEPTED and gives the role that invitation offers.
JoinOnlyByAcceptance ==
    [][\A u \in Users :
          member'[u].status = "ACTIVE" /\ ~ IsActive(u)
          => \E i \in Invitations :
                /\ inv[i].status # "NONE"
                /\ inv'[i].status = "ACCEPTED"
                /\ inv'[i].role = member'[u].role]_vars

\* Only those who were under way can touch a closed invitation: once no request
\* and no pass of the job holds it, its outcome is final.
FinalUnlessInFlight ==
    [][\A i \in Invitations :
          /\ inv[i].status \in Closed
          /\ i \notin job.batch
          /\ \A r \in AllRequests :
                request[r].step \in InvitationSteps => request[r].inv # i
          => inv'[i] = inv[i]]_vars

\* The check for a pending invitation and the insert are two queries: a user
\* may have as many live invitations as requests race, and never more.
PendingBounded ==
    \A u \in Users : Cardinality(LiveFor(u)) <= Cardinality(InvitationRequests)

\* An invitation the job's timer was set for does not stay pending for ever, failed
\* passes included, unless the process restarts once the deadline has passed: start()
\* looks for deadlines to come and for no other.
ScheduledInvitationCloses ==
    \A i \in Invitations, n \in 0 .. MaxRestarts :
        job.at = "armed" /\ job.target = i /\ restarts = n
        ~> ~ Pending(i) \/ (Overdue(i) /\ restarts # n)

\* An invitation that was declined, revoked or expired is not accepted later.
ClosedNotAccepted ==
    [][\A i \in Invitations :
          inv[i].status \in Closed \ {"ACCEPTED"}
          => inv'[i].status # "ACCEPTED"]_vars

\* What the endpoints promise of these tables to requests that do not overlap.
Contract ==
    INSTANCE MembershipContract WITH
        Nobody <- NoRow,
        owner <- ownerId,
        members <- member,
        invitations <- [i \in Invitations |->
                          [status |-> inv[i].status, user |-> inv[i].user,
                           role |-> inv[i].role]],
        overdue <- 1 .. clock
=============================================================================
