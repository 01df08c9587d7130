--------------------- MODULE WorkspaceInvitationProofs ---------------------
(***************************************************************************)
(* Theorems about WorkspaceInvitation, for every set of users, requests    *)
(* and invited roles, and for every number of invitations, restarts and    *)
(* failed passes.                                                          *)
(***************************************************************************)
EXTENDS InvitationsInSeries, WorkspaceMemberProofs, FiniteSetTheorems

Accepting == {"accept:begin", "accept:reactivate", "accept:create"}

\* The steps of a request that has read an invitation.
Holding == Accepting \cup {"create:found", "DECLINED", "REVOKED", "EXPIRED"}

\* What a request has read and relies on is still true when it goes on: rows of
\* members and of invitations are never deleted, a deadline that has passed stays
\* passed, and no handler changes the role that an invitation offers.
CallSound(c) ==
    /\ c.step \in CommitSteps => HasRow(c.target)
    /\ c.step \in Transferring => HasRow(c.actor)
    /\ c.step \in Holding => c.inv \in Invitations /\ inv[c.inv] \in InvitationRow
    /\ c.step = "EXPIRED" => Overdue(c.inv)
    /\ c.step \in Accepting => c.role = inv[c.inv].role

CallsSound == \A r \in AllRequests : CallSound(request[r])

\* The job holds invitations past their deadlines only.
BatchSound == \A i \in job.batch : inv[i] \in InvitationRow /\ Overdue(i)

InvitationInv == TypeOK /\ OwnerHasRow /\ CallsSound /\ BatchSound /\ DatesHonest

Calls == MemberCall \cup InvitationCall \cup {Idle}

-----------------------------------------------------------------------------
(* What every step does to the tables: no row disappears, a row keeps the   *)
(* role it offers, and time goes forward.                                   *)

MembersMove ==
    /\ ownerId' \in Users
    /\ HasRow(ownerId)'
    /\ member' \in [Users -> MemberRow \cup {NoRow}]
    /\ \A u \in Users : HasRow(u) => HasRow(u)'

InvitationsMove ==
    /\ inv' \in [Invitations -> InvitationRow \cup {NoInvitation}]
    /\ \A i \in Invitations :
          inv[i] \in InvitationRow =>
              inv'[i] \in InvitationRow /\ inv'[i].role = inv[i].role
    /\ clock' \in 0 .. MaxInvitations
    /\ clock <= clock'
    /\ DatesHonest'

FaultsMove == restarts' \in 0 .. MaxRestarts /\ failures' \in 0 .. MaxFailures

TablesMove == MembersMove /\ InvitationsMove /\ FaultsMove

LEMMA StepsDiffer ==
    /\ MemberSteps \cap InvitationSteps = {}
    /\ Idle.step = "idle"
    /\ "idle" \notin MemberSteps \cup InvitationSteps
    /\ CommitSteps \subseteq MemberSteps
    /\ Transferring \subseteq MemberSteps
    /\ Holding \subseteq InvitationSteps
BY DEF MemberSteps, InvitationSteps, Idle, CommitSteps, Transferring, Holding, Accepting

LEMMA CallOfStep ==
    ASSUME NEW c \in Calls
    PROVE  /\ c.step \in MemberSteps => c \in MemberCall
           /\ c.step \in InvitationSteps => c \in InvitationCall
BY StepsDiffer DEF Calls, MemberCall, InvitationCall

\* A request about no row is sound.
LEMMA ReadNothing ==
    ASSUME NEW c \in Calls,
           c.step \notin CommitSteps \cup Transferring \cup Holding
    PROVE  CallSound(c) /\ CallSound(c)'
BY DEF CallSound, Holding

LEMMA SoundKept ==
    ASSUME InvitationInv, TablesMove, NEW c \in Calls, CallSound(c)
    PROVE  CallSound(c)'
<1>1. /\ c.step \in CommitSteps => HasRow(c.target)'
      /\ c.step \in Transferring => HasRow(c.actor)'
  BY CallOfStep, StepsDiffer DEF CallSound, TablesMove, MembersMove, InvitationsMove, FaultsMove, MemberCall
<1>2. c.step \in Holding =>
          c.inv \in Invitations /\ inv'[c.inv] \in InvitationRow
  BY DEF CallSound, TablesMove, MembersMove, InvitationsMove, FaultsMove
<1>3. c.step = "EXPIRED" => Overdue(c.inv)'
  <2>1. SUFFICES ASSUME c.step = "EXPIRED" PROVE Overdue(c.inv)'
    OBVIOUS
  <2>2. c.inv \in Invitations /\ c.inv <= clock
    BY <2>1 DEF CallSound, Overdue, Holding
  <2> QED
    BY <2>2, InvitationAssumption DEF TablesMove, MembersMove, InvitationsMove, FaultsMove, Overdue, Invitations, InvitationInv, TypeOK
<1>4. c.step \in Accepting => c.role = inv'[c.inv].role
  BY DEF CallSound, TablesMove, MembersMove, InvitationsMove, FaultsMove, Holding
<1> QED
  BY <1>1, <1>2, <1>3, <1>4 DEF CallSound

LEMMA MembersStay ==
    ASSUME InvitationInv, UNCHANGED <<ownerId, member>>
    PROVE  MembersMove
BY DEF MembersMove, InvitationInv, TypeOK, OwnerHasRow, HasRow

LEMMA InvitationsStay ==
    ASSUME InvitationInv, UNCHANGED <<inv, clock>>
    PROVE  InvitationsMove
<1>1. clock \in Nat
  BY InvitationAssumption DEF InvitationInv, TypeOK
<1>2. DatesHonest'
  BY DEF InvitationInv, DatesHonest, Overdue
<1> QED
  BY <1>1, <1>2 DEF InvitationsMove, InvitationInv, TypeOK

LEMMA TablesStay ==
    ASSUME InvitationInv, UNCHANGED <<ownerId, member, inv, clock, faults>>
    PROVE  TablesMove
BY MembersStay, InvitationsStay DEF TablesMove, FaultsMove, InvitationInv, TypeOK, faults

\* Every request but r keeps its record, r gets c.
LEMMA RequestGoesOn ==
    ASSUME InvitationInv, TablesMove, NEW r \in AllRequests, NEW c \in Calls,
           request' = [request EXCEPT ![r] = c], CallSound(c)', UNCHANGED job
    PROVE  InvitationInv'
<1>1. TypeOK'
  BY DEF InvitationInv, TypeOK, TablesMove, MembersMove, InvitationsMove, FaultsMove, Calls
<1>2. CallsSound'
  <2>1. ASSUME NEW q \in AllRequests PROVE CallSound(request[q])'
    <3>1. CASE q = r
      <4>1. request'[q] = c
        BY <3>1 DEF InvitationInv, TypeOK
      <4> QED
        BY <4>1 DEF CallSound, HasRow, Overdue
    <3>2. CASE q # r
      <4>1. request'[q] = request[q] /\ request[q] \in Calls
        BY <3>2 DEF InvitationInv, TypeOK, Calls
      <4>2. CallSound(request[q])
        BY DEF InvitationInv, CallsSound
      <4>3. PICK d \in Calls : d = request[q]
        BY <4>1
      <4>4. CallSound(d)'
        BY <4>2, <4>3, SoundKept
      <4> QED
        BY <4>1, <4>3, <4>4 DEF CallSound, HasRow, Overdue
    <3> QED
      BY <3>1, <3>2
  <2> QED
    BY <2>1 DEF CallsSound
<1>3. BatchSound'
  <2>1. \A i \in job.batch : i \in Invitations /\ clock \in Nat /\ clock' \in Nat
    BY InvitationAssumption DEF InvitationInv, TypeOK, JobState, TablesMove, MembersMove, InvitationsMove, FaultsMove
  <2> QED
    BY <2>1 DEF InvitationInv, BatchSound, TablesMove, MembersMove, InvitationsMove, FaultsMove, Overdue, Invitations
<1> QED
  BY <1>1, <1>2, <1>3 DEF InvitationInv, TablesMove, MembersMove, InvitationsMove, FaultsMove, OwnerHasRow

\* A query: the tables and the job stay.
LEMMA RequestQueries ==
    ASSUME InvitationInv, NEW r \in AllRequests, NEW c \in Calls,
           request' = [request EXCEPT ![r] = c], CallSound(c),
           UNCHANGED <<ownerId, member, inv, clock, job, faults>>
    PROVE  InvitationInv'
BY TablesStay, SoundKept, RequestGoesOn

LEMMA IdleIsSound == Idle \in Calls /\ CallSound(Idle) /\ CallSound(Idle)'
BY StepsDiffer, ReadNothing DEF Calls

LEMMA RequestReturns ==
    ASSUME InvitationInv, NEW r \in AllRequests, Done(r),
           UNCHANGED <<ownerId, member, inv, clock, job, faults>>
    PROVE  InvitationInv'
BY IdleIsSound, RequestQueries DEF Done

\* The type of a request at a step, and what it has read.
LEMMA RequestAt ==
    ASSUME InvitationInv, NEW r \in AllRequests
    PROVE  /\ request[r] \in Calls
           /\ CallSound(request[r])
           /\ request[r].step \in MemberSteps => request[r] \in MemberCall
           /\ request[r].step \in InvitationSteps => request[r] \in InvitationCall
BY CallOfStep DEF InvitationInv, TypeOK, CallsSound, Calls

-----------------------------------------------------------------------------
(* What the steps write                                                    *)

LEMMA RowWritten ==
    ASSUME InvitationInv, NEW u \in Users, NEW row \in MemberRow,
           member' = [member EXCEPT ![u] = row], UNCHANGED ownerId
    PROVE  MembersMove
<1>1. member' \in [Users -> MemberRow \cup {NoRow}]
  BY DEF InvitationInv, TypeOK
<1>2. \A v \in Users : HasRow(v) => HasRow(v)'
  BY MemberRowIsNotNoRow DEF HasRow, InvitationInv, TypeOK
<1> QED
  BY <1>1, <1>2 DEF MembersMove, InvitationInv, TypeOK, OwnerHasRow, HasRow

\* updateStatus gives a closed status, and EXPIRED after the deadline only.
LEMMA StatusWritten ==
    ASSUME InvitationInv, NEW i \in Invitations, inv[i] \in InvitationRow,
           NEW status \in Closed, status = "EXPIRED" => Overdue(i),
           UpdateStatus(i, status), UNCHANGED clock
    PROVE  InvitationsMove
<1> DEFINE row == [inv[i] EXCEPT !.status = status, !.acceptedAt = (status = "ACCEPTED")]
<1>1. inv' = [inv EXCEPT ![i] = row]
  BY DEF UpdateStatus, InvitationInv, TypeOK
<1>2. /\ row \in InvitationRow
      /\ row.role = inv[i].role
      /\ row.status = status
      /\ row.acceptedAt = (status = "ACCEPTED")
  BY DEF InvitationRow
<1> HIDE DEF row
<1>3. /\ inv' \in [Invitations -> InvitationRow \cup {NoInvitation}]
      /\ inv'[i] = row
      /\ \A j \in Invitations \ {i} : inv'[j] = inv[j]
  BY <1>1, <1>2 DEF InvitationInv, TypeOK
<1>4. DatesHonest'
  BY <1>2, <1>3 DEF InvitationInv, DatesHonest, Overdue
<1>5. clock \in Nat
  BY InvitationAssumption DEF InvitationInv, TypeOK
<1> QED
  BY <1>2, <1>3, <1>4, <1>5 DEF InvitationsMove, InvitationInv, TypeOK

\* A request that is at a step of an invitation goes on to another one.
LEMMA GotoKeepsInvitation ==
    ASSUME InvitationInv, NEW r \in AllRequests, request[r] \in InvitationCall,
           NEW step \in InvitationSteps, Goto(r, step)
    PROVE  \E c \in Calls : /\ c.step = step
                            /\ c.inv = request[r].inv
                            /\ c.role = request[r].role
                            /\ request' = [request EXCEPT ![r] = c]
<1> DEFINE c == [request[r] EXCEPT !.step = step]
<1>1. /\ c \in InvitationCall
      /\ c.step = step
      /\ c.inv = request[r].inv
      /\ c.role = request[r].role
  BY DEF InvitationCall
<1>2. request' = [request EXCEPT ![r] = c]
  BY DEF Goto
<1> QED
  BY <1>1, <1>2 DEF Calls

LEMMA GotoKeepsMember ==
    ASSUME InvitationInv, NEW r \in AllRequests, request[r] \in MemberCall,
           NEW step \in MemberSteps, Goto(r, step)
    PROVE  \E c \in Calls : /\ c.step = step
                            /\ c.actor = request[r].actor
                            /\ c.target = request[r].target
                            /\ request' = [request EXCEPT ![r] = c]
<1> DEFINE c == [request[r] EXCEPT !.step = step]
<1>1. /\ c \in MemberCall
      /\ c.step = step
      /\ c.actor = request[r].actor
      /\ c.target = request[r].target
  BY DEF MemberCall
<1>2. request' = [request EXCEPT ![r] = c]
  BY DEF Goto
<1> QED
  BY <1>1, <1>2 DEF Calls

LEMMA ICallIsCall ==
    ASSUME NEW step \in InvitationSteps, NEW i \in 0 .. MaxInvitations,
           NEW u \in Users, NEW role \in Roles
    PROVE  /\ ICall(step, i, u, role) \in InvitationCall
           /\ ICall(step, i, u, role).step = step
           /\ ICall(step, i, u, role).inv = i
           /\ ICall(step, i, u, role).role = role
BY DEF ICall, InvitationCall

-----------------------------------------------------------------------------
(* The requests about invitations                                          *)

LEMMA PendingHasRow ==
    ASSUME InvitationInv, NEW i \in Invitations, Pending(i)
    PROVE  /\ inv[i] \in InvitationRow
           /\ inv[i].role \in Roles
           /\ inv[i].user \in Users
           /\ i \in 0 .. MaxInvitations
BY InvitationAssumption
   DEF InvitationInv, TypeOK, Pending, NoInvitation, InvitationRow, Invitations

\* A request that begins on a pending invitation and carries its role.
LEMMA CallOnPending ==
    ASSUME InvitationInv, NEW i \in Invitations, Pending(i), NEW u \in Users,
           NEW step \in Holding, step = "EXPIRED" => Overdue(i)
    PROVE  /\ ICall(step, i, u, inv[i].role) \in Calls
           /\ CallSound(ICall(step, i, u, inv[i].role))
<1> DEFINE c == ICall(step, i, u, inv[i].role)
<1>1. c \in InvitationCall /\ c.step = step /\ c.inv = i /\ c.role = inv[i].role
  BY PendingHasRow, ICallIsCall, StepsDiffer
<1>2. step \notin CommitSteps /\ step \notin Transferring
  BY StepsDiffer
<1> QED
  BY <1>1, <1>2, PendingHasRow DEF CallSound, Calls

LEMMA ValidatePreserves ==
    ASSUME InvitationInv, NEW r \in AllRequests, NEW i \in Invitations, NEW u \in Users,
           NEW step \in Holding, step = "EXPIRED" => Overdue(i),
           Validate(r, i, ICall(step, i, u, inv[i].role))
    PROVE  InvitationInv'
<1>1. Pending(i) /\ UNCHANGED <<ownerId, member, inv, clock, job, faults>>
  BY DEF Validate
<1>2. CASE Overdue(i)
  <2> DEFINE c == ICall("EXPIRED", i, u, inv[i].role)
  <2>1. request' = [request EXCEPT ![r] = c]
    <3>1. [ICall(step, i, u, inv[i].role) EXCEPT !.step = "EXPIRED"] = c
      BY DEF ICall
    <3> QED
      BY <1>2, <3>1 DEF Validate, Begin
  <2>2. "EXPIRED" \in Holding
    BY DEF Holding
  <2>3. c \in Calls /\ CallSound(c)
    BY <1>1, <1>2, <2>2, CallOnPending
  <2> QED
    BY <1>1, <2>1, <2>3, RequestQueries
<1>3. CASE ~ Overdue(i)
  <2> DEFINE c == ICall(step, i, u, inv[i].role)
  <2>1. request' = [request EXCEPT ![r] = c]
    BY <1>3 DEF Validate, Begin
  <2>2. c \in Calls /\ CallSound(c)
    BY <1>1, CallOnPending
  <2> QED
    BY <1>1, <2>1, <2>2, RequestQueries
<1> QED
  BY <1>2, <1>3

LEMMA BeginsPreserve ==
    ASSUME InvitationInv, NEW r \in AllRequests, InvitationBegins(r)
    PROVE  InvitationInv'
<1>1. ASSUME NEW u \in Users, NEW role \in InvitedRoles, CreateReadMember(r, u, role)
      PROVE  InvitationInv'
  <2> DEFINE c == ICall("create:pending", 0, u, role)
  <2>1. c \in Calls /\ c.step = "create:pending"
    BY InvitationAssumption, ICallIsCall DEF InvitationSteps, Calls
  <2>2. CallSound(c)
    BY <2>1, ReadNothing DEF CommitSteps, Transferring, Holding, Accepting
  <2> QED
    BY <1>1, <2>1, <2>2, RequestQueries DEF CreateReadMember, Begin
<1>2. ASSUME NEW i \in Invitations, NEW u \in Users, AcceptValidate(r, i, u)
      PROVE  InvitationInv'
  BY <1>2, ValidatePreserves DEF AcceptValidate, Holding, Accepting
<1>3. ASSUME NEW i \in Invitations, RejectValidate(r, i)
      PROVE  InvitationInv'
  <2>1. Pending(i)
    BY <1>3 DEF RejectValidate, Validate
  <2> QED
    BY <1>3, <2>1, PendingHasRow, ValidatePreserves DEF RejectValidate, Holding
<1>4. ASSUME NEW i \in Invitations, ValidateInvitation(r, i)
      PROVE  InvitationInv'
  <2>1. Pending(i)
    BY <1>4 DEF ValidateInvitation, Validate
  <2> QED
    BY <1>4, <2>1, PendingHasRow, ValidatePreserves DEF ValidateInvitation, Holding
<1>5. ASSUME NEW i \in Invitations, RevokeRead(r, i)
      PROVE  InvitationInv'
  <2> DEFINE c == ICall("REVOKED", i, inv[i].user, inv[i].role)
  <2>1. c \in Calls /\ CallSound(c)
    BY <1>5, PendingHasRow, CallOnPending DEF RevokeRead, Holding
  <2> QED
    BY <1>5, <2>1, RequestQueries DEF RevokeRead, Begin
<1> QED
  BY <1>1, <1>2, <1>3, <1>4, <1>5 DEF InvitationBegins

\* The transaction of an acceptance.
LEMMA JoinPreserves ==
    ASSUME InvitationInv, NEW r \in AllRequests, request[r].step \in Accepting, Join(r)
    PROVE  InvitationInv'
<1> DEFINE c == request[r]
           row == [status |-> "ACTIVE", role |-> c.role]
<1>1. /\ c.user \in Users /\ c.role \in Roles
      /\ c.inv \in Invitations /\ inv[c.inv] \in InvitationRow
  BY RequestAt, StepsDiffer DEF CallSound, Holding, InvitationCall
<1>2. row \in MemberRow
  BY <1>1 DEF MemberRow
<1>3. MembersMove
  BY <1>1, <1>2, RowWritten DEF Join
<1>4. InvitationsMove
  BY <1>1, StatusWritten DEF Join, Closed
<1>5. TablesMove
  BY <1>3, <1>4 DEF Join, TablesMove, FaultsMove, faults, InvitationInv, TypeOK
<1> QED
  BY <1>5, IdleIsSound, RequestGoesOn DEF Join, Done

LEMMA InsertPreserves ==
    ASSUME InvitationInv, NEW r \in AllRequests, CreateInsert(r)
    PROVE  InvitationInv'
<1>1. request[r] \in InvitationCall
  BY RequestAt DEF CreateInsert, InvitationSteps
<1> DEFINE row == [status |-> "PENDING", user |-> request[r].user,
                   role |-> request[r].role, acceptedAt |-> FALSE]
<1>2. row \in InvitationRow
  BY <1>1 DEF InvitationRow, InvitationCall
<1>3. PICK i \in Invitations : inv[i] = NoInvitation /\ inv' = [inv EXCEPT ![i] = row]
  BY DEF CreateInsert
<1>4. /\ inv' \in [Invitations -> InvitationRow \cup {NoInvitation}]
      /\ inv'[i] = row
      /\ \A j \in Invitations \ {i} : inv'[j] = inv[j]
  BY <1>2, <1>3 DEF InvitationInv, TypeOK
<1>5. NoInvitation \notin InvitationRow
  BY DEF NoInvitation, InvitationRow, Closed
<1>6. DatesHonest'
  BY <1>4 DEF InvitationInv, DatesHonest, Overdue, CreateInsert
<1>7. /\ clock' = clock
      /\ clock' \in 0 .. MaxInvitations
      /\ clock <= clock'
  BY InvitationAssumption DEF InvitationInv, TypeOK, CreateInsert
<1> HIDE DEF row
<1>8. InvitationsMove
  BY <1>3, <1>4, <1>5, <1>6, <1>7 DEF InvitationsMove
<1>9. TablesMove
  BY <1>8, MembersStay
     DEF CreateInsert, TablesMove, FaultsMove, faults, InvitationInv, TypeOK
<1> QED
  BY <1>9, IdleIsSound, RequestGoesOn DEF CreateInsert, Done

\* A query of a request about an invitation, before another of its queries.
LEMMA InvitationGoesOn ==
    ASSUME InvitationInv, NEW r \in AllRequests, request[r].step \in InvitationSteps,
           NEW step \in InvitationSteps, Goto(r, step),
           step \in Holding => request[r].step \in Holding,
           step \in Accepting => request[r].step \in Accepting,
           step = "EXPIRED" => Overdue(request[r].inv),
           UNCHANGED <<ownerId, member, inv, clock, job, faults>>
    PROVE  InvitationInv'
<1>1. PICK c \in Calls : /\ c.step = step
                        /\ c.inv = request[r].inv
                        /\ c.role = request[r].role
                        /\ request' = [request EXCEPT ![r] = c]
  BY RequestAt, GotoKeepsInvitation
<1>2. step \notin CommitSteps /\ step \notin Transferring
  BY StepsDiffer
<1>3. CallSound(c)
  BY <1>1, <1>2, RequestAt DEF CallSound
<1> QED
  BY <1>1, <1>3, RequestQueries

LEMMA FindPreserves ==
    ASSUME InvitationInv, NEW r \in AllRequests, CreateReadPending(r)
    PROVE  InvitationInv'
<1>1. request[r].step \in InvitationSteps /\ request[r] \in InvitationCall
  BY RequestAt DEF CreateReadPending, InvitationSteps
<1>2. CASE Goto(r, "create:insert")
  BY <1>1, <1>2, InvitationGoesOn
     DEF CreateReadPending, InvitationSteps, Holding, Accepting
<1>3. ASSUME NEW i \in LiveFor(request[r].user),
             request' = [request EXCEPT ![r].step = "create:found", ![r].inv = i]
      PROVE  InvitationInv'
  <2> DEFINE c == [request[r] EXCEPT !.step = "create:found", !.inv = i]
  <2>1. request' = [request EXCEPT ![r] = c]
    BY <1>3
  <2>2. i \in Invitations /\ inv[i] \in InvitationRow /\ i \in 0 .. MaxInvitations
    BY PendingHasRow DEF LiveFor, Live
  <2>3. c \in InvitationCall /\ c.step = "create:found" /\ c.inv = i
    BY <1>1, <2>2 DEF InvitationCall, InvitationSteps
  <2>4. c \in Calls /\ CallSound(c)
    BY <2>2, <2>3 DEF CallSound, Calls, CommitSteps, Transferring, Accepting
  <2> QED
    BY <2>1, <2>4, RequestQueries DEF CreateReadPending
<1> QED
  BY <1>2, <1>3 DEF CreateReadPending

LEMMA CommitPreserves ==
    ASSUME InvitationInv, NEW r \in AllRequests, CommitStatus(r)
    PROVE  InvitationInv'
<1> DEFINE c == request[r]
<1>1. c.inv \in Invitations /\ inv[c.inv] \in InvitationRow
  BY RequestAt DEF CommitStatus, CallSound, Holding
<1>2. c.step \in Closed /\ (c.step = "EXPIRED" => Overdue(c.inv))
  BY RequestAt DEF CommitStatus, CallSound, Closed
<1>3. InvitationsMove
  BY <1>1, <1>2, StatusWritten DEF CommitStatus
<1>4. TablesMove
  BY <1>3, MembersStay
     DEF CommitStatus, TablesMove, FaultsMove, faults, InvitationInv, TypeOK
<1> QED
  BY <1>4, IdleIsSound, RequestGoesOn DEF CommitStatus, Done

LEMMA StepsPreserve ==
    ASSUME InvitationInv, NEW r \in AllRequests, InvitationStep(r)
    PROVE  InvitationInv'
<1>1. CASE CreateReadPending(r)
  BY <1>1, FindPreserves
<1>2. CASE CreateConflict(r)
  <2>1. CASE Overdue(request[r].inv) /\ Goto(r, "EXPIRED")
    BY <1>2, <2>1, InvitationGoesOn
       DEF CreateConflict, InvitationSteps, Holding, Accepting
  <2>2. CASE Done(r)
    BY <1>2, <2>2, RequestReturns DEF CreateConflict
  <2> QED
    BY <1>2, <2>1, <2>2 DEF CreateConflict
<1>3. CASE CreateInsert(r)
  BY <1>3, InsertPreserves
<1>4. CASE AcceptReadMember(r)
  BY <1>4, InvitationGoesOn DEF AcceptReadMember, InvitationSteps, Holding, Accepting
<1>5. CASE AcceptReactivate(r)
  BY <1>5, JoinPreserves DEF AcceptReactivate, Accepting
<1>6. CASE AcceptCreate(r)
  BY <1>6, JoinPreserves, RequestReturns DEF AcceptCreate, Accepting
<1>7. CASE CommitStatus(r)
  BY <1>7, CommitPreserves
<1> QED
  BY <1>1, <1>2, <1>3, <1>4, <1>5, <1>6, <1>7 DEF InvitationStep

-----------------------------------------------------------------------------
(* The requests about members                                              *)

\* A step that writes the row of one member and ends.
LEMMA RowCommits ==
    ASSUME InvitationInv, NEW r \in AllRequests, Done(r),
           NEW u \in Users, NEW row \in MemberRow,
           member' = [member EXCEPT ![u] = row],
           UNCHANGED <<ownerId, inv, clock, job, faults>>
    PROVE  InvitationInv'
<1>1. TablesMove
  BY RowWritten, InvitationsStay DEF TablesMove, FaultsMove, faults, InvitationInv, TypeOK
<1> QED
  BY <1>1, IdleIsSound, RequestGoesOn DEF Done

LEMMA MemberCallOf ==
    ASSUME InvitationInv, NEW r \in AllRequests, request[r].step \in MemberSteps
    PROVE  /\ request[r].actor \in Users
           /\ request[r].target \in Users
           /\ request[r].role \in Roles
BY RequestAt DEF MemberCall

\* The row that a commit writes was there when the request found it.
LEMMA CommitFindsRow ==
    ASSUME InvitationInv, NEW r \in AllRequests, request[r].step \in CommitSteps
    PROVE  /\ request[r].target \in Users
           /\ request[r].role \in Roles
           /\ member[request[r].target] \in MemberRow
BY RequestAt, MemberCallOf, StepsDiffer
   DEF CallSound, HasRow, InvitationInv, TypeOK

LEMMA ActiveHasRow ==
    ASSUME InvitationInv, NEW u \in Users, IsActive(u)
    PROVE  HasRow(u)
BY DEF HasRow, IsActive, NoRow

\* A request that begins to change the row it has found.
LEMMA ReadsRow ==
    ASSUME InvitationInv, NEW r \in AllRequests, NEW u \in Users, HasRow(u),
           NEW step \in {"role:commit", "leave:commit", "remove:commit"},
           NEW role \in Roles, Begin(r, Call(step, u, u, role)),
           UNCHANGED <<ownerId, member, inv, clock, job, faults>>
    PROVE  InvitationInv'
<1> DEFINE c == Call(step, u, u, role)
<1>1. step \in MemberSteps /\ step \notin Transferring
  BY DEF MemberSteps, Transferring
<1>2. c \in MemberCall /\ c.step = step /\ c.target = u
  BY <1>1, CallInMemberCall
<1>3. CallSound(c)
  BY <1>1, <1>2, StepsDiffer DEF CallSound, Accepting, Holding, InvitationSteps
<1> QED
  BY <1>2, <1>3, RequestQueries DEF Begin, Calls

LEMMA TransferReadsOwner ==
    ASSUME InvitationInv, NEW r \in AllRequests, NEW u \in Users,
           TransferReadWorkspace(r, u), UNCHANGED <<inv, clock, job, faults>>
    PROVE  InvitationInv'
<1> DEFINE c == Call("transfer:target", ownerId, u, "OWNER")
<1>1. ownerId \in Users /\ HasRow(ownerId)
  BY DEF InvitationInv, TypeOK, OwnerHasRow
<1>2. c \in MemberCall /\ c.step = "transfer:target" /\ c.actor = ownerId
  BY <1>1, CallInMemberCall DEF MemberSteps, Roles
<1>3. CallSound(c)
  BY <1>1, <1>2 DEF CallSound, CommitSteps, Accepting, Holding
<1> QED
  BY <1>2, <1>3, RequestQueries DEF TransferReadWorkspace, Begin, Calls

LEMMA TransferReadsTarget ==
    ASSUME InvitationInv, NEW r \in AllRequests, TransferReadTarget(r),
           UNCHANGED <<inv, clock, job, faults>>
    PROVE  InvitationInv'
<1>1. request[r].step \in MemberSteps /\ request[r] \in MemberCall
  BY RequestAt DEF TransferReadTarget, MemberSteps
<1>2. CASE IsActive(request[r].target) /\ Goto(r, "transfer:commit")
  <2>1. PICK c \in Calls : /\ c.step = "transfer:commit"
                          /\ c.actor = request[r].actor
                          /\ c.target = request[r].target
                          /\ request' = [request EXCEPT ![r] = c]
    BY <1>1, <1>2, GotoKeepsMember DEF MemberSteps
  <2>2. HasRow(c.target)
    BY <1>1, <1>2, <2>1, MemberCallOf, ActiveHasRow
  <2>3. HasRow(c.actor)
    BY <2>1, RequestAt DEF TransferReadTarget, CallSound, Transferring
  <2>4. CallSound(c)
    BY <2>1, <2>2, <2>3 DEF CallSound, Accepting, Holding
  <2> QED
    BY <2>1, <2>4, RequestQueries DEF TransferReadTarget
<1>3. CASE Done(r)
  BY <1>3, RequestReturns DEF TransferReadTarget
<1> QED
  BY <1>2, <1>3 DEF TransferReadTarget

LEMMA TransferCommits ==
    ASSUME InvitationInv, NEW r \in AllRequests, TransferCommit(r),
           UNCHANGED <<inv, clock, job, faults>>
    PROVE  InvitationInv'
<1> DEFINE actor == request[r].actor
           target == request[r].target
<1>1. /\ request[r].step \in CommitSteps
      /\ request[r].step \in Transferring
      /\ request[r].step \in MemberSteps
  BY DEF TransferCommit, CommitSteps, Transferring, MemberSteps
<1>2. actor \in Users /\ target \in Users
  BY <1>1, MemberCallOf
<1>3. HasRow(actor) /\ HasRow(target)
  BY <1>1, RequestAt DEF CallSound
<1>4. member[actor] \in MemberRow /\ member[target] \in MemberRow
  BY <1>2, <1>3 DEF HasRow, InvitationInv, TypeOK
<1>5. member' \in [Users -> MemberRow \cup {NoRow}]
  <2> DEFINE demoted == [member EXCEPT ![actor] = [@ EXCEPT !.role = "MEMBER"]]
  <2>1. "MEMBER" \in Roles /\ "OWNER" \in Roles
    BY DEF Roles
  <2>2. demoted \in [Users -> MemberRow \cup {NoRow}]
    BY <1>2, <1>4, <2>1, MemberRowUpdate DEF InvitationInv, TypeOK
  <2>3. demoted[target] \in MemberRow
    BY <1>2, <1>4, <2>1, MemberRowUpdate DEF InvitationInv, TypeOK
  <2>4. member' = [demoted EXCEPT ![target] = [@ EXCEPT !.role = "OWNER"]]
    BY DEF TransferCommit
  <2> HIDE DEF demoted
  <2> QED
    BY <1>2, <2>1, <2>2, <2>3, <2>4, MemberRowUpdate
<1>6. \A u \in Users : HasRow(u) => HasRow(u)'
  BY <1>2, <1>5, MemberRowIsNotNoRow
     DEF TransferCommit, HasRow, NoRow, Roles, InvitationInv, TypeOK
<1>7. MembersMove
  BY <1>2, <1>3, <1>5, <1>6 DEF MembersMove, TransferCommit, HasRow
<1>8. TablesMove
  BY <1>7, InvitationsStay DEF TablesMove, FaultsMove, faults, InvitationInv, TypeOK
<1> QED
  BY <1>8, IdleIsSound, RequestGoesOn DEF TransferCommit, Done

LEMMA MembershipPreserves ==
    ASSUME InvitationInv, MembershipChanges
    PROVE  InvitationInv'
<1> USE DEF MembershipChanges
<1>1. ASSUME NEW r \in MemberRequests, RequestFails(r)
      PROVE  InvitationInv'
  BY <1>1, RequestReturns DEF RequestFails, AllRequests
<1>2. ASSUME NEW r \in MemberRequests, TransferReadTarget(r)
      PROVE  InvitationInv'
  BY <1>2, TransferReadsTarget DEF AllRequests
<1>3. ASSUME NEW r \in MemberRequests, TransferCommit(r)
      PROVE  InvitationInv'
  BY <1>3, TransferCommits DEF AllRequests
<1>4. ASSUME NEW r \in MemberRequests, RoleCommit(r) \/ LeaveCommit(r) \/ RemoveCommit(r)
      PROVE  InvitationInv'
  <2>1. r \in AllRequests /\ request[r].step \in CommitSteps
    BY <1>4 DEF AllRequests, RoleCommit, LeaveCommit, RemoveCommit, CommitSteps
  <2> DEFINE t == request[r].target
  <2>2. t \in Users /\ request[r].role \in Roles /\ member[t] \in MemberRow
    BY <2>1, CommitFindsRow
  <2>3. PICK row \in MemberRow : member' = [member EXCEPT ![t] = row]
    <3>1. CASE RoleCommit(r)
      BY <2>2, <3>1, MemberRowUpdate DEF RoleCommit
    <3>2. CASE LeaveCommit(r)
      BY <2>2, <3>2, MemberRowUpdate DEF LeaveCommit
    <3>3. CASE RemoveCommit(r)
      BY <2>2, <3>3, MemberRowUpdate DEF RemoveCommit
    <3> QED
      BY <1>4, <3>1, <3>2, <3>3
  <2> QED
    BY <1>4, <2>1, <2>2, <2>3, RowCommits DEF RoleCommit, LeaveCommit, RemoveCommit
<1>5. ASSUME NEW r \in MemberRequests, NEW u \in Users,
             LeaveRead(r, u) \/ RemoveRead(r, u)
      PROVE  InvitationInv'
  BY <1>5, ActiveHasRow, ReadsRow DEF LeaveRead, RemoveRead, AllRequests, Roles
<1>6. ASSUME NEW r \in MemberRequests, NEW u \in Users, NEW role \in Roles,
             RoleRead(r, u, role)
      PROVE  InvitationInv'
  BY <1>6, ActiveHasRow, ReadsRow DEF RoleRead, AllRequests
<1>7. ASSUME NEW r \in TransferRequests, NEW u \in Users, TransferReadWorkspace(r, u)
      PROVE  InvitationInv'
  BY <1>7, MemberAssumption, TransferReadsOwner DEF AllRequests
<1> QED
  BY <1>1, <1>2, <1>3, <1>4, <1>5, <1>6, <1>7 DEF MemberNext, MemberStep, Transfer

-----------------------------------------------------------------------------
(* The job, the clock and the process                                      *)

\* The requests stay or are gone, and what the job holds by now is past its
\* deadline.
LEMMA JobGoesOn ==
    ASSUME InvitationInv, TablesMove, job' \in JobState,
           \A i \in job'.batch : inv[i] \in InvitationRow /\ Overdue(i),
           \/ UNCHANGED request
           \/ request' = [r \in AllRequests |-> Idle]
    PROVE  InvitationInv'
<1>1. request' \in [AllRequests -> Calls]
  BY DEF InvitationInv, TypeOK, Calls
<1>2. TypeOK'
  BY <1>1 DEF TypeOK, TablesMove, MembersMove, InvitationsMove, FaultsMove, Calls
<1>3. ASSUME NEW r \in AllRequests PROVE CallSound(request[r])'
  <2>1. CASE UNCHANGED request
    <3>1. PICK c \in Calls : c = request[r]
      BY DEF InvitationInv, TypeOK, Calls
    <3>2. CallSound(c)'
      BY <3>1, SoundKept DEF InvitationInv, CallsSound
    <3> QED
      BY <2>1, <3>1, <3>2 DEF CallSound, HasRow, Overdue
  <2>2. CASE request' = [q \in AllRequests |-> Idle]
    BY <2>2, IdleIsSound DEF CallSound, HasRow, Overdue
  <2> QED
    BY <2>1, <2>2
<1>4. BatchSound'
  <2>1. \A i \in job'.batch : i \in Invitations
    BY DEF JobState
  <2>2. clock \in Nat /\ clock' \in Nat
    BY InvitationAssumption DEF InvitationInv, TypeOK, TablesMove, InvitationsMove
  <2> QED
    BY <2>1, <2>2 DEF BatchSound, TablesMove, InvitationsMove, Overdue, Invitations
<1> QED
  BY <1>2, <1>3, <1>4
     DEF InvitationInv, CallsSound, TablesMove, MembersMove, InvitationsMove, OwnerHasRow

LEMMA JobIsJobState ==
    ASSUME NEW at \in {"off", "armed", "retry", "run"},
           NEW target \in 0 .. MaxInvitations, NEW batch \in SUBSET Invitations
    PROVE  Job(at, target, batch) \in JobState /\ Job(at, target, batch).batch = batch
BY DEF Job, JobState

LEMMA ScheduledIsJobState ==
    ASSUME ScheduleNext
    PROVE  job' \in JobState /\ job'.batch = {}
<1>1. 0 \in 0 .. MaxInvitations /\ Invitations \subseteq 0 .. MaxInvitations
  BY InvitationAssumption DEF Invitations
<1> QED
  BY <1>1, JobIsJobState DEF ScheduleNext, JobOff

LEMMA JobFiresPreserves ==
    ASSUME InvitationInv, JobFires
    PROVE  InvitationInv'
<1> DEFINE batch == {i \in Invitations : Pending(i) /\ Overdue(i)}
<1>1. job' \in JobState /\ job'.batch = batch
  BY InvitationAssumption, JobIsJobState DEF JobFires
<1>2. \A i \in batch : inv[i] \in InvitationRow /\ Overdue(i)
  BY PendingHasRow
<1>3. TablesMove
  BY TablesStay DEF JobFires
<1> QED
  BY <1>1, <1>2, <1>3, JobGoesOn DEF JobFires

LEMMA JobExpiresPreserves ==
    ASSUME InvitationInv, JobExpires
    PROVE  InvitationInv'
<1>1. PICK i \in job.batch : /\ inv' = [inv EXCEPT ![i].status = "EXPIRED"]
                            /\ job' = [job EXCEPT !.batch = @ \ {i}]
  BY DEF JobExpires
<1>2. i \in Invitations /\ inv[i] \in InvitationRow /\ Overdue(i) /\ job \in JobState
  BY DEF InvitationInv, TypeOK, BatchSound, JobState
<1> DEFINE row == [inv[i] EXCEPT !.status = "EXPIRED"]
<1>3. /\ row \in InvitationRow
      /\ row.status = "EXPIRED"
      /\ row.role = inv[i].role
  BY <1>2 DEF InvitationRow, Closed
<1>4. inv' = [inv EXCEPT ![i] = row]
  BY <1>1
<1> HIDE DEF row
<1>5. /\ inv' \in [Invitations -> InvitationRow \cup {NoInvitation}]
      /\ inv'[i] = row
      /\ \A j \in Invitations \ {i} : inv'[j] = inv[j]
  BY <1>2, <1>3, <1>4 DEF InvitationInv, TypeOK
<1>6. DatesHonest'
  BY <1>2, <1>3, <1>5 DEF InvitationInv, DatesHonest, Overdue, JobExpires
<1>7. clock' \in 0 .. MaxInvitations /\ clock <= clock'
  BY InvitationAssumption DEF InvitationInv, TypeOK, JobExpires
<1>8. InvitationsMove
  BY <1>3, <1>5, <1>6, <1>7 DEF InvitationsMove
<1>9. TablesMove
  BY <1>8, MembersStay
     DEF JobExpires, TablesMove, FaultsMove, faults, InvitationInv, TypeOK
<1>10. job' \in JobState /\ job'.batch \subseteq job.batch
  BY <1>1, <1>2 DEF JobState
<1> QED
  BY <1>9, <1>10, JobGoesOn DEF JobExpires, InvitationInv, BatchSound

LEMMA TickPreserves ==
    ASSUME InvitationInv, Tick
    PROVE  InvitationInv'
<1>1. /\ clock' \in 0 .. MaxInvitations
      /\ clock <= clock'
  BY InvitationAssumption DEF Tick, InvitationInv, TypeOK, Invitations
<1>2. DatesHonest'
  <2>1. ASSUME NEW i \in Invitations, Overdue(i) PROVE Overdue(i)'
    BY <1>1, <2>1, InvitationAssumption DEF Overdue, Invitations, InvitationInv, TypeOK
  <2> QED
    BY <2>1 DEF InvitationInv, DatesHonest, Tick
<1>3. InvitationsMove
  BY <1>1, <1>2 DEF InvitationsMove, Tick, InvitationInv, TypeOK
<1>4. TablesMove
  BY <1>3, MembersStay DEF Tick, TablesMove, FaultsMove, faults, InvitationInv, TypeOK
<1> QED
  BY <1>4, JobGoesOn DEF Tick, InvitationInv, BatchSound, TypeOK

LEMMA FaultsPreserve ==
    ASSUME InvitationInv, JobFails \/ Restart
    PROVE  InvitationInv'
<1>1. MembersMove /\ InvitationsMove
  BY MembersStay, InvitationsStay DEF JobFails, Restart
<1>2. FaultsMove
  BY InvitationAssumption DEF JobFails, Restart, FaultsMove, InvitationInv, TypeOK
<1>3. TablesMove
  BY <1>1, <1>2 DEF TablesMove
<1>4. CASE JobFails
  <2>1. job' \in JobState /\ job'.batch = {}
    BY <1>4, InvitationAssumption, JobIsJobState DEF JobFails
  <2> QED
    BY <1>3, <1>4, <2>1, JobGoesOn DEF JobFails
<1>5. CASE Restart
  <2>1. job' \in JobState /\ job'.batch = {}
    BY <1>5, ScheduledIsJobState DEF Restart
  <2>2. request' = [r \in AllRequests |-> Idle]
    BY <1>5 DEF Restart, InvitationInv, TypeOK
  <2> QED
    BY <1>3, <2>1, <2>2, JobGoesOn
<1> QED
  BY <1>4, <1>5

LEMMA ReschedulePreserves ==
    ASSUME InvitationInv, JobReschedules
    PROVE  InvitationInv'
BY TablesStay, ScheduledIsJobState, JobGoesOn DEF JobReschedules

-----------------------------------------------------------------------------
LEMMA InitIsSound == Init => InvitationInv
<1> SUFFICES ASSUME Init PROVE InvitationInv
  OBVIOUS
<1> USE DEF Init
<1>1. TypeOK
  <2>1. member \in [Users -> MemberRow \cup {NoRow}]
    BY DEF MemberRow, Roles
  <2>2. job \in JobState
    BY InvitationAssumption, JobIsJobState DEF JobOff
  <2> QED
    BY <2>1, <2>2, MemberAssumption, InvitationAssumption DEF TypeOK
<1>2. OwnerHasRow
  BY MemberAssumption DEF OwnerHasRow, HasRow, NoRow
<1>3. CallsSound
  BY IdleIsSound DEF CallsSound
<1>4. BatchSound
  BY DEF BatchSound, JobOff, Job
<1>5. DatesHonest
  BY DEF DatesHonest, NoInvitation
<1> QED
  BY <1>1, <1>2, <1>3, <1>4, <1>5 DEF InvitationInv

LEMMA NextIsSound == InvitationInv /\ [Next]_vars => InvitationInv'
<1> SUFFICES ASSUME InvitationInv, [Next]_vars PROVE InvitationInv'
  OBVIOUS
<1>1. CASE MembershipChanges
  BY <1>1, MembershipPreserves
<1>2. ASSUME NEW r \in InvitationRequests,
             InvitationBegins(r) \/ InvitationStep(r) \/ InvitationFails(r)
      PROVE  InvitationInv'
  BY <1>2, BeginsPreserve, StepsPreserve, RequestReturns
     DEF InvitationFails, RequestFails, AllRequests
<1>3. CASE JobStep
  BY <1>3, JobFiresPreserves, JobExpiresPreserves, ReschedulePreserves DEF JobStep
<1>4. CASE JobFails \/ Restart
  BY <1>4, FaultsPreserve
<1>5. CASE Tick
  BY <1>5, TickPreserves
<1>6. CASE UNCHANGED vars
  BY <1>6, TablesStay, JobGoesOn DEF vars, InvitationInv, BatchSound, TypeOK
<1> QED
  BY <1>1, <1>2, <1>3, <1>4, <1>5, <1>6 DEF Next

\* The inductive invariant: the tables are well-formed, the owner has a row, and
\* what the requests and the job have read still holds of the rows they will write.
THEOREM InvitationInvariant == Spec => []InvitationInv
BY InitIsSound, NextIsSound, PTL DEF Spec

\* Any number of requests, invitations, restarts and failed passes keeps the
\* tables, the requests and the job well-formed.
THEOREM InvitationTypeCorrect == Spec => []TypeOK
BY InvitationInvariant, PTL DEF InvitationInv

\* Acceptances and transfers together leave ownerId naming a user with a row.
THEOREM OwnerHasRowAmongInvitations == Spec => []OwnerHasRow
BY InvitationInvariant, PTL DEF InvitationInv

\* No path of the service or of the job gives EXPIRED to an invitation before its
\* deadline, and acceptedAt says what the status says.
THEOREM DatesAlwaysHonest == Spec => []DatesHonest
BY InvitationInvariant, PTL DEF InvitationInv

-----------------------------------------------------------------------------
(* Who writes what                                                         *)

LEMMA WritersOfInvitations ==
    ASSUME [Next]_vars
    PROVE  \/ UNCHANGED inv
           \/ JobExpires
           \/ \E r \in InvitationRequests :
                 \/ CreateInsert(r)
                 \/ CommitStatus(r)
                 \/ request[r].step \in Accepting /\ Join(r)
<1>1. CASE MembershipChanges
  BY <1>1 DEF MembershipChanges
<1>2. ASSUME NEW r \in InvitationRequests, InvitationBegins(r)
      PROVE  UNCHANGED inv
  BY <1>2 DEF InvitationBegins, CreateReadMember, AcceptValidate, RejectValidate,
              ValidateInvitation, Validate, RevokeRead
<1>3. ASSUME NEW r \in InvitationRequests, InvitationStep(r)
      PROVE  \/ UNCHANGED inv
             \/ CreateInsert(r)
             \/ CommitStatus(r)
             \/ request[r].step \in Accepting /\ Join(r)
  BY <1>3 DEF InvitationStep, CreateReadPending, CreateConflict, AcceptReadMember,
              AcceptReactivate, AcceptCreate, Accepting
<1>4. ASSUME NEW r \in InvitationRequests, InvitationFails(r)
      PROVE  UNCHANGED inv
  BY <1>4 DEF InvitationFails
<1>5. CASE JobStep
  BY <1>5 DEF JobStep, JobFires, JobReschedules
<1>6. CASE JobFails \/ Restart \/ Tick \/ UNCHANGED vars
  BY <1>6 DEF JobFails, Restart, Tick, vars
<1> QED
  BY <1>1, <1>2, <1>3, <1>4, <1>5, <1>6 DEF Next

LEMMA ClosedIsFinal ==
    InvitationInv /\ [Next]_vars =>
        \A i \in Invitations :
            /\ inv[i].status \in Closed
            /\ i \notin job.batch
            /\ \A r \in AllRequests :
                  request[r].step \in InvitationSteps => request[r].inv # i
            => inv'[i] = inv[i]
<1> SUFFICES ASSUME InvitationInv, [Next]_vars, NEW i \in Invitations,
                    inv[i].status \in Closed,
                    i \notin job.batch,
                    \A r \in AllRequests :
                       request[r].step \in InvitationSteps => request[r].inv # i
             PROVE  inv'[i] = inv[i]
  OBVIOUS
<1>1. CASE UNCHANGED inv
  BY <1>1
<1>2. CASE JobExpires
  BY <1>2 DEF JobExpires, InvitationInv, TypeOK
<1>3. ASSUME NEW r \in InvitationRequests, CreateInsert(r)
      PROVE  inv'[i] = inv[i]
  BY <1>3 DEF CreateInsert, InvitationInv, TypeOK, NoInvitation, Closed
<1>4. ASSUME NEW r \in InvitationRequests,
             CommitStatus(r) \/ (request[r].step \in Accepting /\ Join(r))
      PROVE  inv'[i] = inv[i]
  <2>1. r \in AllRequests /\ request[r].step \in Holding
    BY <1>4 DEF AllRequests, CommitStatus, Holding
  <2>2. request[r].inv \in Invitations /\ request[r].inv # i
    BY <2>1, RequestAt, StepsDiffer DEF CallSound
  <2>3. \E status \in Closed : UpdateStatus(request[r].inv, status)
    BY <1>4 DEF CommitStatus, Join, Closed
  <2> QED
    BY <2>2, <2>3 DEF UpdateStatus, InvitationInv, TypeOK
<1> QED
  BY <1>1, <1>2, <1>3, <1>4, WritersOfInvitations

\* Once no request and no pass of the job holds a closed invitation, its outcome
\* is final.
THEOREM ClosedStaysUnlessInFlight == Spec => FinalUnlessInFlight
<1>1. InvitationInv /\ [Next]_vars =>
        [\A i \in Invitations :
            /\ inv[i].status \in Closed
            /\ i \notin job.batch
            /\ \A r \in AllRequests :
                  request[r].step \in InvitationSteps => request[r].inv # i
            => inv'[i] = inv[i]]_vars
  BY ClosedIsFinal
<1> QED
  BY <1>1, InvitationInvariant, PTL DEF Spec, FinalUnlessInFlight

LEMMA MembersStayInactive ==
    ASSUME InvitationInv, MembershipChanges, NEW u \in Users,
           member'[u].status = "ACTIVE"
    PROVE  IsActive(u)
<1> USE DEF IsActive, InvitationInv, TypeOK
<1>1. CASE UNCHANGED member
  BY <1>1
<1>2. ASSUME NEW r \in MemberRequests,
             TransferCommit(r) \/ RoleCommit(r) \/ LeaveCommit(r) \/ RemoveCommit(r)
      PROVE  IsActive(u)
  <2>1. r \in AllRequests /\ request[r].step \in CommitSteps
    BY <1>2
       DEF AllRequests, TransferCommit, RoleCommit, LeaveCommit, RemoveCommit, CommitSteps
  <2>2. /\ request[r].target \in Users
        /\ member[request[r].target] \in MemberRow
    BY <2>1, CommitFindsRow
  <2>3. CASE TransferCommit(r)
    <3>1. request[r].actor \in Users
      BY <2>1, <2>3, MemberCallOf DEF TransferCommit, MemberSteps
    <3>2. member[request[r].actor] \in MemberRow
      BY <2>1, <2>3, <3>1, RequestAt DEF TransferCommit, CallSound, Transferring, HasRow
    <3> QED
      BY <2>2, <2>3, <3>1, <3>2 DEF TransferCommit, MemberRow
  <2>4. CASE RoleCommit(r)
    BY <2>2, <2>4 DEF RoleCommit, MemberRow
  <2>5. CASE LeaveCommit(r) \/ RemoveCommit(r)
    BY <2>2, <2>5 DEF LeaveCommit, RemoveCommit, MemberRow
  <2> QED
    BY <1>2, <2>3, <2>4, <2>5
<1> QED
  BY <1>1, <1>2
     DEF MembershipChanges, MemberNext, MemberStep, RequestFails, Transfer,
         TransferReadWorkspace, TransferReadTarget, LeaveRead, RemoveRead, RoleRead

LEMMA WritersOfMembers ==
    ASSUME [Next]_vars
    PROVE  \/ UNCHANGED member
           \/ MembershipChanges
           \/ \E r \in InvitationRequests : request[r].step \in Accepting /\ Join(r)
<1>1. ASSUME NEW r \in InvitationRequests, InvitationBegins(r)
      PROVE  UNCHANGED member
  BY <1>1 DEF InvitationBegins, CreateReadMember, AcceptValidate, RejectValidate,
              ValidateInvitation, Validate, RevokeRead
<1>2. ASSUME NEW r \in InvitationRequests, InvitationStep(r)
      PROVE  UNCHANGED member \/ (request[r].step \in Accepting /\ Join(r))
  BY <1>2 DEF InvitationStep, CreateReadPending, CreateConflict, CreateInsert,
              AcceptReadMember, AcceptReactivate, AcceptCreate, CommitStatus, Accepting
<1>3. ASSUME NEW r \in InvitationRequests, InvitationFails(r)
      PROVE  UNCHANGED member
  BY <1>3 DEF InvitationFails, RequestFails
<1>4. CASE JobStep \/ JobFails \/ Restart \/ Tick \/ UNCHANGED vars
  BY <1>4 DEF JobStep, JobFires, JobExpires, JobReschedules, JobFails, Restart, Tick, vars
<1> QED
  BY <1>1, <1>2, <1>3, <1>4 DEF Next

LEMMA JoinsByAcceptance ==
    InvitationInv /\ [Next]_vars =>
        \A u \in Users :
            member'[u].status = "ACTIVE" /\ ~ IsActive(u)
            => \E i \in Invitations :
                  /\ inv[i].status # "NONE"
                  /\ inv'[i].status = "ACCEPTED"
                  /\ inv'[i].role = member'[u].role
<1> SUFFICES ASSUME InvitationInv, [Next]_vars, NEW u \in Users,
                    member'[u].status = "ACTIVE", ~ IsActive(u)
             PROVE  \E i \in Invitations :
                       /\ inv[i].status # "NONE"
                       /\ inv'[i].status = "ACCEPTED"
                       /\ inv'[i].role = member'[u].role
  OBVIOUS
<1>1. PICK r \in InvitationRequests : request[r].step \in Accepting /\ Join(r)
  BY WritersOfMembers, MembersStayInactive DEF IsActive
<1> DEFINE c == request[r]
           i == c.inv
<1>2. /\ i \in Invitations /\ inv[i] \in InvitationRow
      /\ c.role = inv[i].role
      /\ c.user \in Users
  BY <1>1, RequestAt, StepsDiffer DEF AllRequests, CallSound, Holding, InvitationCall
<1>3. inv'[i].status = "ACCEPTED" /\ inv'[i].role = inv[i].role
  BY <1>1, <1>2 DEF Join, UpdateStatus, InvitationInv, TypeOK, InvitationRow
<1>4. inv[i].status # "NONE"
  BY <1>2 DEF InvitationRow, Closed
<1>5. member'[u].role = c.role
  BY <1>1, <1>2 DEF Join, IsActive, InvitationInv, TypeOK
<1> QED
  BY <1>2, <1>3, <1>4, <1>5

\* Nobody joins or comes back but in a step that marks an invitation ACCEPTED and
\* gives the role that it offers.
THEOREM NobodyJoinsUninvited == Spec => JoinOnlyByAcceptance
<1>1. InvitationInv /\ [Next]_vars =>
        [\A u \in Users :
            member'[u].status = "ACTIVE" /\ ~ IsActive(u)
            => \E i \in Invitations :
                  /\ inv[i].status # "NONE"
                  /\ inv'[i].status = "ACCEPTED"
                  /\ inv'[i].role = member'[u].role]_vars
  BY JoinsByAcceptance
<1> QED
  BY <1>1, InvitationInvariant, PTL DEF Spec, JoinOnlyByAcceptance

-----------------------------------------------------------------------------
(* How many invitations of a user are live                                 *)

\* The requests that have found no live invitation of u and are about to insert.
Inserting(u) ==
    {r \in InvitationRequests : request[r].step = "create:insert" /\ request[r].user = u}

\* What a step makes of a request that then is about to insert: it was so before,
\* or it has just found that nothing is live.
InsertsOnlyAfterQuery(q) ==
    request'[q].step = "create:insert" =>
        \/ request'[q] = request[q]
        \/ /\ LiveFor(request[q].user) = {}
           /\ request'[q].user = request[q].user
           /\ UNCHANGED <<inv, clock>>

LEMMA OtherStep ==
    ASSUME InvitationInv, NEW r \in AllRequests, NEW q \in AllRequests,
           \/ Done(r)
           \/ \E c : Begin(r, c) /\ c.step # "create:insert"
           \/ \E step : Goto(r, step) /\ step # "create:insert"
    PROVE  InsertsOnlyAfterQuery(q)
<1>1. request \in [AllRequests -> Calls]
  BY DEF InvitationInv, TypeOK, Calls
<1>2. CASE q # r
  BY <1>1, <1>2 DEF InsertsOnlyAfterQuery, Done, Begin, Goto
<1>3. CASE q = r
  <2>1. CASE Done(r)
    BY <1>1, <1>3, <2>1, StepsDiffer DEF InsertsOnlyAfterQuery, Done, InvitationSteps
  <2>2. ASSUME NEW c, Begin(r, c), c.step # "create:insert"
        PROVE  InsertsOnlyAfterQuery(q)
    BY <1>1, <1>3, <2>2 DEF InsertsOnlyAfterQuery, Begin
  <2>3. ASSUME NEW step, Goto(r, step), step # "create:insert"
        PROVE  InsertsOnlyAfterQuery(q)
    <3>1. request'[q] = [request[q] EXCEPT !.step = step]
      BY <1>1, <1>3, <2>3 DEF Goto
    <3>2. request'[q].step = step
      BY <1>1, <3>1 DEF Calls, MemberCall, InvitationCall, Idle
    <3> QED
      BY <2>3, <3>2 DEF InsertsOnlyAfterQuery
  <2> QED
    BY <2>1, <2>2, <2>3
<1> QED
  BY <1>2, <1>3

LEMMA FindThenInsert ==
    ASSUME InvitationInv, NEW r \in AllRequests, CreateReadPending(r),
           NEW q \in AllRequests
    PROVE  InsertsOnlyAfterQuery(q)
<1>1. request \in [AllRequests -> Calls] /\ request[r] \in InvitationCall
  BY RequestAt DEF InvitationInv, TypeOK, Calls, CreateReadPending, InvitationSteps
<1>2. CASE q # r
  BY <1>1, <1>2 DEF InsertsOnlyAfterQuery, CreateReadPending, Goto
<1>3. CASE q = r /\ LiveFor(request[r].user) = {} /\ Goto(r, "create:insert")
  <2>1. request'[q].user = request[q].user
    BY <1>1, <1>3 DEF Goto, InvitationCall
  <2> QED
    BY <1>3, <2>1 DEF InsertsOnlyAfterQuery, CreateReadPending
<1>4. ASSUME q = r, NEW i \in LiveFor(request[r].user),
             request' = [request EXCEPT ![r].step = "create:found", ![r].inv = i]
      PROVE  InsertsOnlyAfterQuery(q)
  <2>1. request'[q].step = "create:found"
    BY <1>1, <1>4 DEF InvitationCall
  <2> QED
    BY <2>1 DEF InsertsOnlyAfterQuery
<1> QED
  BY <1>2, <1>3, <1>4 DEF CreateReadPending

LEMMA StepOfMember ==
    ASSUME InvitationInv, MembershipChanges, NEW q \in AllRequests
    PROVE  InsertsOnlyAfterQuery(q)
<1>1. PICK r \in AllRequests :
         \/ Done(r)
         \/ \E actor, target, role :
               \E step \in MemberSteps : Begin(r, Call(step, actor, target, role))
         \/ Goto(r, "transfer:commit")
  <2>1. "transfer:target" \in MemberSteps /\ "role:commit" \in MemberSteps
        /\ "leave:commit" \in MemberSteps /\ "remove:commit" \in MemberSteps
    BY DEF MemberSteps
  <2> QED
    BY <2>1, MemberAssumption
       DEF MembershipChanges, MemberNext, MemberStep, RequestFails, Transfer, AllRequests,
           TransferReadWorkspace, TransferReadTarget, TransferCommit, RoleRead, RoleCommit,
           LeaveRead, LeaveCommit, RemoveRead, RemoveCommit
<1>2. ASSUME NEW actor, NEW target, NEW role, NEW step \in MemberSteps,
             Begin(r, Call(step, actor, target, role))
      PROVE  InsertsOnlyAfterQuery(q)
  <2>1. Call(step, actor, target, role).step # "create:insert"
    BY DEF Call, MemberSteps
  <2> QED
    BY <1>2, <2>1, OtherStep
<1> QED
  BY <1>1, <1>2, OtherStep

LEMMA StepOfInvitation ==
    ASSUME InvitationInv, NEW r \in InvitationRequests,
           InvitationBegins(r) \/ InvitationStep(r) \/ InvitationFails(r),
           NEW q \in AllRequests
    PROVE  InsertsOnlyAfterQuery(q)
<1>1. r \in AllRequests
  BY DEF AllRequests
<1>2. CASE InvitationBegins(r)
  <2>1. PICK c : Begin(r, c) /\ c.step # "create:insert"
    <3>1. ASSUME NEW u \in Users, NEW role \in InvitedRoles, CreateReadMember(r, u, role)
          PROVE  \E c : Begin(r, c) /\ c.step # "create:insert"
      BY <3>1 DEF CreateReadMember, ICall
    <3>2. ASSUME NEW i \in Invitations, NEW u, NEW role, NEW step,
                 step \in {"accept:begin", "DECLINED", "EXPIRED"},
                 Validate(r, i, ICall(step, i, u, role))
          PROVE  \E c : Begin(r, c) /\ c.step # "create:insert"
      <4>1. ICall(step, i, u, role).step # "create:insert"
        BY <3>2 DEF ICall
      <4>2. [ICall(step, i, u, role) EXCEPT !.step = "EXPIRED"].step # "create:insert"
        BY DEF ICall
      <4> QED
        BY <3>2, <4>1, <4>2 DEF Validate
    <3>3. ASSUME NEW i \in Invitations, RevokeRead(r, i)
          PROVE  \E c : Begin(r, c) /\ c.step # "create:insert"
      BY <3>3 DEF RevokeRead, ICall
    <3> QED
      BY <1>2, <3>1, <3>2, <3>3
         DEF InvitationBegins, RejectValidate, ValidateInvitation, AcceptValidate
  <2> QED
    BY <1>1, <2>1, OtherStep
<1>3. CASE CreateReadPending(r)
  BY <1>1, <1>3, FindThenInsert
<1>4. CASE CreateConflict(r) \/ CreateInsert(r) \/ AcceptReadMember(r)
             \/ AcceptReactivate(r) \/ AcceptCreate(r) \/ CommitStatus(r)
  BY <1>1, <1>4, OtherStep
     DEF CreateConflict, CreateInsert, AcceptReadMember, AcceptReactivate, AcceptCreate,
         CommitStatus, Join
<1>5. CASE InvitationFails(r)
  BY <1>1, <1>5, OtherStep DEF InvitationFails, RequestFails
<1> QED
  BY <1>2, <1>3, <1>4, <1>5 DEF InvitationStep

LEMMA OnlyAfterQuery ==
    ASSUME InvitationInv, [Next]_vars, NEW q \in AllRequests
    PROVE  InsertsOnlyAfterQuery(q)
<1>1. CASE JobStep \/ JobFails \/ Tick \/ UNCHANGED vars
  BY <1>1 DEF JobStep, JobFires, JobExpires, JobReschedules, JobFails, Tick, vars,
              InsertsOnlyAfterQuery
<1>2. CASE Restart
  BY <1>2, StepsDiffer
     DEF Restart, InsertsOnlyAfterQuery, InvitationSteps, InvitationInv, TypeOK
<1> QED
  BY <1>1, <1>2, StepOfMember, StepOfInvitation DEF Next

LEMMA ClockGoesOn ==
    ASSUME InvitationInv, [Next]_vars
    PROVE  clock' \in Nat /\ clock <= clock'
<1>1. clock \in Nat
  BY InvitationAssumption DEF InvitationInv, TypeOK
<1>2. CASE Tick
  BY <1>1, <1>2, InvitationAssumption DEF Tick, Invitations
<1>3. CASE UNCHANGED clock
  BY <1>1, <1>3
<1>4. ASSUME NEW r \in InvitationRequests,
             InvitationBegins(r) \/ InvitationStep(r) \/ InvitationFails(r)
      PROVE  UNCHANGED clock
  BY <1>4 DEF InvitationBegins, InvitationStep, InvitationFails, CreateReadMember,
              AcceptValidate, RejectValidate, ValidateInvitation, Validate, RevokeRead,
              CreateReadPending, CreateConflict, CreateInsert, AcceptReadMember,
              AcceptReactivate, AcceptCreate, Join, CommitStatus
<1>5. CASE MembershipChanges \/ JobStep \/ JobFails \/ Restart \/ UNCHANGED vars
  BY <1>3, <1>5 DEF MembershipChanges, JobStep, JobFires, JobExpires, JobReschedules,
                    JobFails, Restart, vars
<1> QED
  BY <1>2, <1>3, <1>4, <1>5 DEF Next

\* Nothing but an insert makes an invitation pending.
LEMMA RowsClose ==
    ASSUME InvitationInv, [Next]_vars,
           ~ \E r \in InvitationRequests : CreateInsert(r)
    PROVE  \A i \in Invitations : inv'[i] = inv[i] \/ inv'[i].status # "PENDING"
<1>0. inv \in [Invitations -> InvitationRow \cup {NoInvitation}]
  BY DEF InvitationInv, TypeOK
<1>1. CASE UNCHANGED inv
  BY <1>1
<1>2. CASE JobExpires
  <2>1. PICK i \in job.batch : inv' = [inv EXCEPT ![i].status = "EXPIRED"]
    BY <1>2 DEF JobExpires
  <2>2. i \in Invitations /\ inv[i] \in InvitationRow
    BY DEF InvitationInv, TypeOK, BatchSound, JobState
  <2> QED
    BY <1>0, <2>1, <2>2 DEF InvitationRow
<1>3. ASSUME NEW r \in InvitationRequests,
             CommitStatus(r) \/ (request[r].step \in Accepting /\ Join(r))
      PROVE  \A i \in Invitations : inv'[i] = inv[i] \/ inv'[i].status # "PENDING"
  <2>1. request[r].step \in Holding
    BY <1>3 DEF CommitStatus, Holding
  <2>2. request[r].inv \in Invitations /\ inv[request[r].inv] \in InvitationRow
    BY <2>1, RequestAt DEF CallSound, AllRequests
  <2>3. PICK status \in Closed : UpdateStatus(request[r].inv, status)
    BY <1>3 DEF CommitStatus, Join, Closed
  <2> QED
    BY <1>0, <2>2, <2>3 DEF UpdateStatus, InvitationRow, Closed
<1> QED
  BY <1>1, <1>2, <1>3, WritersOfInvitations

LEMMA LiveShrinks ==
    ASSUME InvitationInv, [Next]_vars, NEW u \in Users,
           ~ \E r \in InvitationRequests : CreateInsert(r)
    PROVE  LiveFor(u)' \subseteq LiveFor(u)
<1>1. /\ clock \in Nat /\ clock' \in Nat /\ clock <= clock'
      /\ inv \in [Invitations -> InvitationRow \cup {NoInvitation}]
  BY NextIsSound, InvitationAssumption, ClockGoesOn DEF InvitationInv, TypeOK
<1>2. \A i \in Invitations : inv'[i] = inv[i] \/ inv'[i].status # "PENDING"
  BY RowsClose
<1> QED
  BY <1>1, <1>2 DEF LiveFor, Live, Pending, Overdue, Invitations

LEMMA InsertAddsOne ==
    ASSUME InvitationInv, NEW r \in InvitationRequests, CreateInsert(r), NEW u \in Users
    PROVE  \E i \in Invitations :
              /\ LiveFor(u)' \subseteq LiveFor(u) \cup {i}
              /\ \/ LiveFor(u)' \subseteq LiveFor(u)
                 \/ r \in Inserting(u)
              /\ r \notin Inserting(u)'
<1>1. r \in AllRequests /\ request[r] \in InvitationCall
  BY RequestAt DEF AllRequests, CreateInsert, InvitationSteps
<1>2. r \notin Inserting(u)'
  BY <1>1, StepsDiffer
     DEF Inserting, CreateInsert, Done, InvitationSteps, InvitationInv, TypeOK
<1>3. PICK i \in Invitations :
         inv' = [inv EXCEPT ![i] =
                   [status |-> "PENDING", user |-> request[r].user,
                    role |-> request[r].role, acceptedAt |-> FALSE]]
  BY DEF CreateInsert
<1>4. /\ inv'[i].user = request[r].user
      /\ \A j \in Invitations \ {i} : inv'[j] = inv[j]
      /\ clock' = clock
  BY <1>3 DEF InvitationInv, TypeOK, CreateInsert
<1>5. LiveFor(u)' \subseteq LiveFor(u) \cup {i}
  BY <1>4 DEF LiveFor, Live, Pending, Overdue
<1>6. request[r].user # u => LiveFor(u)' \subseteq LiveFor(u)
  BY <1>4 DEF LiveFor, Live, Pending, Overdue
<1>7. request[r].user = u => r \in Inserting(u)
  BY DEF Inserting, CreateInsert
<1> QED
  BY <1>2, <1>5, <1>6, <1>7

-----------------------------------------------------------------------------
\* Each live invitation of u stands for a request that has inserted it, and each
\* request about to insert for one more.
LiveOrInserting ==
    \A u \in Users :
        Cardinality(LiveFor(u)) + Cardinality(Inserting(u))
            <= Cardinality(InvitationRequests)

LEMMA FiniteParts ==
    ASSUME IsFiniteSet(InvitationRequests), NEW u \in Users
    PROVE  /\ IsFiniteSet(LiveFor(u)) /\ Cardinality(LiveFor(u)) \in Nat
           /\ IsFiniteSet(Inserting(u)) /\ Cardinality(Inserting(u)) \in Nat
           /\ Cardinality(InvitationRequests) \in Nat
           /\ Cardinality(Inserting(u)) <= Cardinality(InvitationRequests)
<1>1. IsFiniteSet(Invitations)
  BY FS_Interval, InvitationAssumption DEF Invitations
<1>2. LiveFor(u) \subseteq Invitations /\ Inserting(u) \subseteq InvitationRequests
  BY DEF LiveFor, Inserting
<1> QED
  BY <1>1, <1>2, FS_Subset, FS_CardinalityType

LEMMA LiveOrInsertingInit ==
    ASSUME IsFiniteSet(InvitationRequests)
    PROVE  Init => LiveOrInserting
<1> SUFFICES ASSUME Init, NEW u \in Users
             PROVE  Cardinality(LiveFor(u)) + Cardinality(Inserting(u))
                        <= Cardinality(InvitationRequests)
  BY DEF LiveOrInserting
<1>1. LiveFor(u) = {}
  BY DEF Init, LiveFor, Live, Pending, NoInvitation
<1> QED
  BY <1>1, FiniteParts, FS_EmptySet

LEMMA LiveOrInsertingNext ==
    ASSUME IsFiniteSet(InvitationRequests)
    PROVE  InvitationInv /\ LiveOrInserting /\ [Next]_vars => LiveOrInserting'
<1> SUFFICES ASSUME InvitationInv, LiveOrInserting, [Next]_vars, NEW u \in Users
             PROVE  Cardinality(LiveFor(u)') + Cardinality(Inserting(u)')
                        <= Cardinality(InvitationRequests)
  BY DEF LiveOrInserting
<1> DEFINE L == Cardinality(LiveFor(u))
           I == Cardinality(Inserting(u))
           N == Cardinality(InvitationRequests)
<1>1. /\ IsFiniteSet(LiveFor(u)) /\ L \in Nat
      /\ IsFiniteSet(Inserting(u)) /\ I \in Nat
      /\ N \in Nat /\ L + I <= N
  BY FiniteParts DEF LiveOrInserting
<1>2. /\ IsFiniteSet(Inserting(u)') /\ Cardinality(Inserting(u)') \in Nat
      /\ Cardinality(Inserting(u)') <= N
  <2>1. Inserting(u)' \subseteq InvitationRequests
    BY DEF Inserting
  <2> QED
    BY <2>1, FS_Subset, FS_CardinalityType
<1>3. CASE Inserting(u)' \subseteq Inserting(u)
  <2>1. Cardinality(Inserting(u)') <= I
    BY <1>1, <1>3, FS_Subset
  <2>2. CASE LiveFor(u)' \subseteq LiveFor(u)
    <3>1. Cardinality(LiveFor(u)') <= L /\ Cardinality(LiveFor(u)') \in Nat
      BY <1>1, <2>2, FS_Subset, FS_CardinalityType
    <3> QED
      BY <1>1, <1>2, <2>1, <3>1
  <2>3. CASE ~ (LiveFor(u)' \subseteq LiveFor(u))
    <3>1. PICK r \in InvitationRequests : CreateInsert(r)
      BY <2>3, LiveShrinks
    <3>2. PICK i \in Invitations : /\ LiveFor(u)' \subseteq LiveFor(u) \cup {i}
                                  /\ r \in Inserting(u)
                                  /\ r \notin Inserting(u)'
      BY <2>3, <3>1, InsertAddsOne
    <3>3. /\ IsFiniteSet(LiveFor(u) \cup {i})
          /\ Cardinality(LiveFor(u) \cup {i}) \in Nat
          /\ Cardinality(LiveFor(u) \cup {i}) <= L + 1
      <4>1. /\ IsFiniteSet(LiveFor(u) \cup {i})
            /\ Cardinality(LiveFor(u) \cup {i}) =
                  IF i \in LiveFor(u) THEN L ELSE L + 1
        BY <1>1, FS_AddElement
      <4> QED
        BY <1>1, <4>1
    <3>4. Cardinality(LiveFor(u)') <= L + 1 /\ Cardinality(LiveFor(u)') \in Nat
      BY <1>1, <3>2, <3>3, FS_Subset, FS_CardinalityType
    <3>5. Cardinality(Inserting(u) \ {r}) = I - 1 /\ IsFiniteSet(Inserting(u) \ {r})
      BY <1>1, <3>2, FS_RemoveElement
    <3>6. Inserting(u)' \subseteq Inserting(u) \ {r}
      BY <1>3, <3>2
    <3>7. Cardinality(Inserting(u)') <= I - 1
      BY <3>5, <3>6, FS_Subset
    <3> QED
      BY <1>1, <1>2, <3>4, <3>7
  <2> QED
    BY <2>2, <2>3
<1>4. CASE ~ (Inserting(u)' \subseteq Inserting(u))
  <2>1. PICK q \in InvitationRequests : q \in Inserting(u)' /\ q \notin Inserting(u)
    BY <1>4 DEF Inserting
  <2>2. /\ request'[q].step = "create:insert"
        /\ request'[q].user = u
        /\ request'[q] # request[q]
    BY <2>1 DEF Inserting
  <2>3. LiveFor(u) = {} /\ UNCHANGED <<inv, clock>>
    BY <2>2, OnlyAfterQuery DEF AllRequests, InsertsOnlyAfterQuery
  <2>4. LiveFor(u)' = {}
    BY <2>3 DEF LiveFor, Live, Pending, Overdue
  <2> QED
    BY <1>1, <1>2, <2>4, FS_EmptySet
<1> QED
  BY <1>3, <1>4

\* The query for a pending invitation and the insert are two steps: a user never
\* has more live invitations than there are requests that can race.
THEOREM LiveInvitationsBounded ==
    ASSUME IsFiniteSet(InvitationRequests)
    PROVE  Spec => []PendingBounded
<1>1. Init => LiveOrInserting
  BY LiveOrInsertingInit
<1>2. InvitationInv /\ LiveOrInserting /\ [Next]_vars => LiveOrInserting'
  BY LiveOrInsertingNext
<1>3. LiveOrInserting => PendingBounded
  <2> SUFFICES ASSUME LiveOrInserting, NEW u \in Users
               PROVE  Cardinality(LiveFor(u)) <= Cardinality(InvitationRequests)
    BY DEF PendingBounded
  <2> QED
    BY FiniteParts DEF LiveOrInserting
<1> QED
  BY <1>1, <1>2, <1>3, InvitationInvariant, PTL DEF Spec

-----------------------------------------------------------------------------
(* What the expiration job holds                                           *)

\* An invitation the job is going to see to: its timer is set for it, or a pass
\* that has read it is under way or is going to be repeated.
InHand(i) ==
    /\ Pending(i)
    /\ \/ job.at = "armed" /\ job.target = i
       \/ Overdue(i) /\ job.at = "retry"
       \/ Overdue(i) /\ job.at = "run" /\ i \in job.batch

\* Rows are inserted in order, so the invitations that exist are the first ones.
RowsInOrder ==
    \A i \in Invitations :
        inv[i] # NoInvitation => \A j \in 1 .. (i - 1) : inv[j] # NoInvitation

\* The timer is set for a row, and nothing with an earlier deadline is live.
TimerEarliest ==
    job.at = "armed" =>
        /\ job.target \in Invitations
        /\ inv[job.target] # NoInvitation
        /\ \A j \in 1 .. (job.target - 1) : ~ Live(j)

TimerInv == InvitationInv /\ RowsInOrder /\ TimerEarliest

\* The job lets go of an invitation only by closing it, with one exception: a
\* restart of the process after its deadline.
KeepsInHand ==
    [][\A i \in Invitations :
          InHand(i) => \/ InHand(i)'
                       \/ ~ Pending(i)'
                       \/ Overdue(i) /\ restarts' # restarts]_vars

LEMMA RowsMove ==
    ASSUME InvitationInv, [Next]_vars, NEW i \in Invitations
    PROVE  /\ inv[i] # NoInvitation => inv'[i] # NoInvitation
           /\ \/ Pending(i)' => Pending(i)
              \/ inv[i] = NoInvitation /\ \E r \in InvitationRequests : CreateInsert(r)
<1>1. inv \in [Invitations -> InvitationRow \cup {NoInvitation}]
  BY DEF InvitationInv, TypeOK
<1>2. NoInvitation \notin InvitationRow /\ NoInvitation.status # "PENDING"
  BY DEF NoInvitation, InvitationRow, Closed
<1>3. CASE \E r \in InvitationRequests : CreateInsert(r)
  <2>1. PICK r \in InvitationRequests : CreateInsert(r)
    BY <1>3
  <2>2. PICK k \in Invitations :
           /\ inv[k] = NoInvitation
           /\ inv' = [inv EXCEPT ![k] =
                        [status |-> "PENDING", user |-> request[r].user,
                         role |-> request[r].role, acceptedAt |-> FALSE]]
    BY <2>1 DEF CreateInsert
  <2>3. i # k => inv'[i] = inv[i]
    BY <1>1, <2>2
  <2>4. inv[i] # NoInvitation => i # k
    BY <2>2
  <2> QED
    BY <1>3, <2>2, <2>3, <2>4 DEF Pending
<1>4. CASE ~ \E r \in InvitationRequests : CreateInsert(r)
  <2>1. inv'[i] = inv[i] \/ inv'[i].status # "PENDING"
    BY <1>4, RowsClose
  <2>2. inv[i] # NoInvitation => inv'[i] # NoInvitation
    <3>1. inv' \in [Invitations -> InvitationRow \cup {NoInvitation}]
      BY NextIsSound DEF InvitationInv, TypeOK
    <3>2. CASE UNCHANGED inv
      BY <3>2
    <3>3. CASE JobExpires
      <4>1. PICK k \in job.batch : inv' = [inv EXCEPT ![k].status = "EXPIRED"]
        BY <3>3 DEF JobExpires
      <4>2. i = k => inv'[i].status = "EXPIRED"
        BY <1>1, <4>1 DEF InvitationRow, NoInvitation
      <4>3. i # k => inv'[i] = inv[i]
        BY <1>1, <4>1
      <4> QED
        BY <4>2, <4>3 DEF NoInvitation
    <3>4. ASSUME NEW r \in InvitationRequests,
                 CommitStatus(r) \/ (request[r].step \in Accepting /\ Join(r))
          PROVE  inv[i] # NoInvitation => inv'[i] # NoInvitation
      <4>1. PICK status \in Closed : UpdateStatus(request[r].inv, status)
        BY <3>4 DEF CommitStatus, Join, Closed
      <4>2. i # request[r].inv => inv'[i] = inv[i]
        BY <1>1, <4>1 DEF UpdateStatus
      <4>3. i = request[r].inv => inv'[i].status = status
        BY <1>1, <4>1 DEF UpdateStatus, InvitationRow, NoInvitation
      <4> QED
        BY <4>2, <4>3 DEF Closed, NoInvitation
    <3> QED
      BY <1>4, <3>2, <3>3, <3>4, WritersOfInvitations
  <2> QED
    BY <2>1, <2>2 DEF Pending
<1> QED
  BY <1>3, <1>4

LEMMA OrderKept ==
    ASSUME InvitationInv, RowsInOrder, [Next]_vars
    PROVE  RowsInOrder'
<1>1. SUFFICES ASSUME NEW i \in Invitations, inv'[i] # NoInvitation, NEW j \in 1 .. (i - 1)
               PROVE  inv'[j] # NoInvitation
  BY DEF RowsInOrder
<1>2. j \in Invitations
  BY <1>1, InvitationAssumption DEF Invitations
<1>3. CASE inv[i] # NoInvitation
  BY <1>2, <1>3, RowsMove DEF RowsInOrder
<1>4. CASE inv[i] = NoInvitation
  <2>1. PICK r \in InvitationRequests : CreateInsert(r)
    <3>1. inv \in [Invitations -> InvitationRow \cup {NoInvitation}]
      BY DEF InvitationInv, TypeOK
    <3>2. CASE JobExpires
      <4>1. PICK k \in job.batch : inv' = [inv EXCEPT ![k].status = "EXPIRED"]
        BY <3>2 DEF JobExpires
      <4>2. k # i
        BY <1>4 DEF InvitationInv, BatchSound, InvitationRow, NoInvitation, Closed
      <4> QED
        BY <1>1, <1>4, <3>1, <4>1, <4>2
    <3>3. ASSUME NEW r \in InvitationRequests,
                 CommitStatus(r) \/ (request[r].step \in Accepting /\ Join(r))
          PROVE  FALSE
      <4>1. request[r].step \in Holding
        BY <3>3 DEF CommitStatus, Holding
      <4>2. inv[request[r].inv] \in InvitationRow
        BY <4>1, RequestAt DEF CallSound, AllRequests
      <4>3. request[r].inv # i
        BY <1>4, <4>2 DEF InvitationRow, NoInvitation, Closed
      <4>4. PICK status \in Closed : UpdateStatus(request[r].inv, status)
        BY <3>3 DEF CommitStatus, Join, Closed
      <4> QED
        BY <1>1, <1>4, <3>1, <4>3, <4>4 DEF UpdateStatus
    <3> QED
      BY <1>1, <1>4, <3>2, <3>3, WritersOfInvitations
  <2>2. PICK k \in Invitations :
           /\ inv[k] = NoInvitation
           /\ \A l \in 1 .. (k - 1) : inv[l] # NoInvitation
           /\ inv' = [inv EXCEPT ![k] =
                        [status |-> "PENDING", user |-> request[r].user,
                         role |-> request[r].role, acceptedAt |-> FALSE]]
    BY <2>1 DEF CreateInsert
  <2>3. i = k
    BY <1>1, <1>4, <2>2 DEF InvitationInv, TypeOK
  <2> QED
    BY <1>2, <2>2, <2>3, RowsMove
<1> QED
  BY <1>3, <1>4

\* The rows before one that exists exist, so none of them is inserted now.
LEMMA EarlierStayClosed ==
    ASSUME InvitationInv, RowsInOrder, [Next]_vars, NEW t \in Invitations,
           inv[t] # NoInvitation, NEW j \in 1 .. (t - 1), ~ Live(j)
    PROVE  ~ Live(j)'
<1>1. j \in Invitations /\ inv[j] # NoInvitation
  BY InvitationAssumption DEF Invitations, RowsInOrder
<1>2. Pending(j)' => Pending(j)
  BY <1>1, RowsMove
<1>3. Overdue(j) => Overdue(j)'
  BY <1>1, ClockGoesOn, InvitationAssumption DEF Overdue, Invitations, InvitationInv, TypeOK
<1> QED
  BY <1>2, <1>3 DEF Live

\* Who sets the timer: start() and the end of a pass.
LEMMA WritersOfTimer ==
    ASSUME [Next]_vars
    PROVE  \/ UNCHANGED job
           \/ JobFires
           \/ JobExpires
           \/ JobFails
           \/ ScheduleNext /\ UNCHANGED <<inv, clock>> /\ (JobReschedules \/ Restart)
<1>1. CASE MembershipChanges
  BY <1>1 DEF MembershipChanges
<1>2. ASSUME NEW r \in InvitationRequests,
             InvitationBegins(r) \/ InvitationStep(r) \/ InvitationFails(r)
      PROVE  UNCHANGED job
  BY <1>2 DEF InvitationBegins, InvitationStep, InvitationFails, CreateReadMember,
              AcceptValidate, RejectValidate, ValidateInvitation, Validate, RevokeRead,
              CreateReadPending, CreateConflict, CreateInsert, AcceptReadMember,
              AcceptReactivate, AcceptCreate, Join, CommitStatus
<1>3. CASE JobStep
  BY <1>3 DEF JobStep, JobReschedules
<1>4. CASE JobFails \/ Restart \/ Tick \/ UNCHANGED vars
  BY <1>4 DEF Restart, Tick, vars
<1> QED
  BY <1>1, <1>2, <1>3, <1>4 DEF Next

LEMMA ScheduledIsEarliest ==
    ASSUME InvitationInv, ScheduleNext, job'.at = "armed"
    PROVE  /\ job'.target \in Invitations
           /\ Live(job'.target)
           /\ \A j \in Invitations : Live(j) => job'.target <= j
BY DEF ScheduleNext, Job, JobOff

LEMMA EarliestKept ==
    ASSUME TimerInv, [Next]_vars
    PROVE  TimerEarliest'
<1>1. SUFFICES ASSUME job'.at = "armed"
               PROVE  /\ job'.target \in Invitations
                      /\ inv'[job'.target] # NoInvitation
                      /\ \A j \in 1 .. (job'.target - 1) : ~ Live(j)'
  BY DEF TimerEarliest
<1>2. CASE UNCHANGED job
  <2>1. job.target \in Invitations /\ inv[job.target] # NoInvitation
    BY <1>1, <1>2 DEF TimerInv, TimerEarliest
  <2> QED
    BY <1>1, <1>2, <2>1, RowsMove, EarlierStayClosed DEF TimerInv, TimerEarliest
<1>3. CASE JobFires \/ JobFails
  BY <1>1, <1>3 DEF JobFires, JobFails, Job
<1>4. CASE JobExpires
  BY <1>1, <1>4 DEF JobExpires, TimerInv, InvitationInv, TypeOK, JobState
<1>5. CASE ScheduleNext /\ UNCHANGED <<inv, clock>>
  <2>1. /\ job'.target \in Invitations
        /\ Live(job'.target)
        /\ \A j \in Invitations : Live(j) => job'.target <= j
    BY <1>1, <1>5, ScheduledIsEarliest DEF TimerInv
  <2>2. inv'[job'.target] # NoInvitation
    BY <1>5, <2>1 DEF Live, Pending, NoInvitation
  <2>3. ASSUME NEW j \in 1 .. (job'.target - 1) PROVE ~ Live(j)'
    <3>1. j \in Invitations /\ ~ (job'.target <= j)
      BY <2>1, InvitationAssumption DEF Invitations
    <3> QED
      BY <1>5, <2>1, <3>1 DEF Live, Pending, Overdue
  <2> QED
    BY <2>1, <2>2, <2>3
<1> QED
  BY <1>2, <1>3, <1>4, <1>5, WritersOfTimer

LEMMA TimerNext == TimerInv /\ [Next]_vars => TimerInv'
BY NextIsSound, OrderKept, EarliestKept DEF TimerInv

LEMMA TimerInit == Init => TimerInv
BY InitIsSound DEF Init, TimerInv, RowsInOrder, TimerEarliest, JobOff, Job

\* The job's timer is never set past an invitation: it is set for a row, and every
\* live invitation has that row's deadline or a later one.
THEOREM TimerNeverLate == Spec => []TimerEarliest
<1>1. TimerInv => TimerEarliest
  BY DEF TimerInv
<1> QED
  BY <1>1, TimerInit, TimerNext, PTL DEF Spec

LEMMA HandKept ==
    ASSUME TimerInv, [Next]_vars, NEW i \in Invitations, InHand(i)
    PROVE  \/ InHand(i)'
           \/ ~ Pending(i)'
           \/ Overdue(i) /\ restarts' # restarts
<1> SUFFICES ASSUME Pending(i)' PROVE InHand(i)' \/ (Overdue(i) /\ restarts' # restarts)
  OBVIOUS
<1>1. Overdue(i) => Overdue(i)'
  BY ClockGoesOn, InvitationAssumption
     DEF Overdue, Invitations, TimerInv, InvitationInv, TypeOK
<1>2. job \in JobState /\ job' \in JobState
  BY NextIsSound DEF TimerInv, InvitationInv, TypeOK
<1>3. CASE UNCHANGED job
  BY <1>1, <1>3 DEF InHand
<1>4. CASE JobFires
  <2>1. Overdue(i) /\ Pending(i)
    BY <1>4 DEF JobFires, InHand
  <2>2. job'.at = "run" /\ i \in job'.batch
    BY <1>4, <2>1 DEF JobFires, Job
  <2> QED
    BY <1>1, <2>1, <2>2 DEF InHand
<1>5. CASE JobExpires
  <2>1. PICK k \in job.batch : /\ inv' = [inv EXCEPT ![k].status = "EXPIRED"]
                              /\ job' = [job EXCEPT !.batch = @ \ {k}]
    BY <1>5 DEF JobExpires
  <2>2. Overdue(i) /\ i \in job.batch /\ job.at = "run"
    BY <1>5 DEF JobExpires, InHand
  <2>3. i # k
    BY <2>1 DEF TimerInv, InvitationInv, TypeOK, Pending, InvitationRow, NoInvitation
  <2>4. job'.at = "run" /\ i \in job'.batch
    BY <1>2, <2>1, <2>2, <2>3 DEF JobState
  <2> QED
    BY <1>1, <2>2, <2>4 DEF InHand
<1>6. CASE JobFails
  BY <1>1, <1>6 DEF JobFails, InHand, Job
<1>7. CASE JobReschedules
  BY <1>7 DEF JobReschedules, InHand
<1>8. CASE Restart /\ ScheduleNext /\ UNCHANGED <<inv, clock>>
  <2>1. CASE Overdue(i)
    BY <1>8, <2>1 DEF Restart, TimerInv, InvitationInv, TypeOK
  <2>2. CASE ~ Overdue(i)
    <3>1. job.at = "armed" /\ job.target = i /\ Live(i)
      BY <2>2 DEF InHand, Live
    <3>2. job'.at = "armed"
      BY <1>8, <3>1 DEF ScheduleNext, Job
    <3>3. /\ job'.target \in Invitations
          /\ Live(job'.target)
          /\ job'.target <= i
      BY <1>8, <3>1, <3>2, ScheduledIsEarliest DEF TimerInv
    <3>4. job'.target \notin 1 .. (i - 1)
      BY <3>1, <3>3 DEF TimerInv, TimerEarliest
    <3>5. job'.target = i
      BY <3>3, <3>4, InvitationAssumption DEF Invitations
    <3> QED
      BY <3>2, <3>5 DEF InHand
  <2> QED
    BY <2>1, <2>2
<1> QED
  BY <1>3, <1>4, <1>5, <1>6, <1>7, <1>8, WritersOfTimer

\* The job lets go of an invitation that its timer was set for, or that a pass has
\* read, only by closing it, with one exception: a restart after the deadline.
THEOREM JobKeepsInvitationInHand == Spec => KeepsInHand
<1>1. TimerInv /\ [Next]_vars =>
        [\A i \in Invitations :
            InHand(i) => \/ InHand(i)'
                         \/ ~ Pending(i)'
                         \/ Overdue(i) /\ restarts' # restarts]_vars
  BY HandKept
<1> QED
  BY <1>1, TimerInit, TimerNext, PTL DEF Spec, KeepsInHand

-----------------------------------------------------------------------------
(* Requests in series: what a request has read is still true when it goes   *)
(* on, because nobody else has written since.                               *)

Stands(c) ==
    /\ c.step \in Holding => Pending(c.inv)
    /\ c.step \in {"create:pending", "create:insert"} => ~ IsActive(c.user)
    /\ c.step = "create:insert" => LiveFor(c.user) = {}
    /\ c.step = "accept:reactivate" => ~ IsActive(c.user)
    /\ c.step \in Transferring => c.actor = ownerId /\ c.target # ownerId
    /\ c.step \in CommitSteps => IsActive(c.target)
    /\ c.step = "role:commit" => c.role # "OWNER"
    /\ c.step \in {"leave:commit", "remove:commit"} => member[c.target].role # "OWNER"

Serially ==
    /\ OneAtATime
    /\ job.at = "off"
    /\ \A r \in AllRequests : Stands(request[r])

SeriesInv == InvitationInv /\ (kind = "series" => Serially)

\* The tables as the contract sees them.
Rows == [i \in Invitations |->
           [status |-> inv[i].status, user |-> inv[i].user, role |-> inv[i].role]]

LEMMA IdleStands == Stands(Idle) /\ Stands(Idle)'
BY StepsDiffer
   DEF Stands, Holding, Accepting, Transferring, CommitSteps, Idle

\* One request moves on, from its begin to its end; the others are idle.
LEMMA SeriesGoesOn ==
    ASSUME InvitationInv, Serially, OneAtATime', NEW r \in AllRequests, NEW c \in Calls,
           request' = [request EXCEPT ![r] = c],
           request[r] # Idle \/ c # Idle,
           Stands(c)', UNCHANGED job
    PROVE  Serially'
<1>1. request \in [AllRequests -> Calls]
  BY DEF InvitationInv, TypeOK, Calls
<1>2. request'[r] = c
  BY <1>1
<1>3. ASSUME NEW q \in AllRequests, q # r PROVE request'[q] = Idle
  <2>1. request'[q] = request[q]
    BY <1>1, <1>3
  <2> QED
    BY <1>2, <1>3, <2>1 DEF Serially, OneAtATime
<1>4. ASSUME NEW q \in AllRequests PROVE Stands(request[q])'
  <2>1. CASE q = r
    BY <1>2, <2>1 DEF Stands, Pending, IsActive, LiveFor, Live, Overdue
  <2>2. CASE q # r
    <3>1. request'[q] = Idle
      BY <1>3, <2>2
    <3> QED
      BY <3>1, IdleStands DEF Stands, Pending, IsActive, LiveFor, Live, Overdue
  <2> QED
    BY <2>1, <2>2
<1> QED
  BY <1>4 DEF Serially

\* A query leaves the tables, and so the contract, alone.
LEMMA SeriesQueries ==
    ASSUME InvitationInv, Serially, OneAtATime', NEW r \in AllRequests, NEW c \in Calls,
           request' = [request EXCEPT ![r] = c],
           request[r] # Idle \/ c # Idle,
           Stands(c), UNCHANGED <<ownerId, member, inv, clock, job, faults>>
    PROVE  Serially' /\ UNCHANGED Contract!contractVars
<1>1. Stands(c)'
  BY DEF Stands, Pending, IsActive, LiveFor, Live, Overdue
<1>2. UNCHANGED Contract!contractVars
  BY DEF Contract!contractVars
<1> QED
  BY <1>1, <1>2, SeriesGoesOn

LEMMA SeriesEnds ==
    ASSUME InvitationInv, Serially, OneAtATime', NEW r \in AllRequests,
           request[r] # Idle, Done(r), UNCHANGED job
    PROVE  Serially'
BY IdleStands, IdleIsSound, SeriesGoesOn DEF Done

LEMMA SeriesReturns ==
    ASSUME InvitationInv, Serially, OneAtATime', NEW r \in AllRequests,
           request[r] # Idle, Done(r),
           UNCHANGED <<ownerId, member, inv, clock, job, faults>>
    PROVE  Serially' /\ UNCHANGED Contract!contractVars
BY SeriesEnds DEF Contract!contractVars

-----------------------------------------------------------------------------
(* What the writes are to the contract                                     *)

LEMMA ClosesRow ==
    ASSUME InvitationInv, NEW i \in Invitations, Pending(i), NEW status \in Closed,
           UpdateStatus(i, status)
    PROVE  Contract!Close(i, status)
<1> DEFINE row == [inv[i] EXCEPT !.status = status, !.acceptedAt = (status = "ACCEPTED")]
<1>1. inv \in [Invitations -> InvitationRow \cup {NoInvitation}] /\ inv[i] \in InvitationRow
  BY PendingHasRow DEF InvitationInv, TypeOK
<1>2. inv' = [inv EXCEPT ![i] = row]
  BY <1>1 DEF UpdateStatus
<1>3. row.status = status /\ row.user = inv[i].user /\ row.role = inv[i].role
  BY <1>1 DEF InvitationRow
<1> HIDE DEF row
<1>4. \A j \in Invitations : inv'[j] = IF j = i THEN row ELSE inv[j]
  BY <1>1, <1>2
<1>5. Rows' = [Rows EXCEPT ![i].status = status]
  BY <1>3, <1>4 DEF Rows
<1> QED
  BY <1>5 DEF Contract!Close, Contract!Pending, Rows, Pending

LEMMA CommitClosesRow ==
    ASSUME InvitationInv, Serially, NEW r \in AllRequests, CommitStatus(r)
    PROVE  Contract!ContractNext
<1>1. PICK i \in Invitations : i = request[r].inv /\ Pending(i)
  BY RequestAt DEF CommitStatus, CallSound, Holding, Serially, Stands
<1>2. PICK status \in {"DECLINED", "REVOKED", "EXPIRED"} :
         status = request[r].step /\ UpdateStatus(i, status)
  BY <1>1 DEF CommitStatus
<1>3. status = "EXPIRED" => i \in 1 .. clock
  <2>1. status = "EXPIRED" => Overdue(i)
    BY <1>1, <1>2, RequestAt DEF CallSound
  <2> QED
    BY <2>1, InvitationAssumption DEF Overdue, Invitations, InvitationInv, TypeOK
<1>4. Contract!Close(i, status)
  BY <1>1, <1>2, ClosesRow DEF Closed
<1>5. UNCHANGED <<ownerId, member, clock>>
  BY DEF CommitStatus
<1>6. Contract!Decline(i) \/ Contract!Revoke(i) \/ Contract!Expire(i)
  BY <1>3, <1>4, <1>5 DEF Contract!Decline, Contract!Revoke, Contract!Expire
<1> QED
  BY <1>6 DEF Contract!ContractNext

LEMMA JoinAccepts ==
    ASSUME InvitationInv, NEW r \in AllRequests, request[r].step \in Accepting, Join(r),
           Pending(request[r].inv), ~ IsActive(request[r].user)
    PROVE  Contract!ContractNext
<1>1. PICK i \in Invitations, u \in Users :
         i = request[r].inv /\ u = request[r].user /\ request[r].role = inv[i].role
  BY RequestAt, StepsDiffer DEF CallSound, Holding, InvitationCall
<1>2. Contract!Close(i, "ACCEPTED")
  BY <1>1, ClosesRow DEF Join, Closed
<1>3. /\ member' = [member EXCEPT ![u] = [status |-> "ACTIVE", role |-> inv[i].role]]
      /\ UNCHANGED <<ownerId, clock>>
  BY <1>1 DEF Join
<1>4. Contract!Accept(i, u)
  BY <1>1, <1>2, <1>3 DEF Contract!Accept, Contract!Active, IsActive
<1> QED
  BY <1>4 DEF Contract!ContractNext

LEMMA InsertInvites ==
    ASSUME InvitationInv, Serially, NEW r \in AllRequests, CreateInsert(r)
    PROVE  Contract!ContractNext
<1>1. PICK u \in Users, role \in Roles : u = request[r].user /\ role = request[r].role
  BY RequestAt DEF CreateInsert, InvitationSteps, InvitationCall
<1> DEFINE row == [status |-> "PENDING", user |-> u, role |-> role, acceptedAt |-> FALSE]
<1>2. ~ IsActive(u) /\ LiveFor(u) = {}
  BY <1>1 DEF CreateInsert, Serially, Stands
<1>3. PICK i \in Invitations : inv[i] = NoInvitation /\ inv' = [inv EXCEPT ![i] = row]
  BY <1>1 DEF CreateInsert
<1>4. UNCHANGED <<ownerId, member, clock>>
  BY DEF CreateInsert
<1>5. row.status = "PENDING" /\ row.user = u /\ row.role = role
  OBVIOUS
<1> HIDE DEF row
<1>6. \A j \in Invitations : inv'[j] = IF j = i THEN row ELSE inv[j]
  BY <1>3 DEF InvitationInv, TypeOK
<1>7. Rows' = [Rows EXCEPT ![i] = [status |-> "PENDING", user |-> u, role |-> role]]
  BY <1>5, <1>6 DEF Rows
<1>8. inv[i].status = "NONE"
  BY <1>3 DEF NoInvitation
<1>9. \A j \in Invitations : Pending(j) /\ inv[j].user = u => j \in 1 .. clock
  BY <1>2, InvitationAssumption
     DEF LiveFor, Live, Overdue, Invitations, InvitationInv, TypeOK
<1>10. Contract!Invite(i, u, role)
  BY <1>2, <1>4, <1>7, <1>8, <1>9
     DEF Contract!Invite, Contract!Active, Contract!Pending, IsActive, Pending, Rows
<1> QED
  BY <1>10 DEF Contract!ContractNext

\* The writes of a request about members.
LEMMA MemberCommitsAre ==
    ASSUME InvitationInv, Serially, NEW r \in AllRequests,
           TransferCommit(r) \/ RoleCommit(r) \/ LeaveCommit(r) \/ RemoveCommit(r),
           UNCHANGED <<inv, clock>>
    PROVE  Contract!ContractNext
<1>1. request[r].step \in CommitSteps
  BY DEF TransferCommit, RoleCommit, LeaveCommit, RemoveCommit, CommitSteps
<1>2. PICK u \in Users, role \in Roles :
         u = request[r].target /\ role = request[r].role /\ IsActive(u)
  BY <1>1, CommitFindsRow DEF Serially, Stands
<1>3. CASE TransferCommit(r)
  <2>1. request[r].actor = ownerId /\ u # ownerId
    BY <1>2, <1>3 DEF TransferCommit, Transferring, Serially, Stands
  <2>2. Contract!TransferTo(u)
    BY <1>2, <1>3, <2>1
       DEF TransferCommit, Contract!TransferTo, Contract!Active, IsActive
  <2> QED
    BY <2>2 DEF Contract!ContractNext
<1>4. CASE RoleCommit(r)
  <2>1. Contract!ChangeRole(u, role)
    BY <1>2, <1>4
       DEF RoleCommit, Serially, Stands, Contract!ChangeRole, Contract!Active, IsActive
  <2> QED
    BY <2>1 DEF Contract!ContractNext
<1>5. CASE LeaveCommit(r) \/ RemoveCommit(r)
  <2>1. member[u].role # "OWNER"
    BY <1>2, <1>5 DEF LeaveCommit, RemoveCommit, Serially, Stands
  <2>2. Contract!Depart(u, "LEFT") \/ Contract!Depart(u, "REMOVED")
    BY <1>2, <1>5, <2>1
       DEF LeaveCommit, RemoveCommit, Contract!Depart, Contract!Active, IsActive
  <2> QED
    BY <2>2 DEF Contract!ContractNext
<1> QED
  BY <1>3, <1>4, <1>5

LEMMA TickPassesDeadline ==
    ASSUME InvitationInv, Tick
    PROVE  Contract!ContractNext
<1>1. PICK i \in Invitations : i = clock + 1 /\ clock' = i
  BY DEF Tick
<1>2. 1 .. clock' = (1 .. clock) \cup {i}
  BY <1>1, InvitationAssumption DEF InvitationInv, TypeOK, Invitations
<1>3. UNCHANGED <<ownerId, member, inv>>
  BY DEF Tick
<1>4. Contract!PassDeadline(i)
  BY <1>2, <1>3 DEF Contract!PassDeadline
<1> QED
  BY <1>1, <1>4 DEF Contract!ContractNext

-----------------------------------------------------------------------------
(* Every step in series: what was read stands, and the tables change as the *)
(* contract allows, or not at all.                                          *)

StepKeepsContract == Serially' /\ [Contract!ContractNext]_(Contract!contractVars)

LEMMA SeriesValidates ==
    ASSUME InvitationInv, Serially, OneAtATime', NEW r \in AllRequests,
           NEW i \in Invitations, NEW u \in Users, NEW step \in Holding,
           step \notin {"create:found", "accept:reactivate", "accept:create"},
           Validate(r, i, ICall(step, i, u, inv[i].role))
    PROVE  StepKeepsContract
<1>1. Pending(i)
  BY DEF Validate
<1>2. PICK d \in {step, "EXPIRED"} :
         /\ Overdue(i) => d = "EXPIRED"
         /\ ~ Overdue(i) => d = step
  OBVIOUS
<1>3. PICK c \in Calls : /\ c.step = d
                        /\ c.inv = i
                        /\ request' = [request EXCEPT ![r] = c]
  <2> DEFINE c == ICall(d, i, u, inv[i].role)
  <2>1. d \in Holding
    BY <1>2 DEF Holding
  <2>2. c \in Calls /\ c.step = d /\ c.inv = i
    BY <1>1, <2>1, PendingHasRow, ICallIsCall, StepsDiffer DEF Calls
  <2>3. request' = [request EXCEPT ![r] = c]
    <3>1. [ICall(step, i, u, inv[i].role) EXCEPT !.step = "EXPIRED"]
             = ICall("EXPIRED", i, u, inv[i].role)
      BY DEF ICall
    <3> QED
      <4>1. CASE Overdue(i)
        BY <1>2, <3>1, <4>1 DEF Validate, Begin
      <4>2. CASE ~ Overdue(i)
        BY <1>2, <4>2 DEF Validate, Begin
      <4> QED
        BY <4>1, <4>2
  <2> QED
    BY <2>2, <2>3
<1>4. d \in Holding /\ d \notin {"create:found", "accept:reactivate", "accept:create"}
  BY <1>2 DEF Holding
<1>5. Stands(c) /\ c # Idle
  BY <1>1, <1>3, <1>4, StepsDiffer
     DEF Stands, Holding, Accepting, CommitSteps, Transferring
<1> QED
  BY <1>3, <1>5, SeriesQueries DEF Validate, StepKeepsContract

LEMMA SeriesBegins ==
    ASSUME InvitationInv, Serially, OneAtATime', NEW r \in AllRequests,
           InvitationBegins(r)
    PROVE  StepKeepsContract
<1>1. ASSUME NEW u \in Users, NEW role \in InvitedRoles, CreateReadMember(r, u, role)
      PROVE  StepKeepsContract
  <2> DEFINE c == ICall("create:pending", 0, u, role)
  <2>1. c \in Calls /\ c.step = "create:pending" /\ c.user = u
    BY InvitationAssumption, ICallIsCall DEF InvitationSteps, Calls, ICall
  <2>2. Stands(c) /\ c # Idle
    BY <1>1, <2>1, StepsDiffer
       DEF CreateReadMember, Stands, CommitSteps, Transferring, Holding, Accepting
  <2> QED
    BY <1>1, <2>1, <2>2, SeriesQueries DEF CreateReadMember, Begin, StepKeepsContract
<1>2. ASSUME NEW i \in Invitations, NEW u \in Users, AcceptValidate(r, i, u)
      PROVE  StepKeepsContract
  BY <1>2, SeriesValidates DEF AcceptValidate, Holding, Accepting
<1>3. ASSUME NEW i \in Invitations, RejectValidate(r, i) \/ ValidateInvitation(r, i)
      PROVE  StepKeepsContract
  <2>1. PICK step \in {"DECLINED", "EXPIRED"}, u \in Users :
           Validate(r, i, ICall(step, i, u, inv[i].role))
    BY <1>3, PendingHasRow DEF RejectValidate, ValidateInvitation, Validate
  <2> QED
    BY <2>1, SeriesValidates DEF Holding
<1>4. ASSUME NEW i \in Invitations, RevokeRead(r, i)
      PROVE  StepKeepsContract
  <2> DEFINE c == ICall("REVOKED", i, inv[i].user, inv[i].role)
  <2>1. Pending(i)
    BY <1>4 DEF RevokeRead
  <2>2. c \in Calls /\ c.step = "REVOKED" /\ c.inv = i
    BY <2>1, PendingHasRow, ICallIsCall DEF InvitationSteps, Calls
  <2>3. Stands(c) /\ c # Idle
    BY <2>1, <2>2, StepsDiffer
       DEF Stands, CommitSteps, Transferring, Holding, Accepting
  <2> QED
    BY <1>4, <2>2, <2>3, SeriesQueries DEF RevokeRead, Begin, StepKeepsContract
<1> QED
  BY <1>1, <1>2, <1>3, <1>4 DEF InvitationBegins

\* A query of a request about an invitation, before another of its queries.
LEMMA SeriesGoto ==
    ASSUME InvitationInv, Serially, OneAtATime', NEW r \in AllRequests,
           request[r].step \in InvitationSteps, NEW step \in InvitationSteps,
           Goto(r, step),
           \A c \in Calls :
              /\ c.step = step
              /\ c.inv = request[r].inv
              /\ c.user = request[r].user
              => Stands(c),
           UNCHANGED <<ownerId, member, inv, clock, job, faults>>
    PROVE  StepKeepsContract
<1> DEFINE c == [request[r] EXCEPT !.step = step]
<1>1. request[r] \in InvitationCall /\ request[r] # Idle
  BY RequestAt, StepsDiffer
<1>2. /\ c \in InvitationCall
      /\ c.step = step
      /\ c.inv = request[r].inv
      /\ c.user = request[r].user
  BY <1>1 DEF InvitationCall
<1>3. c \in Calls /\ request' = [request EXCEPT ![r] = c]
  BY <1>2 DEF Goto, Calls
<1>4. Stands(c)
  BY <1>2, <1>3
<1> QED
  BY <1>1, <1>3, <1>4, SeriesQueries DEF StepKeepsContract

LEMMA SeriesFinds ==
    ASSUME InvitationInv, Serially, OneAtATime', NEW r \in AllRequests,
           CreateReadPending(r)
    PROVE  StepKeepsContract
<1>1. /\ request[r] \in InvitationCall /\ request[r] # Idle
      /\ request[r].step = "create:pending"
      /\ ~ IsActive(request[r].user)
  BY RequestAt, StepsDiffer
     DEF CreateReadPending, InvitationSteps, Serially, Stands
<1>2. CASE LiveFor(request[r].user) = {} /\ Goto(r, "create:insert")
  <2>1. ASSUME NEW c \in Calls, c.step = "create:insert", c.user = request[r].user
        PROVE  Stands(c)
    BY <1>1, <1>2, <2>1 DEF Stands, CommitSteps, Transferring, Holding, Accepting
  <2> QED
    BY <1>1, <1>2, <2>1, SeriesGoto DEF CreateReadPending, InvitationSteps
<1>3. ASSUME NEW i \in LiveFor(request[r].user),
             request' = [request EXCEPT ![r].step = "create:found", ![r].inv = i]
      PROVE  StepKeepsContract
  <2> DEFINE c == [request[r] EXCEPT !.step = "create:found", !.inv = i]
  <2>1. request' = [request EXCEPT ![r] = c]
    BY <1>3
  <2>2. Pending(i) /\ i \in 0 .. MaxInvitations
    BY PendingHasRow DEF LiveFor, Live
  <2>3. c \in InvitationCall /\ c.step = "create:found" /\ c.inv = i
    BY <1>1, <2>2 DEF InvitationCall, InvitationSteps
  <2>4. c \in Calls /\ Stands(c)
    BY <2>2, <2>3 DEF Stands, Calls, CommitSteps, Transferring, Accepting
  <2> HIDE DEF c
  <2> QED
    BY <1>1, <2>1, <2>4, SeriesQueries DEF CreateReadPending, StepKeepsContract
<1> QED
  BY <1>2, <1>3 DEF CreateReadPending

LEMMA SeriesWrites ==
    ASSUME InvitationInv, Serially, OneAtATime', NEW r \in AllRequests,
           request[r] # Idle, Done(r), UNCHANGED job, Contract!ContractNext
    PROVE  StepKeepsContract
BY SeriesEnds DEF StepKeepsContract

LEMMA SeriesSteps ==
    ASSUME InvitationInv, Serially, OneAtATime', NEW r \in AllRequests,
           InvitationStep(r)
    PROVE  StepKeepsContract
<1>1. CASE CreateReadPending(r)
  BY <1>1, SeriesFinds
<1>2. CASE CreateConflict(r)
  <2>1. request[r].step \in InvitationSteps /\ request[r] # Idle /\ Pending(request[r].inv)
    BY <1>2, StepsDiffer
       DEF CreateConflict, InvitationSteps, Serially, Stands, Holding
  <2>2. CASE Goto(r, "EXPIRED")
    <3>1. ASSUME NEW c \in Calls, c.step = "EXPIRED", c.inv = request[r].inv
          PROVE  Stands(c)
      BY <2>1, <3>1 DEF Stands, CommitSteps, Transferring, Accepting
    <3> QED
      BY <1>2, <2>1, <2>2, <3>1, SeriesGoto DEF CreateConflict, InvitationSteps
  <2>3. CASE Done(r)
    BY <1>2, <2>1, <2>3, SeriesReturns DEF CreateConflict, StepKeepsContract
  <2> QED
    BY <1>2, <2>2, <2>3 DEF CreateConflict
<1>3. CASE CreateInsert(r)
  <2>1. request[r] # Idle
    BY <1>3, StepsDiffer DEF CreateInsert, InvitationSteps
  <2> QED
    BY <1>3, <2>1, InsertInvites, SeriesWrites DEF CreateInsert
<1>4. CASE AcceptReadMember(r)
  <2>1. request[r].step \in InvitationSteps /\ Pending(request[r].inv)
    BY <1>4
       DEF AcceptReadMember, InvitationSteps, Serially, Stands, Holding, Accepting
  <2>2. PICK step \in {"accept:reactivate", "accept:create"} :
           /\ Goto(r, step)
           /\ step = "accept:reactivate" => IsInactive(request[r].user)
    BY <1>4 DEF AcceptReadMember
  <2>3. ASSUME NEW c \in Calls, c.step = step, c.inv = request[r].inv,
               c.user = request[r].user
        PROVE  Stands(c)
    BY <2>1, <2>2, <2>3
       DEF Stands, CommitSteps, Transferring, IsInactive, IsActive
  <2> QED
    BY <1>4, <2>1, <2>2, <2>3, SeriesGoto DEF AcceptReadMember, InvitationSteps
<1>5. CASE AcceptReactivate(r) \/ AcceptCreate(r)
  <2>1. /\ request[r].step \in Accepting
        /\ request[r] # Idle
        /\ Pending(request[r].inv)
    BY <1>5, StepsDiffer
       DEF AcceptReactivate, AcceptCreate, Accepting, Holding, Serially, Stands
  <2>2. CASE AcceptReactivate(r) \/ (~ HasRow(request[r].user) /\ Join(r))
    <3>1. ~ IsActive(request[r].user)
      BY <2>2 DEF AcceptReactivate, Serially, Stands, HasRow, NoRow, IsActive
    <3> QED
      BY <2>1, <2>2, <3>1, JoinAccepts, SeriesWrites DEF AcceptReactivate, Join
  <2>3. CASE /\ Done(r)
             /\ UNCHANGED <<ownerId, member, inv, clock, job, faults>>
    BY <2>1, <2>3, SeriesReturns DEF StepKeepsContract
  <2> QED
    BY <1>5, <2>2, <2>3 DEF AcceptCreate
<1>6. CASE CommitStatus(r)
  <2>1. request[r] # Idle
    BY <1>6, StepsDiffer DEF CommitStatus, InvitationSteps
  <2> QED
    BY <1>6, <2>1, CommitClosesRow, SeriesWrites DEF CommitStatus
<1> QED
  BY <1>1, <1>2, <1>3, <1>4, <1>5, <1>6 DEF InvitationStep

LEMMA SeriesOfMembers ==
    ASSUME InvitationInv, Serially, OneAtATime', MembershipChanges
    PROVE  StepKeepsContract
<1> USE DEF MembershipChanges
<1>1. ASSUME NEW r \in MemberRequests, RequestFails(r)
      PROVE  StepKeepsContract
  BY <1>1, SeriesReturns DEF RequestFails, AllRequests, StepKeepsContract
<1>2. ASSUME NEW r \in MemberRequests, TransferReadTarget(r)
      PROVE  StepKeepsContract
  <2>1. /\ r \in AllRequests
        /\ request[r].step \in MemberSteps
        /\ request[r] \in MemberCall
        /\ request[r] # Idle
    BY <1>2, RequestAt, StepsDiffer DEF TransferReadTarget, MemberSteps, AllRequests
  <2>2. request[r].actor = ownerId /\ request[r].target # ownerId
    BY <1>2, <2>1 DEF TransferReadTarget, Transferring, Serially, Stands
  <2>3. CASE IsActive(request[r].target) /\ Goto(r, "transfer:commit")
    <3>1. PICK c \in Calls : /\ c.step = "transfer:commit"
                            /\ c.actor = request[r].actor
                            /\ c.target = request[r].target
                            /\ request' = [request EXCEPT ![r] = c]
      BY <2>1, <2>3, GotoKeepsMember DEF MemberSteps
    <3>2. Stands(c)
      BY <2>2, <2>3, <3>1 DEF Stands, Holding, Accepting
    <3> QED
      BY <1>2, <2>1, <3>1, <3>2, SeriesQueries DEF TransferReadTarget, StepKeepsContract
  <2>4. CASE Done(r)
    BY <1>2, <2>1, <2>4, SeriesReturns DEF TransferReadTarget, StepKeepsContract
  <2> QED
    BY <1>2, <2>3, <2>4 DEF TransferReadTarget
<1>3. ASSUME NEW r \in MemberRequests,
             TransferCommit(r) \/ RoleCommit(r) \/ LeaveCommit(r) \/ RemoveCommit(r)
      PROVE  StepKeepsContract
  <2>1. r \in AllRequests /\ request[r] # Idle /\ Done(r)
    BY <1>3, StepsDiffer
       DEF AllRequests, TransferCommit, RoleCommit, LeaveCommit, RemoveCommit, MemberSteps
  <2> QED
    BY <1>3, <2>1, MemberCommitsAre, SeriesWrites
<1>4. ASSUME NEW r \in MemberRequests, NEW u \in Users,
             LeaveRead(r, u) \/ RemoveRead(r, u)
      PROVE  StepKeepsContract
  <2>1. PICK step \in {"leave:commit", "remove:commit"} :
           Begin(r, Call(step, u, u, "MEMBER"))
    BY <1>4 DEF LeaveRead, RemoveRead
  <2> DEFINE c == Call(step, u, u, "MEMBER")
  <2>2. c \in MemberCall /\ c.step = step /\ c.target = u
    BY CallInMemberCall DEF MemberSteps, Roles
  <2>3. Stands(c) /\ c # Idle /\ c \in Calls
    BY <1>4, <2>2, StepsDiffer
       DEF LeaveRead, RemoveRead, Stands, Transferring, Holding, Accepting, Calls
  <2> QED
    BY <1>4, <2>1, <2>3, SeriesQueries
       DEF LeaveRead, RemoveRead, Begin, AllRequests, StepKeepsContract
<1>5. ASSUME NEW r \in MemberRequests, NEW u \in Users, NEW role \in Roles,
             RoleRead(r, u, role)
      PROVE  StepKeepsContract
  <2> DEFINE c == Call("role:commit", u, u, role)
  <2>1. /\ c \in MemberCall
        /\ c.step = "role:commit"
        /\ c.target = u
        /\ c.role = role
    BY CallInMemberCall DEF MemberSteps, Call
  <2>2. Stands(c) /\ c # Idle /\ c \in Calls
    BY <1>5, <2>1, StepsDiffer
       DEF RoleRead, Stands, Transferring, Holding, Accepting, Calls
  <2> QED
    BY <1>5, <2>2, SeriesQueries DEF RoleRead, Begin, AllRequests, StepKeepsContract
<1>6. ASSUME NEW r \in TransferRequests, NEW u \in Users, TransferReadWorkspace(r, u)
      PROVE  StepKeepsContract
  <2> DEFINE c == Call("transfer:target", ownerId, u, "OWNER")
  <2>1. r \in AllRequests /\ ownerId \in Users
    BY MemberAssumption DEF InvitationInv, TypeOK, AllRequests
  <2>2. /\ c \in MemberCall
        /\ c.step = "transfer:target"
        /\ c.actor = ownerId
        /\ c.target = u
    BY <2>1, CallInMemberCall DEF MemberSteps, Roles
  <2>3. Stands(c) /\ c # Idle /\ c \in Calls
    BY <1>6, <2>2, StepsDiffer
       DEF TransferReadWorkspace, Stands, CommitSteps, Holding, Accepting, Calls
  <2> QED
    BY <1>6, <2>1, <2>3, SeriesQueries DEF TransferReadWorkspace, Begin, StepKeepsContract
<1> QED
  BY <1>1, <1>2, <1>3, <1>4, <1>5, <1>6 DEF MemberNext, MemberStep, Transfer

-----------------------------------------------------------------------------
LEMMA SeriesInit == KindInit => SeriesInv /\ Contract!ContractInit
<1> SUFFICES ASSUME KindInit PROVE SeriesInv /\ Contract!ContractInit
  OBVIOUS
<1>1. Init /\ InvitationInv
  BY InitIsSound DEF KindInit
<1>2. Serially
  BY <1>1, IdleStands DEF Init, JobOff, Job, Serially, OneAtATime
<1>3. 1 .. clock = {}
  BY <1>1 DEF Init
<1>4. Contract!ContractInit
  BY <1>1, <1>3, MemberAssumption DEF Init, NoInvitation, Contract!ContractInit
<1> QED
  BY <1>1, <1>2, <1>4 DEF SeriesInv

\* In series the job never runs and nothing fails, so that every step is a
\* request's or the clock's.
LEMMA SeriesNext ==
    ASSUME InvitationInv, Serially, Next, OneAtATime', faults' = <<0, 0>>
    PROVE  StepKeepsContract
<1>1. CASE MembershipChanges
  BY <1>1, SeriesOfMembers
<1>2. ASSUME NEW r \in InvitationRequests,
             InvitationBegins(r) \/ InvitationStep(r) \/ InvitationFails(r)
      PROVE  StepKeepsContract
  <2>1. r \in AllRequests
    BY DEF AllRequests
  <2>2. CASE InvitationFails(r)
    BY <2>1, <2>2, SeriesReturns DEF InvitationFails, RequestFails, StepKeepsContract
  <2> QED
    BY <1>2, <2>1, <2>2, SeriesBegins, SeriesSteps
<1>3. CASE JobStep \/ JobFails
  BY <1>3 DEF Serially, JobStep, JobFires, JobExpires, JobReschedules, JobFails
<1>4. CASE Restart
  BY <1>4, InvitationAssumption DEF Restart, faults, InvitationInv, TypeOK
<1>5. CASE Tick
  <2>1. InvitationInv'
    BY <1>5, TickPreserves
  <2>2. clock \in Nat /\ clock' \in Nat /\ clock <= clock'
    BY <1>5, InvitationAssumption DEF Tick, InvitationInv, TypeOK, Invitations
  <2>3. \A u \in Users : LiveFor(u)' \subseteq LiveFor(u)
    BY <1>5, <2>2 DEF Tick, LiveFor, Live, Pending, Overdue, Invitations
  <2>4. ASSUME NEW r \in AllRequests PROVE Stands(request[r])'
    <3>1. Stands(request[r])
      BY DEF Serially
    <3>2. request[r].step = "create:insert" => request[r].user \in Users
      BY RequestAt DEF InvitationSteps, InvitationCall
    <3> QED
      BY <1>5, <2>3, <3>1, <3>2 DEF Tick, Stands, Pending, IsActive
  <2>5. Serially'
    BY <1>5, <2>4 DEF Tick, Serially
  <2> QED
    BY <1>5, <2>5, TickPassesDeadline DEF StepKeepsContract
<1> QED
  BY <1>1, <1>2, <1>3, <1>4, <1>5 DEF Next

\* What SeriesInv says of the next state, and what the step is to the contract.
LEMMA KindNextKeeps ==
    ASSUME SeriesInv, [KindNext]_kindVars
    PROVE  /\ SeriesInv'
           /\ kind = "series" => [Contract!ContractNext]_(Contract!contractVars)
<1>1. CASE KindNext
  <2>1. InvitationInv'
    BY <1>1, NextIsSound DEF KindNext, SeriesInv
  <2>2. CASE kind = "series"
    <3>1. StepKeepsContract
      BY <1>1, <2>2, SeriesNext DEF KindNext, SeriesInv
    <3> QED
      BY <2>1, <3>1 DEF StepKeepsContract, SeriesInv
  <2>3. CASE kind # "series"
    BY <1>1, <2>1, <2>3 DEF KindNext, SeriesInv
  <2> QED
    BY <2>2, <2>3
<1>2. CASE UNCHANGED kindVars
  <2>1. InvitationInv'
    BY <1>2, NextIsSound DEF kindVars, SeriesInv
  <2>2. ASSUME Serially PROVE Serially'
    BY <1>2, <2>2
       DEF kindVars, vars, Serially, OneAtATime, Stands, Pending, IsActive, LiveFor,
           Live, Overdue
  <2>3. UNCHANGED Contract!contractVars
    BY <1>2 DEF kindVars, vars, Contract!contractVars
  <2> QED
    BY <1>2, <2>1, <2>2, <2>3 DEF kindVars, SeriesInv
<1> QED
  BY <1>1, <1>2

\* What a request has read stands until it writes, as long as requests do not
\* overlap and neither the job nor the process fails.
THEOREM SeriesInvariant == KindSpec => []SeriesInv
<1>1. KindInit => SeriesInv
  BY SeriesInit
<1>2. SeriesInv /\ [KindNext]_kindVars => SeriesInv'
  BY KindNextKeeps
<1> QED
  BY <1>1, <1>2, PTL DEF KindSpec

\* The refinement: to requests that do not overlap, the handlers of members and
\* of invitations do in their several queries what each endpoint promises in one
\* step, for every number of users and of invitations.
THEOREM SeriesImplementsContract == KindSpec => SerialContract
<1>1. KindInit => Contract!ContractInit
  BY SeriesInit
<1>2. SeriesInv /\ [KindNext]_kindVars
         => [kind = "series" => Contract!ContractNext]_(Contract!contractVars)
  BY KindNextKeeps
<1> QED
  BY <1>1, <1>2, SeriesInvariant, PTL DEF KindSpec, SerialContract

-----------------------------------------------------------------------------
(* What the contract says of the rows themselves.                          *)

\* In series a user never has two invitations that could both be accepted.
OneLiveInvitation ==
    kind = "series" =>
        \A i, j \in Invitations :
            Live(i) /\ Live(j) /\ inv[i].user = inv[j].user => i = j

\* In series an invitation that is closed keeps its outcome, whichever it is.
OutcomesKept ==
    [][kind = "series" =>
         \A i \in Invitations :
            inv[i].status \in Closed => inv'[i].status = inv[i].status]_kindVars

\* A step of the contract closes a pending invitation, makes a new one if none is
\* live for the user, or leaves all of them alone.
RowCloses ==
    \E i \in Invitations, status \in Closed :
        Pending(i) /\ Rows' = [Rows EXCEPT ![i].status = status]

RowIsMade ==
    \E i \in Invitations, u \in Users, role \in Roles :
        /\ inv[i].status = "NONE"
        /\ \A j \in Invitations : Pending(j) /\ inv[j].user = u => j \in 1 .. clock
        /\ Rows' = [Rows EXCEPT ![i] = [status |-> "PENDING", user |-> u, role |-> role]]

LEMMA ContractMovesRows ==
    ASSUME Contract!ContractNext
    PROVE  /\ 1 .. clock \subseteq 1 .. clock'
           /\ Rows' = Rows \/ RowCloses \/ RowIsMade
<1>1. ASSUME NEW i \in Invitations, NEW status \in Closed, Contract!Close(i, status)
      PROVE  RowCloses
  BY <1>1 DEF Contract!Close, Contract!Pending, Pending, Rows, RowCloses
<1>2. ASSUME NEW i \in Invitations, NEW u \in Users, NEW role \in Roles,
             Contract!Invite(i, u, role)
      PROVE  RowIsMade /\ 1 .. clock' = 1 .. clock
  BY <1>2 DEF Contract!Invite, Contract!Pending, Pending, Rows, RowIsMade
<1>3. ASSUME NEW i \in Invitations,
             Contract!Decline(i) \/ Contract!Revoke(i) \/ Contract!Expire(i)
      PROVE  RowCloses /\ 1 .. clock' = 1 .. clock
  BY <1>1, <1>3 DEF Contract!Decline, Contract!Revoke, Contract!Expire, Closed
<1>4. ASSUME NEW i \in Invitations, NEW u \in Users, Contract!Accept(i, u)
      PROVE  RowCloses /\ 1 .. clock' = 1 .. clock
  BY <1>1, <1>4 DEF Contract!Accept, Closed
<1>5. ASSUME NEW i \in Invitations, Contract!PassDeadline(i)
      PROVE  Rows' = Rows /\ 1 .. clock' = (1 .. clock) \cup {i}
  BY <1>5 DEF Contract!PassDeadline, Rows
<1>6. ASSUME NEW u \in Users,
             \/ Contract!TransferTo(u)
             \/ \E role \in Roles : Contract!ChangeRole(u, role)
             \/ \E status \in {"LEFT", "REMOVED"} : Contract!Depart(u, status)
      PROVE  Rows' = Rows /\ 1 .. clock' = 1 .. clock
  BY <1>6 DEF Contract!TransferTo, Contract!ChangeRole, Contract!Depart, Rows
<1> QED
  BY <1>2, <1>3, <1>4, <1>5, <1>6 DEF Contract!ContractNext

LEMMA SeriesMovesRows ==
    ASSUME SeriesInv, [KindNext]_kindVars, kind = "series"
    PROVE  /\ \A i \in Invitations :
                 \/ inv'[i].status = inv[i].status /\ inv'[i].user = inv[i].user
                 \/ Pending(i) /\ inv'[i].status \in Closed
                 \/ /\ inv[i].status = "NONE"
                    /\ \A j \in Invitations \ {i} :
                          /\ inv'[j].status = inv[j].status
                          /\ inv'[j].user = inv[j].user
                          /\ Live(j) => inv[j].user # inv'[i].user
           /\ 1 .. clock \subseteq 1 .. clock'
<1>1. /\ \A i \in Invitations :
            Rows[i].status = inv[i].status /\ Rows[i].user = inv[i].user
      /\ \A i \in Invitations :
            Rows'[i].status = inv'[i].status /\ Rows'[i].user = inv'[i].user
  BY DEF Rows
<1>2. CASE UNCHANGED Contract!contractVars
  <2>1. Rows' = Rows /\ 1 .. clock' = 1 .. clock
    BY <1>2 DEF Contract!contractVars, Rows
  <2> QED
    BY <1>1, <2>1
<1>3. CASE Contract!ContractNext
  <2>1. CASE Rows' = Rows
    BY <1>1, <1>3, <2>1, ContractMovesRows
  <2>2. ASSUME NEW i \in Invitations, NEW status \in Closed, Pending(i),
               Rows' = [Rows EXCEPT ![i].status = status]
        PROVE  \A j \in Invitations :
                  \/ inv'[j].status = inv[j].status /\ inv'[j].user = inv[j].user
                  \/ Pending(j) /\ inv'[j].status \in Closed
    BY <1>1, <2>2 DEF Rows
  <2>3. ASSUME NEW i \in Invitations, NEW u \in Users, NEW role \in Roles,
               inv[i].status = "NONE",
               \A j \in Invitations :
                  Pending(j) /\ inv[j].user = u => j \in 1 .. clock,
               Rows' = [Rows EXCEPT ![i] =
                          [status |-> "PENDING", user |-> u, role |-> role]]
        PROVE  /\ inv'[i].user = u
               /\ \A j \in Invitations \ {i} :
                     /\ inv'[j].status = inv[j].status
                     /\ inv'[j].user = inv[j].user
                     /\ Live(j) => inv[j].user # u
    <3>1. Rows'[i].user = u
      BY <2>3 DEF Rows
    <3>2. \A j \in Invitations \ {i} : Rows'[j] = Rows[j]
      BY <2>3 DEF Rows
    <3>3. \A j \in Invitations : Live(j) => inv[j].user # u
      BY <2>3, InvitationAssumption DEF Live, Overdue, Invitations
    <3> QED
      BY <1>1, <3>1, <3>2, <3>3
  <2>4. CASE RowCloses
    BY <1>3, <2>2, <2>4, ContractMovesRows DEF RowCloses
  <2>5. CASE RowIsMade
    <3>1. PICK i \in Invitations, u \in Users, role \in Roles :
             /\ inv[i].status = "NONE"
             /\ \A j \in Invitations :
                   Pending(j) /\ inv[j].user = u => j \in 1 .. clock
             /\ Rows' = [Rows EXCEPT ![i] =
                           [status |-> "PENDING", user |-> u, role |-> role]]
      BY <2>5 DEF RowIsMade
    <3>2. /\ inv'[i].user = u
          /\ \A j \in Invitations \ {i} :
                /\ inv'[j].status = inv[j].status
                /\ inv'[j].user = inv[j].user
                /\ Live(j) => inv[j].user # u
      BY <2>3, <3>1
    <3> QED
      BY <1>3, <3>1, <3>2, ContractMovesRows
  <2> QED
    BY <1>3, <2>1, <2>4, <2>5, ContractMovesRows
<1> QED
  BY <1>2, <1>3, KindNextKeeps

THEOREM OneLiveInvitationInSeries == KindSpec => []OneLiveInvitation
<1>1. KindInit => OneLiveInvitation
  BY DEF KindInit, Init, NoInvitation, OneLiveInvitation, Live, Pending
<1>2. SeriesInv /\ OneLiveInvitation /\ [KindNext]_kindVars => OneLiveInvitation'
  <2> SUFFICES ASSUME SeriesInv, OneLiveInvitation, [KindNext]_kindVars,
                      kind' = "series",
                      NEW i \in Invitations, NEW j \in Invitations,
                      Live(i)', Live(j)', inv'[i].user = inv'[j].user
               PROVE  i = j
    BY DEF OneLiveInvitation
  <2>1. kind = "series"
    BY DEF KindNext, kindVars
  <2>2. clock \in Nat /\ clock' \in Nat
    BY KindNextKeeps, InvitationAssumption DEF SeriesInv, InvitationInv, TypeOK
  <2>3. \A k \in Invitations : k \in 1 .. clock => k \in 1 .. clock'
    BY <2>1, SeriesMovesRows
  <2>4. \A k \in Invitations : ~ Overdue(k)' => ~ Overdue(k)
    BY <2>2, <2>3, InvitationAssumption DEF Overdue, Invitations
  <2>5. "PENDING" \notin Closed
    BY DEF Closed
  <2>6. \A k \in Invitations :
           Live(k)' /\ inv[k].status # "NONE"
           => Live(k) /\ inv'[k].user = inv[k].user
    BY <2>1, <2>4, <2>5, SeriesMovesRows DEF Live, Pending
  <2>7. CASE inv[i].status # "NONE" /\ inv[j].status # "NONE"
    BY <2>1, <2>6, <2>7 DEF OneLiveInvitation
  <2>8. CASE inv[i].status = "NONE"
    BY <2>1, <2>5, <2>6, <2>8, SeriesMovesRows DEF Live, Pending
  <2>9. CASE inv[j].status = "NONE"
    BY <2>1, <2>5, <2>6, <2>9, SeriesMovesRows DEF Live, Pending
  <2> QED
    BY <2>7, <2>8, <2>9
<1> QED
  BY <1>1, <1>2, SeriesInvariant, PTL DEF KindSpec

\* ClosedNotAccepted, and more, is true of requests that do not overlap: what breaks
\* it is a request that decides on a status it has read a query ago.
THEOREM OutcomesKeptInSeries == KindSpec => OutcomesKept
<1>1. SeriesInv /\ [KindNext]_kindVars =>
         [kind = "series" =>
            \A i \in Invitations :
               inv[i].status \in Closed => inv'[i].status = inv[i].status]_kindVars
  BY SeriesMovesRows DEF Pending, Closed
<1> QED
  BY <1>1, SeriesInvariant, PTL DEF KindSpec, OutcomesKept
=============================================================================
