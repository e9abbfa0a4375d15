-------------------------- MODULE CommandBusProofs --------------------------
(***************************************************************************)
(* What CommandBus guarantees for every set of users and processes, every  *)
(* table of commands and every length of the stream.                       *)
(***************************************************************************)
EXTENDS CommandBusInvariant, StreamLemmas

-----------------------------------------------------------------------------
(***************************************************************************)
(* Lemmas about the rows and the projection.                               *)
(***************************************************************************)

\* append keeps the table a table: the batch gets the versions behind m, the
\* other rows stay.
LEMMA WithBatchRows ==
    ASSUME NEW s \in Stream, NEW m \in Nat, NEW batch \in Seq(Event)
    PROVE  LET t == WithBatch(s, m, batch) IN
           /\ t \in Stream
           /\ Len(t) \in Nat
           /\ Len(t) >= Len(s) /\ Len(t) >= m + Len(batch)
           /\ Len(t) = Len(s) \/ Len(t) = m + Len(batch)
           /\ \A v \in 1 .. Len(t) :
                t[v] = IF v \in BatchVersions(m, batch) THEN batch[v - m]
                       ELSE IF v <= Len(s) THEN s[v]
                       ELSE NoRow
<1> DEFINE top == IF Len(s) > m + Len(batch) THEN Len(s) ELSE m + Len(batch)
           row(v) == IF v \in BatchVersions(m, batch) THEN batch[v - m]
                     ELSE IF v <= Len(s) THEN s[v] ELSE NoRow
<1>1. Len(s) \in Nat /\ Len(batch) \in Nat /\ top \in Nat
    BY DEF Stream
<1>2. \A v \in 1 .. top : row(v) \in Event \cup {NoRow}
    BY <1>1 DEF Stream, BatchVersions
<1>3. WithBatch(s, m, batch) = [v \in 1 .. top |-> row(v)]
    BY DEF WithBatch
<1> HIDE DEF top, row
<1>4. [v \in 1 .. top |-> row(v)] \in Seq(Event \cup {NoRow})
    BY <1>1, <1>2
<1>5. Len([v \in 1 .. top |-> row(v)]) = top
    BY <1>1, <1>4
<1> QED
    BY <1>1, <1>3, <1>4, <1>5 DEF top, row, Stream

\* A role read from a stream is a role or none.
LEMMA RoleAtType ==
    ASSUME NEW s \in Stream, NEW u \in Users, NEW v \in Nat
    PROVE  RoleAt(s, u, v) \in MaybeRole
<1> DEFINE touching == TouchingVersions(s, u, v)
           last     == Max(touching)
<1>1. Len(s) \in Nat /\ touching \in SUBSET (1 .. Len(s))
    BY DEF TouchingVersions, Stream
<1>2. CASE touching = {}
    BY <1>2 DEF RoleAt, MaybeRole
<1>3. CASE touching # {}
    <2>2. last \in touching
        BY <1>1, <1>3, LastPosition
    <2>3. s[last] \in Event /\ Touches(s[last], u)
        BY <2>2 DEF touching, TouchingVersions, Stream
    <2>4. \/ s[last].command = "project.create"
          \/ s[last].command = "membership.grant"
          \/ s[last].command = "membership.revoke"
        BY <2>3 DEF Touches, MembershipCommands
    <2>5. s[last].members \in [Users -> MaybeRole] /\ s[last].role \in Roles
        BY <2>3 DEF Event, Memberships
    <2>6. RoleGiven(s[last], u) \in MaybeRole
        BY <2>4, <2>5 DEF RoleGiven, MaybeRole
    <2> QED
        BY <1>3, <2>6 DEF RoleAt, touching
<1> QED
    BY <1>2, <1>3

\* A role at version v depends on the rows up to v alone: nothing that is
\* stored later changes it.
LEMMA RoleAtPrefix ==
    ASSUME NEW s \in Stream, NEW t \in Stream, NEW u \in Users, NEW v \in Nat,
           v <= Len(s), v <= Len(t),
           \A w \in 1 .. v : t[w] = s[w]
    PROVE  RoleAt(t, u, v) = RoleAt(s, u, v)
<1>1. Len(s) \in Nat /\ Len(t) \in Nat
    BY DEF Stream
<1>2. TouchingVersions(t, u, v) = TouchingVersions(s, u, v)
    BY <1>1 DEF TouchingVersions
<1>3. \A w \in TouchingVersions(s, u, v) : t[w] = s[w]
    BY <1>1 DEF TouchingVersions
<1> DEFINE touching == TouchingVersions(s, u, v)
           last     == Max(touching)
<1>4. CASE touching = {}
    BY <1>2, <1>4 DEF RoleAt
<1>5. CASE touching # {}
    <2>1. touching \in SUBSET (1 .. Len(s))
        BY DEF TouchingVersions
    <2>3. last \in touching
        BY <1>1, <1>5, <2>1, LastPosition
    <2>4. t[last] = s[last]
        BY <1>3, <2>3
    <2> QED
        BY <1>2, <2>4 DEF RoleAt
<1> QED
    BY <1>4, <1>5

-----------------------------------------------------------------------------
(***************************************************************************)
(* Type correctness.                                                       *)
(***************************************************************************)

LEMMA IdleType == Idle \in Process
<1>1. AnyRole \in Roles
    BY CommandBusAssumption DEF AnyRole
<1>2. NoRequest \in Request
    BY <1>1, CommandBusAssumption DEF NoRequest, Request
<1> QED
    BY <1>2 DEF Idle, Process, Steps

LEMMA EventOfType ==
    ASSUME rows \in Stream,
           NEW request \in Request, NEW basis \in Nat, NEW since \in Nat
    PROVE  EventOf(request, basis, since) \in Event
<1>1. RoleAt(rows, request.actor, basis) \in MaybeRole
    BY RoleAtType DEF Request
<1>2. NoMembers \in Memberships
    BY DEF NoMembers, Memberships, MaybeRole
<1>3. [NoMembers EXCEPT ![request.actor] = "creator"] \in Memberships
    BY <1>2 DEF Memberships, MaybeRole, Roles
<1> QED
    BY <1>1, <1>2, <1>3 DEF EventOf, Event, Request, MaybeRole

LEMMA SeedBatchType ==
    ASSUME NEW since \in Nat
    PROVE  SeedBatch(since) \in Seq(Event)
<1>1. AnyRole \in Roles
    BY CommandBusAssumption DEF AnyRole
<1>2. NoMembers \in Memberships /\ SeedMembers \in Memberships
    BY CommandBusAssumption DEF NoMembers, Memberships, MaybeRole
<1>3. "object.upsert" \in ExistingCommands
    BY DEF ExistingCommands, ApplyCommands
<1> QED
    BY <1>1, <1>2, <1>3, CommandBusAssumption DEF SeedBatch, Event, MaybeRole

LEMMA TypeStep == TypeOK /\ [Next]_vars => TypeOK'
<1> SUFFICES ASSUME TypeOK, [Next]_vars
             PROVE  TypeOK'
    OBVIOUS
<1> USE IdleType, CommandBusAssumption DEF TypeOK
<1>1. ASSUME NEW p \in Procs, BeginCommand(p)
      PROVE  TypeOK'
    <2>1. PICK command \in CommandTypes, actor \in Users, email \in Users,
               role \in OfferedRoles :
            proc' = [proc EXCEPT ![p] =
                [Idle EXCEPT !.pc = "load", !.expected = CurrentVersion(rows),
                             !.since = epoch,
                             !.request = [command |-> command, actor |-> actor,
                                          email |-> email, role |-> role]]]
        BY <1>1 DEF BeginCommand
    <2>2. [command |-> command, actor |-> actor, email |-> email, role |-> role]
            \in Request
        BY DEF Request
    <2>3. CurrentVersion(rows) \in Nat
        BY DEF CurrentVersion, Stream
    <2>4. proc' \in [Procs -> Process]
        BY <2>1, <2>2, <2>3 DEF Process, Steps
    <2> QED
        BY <1>1, <2>4 DEF BeginCommand
<1>2. ASSUME NEW p \in Procs, BeginCreate(p)
      PROVE  TypeOK'
    <2>1. PICK actor \in Users :
            proc' = [proc EXCEPT ![p] =
                [Idle EXCEPT !.pc = "load", !.since = epoch,
                             !.expected = IF p \in EventLoop THEN Blind ELSE 0,
                             !.request = [NoRequest EXCEPT !.actor = actor,
                                                           !.email = actor]]]
        BY <1>2 DEF BeginCreate
    <2>2. NoRequest \in Request
        BY DEF Idle, Process
    <2>3. proc' \in [Procs -> Process]
        BY <2>1, <2>2 DEF Process, Steps, Request
    <2> QED
        BY <1>2, <2>3 DEF BeginCreate
<1>3. ASSUME NEW p \in Procs, Decide(p)
      PROVE  TypeOK'
    <2>1. CurrentVersion(rows) \in Nat /\ proc[p].request \in Request
            /\ proc[p].since \in Nat
        BY DEF CurrentVersion, Stream, Process
    <2>2. EventOf(proc[p].request, CurrentVersion(rows), proc[p].since) \in Event
        BY <2>1, EventOfType
    <2>3. <<EventOf(proc[p].request, CurrentVersion(rows), proc[p].since)>>
            \in Seq(Event)
        BY <2>2
    <2> QED
        BY <1>3, <2>3 DEF Decide, Process, Steps
<1>4. ASSUME NEW p \in Procs, Refuse(p)
      PROVE  TypeOK'
    BY <1>4 DEF Refuse
<1>5. ASSUME NEW p \in Procs, AppendRead(p)
      PROVE  TypeOK'
    <2>1. CurrentVersion(rows) \in Nat
        BY DEF CurrentVersion, Stream
    <2>2. CASE proc' = [proc EXCEPT ![p].pc = "insert",
                                    ![p].read = CurrentVersion(rows)]
        <3>1. proc' \in [Procs -> Process]
            BY <2>1, <2>2 DEF Process, Steps
        <3> QED
            BY <1>5, <3>1 DEF AppendRead
    <2>3. CASE proc' = [proc EXCEPT ![p] = Conflict(p, proc[p].expected)]
        <3>1. Conflict(p, proc[p].expected) \in Process
            BY DEF Conflict, Process, Steps
        <3> QED
            BY <1>5, <2>3, <3>1 DEF AppendRead
    <2> QED
        BY <1>5, <2>2, <2>3 DEF AppendRead
<1>6. ASSUME NEW p \in Procs, AppendInsert(p)
      PROVE  TypeOK'
    <2>1. proc[p].read \in Nat /\ proc[p].batch \in Seq(Event)
        BY DEF Process
    <2>2. rows' \in Stream
        BY <1>6, <2>1, WithBatchRows DEF AppendInsert
    <2>3. proc' \in [Procs -> Process]
        BY <1>6 DEF AppendInsert, Process, Steps
    <2> QED
        BY <1>6, <2>2, <2>3 DEF AppendInsert
<1>7. ASSUME NEW p \in Procs, AppendConflict(p)
      PROVE  TypeOK'
    BY <1>7 DEF AppendConflict, Conflict, Process, Steps
<1>8. ASSUME NEW p \in Procs, Publish(p) \/ Crash(p)
      PROVE  TypeOK'
    BY <1>8 DEF Publish, Crash
<1>9. ASSUME NEW p \in Procs, BeginSeed(p)
      PROVE  TypeOK'
    <2>1. PICK force \in BOOLEAN :
            proc' = [proc EXCEPT ![p] = [Idle EXCEPT !.pc = "seed", !.force = force]]
        BY <1>9 DEF BeginSeed
    <2>2. proc' \in [Procs -> Process]
        BY <2>1 DEF Process, Steps
    <2> QED
        BY <1>9, <2>2 DEF BeginSeed
<1>10. ASSUME NEW p \in Procs, SeedCheck(p)
      PROVE  TypeOK'
    <2>1. SeedBatch(epoch) \in Seq(Event)
        BY SeedBatchType
    <2> QED
        BY <1>10, <2>1 DEF SeedCheck, Process, Steps
<1>11. ASSUME NEW p \in Procs, SeedDelete(p)
      PROVE  TypeOK'
    <2>1. epoch + 1 \in Nat /\ SeedBatch(epoch + 1) \in Seq(Event)
        BY SeedBatchType
    <2>2. <<>> \in Stream
        BY DEF Stream
    <2> QED
        BY <1>11, <2>1, <2>2 DEF SeedDelete, Process, Steps
<1>12. CASE UNCHANGED vars
    BY <1>12 DEF vars
<1> QED
    BY <1>1, <1>2, <1>3, <1>4, <1>5, <1>6, <1>7, <1>8, <1>9, <1>10, <1>11, <1>12
       DEF Next

\* Every reachable state is well typed.
THEOREM TypeCorrect == Spec => []TypeOK
<1>1. Init => TypeOK
    <2>1. <<>> \in Stream
        BY DEF Stream
    <2> QED
        BY <2>1, IdleType DEF Init, TypeOK
<1> QED
    BY <1>1, TypeStep, PTL DEF Spec

-----------------------------------------------------------------------------
(***************************************************************************)
(* The inductive invariant is preserved.                                   *)
(***************************************************************************)

\* A step of p that leaves the stream alone concerns p only.
LEMMA LocalStep ==
    ASSUME IInv, TypeOK', NEW p \in Procs,
           UNCHANGED <<rows, epoch>>,
           \A q \in Procs \ {p} : proc'[q] = proc[q],
           KnownVersions(p)',
           Undisturbed => PendingDecision(p)',
           ~ForceSeed => ~proc'[p].force /\ proc'[p].pc # "delete"
    PROVE  IInv'
<1>1. RowsKnown'
    BY DEF IInv, RowsKnown
<1>2. OneIncarnation'
    BY DEF IInv, OneIncarnation
<1>3. ASSUME NEW q \in Procs
      PROVE  KnownVersions(q)'
    <2>1. CASE q = p
        BY <2>1
    <2>2. CASE q # p
        BY <2>2 DEF IInv, KnownVersions, CommandBatch, Expects, SeedingBatch
    <2> QED
        BY <2>1, <2>2
<1>4. Undisturbed' <=> Undisturbed
    BY DEF Undisturbed
<1>5. ASSUME Undisturbed, NEW q \in Procs
      PROVE  PendingDecision(q)'
    <2>1. CASE q = p
        BY <1>5, <2>1
    <2>2. CASE q # p
        BY <1>5, <2>2 DEF IInv, PendingDecision, DecidedOnBasis
    <2> QED
        BY <2>1, <2>2
<1>6. ASSUME Undisturbed, NEW v \in 1 .. Len(rows')
      PROVE  StoredDecision(v)'
    BY <1>6 DEF IInv, StoredDecision, DecidedOnBasis
<1> QED
    BY <1>1, <1>2, <1>3, <1>4, <1>5, <1>6 DEF IInv

\* A process that holds neither a version nor a batch satisfies its part.
LEMMA AtRest ==
    ASSUME NEW p \in Procs, proc'[p].pc \in {"idle", "seed", "delete"},
           proc'[p].since <= epoch'
    PROVE  KnownVersions(p)' /\ PendingDecision(p)'
BY DEF KnownVersions, PendingDecision

LEMMA IdleAtRest ==
    ASSUME TypeOK, NEW p \in Procs, proc'[p] = Idle, epoch' = epoch
    PROVE  KnownVersions(p)' /\ PendingDecision(p)'
<1>1. proc'[p].pc = "idle" /\ proc'[p].since = 0 /\ 0 <= epoch'
    BY DEF Idle, TypeOK
<1> QED
    BY <1>1, AtRest

LEMMA CreateIsSpecial == "project.create" \notin ExistingCommands
BY DEF ExistingCommands, AnnotationCommands, PlanCommands, ApplyCommands,
       GenerateCommands, SimulateCommands, ApprovalCommands, MembershipCommands

\* The steps that leave the stream alone.
LEMMA BeginStep ==
    ASSUME IInv, TypeOK', NEW p \in Procs,
           BeginCommand(p) \/ BeginCreate(p) \/ BeginSeed(p)
    PROVE  IInv'
<1> USE CommandBusAssumption DEF TypeOK, IInv
<1>1. CASE BeginCommand(p)
    <2>1. PICK command \in CommandTypes, actor \in Users, email \in Users,
               role \in OfferedRoles :
            proc' = [proc EXCEPT ![p] =
                [Idle EXCEPT !.pc = "load", !.expected = CurrentVersion(rows),
                             !.since = epoch,
                             !.request = [command |-> command, actor |-> actor,
                                          email |-> email, role |-> role]]]
        BY <1>1 DEF BeginCommand
    <2>2. /\ proc'[p].pc = "load" /\ proc'[p].expected = Len(rows)
          /\ proc'[p].since = epoch /\ proc'[p].force = FALSE
          /\ proc'[p].request.command = command
        BY <2>1 DEF Idle, CurrentVersion
    <2>3. UNCHANGED <<rows, epoch>> /\ \A q \in Procs \ {p} : proc'[q] = proc[q]
        BY <1>1, <2>1 DEF BeginCommand
    <2>4. Len(rows) \in Nat
        BY DEF Stream
    <2>5. Expects(p, proc[p].request.command)'
        BY <2>2, <2>4, CreateIsSpecial DEF Expects
    <2>6. KnownVersions(p)' /\ PendingDecision(p)'
        BY <2>2, <2>3, <2>4, <2>5 DEF KnownVersions, PendingDecision
    <2> QED
        BY <2>2, <2>3, <2>6, LocalStep
<1>2. CASE BeginCreate(p)
    <2>1. PICK actor \in Users :
            proc' = [proc EXCEPT ![p] =
                [Idle EXCEPT !.pc = "load", !.since = epoch,
                             !.expected = IF p \in EventLoop THEN Blind ELSE 0,
                             !.request = [NoRequest EXCEPT !.actor = actor,
                                                           !.email = actor]]]
        BY <1>2 DEF BeginCreate
    <2>2. /\ proc'[p].pc = "load"
          /\ proc'[p].expected = IF p \in EventLoop THEN Blind ELSE 0
          /\ proc'[p].since = epoch /\ proc'[p].force = FALSE
          /\ proc'[p].request.command = "project.create"
        BY <2>1 DEF Idle, NoRequest
    <2>3. UNCHANGED <<rows, epoch>> /\ \A q \in Procs \ {p} : proc'[q] = proc[q]
        BY <1>2, <2>1 DEF BeginCreate
    <2>4. Len(rows) \in Nat
        BY DEF Stream
    <2>5. Expects(p, proc[p].request.command)'
        BY <2>2 DEF Expects
    <2>6. KnownVersions(p)' /\ PendingDecision(p)'
        BY <2>2, <2>3, <2>4, <2>5 DEF KnownVersions, PendingDecision
    <2> QED
        BY <2>2, <2>3, <2>6, LocalStep
<1>3. CASE BeginSeed(p)
    <2>1. PICK force \in BOOLEAN :
            /\ force => ForceSeed
            /\ proc' = [proc EXCEPT ![p] =
                           [Idle EXCEPT !.pc = "seed", !.force = force]]
        BY <1>3 DEF BeginSeed
    <2>2. proc'[p].pc = "seed" /\ proc'[p].since = 0 /\ proc'[p].force = force
        BY <2>1 DEF Idle
    <2>3. UNCHANGED <<rows, epoch>> /\ \A q \in Procs \ {p} : proc'[q] = proc[q]
        BY <1>3, <2>1 DEF BeginSeed
    <2>4. KnownVersions(p)' /\ PendingDecision(p)'
        BY <2>2, <2>3, AtRest
    <2> QED
        BY <2>1, <2>2, <2>3, <2>4, LocalStep
<1> QED
    BY <1>1, <1>2, <1>3

LEMMA EndStep ==
    ASSUME IInv, TypeOK', NEW p \in Procs,
           Refuse(p) \/ Publish(p) \/ Crash(p)
    PROVE  IInv'
<1>1. proc' = [proc EXCEPT ![p] = Idle] /\ UNCHANGED <<rows, epoch>>
    BY DEF Refuse, Publish, Crash
<1>2. proc'[p] = Idle /\ \A q \in Procs \ {p} : proc'[q] = proc[q]
    BY <1>1 DEF IInv, TypeOK
<1>3. KnownVersions(p)' /\ PendingDecision(p)'
    BY <1>1, <1>2, IdleAtRest DEF IInv
<1>4. ~proc'[p].force /\ proc'[p].pc # "delete"
    BY <1>2 DEF Idle
<1> QED
    BY <1>1, <1>2, <1>3, <1>4, LocalStep

LEMMA DecideStep ==
    ASSUME IInv, TypeOK', NEW p \in Procs, Decide(p)
    PROVE  IInv'
<1> USE CommandBusAssumption DEF TypeOK, IInv
<1> DEFINE n     == Len(rows)
           event == EventOf(proc[p].request, n, proc[p].since)
<1>1. /\ proc[p].pc = "load" /\ Accepted(proc[p].request)
      /\ proc' = [proc EXCEPT ![p].pc = "read", ![p].batch = <<event>>]
      /\ UNCHANGED <<rows, epoch>>
    BY DEF Decide, CurrentVersion
<1>2. /\ proc'[p].pc = "read" /\ proc'[p].batch = <<event>>
      /\ proc'[p].expected = proc[p].expected
      /\ proc'[p].since = proc[p].since /\ proc'[p].force = proc[p].force
      /\ \A q \in Procs \ {p} : proc'[q] = proc[q]
    BY <1>1 DEF Process
<1>3. /\ n \in Nat /\ proc[p].expected \in Nat \cup {Blind}
      /\ proc[p].since \in Nat
    BY DEF Stream, Process
<1>4. /\ event.origin = "command" /\ event.since = proc[p].since
      /\ event.command = proc[p].request.command
      /\ event.actor = proc[p].request.actor
      /\ event.email = proc[p].request.email /\ event.basis = n
      /\ event.command = "change.apply" =>
            event.authority = RoleAt(rows, event.actor, n)
      /\ event.command = "project.create" =>
            event.members = [NoMembers EXCEPT ![event.actor] = "creator"]
    BY DEF EventOf
<1>5. KnownVersions(p)
    OBVIOUS
<1>6. KnownVersions(p)'
    <2>1. CommandBatch(p)'
        <3>1. Expects(p, event.command)
            BY <1>1, <1>4, <1>5 DEF KnownVersions
        <3> HIDE DEF event
        <3>2. Len(proc'[p].batch) = 1 /\ proc'[p].batch[1] = event
            BY <1>2
        <3>3. Expects(p, proc[p].batch[1].command)'
            BY <1>2, <3>1, <3>2 DEF Expects
        <3> QED
            BY <1>2, <1>4, <3>2, <3>3 DEF CommandBatch
    <2> HIDE DEF event
    <2> QED
        BY <1>1, <1>2, <1>3, <1>5, <2>1 DEF KnownVersions
<1>7. PendingDecision(p)'
    <2> SUFFICES ASSUME proc'[p].since = epoch', IsDecision(event)
                 PROVE  /\ DecidedOnBasis(proc[p].batch[1])'
                        /\ event.basis <= Len(rows')
                        /\ proc'[p].expected <= event.basis
        <3> HIDE DEF event
        <3> QED BY <1>2 DEF PendingDecision, IsDecision
    <2>1. proc[p].request.command # "project.create"
        BY <1>4 DEF IsDecision
    <2>2. /\ HasPermission(RoleAt(rows, event.actor, n),
                           RequiredPermission(event.command))
          /\ event.command = "membership.revoke" => event.email # event.actor
        BY <1>1, <1>4, <2>1 DEF Accepted, CurrentVersion
    <2>3. DecidedOnBasis(proc[p].batch[1])'
        <3> HIDE DEF event
        <3> QED BY <1>1, <1>2, <1>4, <2>2 DEF DecidedOnBasis
    <2>4. proc[p].expected # Blind /\ proc[p].expected <= n
        BY <1>1, <1>2, <1>5, <2>1 DEF KnownVersions, Expects
    <2> HIDE DEF event
    <2> QED
        BY <1>1, <1>2, <1>3, <1>4, <2>3, <2>4
<1>8. ~ForceSeed => ~proc'[p].force /\ proc'[p].pc # "delete"
    BY <1>2 DEF OneIncarnation
<1> QED
    BY <1>1, <1>2, <1>6, <1>7, <1>8, LocalStep

LEMMA AppendReadStep ==
    ASSUME IInv, TypeOK', NEW p \in Procs, AppendRead(p)
    PROVE  IInv'
<1> USE CommandBusAssumption DEF TypeOK, IInv
<1> DEFINE n == Len(rows)
<1>1. /\ proc[p].pc = "read" /\ UNCHANGED <<rows, epoch>>
      /\ KnownVersions(p)
      /\ CommandBatch(p) \/ SeedingBatch(p)
    BY DEF AppendRead, KnownVersions
<1>2. /\ n \in Nat /\ proc[p].expected \in Nat \cup {Blind}
      /\ proc[p].since \in Nat
    BY DEF Stream, Process
<1>3. CASE /\ proc[p].expected \in {Blind, n}
           /\ proc' = [proc EXCEPT ![p].pc = "insert", ![p].read = n]
    <2>1. /\ proc'[p].pc = "insert" /\ proc'[p].read = n
          /\ proc'[p].batch = proc[p].batch
          /\ proc'[p].expected = proc[p].expected
          /\ proc'[p].since = proc[p].since /\ proc'[p].force = proc[p].force
          /\ \A q \in Procs \ {p} : proc'[q] = proc[q]
        BY <1>3 DEF Process
    <2>2. CommandBatch(p)' \/ SeedingBatch(p)'
        BY <1>1, <2>1 DEF CommandBatch, Expects, SeedingBatch, SeedBatch
    <2>3. KnownVersions(p)'
        BY <1>1, <1>2, <1>3, <2>1, <2>2 DEF KnownVersions
    <2>4. ASSUME Undisturbed
          PROVE  PendingDecision(p)'
        <3> SUFFICES ASSUME proc'[p].since = epoch', IsDecision(proc[p].batch[1])'
                     PROVE  /\ DecidedOnBasis(proc[p].batch[1])'
                            /\ proc'[p].batch[1].basis = n
                            /\ proc'[p].expected = n
            BY <1>1, <1>2, <2>1 DEF PendingDecision
        <3>1. /\ DecidedOnBasis(proc[p].batch[1])
              /\ proc[p].batch[1].basis <= n
              /\ proc[p].expected <= proc[p].batch[1].basis
            BY <1>1, <2>1, <2>4 DEF PendingDecision, IsDecision
        <3>2. DecidedOnBasis(proc[p].batch[1])'
            BY <1>1, <2>1, <3>1 DEF DecidedOnBasis
        <3>3. CommandBatch(p)
            BY <1>1, <2>1 DEF SeedingBatch, SeedBatch, IsDecision
        <3>4. proc[p].expected = n
            BY <1>1, <1>3, <2>1, <3>3 DEF CommandBatch, Expects, IsDecision
        <3>5. proc[p].batch[1].basis \in Nat
            <4>1. proc[p].batch \in Seq(Event) /\ Len(proc[p].batch) = 1
                BY <3>3 DEF CommandBatch, Process
            <4>2. proc[p].batch[1] \in Event
                BY <4>1
            <4> QED
                BY <4>2 DEF Event
        <3> QED
            BY <1>2, <2>1, <3>1, <3>2, <3>4, <3>5
    <2> QED
        BY <1>1, <2>1, <2>3, <2>4, LocalStep DEF OneIncarnation
<1>4. CASE /\ proc[p].expected \notin {Blind, n}
           /\ proc' = [proc EXCEPT ![p] = Conflict(p, proc[p].expected)]
    <2>1. /\ proc'[p].pc = "conflict" /\ proc'[p].expected = proc[p].expected
          /\ proc'[p].since = proc[p].since /\ proc'[p].force = FALSE
          /\ \A q \in Procs \ {p} : proc'[q] = proc[q]
        BY <1>4 DEF Process, Conflict, Idle
    <2>2. KnownVersions(p)' /\ PendingDecision(p)'
        BY <1>1, <1>2, <1>4, <2>1 DEF KnownVersions, PendingDecision
    <2> QED
        BY <1>1, <2>1, <2>2, LocalStep
<1> QED
    BY <1>3, <1>4 DEF AppendRead, CurrentVersion

LEMMA AppendConflictStep ==
    ASSUME IInv, TypeOK', NEW p \in Procs, AppendConflict(p)
    PROVE  IInv'
<1> USE CommandBusAssumption DEF TypeOK, IInv
<1>1. /\ proc[p].pc = "insert" /\ UNCHANGED <<rows, epoch>> /\ KnownVersions(p)
      /\ ~VersionsFree(rows, proc[p].read, proc[p].batch)
    BY DEF AppendConflict
<1>2. /\ Len(rows) \in Nat /\ proc[p].read \in Nat /\ proc[p].since \in Nat
      /\ Len(proc[p].batch) \in Nat
    BY DEF Stream, Process
<1>3. /\ proc'[p].pc = "conflict" /\ proc'[p].expected = proc[p].read
      /\ proc'[p].since = proc[p].since /\ proc'[p].force = FALSE
      /\ \A q \in Procs \ {p} : proc'[q] = proc[q]
    BY DEF AppendConflict, Conflict, Idle
<1>4. proc[p].read < Len(rows)
    BY <1>1, <1>2 DEF VersionsFree, BatchVersions, HasRow
<1>5. KnownVersions(p)' /\ PendingDecision(p)'
    BY <1>1, <1>2, <1>3, <1>4 DEF KnownVersions, PendingDecision
<1> QED
    BY <1>1, <1>3, <1>5, LocalStep

LEMMA SeedCheckStep ==
    ASSUME IInv, TypeOK', NEW p \in Procs, SeedCheck(p)
    PROVE  IInv'
<1> USE CommandBusAssumption DEF TypeOK, IInv
<1>1. /\ proc[p].pc = "seed" /\ UNCHANGED <<rows, epoch>>
      /\ proc' = [proc EXCEPT ![p] =
            IF CurrentVersion(rows) = 0
            THEN [@ EXCEPT !.pc = "read", !.expected = 0, !.since = epoch,
                           !.batch = SeedBatch(epoch)]
            ELSE IF @.force THEN [@ EXCEPT !.pc = "delete"] ELSE Idle]
      /\ KnownVersions(p)
    BY DEF SeedCheck
<1>2. \A q \in Procs \ {p} : proc'[q] = proc[q]
    BY <1>1
<1>3. Len(rows) \in Nat /\ epoch \in Nat
    BY DEF Stream
<1>4. CASE CurrentVersion(rows) = 0
    <2>1. /\ proc'[p].pc = "read" /\ proc'[p].expected = 0
          /\ proc'[p].since = epoch /\ proc'[p].batch = SeedBatch(epoch)
          /\ proc'[p].force = proc[p].force
        BY <1>1, <1>4 DEF Process
    <2>2. SeedingBatch(p)' /\ ~IsDecision(proc[p].batch[1])'
        BY <1>1, <2>1 DEF SeedingBatch, SeedBatch, IsDecision
    <2>3. KnownVersions(p)' /\ PendingDecision(p)'
        BY <1>1, <1>3, <2>1, <2>2 DEF KnownVersions, PendingDecision
    <2> QED
        BY <1>1, <1>2, <2>1, <2>3, LocalStep DEF OneIncarnation
<1>5. CASE CurrentVersion(rows) # 0 /\ proc[p].force
    <2>1. /\ proc'[p].pc = "delete" /\ proc'[p].since = proc[p].since
          /\ proc'[p].force = proc[p].force
        BY <1>1, <1>5 DEF Process
    <2>2. proc'[p].since <= epoch'
        BY <1>1, <2>1 DEF KnownVersions
    <2>3. KnownVersions(p)' /\ PendingDecision(p)'
        BY <2>1, <2>2, AtRest
    <2> QED
        BY <1>1, <1>2, <1>5, <2>1, <2>3, LocalStep DEF OneIncarnation
<1>6. CASE CurrentVersion(rows) # 0 /\ ~proc[p].force
    <2>1. proc'[p] = Idle
        BY <1>1, <1>6
    <2>2. KnownVersions(p)' /\ PendingDecision(p)'
        BY <1>1, <2>1, IdleAtRest
    <2>3. ~proc'[p].force /\ proc'[p].pc # "delete"
        BY <2>1 DEF Idle
    <2> QED
        BY <1>1, <1>2, <2>2, <2>3, LocalStep
<1> QED
    BY <1>4, <1>5, <1>6 DEF Process

\* A decision stays the same decision when rows are stored behind its basis.
LEMMA DecisionPrefix ==
    ASSUME NEW s \in Stream, NEW t \in Stream, NEW event \in Event,
           event.basis <= Len(s), Len(s) <= Len(t),
           \A w \in 1 .. Len(s) : t[w] = s[w]
    PROVE  RoleAt(t, event.actor, event.basis) = RoleAt(s, event.actor, event.basis)
<1>1. /\ event.basis \in Nat /\ event.actor \in Users
      /\ Len(s) \in Nat /\ Len(t) \in Nat
    BY DEF Event, Stream
<1>2. \A w \in 1 .. event.basis : t[w] = s[w]
    BY <1>1
<1> QED
    BY <1>1, <1>2, RoleAtPrefix

\* What is inserted, and behind what: in an undisturbed stream the batch
\* stands directly behind the rows its writer knew.
LEMMA InsertedBatch ==
    ASSUME IInv, TypeOK', NEW p \in Procs, AppendInsert(p)
    PROVE  LET n == Len(rows)
               b == proc[p].batch
           IN  /\ Len(b) \in Nat \ {0}
               /\ \A i \in 1 .. Len(b) :
                    /\ b[i] \in Event /\ b[i] # NoRow
                    /\ b[i].since = proc[p].since
               /\ Len(rows') >= n
               /\ \A v \in 1 .. Len(rows') : rows'[v] # NoRow =>
                    /\ rows'[v].since <= epoch
                    /\ rows'[v].origin = "seed" =>
                          rows'[v].command \notin MembershipCommands
               /\ (\A v \in 1 .. Len(rows') : rows'[v] # NoRow => rows'[v].since = epoch)
                    => /\ Undisturbed /\ proc[p].since = epoch /\ proc[p].read = n
                       /\ Len(rows') = n + Len(b)
                       /\ \A v \in 1 .. n : rows'[v] = rows[v]
                       /\ \A i \in 1 .. Len(b) : rows'[n + i] = b[i]
<1> USE CommandBusAssumption, NoRowAssumption
<1> DEFINE n == Len(rows)
           r == proc[p].read
           b == proc[p].batch
<1>1. /\ proc[p].pc = "insert" /\ VersionsFree(rows, r, b)
      /\ rows' = WithBatch(rows, r, b)
      /\ KnownVersions(p)
      /\ CommandBatch(p) \/ SeedingBatch(p)
    BY DEF AppendInsert, IInv, KnownVersions
<1>2. /\ n \in Nat /\ r \in Nat /\ b \in Seq(Event) /\ Len(b) \in Nat
      /\ rows \in Stream /\ rows' \in Stream /\ epoch \in Nat /\ proc[p].since \in Nat
    BY DEF IInv, TypeOK, Process, Stream
<1>3. /\ Len(rows') \in Nat /\ Len(rows') >= n /\ Len(rows') >= r + Len(b)
      /\ Len(rows') = n \/ Len(rows') = r + Len(b)
      /\ \A v \in 1 .. Len(rows') :
            rows'[v] = IF v \in BatchVersions(r, b) THEN b[v - r]
                       ELSE IF v <= n THEN rows[v] ELSE NoRow
    BY <1>1, <1>2, WithBatchRows
<1>4. /\ Len(b) # 0
      /\ \A i \in 1 .. Len(b) :
            /\ b[i].since = proc[p].since
            /\ b[i].origin = "seed" => b[i].command \notin MembershipCommands
    <2>1. CASE CommandBatch(p)
        BY <2>1 DEF CommandBatch
    <2>2. CASE SeedingBatch(p)
        BY <2>2 DEF SeedingBatch, SeedBatch, MembershipCommands
    <2> QED
        BY <1>1, <2>1, <2>2
<1>5. \A i \in 1 .. Len(b) : b[i] \in Event /\ b[i] # NoRow
    BY <1>2
<1>6. \A v \in 1 .. n : rows[v] # NoRow =>
            v \notin BatchVersions(r, b) /\ rows'[v] = rows[v]
    BY <1>1, <1>2, <1>3 DEF VersionsFree, HasRow
<1>7. \A i \in 1 .. Len(b) :
            r + i \in BatchVersions(r, b) /\ r + i \in 1 .. Len(rows')
                /\ rows'[r + i] = b[i]
    <2> HIDE DEF n, r, b
    <2> SUFFICES ASSUME NEW i \in 1 .. Len(b)
                 PROVE  /\ r + i \in BatchVersions(r, b)
                        /\ r + i \in 1 .. Len(rows') /\ rows'[r + i] = b[i]
        OBVIOUS
    <2>1. r + i \in BatchVersions(r, b) /\ r + i \in 1 .. Len(rows')
        BY <1>2, <1>3 DEF BatchVersions
    <2>2. (r + i) - r = i
        BY <1>2
    <2> QED
        BY <1>3, <2>1, <2>2
<1>8. ASSUME NEW v \in 1 .. Len(rows'), rows'[v] # NoRow
      PROVE  /\ rows'[v].since <= epoch
             /\ rows'[v].origin = "seed" =>
                   rows'[v].command \notin MembershipCommands
    <2>1. CASE v \in BatchVersions(r, b)
        <3>1. v - r \in 1 .. Len(b) /\ rows'[v] = b[v - r]
            <4> HIDE DEF n, r, b
            <4> QED BY <1>2, <1>3, <2>1 DEF BatchVersions
        <3>2. proc[p].since <= epoch
            BY <1>1 DEF KnownVersions
        <3> QED
            BY <1>4, <3>1, <3>2
    <2>2. CASE v \notin BatchVersions(r, b)
        <3>1. v \in 1 .. n /\ rows'[v] = rows[v]
            BY <1>2, <1>3, <1>8, <2>2
        <3> QED
            BY <1>8, <3>1 DEF IInv, RowsKnown
    <2> QED
        BY <2>1, <2>2
<1>9. ASSUME \A v \in 1 .. Len(rows') : rows'[v] # NoRow => rows'[v].since = epoch
      PROVE  /\ Undisturbed /\ proc[p].since = epoch /\ r = n
             /\ Len(rows') = n + Len(b)
             /\ \A v \in 1 .. n : rows'[v] = rows[v]
             /\ \A i \in 1 .. Len(b) : rows'[n + i] = b[i]
    <2>1. 1 \in 1 .. Len(b)
        BY <1>2, <1>4
    <2>2. proc[p].since = epoch
        BY <1>4, <1>5, <1>7, <1>9, <2>1
    <2>3. r <= n
        BY <1>1, <2>2 DEF KnownVersions
    <2>4. \A v \in 1 .. n : rows[v] # NoRow => rows[v].since = epoch
        BY <1>2, <1>3, <1>6, <1>9
    <2>5. \A v \in 1 .. n : rows[v] # NoRow
        BY <2>4 DEF IInv, RowsKnown
    <2>6. Undisturbed
        BY <2>4, <2>5 DEF Undisturbed
    <2>7. r = n
        <3>1. r + 1 \in BatchVersions(r, b)
            BY <1>7, <2>1
        <3>2. r + 1 \notin 1 .. n
            BY <1>6, <2>5, <3>1
        <3> QED
            BY <1>2, <2>3, <3>2
    <2> QED
        BY <1>2, <1>3, <1>6, <1>7, <2>2, <2>5, <2>6, <2>7
<1> QED
    BY <1>2, <1>3, <1>4, <1>5, <1>8, <1>9

LEMMA InsertStep ==
    ASSUME IInv, TypeOK', NEW p \in Procs, AppendInsert(p)
    PROVE  IInv'
<1> DEFINE n == Len(rows)
           b == proc[p].batch
           Current == \A v \in 1 .. Len(rows') :
                            rows'[v] # NoRow => rows'[v].since = epoch
<1>1. /\ proc[p].pc = "insert" /\ epoch' = epoch
      /\ proc'[p].pc = "publish" /\ proc'[p].since = proc[p].since
      /\ proc'[p].force = proc[p].force
      /\ \A q \in Procs \ {p} : proc'[q] = proc[q]
    BY DEF AppendInsert, IInv, TypeOK, Process
<1>2. /\ n \in Nat /\ Len(rows') \in Nat /\ Len(b) \in Nat \ {0}
      /\ rows \in Stream /\ rows' \in Stream /\ epoch \in Nat
      /\ b \in Seq(Event)
    BY InsertedBatch DEF IInv, TypeOK, Stream, Process
<1>3. /\ \A i \in 1 .. Len(b) : b[i] \in Event /\ b[i] # NoRow
                                /\ b[i].since = proc[p].since
      /\ Len(rows') >= n
      /\ \A v \in 1 .. Len(rows') : rows'[v] # NoRow =>
            /\ rows'[v].since <= epoch
            /\ rows'[v].origin = "seed" => rows'[v].command \notin MembershipCommands
    BY InsertedBatch
<1>4. Current => /\ Undisturbed /\ proc[p].since = epoch /\ proc[p].read = n
                 /\ Len(rows') = n + Len(b)
                 /\ \A v \in 1 .. n : rows'[v] = rows[v]
                 /\ \A i \in 1 .. Len(b) : rows'[n + i] = b[i]
    BY InsertedBatch
<1>5. Undisturbed' => Current
    BY <1>1 DEF Undisturbed
<1> HIDE DEF n, b, Current
<1>6. ASSUME Current, NEW v \in 1 .. Len(rows')
      PROVE  \/ v \in 1 .. n /\ rows'[v] = rows[v]
             \/ \E i \in 1 .. Len(b) : v = n + i /\ rows'[v] = b[i]
    <2>1. CASE v <= n
        BY <1>2, <1>4, <1>6, <2>1
    <2>2. CASE v > n
        <3>1. v - n \in 1 .. Len(b) /\ v = n + (v - n)
            BY <1>2, <1>4, <1>6, <2>2
        <3> QED
            BY <1>4, <1>6, <3>1
    <2> QED
        BY <1>2, <2>1, <2>2
<1>7. RowsKnown'
    <2>1. ASSUME Current, NEW v \in 1 .. Len(rows')
          PROVE  rows'[v] # NoRow
        BY <1>3, <1>4, <1>6, <2>1 DEF Undisturbed, n
    <2> QED
        BY <1>1, <1>3, <2>1 DEF RowsKnown, Current
<1>8. OneIncarnation'
    BY <1>1 DEF IInv, OneIncarnation
<1>9. ASSUME NEW q \in Procs
      PROVE  KnownVersions(q)'
    <2>1. KnownVersions(q)
        BY DEF IInv
    <2>2. CASE q = p
        BY <1>1, <2>1, <2>2 DEF KnownVersions
    <2>3. CASE q # p
        <3>1. proc'[q] = proc[q] /\ proc[q] \in Process
            BY <1>1, <2>3 DEF IInv, TypeOK
        <3>2. CommandBatch(q) \/ SeedingBatch(q)
                => CommandBatch(q)' \/ SeedingBatch(q)'
            BY <3>1 DEF CommandBatch, Expects, SeedingBatch, SeedBatch
        <3>3. ASSUME proc[q].since = epoch
              PROVE  /\ proc[q].pc \in {"load", "read"} =>
                           (proc[q].expected # Blind => proc[q].expected <= Len(rows'))
                     /\ proc[q].pc = "insert" => proc[q].read <= Len(rows')
                     /\ proc[q].pc = "conflict" => proc[q].expected < Len(rows')
            <4>1. /\ proc[q].pc \in {"load", "read"} =>
                           (proc[q].expected # Blind => proc[q].expected <= n)
                  /\ proc[q].pc = "insert" => proc[q].read <= n
                  /\ proc[q].pc = "conflict" => proc[q].expected < n
                BY <2>1, <3>3 DEF KnownVersions, n
            <4>2. proc[q].read \in Nat /\ proc[q].expected \in Nat \cup {Blind}
                BY <3>1 DEF Process
            <4>3. proc[q].pc = "conflict" => proc[q].expected \in Nat
                BY <2>1, <4>2 DEF KnownVersions
            <4> QED
                BY <1>2, <1>3, <4>1, <4>2, <4>3
        <3>4. Expects(q, proc[q].request.command)
                => Expects(q, proc[q].request.command)'
            BY <3>1 DEF Expects
        <3> QED
            BY <1>1, <2>1, <3>1, <3>2, <3>3, <3>4 DEF KnownVersions
    <2> QED
        BY <2>2, <2>3
<1>10. ASSUME Current, NEW event \in Event, event.basis <= n
       PROVE  RoleAt(rows', event.actor, event.basis)
                = RoleAt(rows, event.actor, event.basis)
    <2>1. n <= Len(rows') /\ \A w \in 1 .. n : rows'[w] = rows[w]
        BY <1>2, <1>3, <1>4, <1>10
    <2> QED
        BY <1>2, <1>10, <2>1, DecisionPrefix DEF n
<1>11. ASSUME Undisturbed', NEW q \in Procs
       PROVE  PendingDecision(q)'
    <2>1. CASE q = p
        BY <1>1, <2>1 DEF PendingDecision
    <2>2. CASE q # p
        <3> SUFFICES ASSUME proc[q].since = epoch, proc[q].pc \in {"read", "insert"},
                            IsDecision(proc[q].batch[1])
                     PROVE  /\ DecidedOnBasis(proc[q].batch[1])'
                            /\ proc[q].batch[1].basis <= Len(rows')
                            /\ proc[q].expected <= proc[q].batch[1].basis
                            /\ proc[q].pc = "insert" =>
                                  proc[q].batch[1].basis = proc[q].read
            BY <1>1, <2>2 DEF PendingDecision, IsDecision
        <3>1. PendingDecision(q) /\ KnownVersions(q)
            BY <1>4, <1>5, <1>11 DEF IInv
        <3>2. /\ DecidedOnBasis(proc[q].batch[1])
              /\ proc[q].batch[1].basis <= n
              /\ proc[q].expected <= proc[q].batch[1].basis
              /\ proc[q].pc = "insert" => proc[q].batch[1].basis = proc[q].read
            BY <3>1 DEF PendingDecision, n
        <3>3. proc[q].batch[1] \in Event
            <4>1. CommandBatch(q) \/ SeedingBatch(q)
                BY <3>1 DEF KnownVersions
            <4>2. proc[q].batch \in Seq(Event)
                BY DEF IInv, TypeOK, Process
            <4>3. CASE CommandBatch(q)
                BY <4>2, <4>3 DEF CommandBatch
            <4>4. CASE SeedingBatch(q)
                BY <4>4 DEF SeedingBatch, SeedBatch, IsDecision
            <4> QED
                BY <4>1, <4>3, <4>4
        <3>4. DecidedOnBasis(proc[q].batch[1])'
            <4>1. proc'[q].batch[1] = proc[q].batch[1]
                BY <1>1, <2>2
            <4>2. RoleAt(rows', proc[q].batch[1].actor, proc[q].batch[1].basis)
                    = RoleAt(rows, proc[q].batch[1].actor, proc[q].batch[1].basis)
                BY <1>5, <1>10, <1>11, <3>2, <3>3
            <4> QED
                BY <3>2, <4>1, <4>2 DEF DecidedOnBasis
        <3>5. proc[q].batch[1].basis \in Nat
            BY <3>3 DEF Event
        <3> QED
            BY <1>2, <1>3, <3>2, <3>4, <3>5
    <2> QED
        BY <2>1, <2>2
<1>12. ASSUME Undisturbed', NEW v \in 1 .. Len(rows')
       PROVE  StoredDecision(v)'
    <2> SUFFICES ASSUME IsDecision(rows'[v])
                 PROVE  rows'[v].basis = v - 1 /\ DecidedOnBasis(rows[v])'
        BY DEF StoredDecision, IsDecision
    <2>1. CASE v \in 1 .. n /\ rows'[v] = rows[v]
        <3>1. rows[v] \in Event
            BY <1>2, <1>4, <1>5, <1>12, <2>1 DEF Undisturbed, Stream, n
        <3>2. rows[v].basis = v - 1 /\ DecidedOnBasis(rows[v])
            BY <1>4, <1>5, <1>12, <2>1 DEF IInv, StoredDecision, IsDecision, n
        <3>3. rows[v].basis <= n
            BY <1>2, <2>1, <3>2
        <3>4. RoleAt(rows', rows[v].actor, rows[v].basis)
                = RoleAt(rows, rows[v].actor, rows[v].basis)
            BY <1>5, <1>10, <1>12, <3>1, <3>3
        <3> QED
            BY <2>1, <3>2, <3>4 DEF DecidedOnBasis
    <2>2. ASSUME NEW i \in 1 .. Len(b), v = n + i, rows'[v] = b[i]
          PROVE  rows'[v].basis = v - 1 /\ DecidedOnBasis(rows[v])'
        <3>1. PendingDecision(p) /\ KnownVersions(p)
            BY <1>4, <1>5, <1>12 DEF IInv
        <3>2. CommandBatch(p)
            <4>1. CASE SeedingBatch(p)
                BY <2>2, <4>1 DEF SeedingBatch, SeedBatch, IsDecision, b
            <4> QED
                BY <1>1, <3>1, <4>1 DEF KnownVersions
        <3>3. i = 1 /\ v = n + 1 /\ rows'[v] = b[1]
            BY <2>2, <3>2 DEF CommandBatch, b
        <3>4. IsDecision(proc[p].batch[1])
            BY <3>3 DEF IsDecision, b
        <3>5. DecidedOnBasis(b[1]) /\ b[1].basis = n
            BY <1>1, <1>4, <1>5, <1>12, <3>1, <3>4 DEF PendingDecision, b
        <3>6. b[1] \in Event /\ b[1].basis <= n
            BY <1>2, <1>3, <3>5
        <3>7. RoleAt(rows', b[1].actor, b[1].basis) = RoleAt(rows, b[1].actor, b[1].basis)
            BY <1>5, <1>10, <1>12, <3>6
        <3>8. DecidedOnBasis(rows[v])'
            BY <3>3, <3>5, <3>7 DEF DecidedOnBasis
        <3> QED
            BY <1>2, <3>3, <3>5, <3>8
    <2> QED
        BY <1>5, <1>6, <1>12, <2>1, <2>2
<1> QED
    BY <1>7, <1>8, <1>9, <1>11, <1>12 DEF IInv

LEMMA DeleteStep ==
    ASSUME IInv, TypeOK', NEW p \in Procs, SeedDelete(p)
    PROVE  IInv'
<1>1. /\ proc[p].pc = "delete" /\ rows' = <<>> /\ epoch' = epoch + 1
      /\ proc'[p].pc = "read" /\ proc'[p].expected = 0
      /\ proc'[p].since = epoch + 1 /\ proc'[p].batch = SeedBatch(epoch + 1)
      /\ \A q \in Procs \ {p} : proc'[q] = proc[q]
    BY DEF SeedDelete, IInv, TypeOK, Process
<1>2. Len(rows') = 0 /\ epoch \in Nat
    BY <1>1 DEF IInv, TypeOK
<1>3. RowsKnown' /\ \A v \in 1 .. Len(rows') : StoredDecision(v)'
    BY <1>2 DEF RowsKnown
<1>4. OneIncarnation'
    BY <1>1 DEF IInv, OneIncarnation
<1>5. SeedingBatch(p)' /\ ~IsDecision(proc[p].batch[1])'
    BY <1>1 DEF SeedingBatch, SeedBatch, IsDecision
<1>6. ASSUME NEW q \in Procs
      PROVE  KnownVersions(q)' /\ PendingDecision(q)'
    <2>1. CASE q = p
        BY <1>1, <1>2, <1>5, <2>1, CommandBusAssumption
           DEF KnownVersions, PendingDecision
    <2>2. CASE q # p
        <3>1. KnownVersions(q) /\ proc'[q] = proc[q] /\ proc[q].since \in Nat
            BY <1>1, <2>2 DEF IInv, TypeOK, Process
        <3>2. proc[q].since <= epoch' /\ proc[q].since # epoch'
            BY <1>1, <1>2, <3>1 DEF KnownVersions
        <3>3. CommandBatch(q) \/ SeedingBatch(q)
                => CommandBatch(q)' \/ SeedingBatch(q)'
            BY <3>1 DEF CommandBatch, Expects, SeedingBatch, SeedBatch
        <3>4. Expects(q, proc[q].request.command)
                => Expects(q, proc[q].request.command)'
            BY <3>1 DEF Expects
        <3> QED
            BY <3>1, <3>2, <3>3, <3>4 DEF KnownVersions, PendingDecision
    <2> QED
        BY <2>1, <2>2
<1> QED
    BY <1>3, <1>4, <1>6 DEF IInv

LEMMA InvInit == Init => IInv
<1> SUFFICES ASSUME Init
             PROVE  IInv
    OBVIOUS
<1>1. /\ rows = <<>> /\ Len(rows) = 0 /\ epoch = 0
      /\ \A p \in Procs : proc[p] = Idle
    BY DEF Init
<1>2. TypeOK
    <2>1. <<>> \in Stream
        BY DEF Stream
    <2> QED
        BY <2>1, IdleType DEF Init, TypeOK
<1>3. RowsKnown /\ \A v \in 1 .. Len(rows) : StoredDecision(v)
    BY <1>1 DEF RowsKnown
<1>4. \A p \in Procs : /\ ~proc[p].force /\ proc[p].pc = "idle" /\ proc[p].since = 0
    BY <1>1 DEF Idle
<1>5. OneIncarnation
    BY <1>1, <1>4 DEF OneIncarnation
<1>6. \A p \in Procs : KnownVersions(p) /\ PendingDecision(p)
    BY <1>1, <1>4 DEF KnownVersions, PendingDecision
<1> QED
    BY <1>2, <1>3, <1>5, <1>6 DEF IInv

LEMMA InvStep == IInv /\ [Next]_vars => IInv'
<1> SUFFICES ASSUME IInv, [Next]_vars
             PROVE  IInv'
    OBVIOUS
<1>1. TypeOK'
    BY TypeStep DEF IInv
<1>2. CASE UNCHANGED vars
    BY <1>2 DEF vars, IInv, TypeOK, RowsKnown, OneIncarnation, KnownVersions,
                CommandBatch, Expects, SeedingBatch, SeedBatch, PendingDecision,
                DecidedOnBasis, StoredDecision, IsDecision, Undisturbed
<1>3. CASE Next
    <2>1. PICK p \in Procs :
            \/ BeginCommand(p) \/ BeginCreate(p) \/ Decide(p) \/ Refuse(p)
            \/ AppendRead(p) \/ AppendInsert(p) \/ AppendConflict(p)
            \/ Publish(p) \/ Crash(p)
            \/ BeginSeed(p) \/ SeedCheck(p) \/ SeedDelete(p)
        BY <1>3 DEF Next
    <2> QED
        BY <1>1, <2>1, BeginStep, EndStep, DecideStep, AppendReadStep, InsertStep,
           AppendConflictStep, SeedCheckStep, DeleteStep
<1> QED
    BY <1>2, <1>3

-----------------------------------------------------------------------------
(***************************************************************************)
(* The theorems.                                                           *)
(***************************************************************************)

\* The strengthening of the properties below is invariant.
THEOREM Inductive == Spec => []IInv
BY InvInit, InvStep, PTL DEF Spec

\* Every stored command was authorised by the memberships of the moment it
\* took effect (bus.py execute, event_store.py append), for any number of
\* processes and users and any interleaving.
THEOREM EventsJustified == Spec => []EveryEventJustified
<1>1. IInv => EveryEventJustified
    BY DEF IInv, EveryEventJustified, StoredDecision, IsDecision, Justified,
           DecidedOnBasis
<1> QED
    BY <1>1, Inductive, PTL

\* A ConcurrencyError always means that another writer was faster.
THEOREM ConflictsOvertaken == Spec => []ConflictMeansOvertaken
<1>1. IInv => ConflictMeansOvertaken
    <2> SUFFICES ASSUME IInv, NEW p \in Procs,
                        proc[p].pc = "conflict", proc[p].since = epoch
                 PROVE  Len(rows) > proc[p].expected
        BY DEF ConflictMeansOvertaken, CurrentVersion
    <2>1. proc[p].expected < Len(rows) /\ proc[p].expected # Blind
        BY DEF IInv, KnownVersions
    <2>2. proc[p].expected \in Nat /\ Len(rows) \in Nat
        BY <2>1 DEF IInv, TypeOK, Process, Stream
    <2> QED
        BY <2>1, <2>2
<1> QED
    BY <1>1, Inductive, PTL

LEMMA InvGapless == IInv => GaplessVersions
<1> SUFFICES ASSUME IInv, ~ForceSeed
             PROVE  Undisturbed
    BY DEF GaplessVersions
<1>1. epoch = 0
    BY DEF IInv, OneIncarnation
<1>2. ASSUME NEW v \in 1 .. Len(rows), rows[v] # NoRow
      PROVE  rows[v].since = epoch
    <2>1. rows[v] \in Event
        BY <1>2 DEF IInv, TypeOK, Stream
    <2>2. rows[v].since \in Nat /\ rows[v].since <= epoch
        BY <1>2, <2>1 DEF Event, IInv, RowsKnown
    <2> QED
        BY <1>1, <2>2
<1> QED
    BY <1>2 DEF IInv, RowsKnown, Undisturbed

\* Without forced seeding the versions of a project have no gaps.
THEOREM VersionsGapless == Spec => []GaplessVersions
BY InvGapless, Inductive, PTL

\* An event that does not touch a member leaves the member's role alone.
LEMMA RoleAtUntouched ==
    ASSUME NEW s \in Stream, NEW u \in Users, NEW v \in 1 .. Len(s),
           s[v] # NoRow, ~Touches(s[v], u)
    PROVE  RoleAt(s, u, v) = RoleAt(s, u, v - 1)
<1>1. Len(s) \in Nat
    BY DEF Stream
<1>2. TouchingVersions(s, u, v) = TouchingVersions(s, u, v - 1)
    BY <1>1 DEF TouchingVersions
<1> QED
    BY <1>2 DEF RoleAt

\* Whoever revokes a membership still manages the project afterwards, however
\* many managers turn against each other (bus.py, membership.revoke).
THEOREM RevokersRemain == Spec => []RevokerRemainsManager
<1>1. ASSUME IInv, Undisturbed, NEW v \in 1 .. Len(rows),
             rows[v].command = "membership.revoke"
      PROVE  rows[v].actor \in Managers(rows, v)
    <2>1. rows[v] # NoRow /\ rows[v] \in Event /\ rows \in Stream
        BY <1>1 DEF IInv, TypeOK, Stream, Undisturbed
    <2>2. rows[v].actor \in Users /\ rows[v].origin \in {"command", "seed"}
        BY <2>1 DEF Event
    <2>3. IsDecision(rows[v])
        BY <1>1, <2>1, <2>2 DEF IInv, RowsKnown, IsDecision, MembershipCommands
    <2>4. rows[v].basis = v - 1 /\ DecidedOnBasis(rows[v])
        BY <1>1, <2>3 DEF IInv, StoredDecision
    <2>5. rows[v].email # rows[v].actor
        BY <1>1, <2>4 DEF DecidedOnBasis
    <2>6. ~Touches(rows[v], rows[v].actor)
        BY <1>1, <2>5 DEF Touches
    <2>7. RequiredPermission("membership.revoke") = "membership.manage"
        BY DEF RequiredPermission, AnnotationCommands, PlanCommands, ApplyCommands,
               GenerateCommands, SimulateCommands, ApprovalCommands,
               MembershipCommands
    <2>8. RoleAt(rows, rows[v].actor, v - 1) \in ManagerRoles
        BY <1>1, <2>4, <2>7 DEF DecidedOnBasis, HasPermission, ManagerRoles
    <2> QED
        BY <2>1, <2>2, <2>6, <2>8, RoleAtUntouched DEF Managers
<1>2. IInv => RevokerRemainsManager
    BY <1>1 DEF RevokerRemainsManager
<1> QED
    BY <1>2, Inductive, PTL

\* No event is ever replaced, and only delete_stream removes one.
THEOREM EventsImmutable == Spec => AppendOnly
<1> DEFINE Kept == \A v \in 1 .. Len(rows) :
                      HasRow(rows, v) => HasRow(rows', v) /\ rows'[v] = rows[v]
<1>1. ASSUME TypeOK, [Next]_vars, epoch' = epoch
      PROVE  Kept
    <2>1. CASE rows' = rows
        BY <2>1
    <2>2. ASSUME NEW p \in Procs, AppendInsert(p)
          PROVE  Kept
        <3> DEFINE r == proc[p].read
                   b == proc[p].batch
        <3>1. /\ VersionsFree(rows, r, b) /\ rows' = WithBatch(rows, r, b)
              /\ rows \in Stream /\ r \in Nat /\ b \in Seq(Event)
              /\ Len(rows) \in Nat
            BY <1>1, <2>2 DEF AppendInsert, TypeOK, Process, Stream
        <3>2. /\ Len(rows') \in Nat /\ Len(rows') >= Len(rows)
              /\ \A v \in 1 .. Len(rows') :
                    rows'[v] = IF v \in BatchVersions(r, b) THEN b[v - r]
                               ELSE IF v <= Len(rows) THEN rows[v] ELSE NoRow
            <4>1. WithBatch(rows, r, b) \in Stream
                BY <3>1, WithBatchRows
            <4>2. Len(b) \in Nat
                BY <3>1
            <4>3. rows' \in Stream
                BY <3>1, <4>1, <4>2
            <4> QED
                BY <3>1, <4>2, <4>3, WithBatchRows
        <3> HIDE DEF r, b
        <3> SUFFICES ASSUME NEW v \in 1 .. Len(rows), HasRow(rows, v)
                     PROVE  HasRow(rows', v) /\ rows'[v] = rows[v]
            OBVIOUS
        <3>3. v \notin BatchVersions(r, b)
            BY <3>1 DEF VersionsFree
        <3>4. v \in 1 .. Len(rows') /\ rows'[v] = rows[v]
            BY <3>1, <3>2, <3>3
        <3> QED
            BY <3>4 DEF HasRow
    <2>3. ASSUME NEW p \in Procs, SeedDelete(p)
          PROVE  FALSE
        BY <1>1, <2>3 DEF SeedDelete, TypeOK
    <2>4. CASE \E p \in Procs :
                \/ BeginCommand(p) \/ BeginCreate(p) \/ Decide(p) \/ Refuse(p)
                \/ AppendRead(p) \/ AppendConflict(p) \/ Publish(p) \/ Crash(p)
                \/ BeginSeed(p) \/ SeedCheck(p)
        <3>1. rows' = rows
            BY <2>4 DEF BeginCommand, BeginCreate, Decide, Refuse, AppendRead,
                        AppendConflict, Publish, Crash, BeginSeed, SeedCheck
        <3> QED
            BY <2>1, <3>1
    <2> QED
        BY <1>1, <2>1, <2>2, <2>3, <2>4 DEF Next, vars
<1>2. TypeOK /\ [Next]_vars => [epoch' = epoch => Kept]_vars
    BY <1>1
<1> QED
    BY <1>2, TypeCorrect, PTL DEF Spec, AppendOnly

\* Wherever the seeder's ProjectCreated is stored, the rest of its batch is
\* stored behind it, even among the writers that a forced seed runs into: the
\* rows of a batch find their versions free, or none is inserted
\* (event_store.py append, seed.py seed_from_file).
THEOREM SeedsAreWhole == Spec => []SeedIsAtomic
<1>1. Init => SeedIsAtomic
    BY DEF Init, SeedIsAtomic
<1>2. ASSUME IInv, SeedIsAtomic, NEW p \in Procs, AppendInsert(p)
      PROVE  SeedIsAtomic'
    <2> DEFINE m == proc[p].read
               b == proc[p].batch
    <2>1. /\ VersionsFree(rows, m, b) /\ rows' = WithBatch(rows, m, b)
          /\ rows \in Stream /\ m \in Nat /\ b \in Seq(Event)
          /\ Len(rows) \in Nat /\ Len(b) \in Nat
        BY <1>2 DEF AppendInsert, IInv, TypeOK, Process, Stream
    <2>2. CommandBatch(p) \/ SeedingBatch(p)
        BY <1>2 DEF AppendInsert, IInv, KnownVersions
    <2>3. ASSUME NEW i \in 1 .. Len(b), b[i].origin = "seed", b[i].command = "project.create"
          PROVE  i = 1 /\ Len(b) = 2 /\ b[2].origin = "seed" /\ b[2] \in Event
        <3>1. CASE CommandBatch(p)
            <4>1. Len(b) = 1 /\ b[1].origin = "command"
                BY <3>1 DEF CommandBatch
            <4>2. i = 1
                BY <4>1
            <4> QED
                BY <2>3, <4>1, <4>2
        <3>2. CASE SeedingBatch(p)
            <4>1. b = SeedBatch(proc[p].since)
                BY <3>2 DEF SeedingBatch
            <4>2. /\ Len(b) = 2 /\ b[2].origin = "seed" /\ b[2].command = "object.upsert"
                BY <4>1 DEF SeedBatch
            <4>3. i = 1 /\ b[2] \in Event
                BY <2>1, <2>3, <4>2
            <4> QED
                BY <4>2, <4>3
        <3> QED
            BY <2>2, <3>1, <3>2
    <2>4. /\ Len(rows') \in Nat /\ Len(rows') >= Len(rows) /\ Len(rows') >= m + Len(b)
          /\ \A v \in 1 .. Len(rows') :
                rows'[v] = IF v \in BatchVersions(m, b) THEN b[v - m]
                           ELSE IF v <= Len(rows) THEN rows[v] ELSE NoRow
        <3>1. WithBatch(rows, m, b) \in Stream
            BY <2>1, WithBatchRows
        <3>2. rows' \in Stream
            BY <2>1, <3>1
        <3> QED
            BY <2>1, <3>2, WithBatchRows
    <2> HIDE DEF m, b
    <2>5. ASSUME NEW v, HasRow(rows, v) PROVE HasRow(rows', v) /\ rows'[v] = rows[v]
        <3>1. v \in 1 .. Len(rows) /\ v \notin BatchVersions(m, b)
            BY <2>1, <2>5 DEF VersionsFree, HasRow
        <3>2. v \in 1 .. Len(rows') /\ rows'[v] = rows[v]
            BY <2>1, <2>4, <3>1
        <3> QED
            BY <2>5, <3>2 DEF HasRow
    <2> SUFFICES ASSUME NEW v \in 1 .. Len(rows'), HasRow(rows', v), rows'[v].origin = "seed",
                        rows'[v].command = "project.create"
                 PROVE  HasRow(rows', v + 1) /\ rows'[v + 1].origin = "seed"
        BY DEF SeedIsAtomic
    <2>6. CASE v \in BatchVersions(m, b)
        <3>1. v - m \in 1 .. Len(b) /\ rows'[v] = b[v - m]
            BY <2>1, <2>4, <2>6 DEF BatchVersions
        <3>2. v - m = 1 /\ Len(b) = 2 /\ b[2].origin = "seed" /\ b[2] \in Event
            BY <2>3, <3>1
        <3> DEFINE w == v + 1
        <3>3. w \in BatchVersions(m, b) /\ w \in 1 .. Len(rows') /\ w - m = 2
            BY <2>1, <2>4, <3>2 DEF BatchVersions
        <3> HIDE DEF w
        <3>4. rows'[w] = b[w - m] /\ b[w - m] = b[2]
            BY <2>4, <3>3
        <3>5. NoRow \notin Event
            BY NoRowAssumption
        <3> QED
            BY <3>2, <3>3, <3>4, <3>5 DEF HasRow, w
    <2>7. CASE v \notin BatchVersions(m, b)
        <3>1. v \in 1 .. Len(rows) /\ rows'[v] = rows[v]
            BY <2>1, <2>4, <2>7 DEF HasRow
        <3>2. HasRow(rows, v)
            BY <3>1 DEF HasRow
        <3>3. HasRow(rows, v + 1) /\ rows[v + 1].origin = "seed"
            BY <1>2, <3>1, <3>2 DEF SeedIsAtomic
        <3> QED
            BY <2>5, <3>3
    <2> QED
        BY <2>6, <2>7
<1>3. IInv /\ SeedIsAtomic /\ [Next]_vars => SeedIsAtomic'
    <2> SUFFICES ASSUME IInv, SeedIsAtomic, [Next]_vars PROVE SeedIsAtomic'
        OBVIOUS
    <2>1. CASE rows' = rows
        BY <2>1 DEF SeedIsAtomic, HasRow
    <2>2. ASSUME NEW p \in Procs, SeedDelete(p) PROVE SeedIsAtomic'
        BY <2>2 DEF SeedDelete, SeedIsAtomic
    <2>3. ASSUME NEW p \in Procs,
                 \/ BeginCommand(p) \/ BeginCreate(p) \/ Decide(p) \/ Refuse(p)
                 \/ AppendRead(p) \/ AppendConflict(p) \/ Publish(p) \/ Crash(p)
                 \/ BeginSeed(p) \/ SeedCheck(p)
          PROVE  rows' = rows
        BY <2>3 DEF BeginCommand, BeginCreate, Decide, Refuse, AppendRead,
            AppendConflict, Publish, Crash, BeginSeed, SeedCheck
    <2> QED
        BY <1>2, <2>1, <2>2, <2>3 DEF Next, vars
<1> QED
    BY <1>1, <1>3, Inductive, PTL DEF Spec

-----------------------------------------------------------------------------
(***************************************************************************)
(* The stream implements ProjectHistory, as long as nobody forces a        *)
(* re-seed and nobody creates a project without an expected version.       *)
(***************************************************************************)

LEMMA StreamOfEvents ==
    ASSUME NEW s \in Stream, \A v \in 1 .. Len(s) : s[v] # NoRow
    PROVE  s \in Seq(Event)
<1>1. Len(s) \in Nat /\ \A v \in 1 .. Len(s) : s[v] \in Event
    BY DEF Stream
<1>2. s = [v \in 1 .. Len(s) |-> s[v]]
    BY DEF Stream
<1> QED
    BY <1>1, <1>2

\* The operators that ProjectHistory takes from ProjectStream are the ones of
\* this module: both are instantiated with the same users.
LEMMA SameOperators ==
    /\ History!Event = Event
    /\ History!NoMembers = NoMembers
    /\ History!ExistingCommands = ExistingCommands
    /\ History!MembershipCommands = MembershipCommands
    /\ \A role, permission :
          History!HasPermission(role, permission) = HasPermission(role, permission)
    /\ \A command : History!RequiredPermission(command) = RequiredPermission(command)
    /\ \A s, u, v : History!RoleAt(s, u, v) = RoleAt(s, u, v)
<1>1. /\ History!AnnotationCommands = AnnotationCommands
      /\ History!PlanCommands = PlanCommands
      /\ History!ApplyCommands = ApplyCommands
      /\ History!GenerateCommands = GenerateCommands
      /\ History!SimulateCommands = SimulateCommands
      /\ History!ApprovalCommands = ApprovalCommands
      /\ History!MembershipCommands = MembershipCommands
    BY DEF History!AnnotationCommands, AnnotationCommands, History!PlanCommands,
           PlanCommands, History!ApplyCommands, ApplyCommands,
           History!GenerateCommands, GenerateCommands, History!SimulateCommands,
           SimulateCommands, History!ApprovalCommands, ApprovalCommands,
           History!MembershipCommands, MembershipCommands
<1>2. History!ExistingCommands = ExistingCommands
    BY <1>1 DEF History!ExistingCommands, ExistingCommands
<1>3. /\ History!NoRole = NoRole /\ History!Roles = Roles
      /\ History!MaybeRole = MaybeRole /\ History!Memberships = Memberships
      /\ History!NoMembers = NoMembers
    BY DEF History!NoRole, NoRole, History!Roles, Roles, History!MaybeRole, MaybeRole,
           History!Memberships, Memberships, History!NoMembers, NoMembers
<1>4. History!Event = Event
    BY <1>2, <1>3 DEF History!Event, Event
<1>5. History!PERMISSIONS = PERMISSIONS
    BY DEF History!PERMISSIONS, PERMISSIONS, History!Permission, Permission,
           History!ReadPermissions, ReadPermissions,
           History!WorkPermissions, WorkPermissions,
           History!ManagePermissions, ManagePermissions,
           History!CreatorPermissions, CreatorPermissions, History!Roles, Roles
<1>6. \A role, permission :
          History!HasPermission(role, permission) = HasPermission(role, permission)
    BY <1>5 DEF History!HasPermission, HasPermission
<1>7. \A command : History!RequiredPermission(command) = RequiredPermission(command)
    BY <1>1 DEF History!RequiredPermission, RequiredPermission
<1>8. \A e, u : /\ History!Touches(e, u) = Touches(e, u)
                /\ History!RoleGiven(e, u) = RoleGiven(e, u)
    BY <1>1, <1>3 DEF History!Touches, Touches, History!RoleGiven, RoleGiven
<1>9. \A s, u, v : History!TouchingVersions(s, u, v) = TouchingVersions(s, u, v)
    BY <1>8 DEF History!TouchingVersions, TouchingVersions
<1>10. \A s, u, v : History!RoleAt(s, u, v) = RoleAt(s, u, v)
    <2> SUFFICES ASSUME NEW s, NEW u, NEW v
                 PROVE  History!RoleAt(s, u, v) = RoleAt(s, u, v)
        OBVIOUS
    <2> DEFINE touching == TouchingVersions(s, u, v)
               last     == Max(touching)
    <2>1. RoleAt(s, u, v) = IF touching = {} THEN NoRole ELSE RoleGiven(s[last], u)
        BY DEF RoleAt
    <2>2. History!RoleAt(s, u, v)
            = IF touching = {} THEN NoRole ELSE History!RoleGiven(s[last], u)
        <3>1. History!Max(touching) = last
            BY DEF History!Max, Max
        <3> QED
            BY <1>3, <1>9, <3>1 DEF History!RoleAt
    <2> QED
        BY <1>8, <2>1, <2>2
<1> QED
    BY <1>1, <1>2, <1>3, <1>4, <1>6, <1>7, <1>10

\* Every insert is a step of the history.
LEMMA InsertRefines ==
    ASSUME IInv, TypeOK', Undisturbed', EventLoop = {},
           NEW p \in Procs, AppendInsert(p)
    PROVE  History!Next
<1> DEFINE n == Len(rows)
           b == proc[p].batch
<1>1. /\ Undisturbed /\ proc[p].since = epoch /\ proc[p].read = n
      /\ Len(rows') = n + Len(b)
      /\ \A v \in 1 .. n : rows'[v] = rows[v]
      /\ \A i \in 1 .. Len(b) : rows'[n + i] = b[i]
    <2>1. epoch' = epoch
        BY DEF AppendInsert
    <2>2. \A v \in 1 .. Len(rows') : rows'[v] # NoRow => rows'[v].since = epoch
        BY <2>1 DEF Undisturbed
    <2> QED
        BY <2>2, InsertedBatch
<1>2. /\ proc[p].pc = "insert" /\ KnownVersions(p) /\ PendingDecision(p)
    BY <1>1 DEF AppendInsert, IInv
<1>3. proc[p].expected \in {Blind, n} /\ n \in Nat /\ rows \in Stream
    BY <1>1, <1>2 DEF KnownVersions, IInv, TypeOK, Stream
<1>4. ASSUME NEW k \in Nat, Len(b) = k
      PROVE  History!Grows(k)
    <2>1. rows' \in Seq(Event)
        BY StreamOfEvents DEF TypeOK, Undisturbed
    <2> QED
        BY <1>1, <1>4, <2>1, SameOperators DEF History!Grows
<1>5. n = 0 => rows = <<>>
    BY <1>3 DEF Stream
<1>6. CASE CommandBatch(p) /\ b[1].command = "project.create"
    <2>1. n = 0
        BY <1>3, <1>6, CommandBusAssumption DEF CommandBatch, Expects
    <2>2. Len(b) = 1 /\ rows'[1] = b[1]
        BY <1>1, <1>6, <2>1 DEF CommandBatch
    <2>3. History!Creation(rows'[1])
        BY <1>6, <2>2, SameOperators DEF CommandBatch, History!Creation
    <2> QED
        BY <1>4, <1>5, <2>1, <2>2, <2>3 DEF History!Next, History!Open
<1>7. CASE CommandBatch(p) /\ b[1].command # "project.create"
    <2>1. IsDecision(b[1]) /\ Len(b) = 1 /\ rows'[n + 1] = b[1]
        BY <1>1, <1>7 DEF CommandBatch, IsDecision
    <2>2. DecidedOnBasis(b[1]) /\ b[1].basis = n
        BY <1>1, <1>2, <2>1 DEF PendingDecision
    <2>3. b[1].command \in ExistingCommands
        <3>1. b[1] \in Event
            BY <2>1, InsertedBatch
        <3> QED
            BY <1>7, <3>1 DEF Event
    <2>4. History!Permitted(b[1])
        BY <2>2, <2>3, SameOperators DEF DecidedOnBasis, History!Permitted
    <2> QED
        BY <1>4, <2>1, <2>4 DEF History!Next, History!Execute
<1>8. CASE SeedingBatch(p)
    <2>1. n = 0
        BY <1>3, <1>8, CommandBusAssumption DEF SeedingBatch
    <2>2. /\ Len(b) = 2 /\ b[1].command = "project.create"
          /\ b[2].command = "object.upsert"
        BY <1>8 DEF SeedingBatch, SeedBatch
    <2>3. rows'[1] = b[1] /\ rows'[2] = b[2]
        BY <1>1, <2>1, <2>2
    <2> QED
        BY <1>4, <1>5, <2>1, <2>2, <2>3, SameOperators
           DEF History!Next, History!Seed, MembershipCommands
<1> QED
    BY <1>2, <1>6, <1>7, <1>8 DEF KnownVersions

\* Concurrent commands take effect one at a time, each on the whole history
\* before it (bus.py execute, event_store.py append).
THEOREM Refinement ==
    ASSUME EventLoop = {}, ForceSeed = FALSE
    PROVE  Spec => ImplementsHistory
<1>1. Init => History!Init
    BY DEF Init, History!Init
<1>2. IInv /\ IInv' /\ Undisturbed' /\ [Next]_vars => [History!Next]_rows
    <2> SUFFICES ASSUME IInv, IInv', Undisturbed', [Next]_vars, rows' # rows
                 PROVE  History!Next
        OBVIOUS
    <2>1. PICK p \in Procs : AppendInsert(p) \/ SeedDelete(p)
        BY DEF Next, vars, BeginCommand, BeginCreate, Decide, Refuse, AppendRead,
               AppendConflict, Publish, Crash, BeginSeed, SeedCheck
    <2>2. ~SeedDelete(p)
        BY DEF SeedDelete, IInv, OneIncarnation
    <2> QED
        BY <2>1, <2>2, InsertRefines DEF IInv
<1>3. IInv => Undisturbed
    BY InvGapless DEF GaplessVersions
<1> QED
    BY <1>1, <1>2, <1>3, Inductive, PTL DEF Spec, ImplementsHistory, History!Spec
=============================================================================
