----------------------------- MODULE CommandBus -----------------------------
(***************************************************************************)
(* Concurrent command execution on one project stream.                     *)
(*                                                                         *)
(* A process is one thread of the API's pool, the API's event loop, a CLI  *)
(* invocation or a seeding run: they share nothing but the database.  A    *)
(* handler reads the expected version, loads and projects the stream and   *)
(* checks the actor's role (CommandBus.execute), reads the highest version *)
(* and inserts its event (EventStore.append), and publishes.  Each of      *)
(* these is a step of its own, because each is a database statement of its *)
(* own; the insert fails when the unique constraint on (stream_id,         *)
(* stream_version) does.                                                   *)
(***************************************************************************)
EXTENDS ProjectStream

CONSTANTS
    Procs,               \* the processes
    CommandTypes,        \* the commands on an existing project to explore
    OfferedRoles,        \* the roles that memberships are granted with
    EventLoop,           \* the set of the process that runs POST /commands
    Blind,               \* expected_version = None
    SeedMembers,         \* the memberships of the seeded example project
    SeedActor,           \* its creator
    ForceSeed,           \* may an operator run "seed --force"?
    MaxVersion,          \* bound on the versions of the stream
    MaxEpoch             \* bound on the number of forced seeds

ASSUME CommandBusAssumption ==
    /\ CommandTypes \subseteq ExistingCommands
    /\ OfferedRoles \subseteq Roles /\ OfferedRoles # {}
    /\ EventLoop \subseteq Procs
    /\ Blind \notin Nat
    /\ SeedMembers \in Memberships
    /\ SeedActor \in Users
    /\ ForceSeed \in BOOLEAN
    /\ MaxVersion \in Nat
    /\ MaxEpoch \in Nat

VARIABLES
    rows,       \* the rows of the project stream
    epoch,      \* how many times delete_stream has run
    proc        \* the state of each process

vars == <<rows, epoch, proc>>

-----------------------------------------------------------------------------
(***************************************************************************)
(* A process.  expected is the expected_version, since the epoch in which  *)
(* it was read, batch the events to store, read the highest version that   *)
(* append saw, stored the epoch in which the batch was committed.          *)
(***************************************************************************)
Steps == {"idle", "load", "read", "insert", "publish",
          "seed", "delete", "conflict"}

Request == [command : ExistingCommands \cup {"project.create"},
            actor   : Users,
            email   : Users,
            role    : Roles]

\* The role field of a request that offers none.
AnyRole == CHOOSE role \in OfferedRoles : TRUE

NoRequest == [command |-> "project.create", actor |-> SeedActor,
              email |-> SeedActor, role |-> AnyRole]

Process == [pc       : Steps,
            request  : Request,
            force    : BOOLEAN,
            expected : Nat \cup {Blind},
            since    : Nat,
            batch    : Seq(Event),
            read     : Nat,
            stored   : Nat]

Idle == [pc |-> "idle", request |-> NoRequest, force |-> FALSE,
         expected |-> Blind, since |-> 0, batch |-> <<>>, read |-> 0,
         stored |-> 0]

\* p returned a ConcurrencyError: it remembers what it had expected.
Conflict(p, seen) == [Idle EXCEPT !.pc = "conflict", !.expected = seen,
                                  !.since = proc[p].since]

\* Faulty variant: change.apply stamps the permission, not the role.
EventOfStampsPermission(request, basis, since) ==
    [command |-> request.command, actor |-> request.actor,
     email |-> request.email, role |-> request.role,
     members |-> IF request.command = "project.create"
                 THEN [NoMembers EXCEPT ![request.actor] = "creator"]
                 ELSE NoMembers,
     authority |-> RequiredPermission("change.apply"),
     origin |-> "command", basis |-> basis, since |-> since]

\* The event a command turns into, decided on the first basis versions.
EventOf(request, basis, since) ==
    [command   |-> request.command,
     actor     |-> request.actor,
     email     |-> request.email,
     role      |-> request.role,
     members   |-> IF request.command = "project.create"
                   THEN [NoMembers EXCEPT ![request.actor] = "creator"]
                   ELSE NoMembers,
     authority |-> IF request.command = "change.apply"
                   THEN RoleAt(rows, request.actor, basis)
                   ELSE NoRole,
     origin    |-> "command",
     basis     |-> basis,
     since     |-> since]

\* The seeder's batch: ProjectCreated and, for all the objects, artifacts
\* and plans of the example, one further event.
SeedBatch(since) ==
    LET event(command) ==
            [command |-> command, actor |-> SeedActor, email |-> SeedActor,
             role |-> AnyRole,
             members |-> IF command = "project.create" THEN SeedMembers ELSE NoMembers,
             authority |-> NoRole, origin |-> "seed", basis |-> 0, since |-> since]
    IN  <<event("project.create"), event("object.upsert")>>

-----------------------------------------------------------------------------
TypeOK ==
    /\ rows \in Stream
    /\ epoch \in Nat
    /\ proc \in [Procs -> Process]

Init ==
    /\ rows = <<>>
    /\ epoch = 0
    /\ proc = [p \in Procs |-> Idle]

-----------------------------------------------------------------------------
Ready(p) == proc[p].pc \in {"idle", "conflict"}

\* The handler of a command on an existing project reads the version that
\* it passes as expected_version; a client that sends one with its request
\* has read it the same way, some time earlier.  Only the membership
\* commands carry a member and a role.
BeginCommand(p) ==
    /\ Ready(p)
    /\ \E command \in CommandTypes, actor, email \in Users, role \in OfferedRoles :
        /\ command \notin MembershipCommands => email = actor
        /\ command # "membership.grant" => role = AnyRole
        /\ proc' = [proc EXCEPT ![p] =
                [Idle EXCEPT !.pc = "load",
                             !.expected = CurrentVersion(rows),
                             !.since = epoch,
                             !.request = [command |-> command, actor |-> actor,
                                          email |-> email, role |-> role]]]
    /\ UNCHANGED <<rows, epoch>>

\* A client asks for a project.  The commands endpoint, which runs on the
\* API's event loop, leaves expected_version out; the CLI and the EDA
\* registry send 0.
BeginCreate(p) ==
    /\ Ready(p)
    /\ \E actor \in Users :
        proc' = [proc EXCEPT ![p] =
            [Idle EXCEPT !.pc = "load", !.since = epoch,
                         !.expected = IF p \in EventLoop THEN Blind ELSE 0,
                         !.request = [NoRequest EXCEPT !.actor = actor,
                                                       !.email = actor]]]
    /\ UNCHANGED <<rows, epoch>>

\* Faulty variant: members may revoke themselves.
AcceptedSelfRevocation(request) ==
    IF request.command = "project.create"
    THEN CurrentVersion(rows) = 0
    ELSE /\ IsProject(rows)
         /\ HasPermission(RoleAt(rows, request.actor, CurrentVersion(rows)),
                          RequiredPermission(request.command))

\* What _create_project and _handle_existing demand before they return the
\* event: the project must not exist; it must exist, the actor must hold the
\* permission and must not revoke its own membership.
Accepted(request) ==
    IF request.command = "project.create"
    THEN CurrentVersion(rows) = 0
    ELSE /\ IsProject(rows)
         /\ request.command = "membership.revoke" => request.email # request.actor
         /\ HasPermission(RoleAt(rows, request.actor, CurrentVersion(rows)),
                          RequiredPermission(request.command))

Decide(p) ==
    /\ proc[p].pc = "load"
    /\ Accepted(proc[p].request)
    /\ proc' = [proc EXCEPT ![p].pc = "read",
                            ![p].batch = <<EventOf(proc[p].request,
                                                   CurrentVersion(rows),
                                                   proc[p].since)>>]
    /\ UNCHANGED <<rows, epoch>>

\* CommandRejected, PermissionDenied or ProjectNotFound.
Refuse(p) ==
    /\ proc[p].pc = "load"
    /\ ~Accepted(proc[p].request)
    /\ proc' = [proc EXCEPT ![p] = Idle]
    /\ UNCHANGED <<rows, epoch>>

\* Faulty variant: the expected version is not compared.
AppendReadUnchecked(p) ==
    /\ proc[p].pc = "read"
    /\ proc' = [proc EXCEPT ![p].pc = "insert", ![p].read = CurrentVersion(rows)]
    /\ UNCHANGED <<rows, epoch>>

\* Faulty variant: the expected version is compared with the next version.
AppendReadOffByOne(p) ==
    /\ proc[p].pc = "read"
    /\ LET current == CurrentVersion(rows) IN
       IF proc[p].expected \in {Blind, current + 1}
       THEN proc' = [proc EXCEPT ![p].pc = "insert", ![p].read = current]
       ELSE proc' = [proc EXCEPT ![p] = Conflict(p, proc[p].expected)]
    /\ UNCHANGED <<rows, epoch>>

\* append reads the highest version and compares it with the expected one.
AppendRead(p) ==
    /\ proc[p].pc = "read"
    /\ LET current == CurrentVersion(rows) IN
       IF proc[p].expected \in {Blind, current}
       THEN proc' = [proc EXCEPT ![p].pc = "insert", ![p].read = current]
       ELSE proc' = [proc EXCEPT ![p] = Conflict(p, proc[p].expected)]
    /\ UNCHANGED <<rows, epoch>>

\* Faulty variant: one transaction per event of the batch.
AppendInsertEach(p) ==
    LET event == SubSeq(proc[p].batch, 1, 1) IN
    /\ proc[p].pc = "insert"
    /\ proc[p].read + Len(proc[p].batch) <= MaxVersion
    /\ VersionsFree(rows, proc[p].read, event)
    /\ rows' = WithBatch(rows, proc[p].read, event)
    /\ proc' = [proc EXCEPT ![p] =
            IF Len(proc[p].batch) = 1
            THEN [@ EXCEPT !.pc = "publish", !.stored = epoch]
            ELSE [@ EXCEPT !.read = @ + 1, !.batch = Tail(@)]]
    /\ UNCHANGED epoch

\* append inserts the batch in one transaction.
AppendInsert(p) ==
    /\ proc[p].pc = "insert"
    /\ proc[p].read + Len(proc[p].batch) <= MaxVersion
    /\ VersionsFree(rows, proc[p].read, proc[p].batch)
    /\ rows' = WithBatch(rows, proc[p].read, proc[p].batch)
    /\ proc' = [proc EXCEPT ![p].pc = "publish", ![p].stored = epoch]
    /\ UNCHANGED epoch

\* Faulty variant: the decided event is inserted again at the next version.
AppendConflictRetried(p) ==
    /\ proc[p].pc = "insert"
    /\ ~VersionsFree(rows, proc[p].read, proc[p].batch)
    /\ proc' = [proc EXCEPT ![p].read = CurrentVersion(rows)]
    /\ UNCHANGED <<rows, epoch>>

\* The IntegrityError of the unique constraint becomes a ConcurrencyError.
AppendConflict(p) ==
    /\ proc[p].pc = "insert"
    /\ ~VersionsFree(rows, proc[p].read, proc[p].batch)
    /\ proc' = [proc EXCEPT ![p] = Conflict(p, proc[p].read)]
    /\ UNCHANGED <<rows, epoch>>

\* execute hands what append returned to the publisher.  The broker is not
\* part of this module: the publisher neither fails nor changes the stream.
Publish(p) ==
    /\ proc[p].pc = "publish"
    /\ proc' = [proc EXCEPT ![p] = Idle]
    /\ UNCHANGED <<rows, epoch>>

\* The process dies, or its request is cancelled, between two statements.
Crash(p) ==
    /\ ~Ready(p)
    /\ proc' = [proc EXCEPT ![p] = Idle]
    /\ UNCHANGED <<rows, epoch>>

-----------------------------------------------------------------------------
(***************************************************************************)
(* seed_from_file: at start-up without force, from the CLI with or without *)
(* it.                                                                     *)
(***************************************************************************)
BeginSeed(p) ==
    /\ Ready(p)
    /\ \E force \in BOOLEAN :
        /\ force => ForceSeed
        /\ proc' = [proc EXCEPT ![p] = [Idle EXCEPT !.pc = "seed", !.force = force]]
    /\ UNCHANGED <<rows, epoch>>

\* An existing stream is kept, or deleted when forced.
SeedCheck(p) ==
    /\ proc[p].pc = "seed"
    /\ proc' = [proc EXCEPT ![p] =
            IF CurrentVersion(rows) = 0
            THEN [@ EXCEPT !.pc = "read", !.expected = 0, !.since = epoch,
                           !.batch = SeedBatch(epoch)]
            ELSE IF @.force THEN [@ EXCEPT !.pc = "delete"] ELSE Idle]
    /\ UNCHANGED <<rows, epoch>>

SeedDelete(p) ==
    /\ proc[p].pc = "delete"
    /\ epoch < MaxEpoch
    /\ rows' = <<>>
    /\ epoch' = epoch + 1
    /\ proc' = [proc EXCEPT ![p] =
            [@ EXCEPT !.pc = "read", !.expected = 0, !.since = epoch + 1,
                      !.batch = SeedBatch(epoch + 1)]]

-----------------------------------------------------------------------------
Next == \E p \in Procs :
    \/ BeginCommand(p) \/ BeginCreate(p) \/ Decide(p) \/ Refuse(p)
    \/ AppendRead(p) \/ AppendInsert(p) \/ AppendConflict(p)
    \/ Publish(p) \/ Crash(p)
    \/ BeginSeed(p) \/ SeedCheck(p) \/ SeedDelete(p)

Spec == Init /\ [][Next]_vars

-----------------------------------------------------------------------------
(***************************************************************************)
(* Properties.                                                             *)
(***************************************************************************)

\* No writer that began before the last delete_stream has stored a row
\* since, and so no version is missing.
Undisturbed ==
    \A v \in 1 .. Len(rows) : rows[v] # NoRow /\ rows[v].since = epoch

\* A command event is justified by the events in front of it, all of them
\* and no others: it was decided on exactly the preceding version, by
\* somebody whose role there carries the permission, and the authority that
\* change.apply writes into the event is that role.
Justified(v) ==
    LET event == rows[v] IN
    /\ event.basis = v - 1
    /\ HasPermission(RoleAt(rows, event.actor, v - 1),
                     RequiredPermission(event.command))
    /\ event.command = "change.apply" =>
          event.authority = RoleAt(rows, event.actor, v - 1)

\* Every stored command on the project was authorised by the memberships of
\* the moment it took effect, although the role was checked against a
\* snapshot loaded several statements earlier (bus.py execute, event_store.py
\* append): a membership revoked in between turns the append into a conflict.
EveryEventJustified ==
    Undisturbed =>
        \A v \in 1 .. Len(rows) :
            rows[v].origin = "command" /\ rows[v].command # "project.create"
                => Justified(v)

\* Revocations never remove the last manager: right after a revocation the
\* member who issued it still manages memberships, whatever else was
\* revoked or demoted concurrently (bus.py, membership.revoke).
RevokerRemainsManager ==
    Undisturbed =>
        \A v \in 1 .. Len(rows) :
            rows[v].command = "membership.revoke" =>
                rows[v].actor \in Managers(rows, v)

\* Without forced seeding nobody ever stores behind a deletion, so the
\* versions of a project are gapless (event_store.py append).
GaplessVersions == ~ForceSeed => Undisturbed

\* A ConcurrencyError is never spurious: as long as the stream was not
\* deleted, another writer has moved it beyond the version the refused
\* process had expected (event_store.py append).
ConflictMeansOvertaken ==
    \A p \in Procs :
        proc[p].pc = "conflict" /\ proc[p].since = epoch
            => CurrentVersion(rows) > proc[p].expected

\* The seeder's events are stored all or none: wherever its ProjectCreated
\* is in the stream, the rest of the batch follows it (event_store.py
\* append inserts a batch in one transaction).
SeedIsAtomic ==
    \A v \in 1 .. Len(rows) :
        HasRow(rows, v) /\ rows[v].origin = "seed"
                        /\ rows[v].command = "project.create"
            => HasRow(rows, v + 1) /\ rows[v + 1].origin = "seed"

\* Events are immutable: only delete_stream removes a row, and no row is
\* ever replaced by another (docs/03_CQRS_EVENT_SOURCING.md; event_store.py
\* has no update of the events table).
AppendOnly ==
    [][epoch' = epoch =>
         \A v \in 1 .. Len(rows) :
            HasRow(rows, v) => HasRow(rows', v) /\ rows'[v] = rows[v]]_vars

\* The stream, as the sequence of its rows, behaves like ProjectHistory:
\* concurrent commands take effect one at a time, each on the whole history
\* before it.
History == INSTANCE ProjectHistory WITH history <- rows

ImplementsHistory == History!Spec
=============================================================================
