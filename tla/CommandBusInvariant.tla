------------------------ MODULE CommandBusInvariant ------------------------
(***************************************************************************)
(* The inductive invariant.  It follows a command from the read of the     *)
(* expected version to the insert: what the process knows is a version     *)
(* that the stream had in the same incarnation, and the role was checked   *)
(* on a snapshot at least as new as the expected version.                  *)
(***************************************************************************)
EXTENDS CommandBus

\* The expected version of a command.
Expects(p, command) ==
    IF command = "project.create"
    THEN proc[p].expected = IF p \in EventLoop THEN Blind ELSE 0
    ELSE proc[p].expected # Blind

\* The batch is the one event of a command that was decided on event.basis.
CommandBatch(p) ==
    LET event == proc[p].batch[1] IN
    /\ Len(proc[p].batch) = 1
    /\ event.origin = "command"
    /\ event.since = proc[p].since
    /\ event.command = "project.create" =>
          event.members = [NoMembers EXCEPT ![event.actor] = "creator"]
    /\ Expects(p, event.command)

SeedingBatch(p) ==
    /\ proc[p].batch = SeedBatch(proc[p].since)
    /\ proc[p].expected = 0

\* What holds whatever happened to the stream.
KnownVersions(p) ==
    /\ proc[p].since <= epoch
    /\ proc[p].pc = "load" => Expects(p, proc[p].request.command)
    /\ proc[p].pc \in {"read", "insert"} => CommandBatch(p) \/ SeedingBatch(p)
    /\ proc[p].pc = "insert" => proc[p].expected \in {Blind, proc[p].read}
    /\ proc[p].pc = "conflict" => proc[p].expected # Blind
    /\ proc[p].since = epoch =>
          /\ proc[p].pc \in {"load", "read"} =>
                (proc[p].expected # Blind => proc[p].expected <= Len(rows))
          /\ proc[p].pc = "insert" => proc[p].read <= Len(rows)
          /\ proc[p].pc = "conflict" => proc[p].expected < Len(rows)

\* The event was decided on the first event.basis rows, by somebody who had
\* the permission there.
DecidedOnBasis(event) ==
    /\ HasPermission(RoleAt(rows, event.actor, event.basis),
                     RequiredPermission(event.command))
    /\ event.command = "change.apply" =>
          event.authority = RoleAt(rows, event.actor, event.basis)
    /\ event.command = "membership.revoke" => event.email # event.actor

IsDecision(event) == event.origin = "command" /\ event.command # "project.create"

\* What holds as long as no writer from before a deletion interfered.
PendingDecision(p) ==
    proc[p].since = epoch /\ proc[p].pc \in {"read", "insert"}
            /\ IsDecision(proc[p].batch[1]) =>
        /\ DecidedOnBasis(proc[p].batch[1])
        /\ proc[p].batch[1].basis <= Len(rows)
        /\ proc[p].expected <= proc[p].batch[1].basis
        /\ proc[p].pc = "insert" => proc[p].batch[1].basis = proc[p].read

StoredDecision(v) ==
    IsDecision(rows[v]) => rows[v].basis = v - 1 /\ DecidedOnBasis(rows[v])

\* A version is missing only below a row of an earlier incarnation, and the
\* seeder stores no membership events.
RowsKnown ==
    /\ \A v \in 1 .. Len(rows) : rows[v] # NoRow => rows[v].since <= epoch
    /\ (\A v \in 1 .. Len(rows) : rows[v] # NoRow => rows[v].since = epoch)
          => \A v \in 1 .. Len(rows) : rows[v] # NoRow
    /\ \A v \in 1 .. Len(rows) :
          rows[v] # NoRow /\ rows[v].origin = "seed"
              => rows[v].command \notin MembershipCommands

\* Without forced seeding there is one incarnation only.
OneIncarnation ==
    ~ForceSeed =>
        /\ epoch = 0
        /\ \A p \in Procs : ~proc[p].force /\ proc[p].pc # "delete"

IInv ==
    /\ TypeOK
    /\ RowsKnown
    /\ OneIncarnation
    /\ \A p \in Procs : KnownVersions(p)
    /\ Undisturbed =>
         /\ \A p \in Procs : PendingDecision(p)
         /\ \A v \in 1 .. Len(rows) : StoredDecision(v)
=============================================================================
