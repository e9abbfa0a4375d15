--------------------------- MODULE ProjectHistory ---------------------------
(***************************************************************************)
(* What the event store and the command bus promise together: the history  *)
(* of a project is one sequence of events that grows atomically.  It is    *)
(* opened once, by a ProjectCreated or by the seeder's batch, and every    *)
(* later event is a command that the memberships of all the events before  *)
(* it permit.  There are no processes here, no versions and no conflicts.  *)
(***************************************************************************)
EXTENDS ProjectStream

VARIABLE history

Init == history = <<>>

\* The history grows by n events.
Grows(n) ==
    /\ history' \in Seq(Event)
    /\ Len(history') = Len(history) + n
    /\ \A v \in 1 .. Len(history) : history'[v] = history[v]

Creation(event) ==
    /\ event.command = "project.create"
    /\ event.members = [NoMembers EXCEPT ![event.actor] = "creator"]

\* The event is permitted by the history in front of it.
Permitted(event) ==
    LET role == RoleAt(history, event.actor, Len(history)) IN
    /\ event.command \in ExistingCommands
    /\ HasPermission(role, RequiredPermission(event.command))
    /\ event.command = "membership.revoke" => event.email # event.actor
    /\ event.command = "change.apply" => event.authority = role

Open    == history = <<>> /\ Grows(1) /\ Creation(history'[1])
Execute == Grows(1) /\ Permitted(history'[Len(history) + 1])
Seed    == /\ history = <<>>
           /\ Grows(2)
           /\ history'[1].command = "project.create"
           /\ history'[2].command \notin MembershipCommands \cup {"project.create"}

Next == Open \/ Execute \/ Seed

Spec == Init /\ [][Next]_history
=============================================================================
