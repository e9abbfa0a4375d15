--------------------------- MODULE ProjectStream ---------------------------
(***************************************************************************)
(* The rows that the events table holds for one project, and what the      *)
(* projector reads from them.  rows[v] is the row with stream_version v;   *)
(* NoRow fills a version that no row has (it happens only when a writer    *)
(* that read the table before delete_stream stores its event after it).    *)
(* So the highest stored version is Len(rows).                             *)
(***************************************************************************)
EXTENDS Naturals, Sequences, FiniteSetsExt, Permissions

CONSTANTS
    Users,  \* the e-mail addresses that occur in commands and memberships
    NoRow   \* marks a version without a row

Memberships == [Users -> MaybeRole]
NoMembers   == [u \in Users |-> NoRole]

(***************************************************************************)
(* An event keeps of its data what the projector turns into memberships:   *)
(* the memberships that ProjectCreated brings and the email and role of    *)
(* the membership events; authority is the role that change.apply stamps   *)
(* on its event.  Three fields are history variables of the model: origin  *)
(* (a command or the seeder), basis (the version of the snapshot on which  *)
(* the command was decided) and since (the incarnation of the stream its   *)
(* writer had seen when it read the expected version).                     *)
(***************************************************************************)
Event ==
    [command   : ExistingCommands \cup {"project.create"},
     actor     : Users,
     email     : Users,
     role      : Roles,
     members   : Memberships,
     authority : MaybeRole,
     origin    : {"command", "seed"},
     basis     : Nat,
     since     : Nat]

ASSUME NoRowAssumption == NoRow \notin Event

Stream == Seq(Event \cup {NoRow})

-----------------------------------------------------------------------------
\* The events table.
CurrentVersion(rows) == Len(rows)

HasRow(rows, v) == v \in 1 .. Len(rows) /\ rows[v] # NoRow

\* The versions that append gives to a batch when it read the maximum m.
BatchVersions(m, batch) == (m + 1) .. (m + Len(batch))

\* The unique constraint uq_stream_version.
VersionsFree(rows, m, batch) ==
    \A v \in BatchVersions(m, batch) : ~HasRow(rows, v)

\* The rows after the batch was inserted behind the maximum m.
WithBatch(rows, m, batch) ==
    LET top == IF Len(rows) > m + Len(batch) THEN Len(rows) ELSE m + Len(batch)
    IN  [v \in 1 .. top |->
            IF v \in BatchVersions(m, batch) THEN batch[v - m]
            ELSE IF v <= Len(rows)           THEN rows[v]
            ELSE NoRow]

-----------------------------------------------------------------------------
(***************************************************************************)
(* The projection of the memberships.                                      *)
(***************************************************************************)

\* ProjectCreated replaces the whole snapshot, a grant or a revocation
\* concerns one member, every other event leaves memberships alone.
Touches(event, u) ==
    \/ event.command = "project.create"
    \/ event.command \in MembershipCommands /\ event.email = u

RoleGiven(event, u) ==
    CASE event.command = "project.create"    -> event.members[u]
      [] event.command = "membership.grant"  -> event.role
      [] event.command = "membership.revoke" -> NoRole

\* The versions up to v whose event touches u.
TouchingVersions(rows, u, v) ==
    {w \in 1 .. Len(rows) : w <= v /\ rows[w] # NoRow /\ Touches(rows[w], u)}

\* The role of u in the snapshot at version v: what the last event that
\* touches u gave.
RoleAt(rows, u, v) ==
    LET touching == TouchingVersions(rows, u, v)
    IN  IF touching = {} THEN NoRole ELSE RoleGiven(rows[Max(touching)], u)

\* project_from_events finds a project only when the first event of the
\* stream is ProjectCreated.
IsProject(rows) ==
    \E v \in 1 .. Len(rows) :
        /\ rows[v] # NoRow
        /\ rows[v].command = "project.create"
        /\ \A w \in 1 .. (v - 1) : rows[w] = NoRow

Managers(rows, v) == {u \in Users : RoleAt(rows, u, v) \in ManagerRoles}
=============================================================================
