---------------------------- MODULE Permissions ----------------------------
(***************************************************************************)
(* The role table of permissions.py and the permission that CommandBus     *)
(* demands for each command type (bus.py, _handle_existing).               *)
(***************************************************************************)

Roles == {"reader", "editor", "admin", "creator"}

\* The role of somebody who is not a member (memberships.get(...) is None).
NoRole == "none"

MaybeRole == Roles \cup {NoRole}

ReadPermissions    == {"project.read", "artifact.download"}
WorkPermissions    == {"annotation.create", "change.plan", "change.apply",
                       "artifact.generate", "simulation.run"}
ManagePermissions  == {"approval.grant", "membership.invite", "membership.manage"}
CreatorPermissions == {"project.delete", "creator.transfer"}

Permission == ReadPermissions \cup WorkPermissions
                 \cup ManagePermissions \cup CreatorPermissions

PERMISSIONS ==
    [p \in Permission |->
        IF p \in ReadPermissions        THEN Roles
        ELSE IF p \in WorkPermissions   THEN Roles \ {"reader"}
        ELSE IF p \in ManagePermissions THEN {"admin", "creator"}
        ELSE {"creator"}]

\* require_permission: a non-member has no permission at all.
HasPermission(role, permission) == role \in PERMISSIONS[permission]

-----------------------------------------------------------------------------
(***************************************************************************)
(* The command types, grouped by the permission they need.                 *)
(***************************************************************************)
AnnotationCommands == {"annotation.create", "annotation.status"}

PlanCommands ==
    {"change.plan.record", "design_fixation.review.record",
     "evolution.run.record", "dsl.execution.record", "eda.change.plan",
     "eda.change.plan.failed", "eda.validation.record",
     "eda.schematic.analysis.record", "eda.pcb.analysis.record",
     "eda.netlist.analysis.record", "eda.simulation.analysis.record",
     "svg.analysis.record", "project.update.record", "claim.add",
     "selection_map.record"}

ApplyCommands ==
    {"object.upsert", "object.remove", "lifecycle.blueprint.upsert",
     "change.apply", "change.revert", "eda.candidate.record",
     "eda.candidate.delete", "eda.revision.promote", "eda.revision.revert",
     "eda.history.import", "requirement.upsert", "projection_map.upsert",
     "test_plan.upsert", "power.set", "thermal.set", "failure_mode.add",
     "human_scenario.upsert", "ecommerce_offer.upsert"}

GenerateCommands ==
    {"artifact.attach", "generation.request", "generation.complete",
     "generation.fail"}

SimulateCommands == {"simulation.request"}

ApprovalCommands ==
    {"lifecycle.transition.record", "eda.candidate.accept",
     "eda.candidate.reject", "lifecycle.set", "approval.grant"}

MembershipCommands == {"membership.grant", "membership.revoke"}

\* Commands on an existing project; everything else is an unknown command.
ExistingCommands ==
    AnnotationCommands \cup PlanCommands \cup ApplyCommands
        \cup GenerateCommands \cup SimulateCommands
        \cup ApprovalCommands \cup MembershipCommands

RequiredPermission(command) ==
    CASE command \in AnnotationCommands -> "annotation.create"
      [] command \in PlanCommands       -> "change.plan"
      [] command \in ApplyCommands      -> "change.apply"
      [] command \in GenerateCommands   -> "artifact.generate"
      [] command \in SimulateCommands   -> "simulation.run"
      [] command \in ApprovalCommands   -> "approval.grant"
      [] command \in MembershipCommands -> "membership.manage"

\* The roles that may change memberships.
ManagerRoles == PERMISSIONS["membership.manage"]
=============================================================================
