--------------------------- MODULE InstanceStatus ---------------------------
(***************************************************************************)
(* The status of an instance (what the provider did with the machine) and  *)
(* of its runner (what the forge says of the agent on it), and the         *)
(* transitions the store accepts when an update is not forced.             *)
(***************************************************************************)

\* InstanceStatusTransitions, params/params.go
InstanceTransitions ==
    [running |-> {"pending_delete", "pending_force_delete", "stopped", "unknown"},
     stopped |-> {"pending_delete", "pending_force_delete", "running", "unknown"},
     error |-> {"pending_delete", "pending_force_delete", "unknown", "deleting"},
     pending_delete |-> {"deleting", "pending_force_delete"},
     pending_force_delete |-> {"deleting"},
     deleting |-> {"error", "deleted"},
     deleted |-> {},
     pending_create |-> {"pending_delete", "creating", "pending_force_delete"},
     creating |-> {"error", "running"},
     unknown |-> {"running", "stopped", "error", "pending_delete",
                  "pending_force_delete", "deleting", "deleted",
                  "pending_create", "creating"}]

\* RunnerStatusTransitions, params/params.go
RunnerTransitions ==
    [pending |-> {"failed", "installing", "terminated", "pending", "active"},
     installing |-> {"failed", "idle", "terminated", "installing", "active", "offline"},
     idle |-> {"offline", "active", "terminated", "idle"},
     active |-> {"terminated", "active"},
     failed |-> {"terminated", "failed"},
     offline |-> {"idle", "active", "terminated", "offline"},
     terminated |-> {"terminated"}]

Statuses == DOMAIN InstanceTransitions
RunnerStatuses == DOMAIN RunnerTransitions

\* validateInstanceStatusTransition: a status may always be written again.
InstanceMayBecome(from, to) == to = from \/ to \in InstanceTransitions[from]

\* validateRunnerStatusTransition
RunnerMayBecome(from, to) == to = from \/ to \in RunnerTransitions[from]

\* InstanceIsBeingDeleted, internal/errors/errors.go: the deletion lane.
DeletionLane == {"pending_delete", "pending_force_delete", "deleting", "deleted"}

\* InstanceIsProvisioning
ProvisioningLane == {"pending_create", "creating"}

\* RunnerIsTerminal
TerminalRunner == {"terminated", "failed"}
=============================================================================
