---------------------------- MODULE CommandStates ----------------------------
(***************************************************************************)
(* The two state machines of a command in the ground data service:         *)
(* CommandEngine (command_engine.go) validates the lifecycle carried by     *)
(* command records, CommandExecutionReconciler                             *)
(* (command_execution_reconciliation.go) builds the execution read model    *)
(* from vehicle feedback.  "" stands for a command without an entry.        *)
(***************************************************************************)

Terminal == {"COMPLETED", "FAILED", "REJECTED", "TIMEOUT", "CANCELLED"}

ExecutionStates ==
    {"CREATED", "VALIDATED", "QUEUED", "SENT", "ACKNOWLEDGED", "EXECUTING"} \union Terminal

Lifecycles == (ExecutionStates \ {"CREATED"}) \union {"RECEIVED"}

(* The part both tables share; a terminal state has no successor. *)
StageNext(previous) ==
    CASE previous = "VALIDATED"    -> {"QUEUED", "SENT", "REJECTED", "CANCELLED"}
      [] previous = "QUEUED"       -> {"SENT", "REJECTED", "TIMEOUT", "CANCELLED"}
      [] previous = "SENT"         -> {"ACKNOWLEDGED", "FAILED", "TIMEOUT", "CANCELLED"}
      [] previous = "ACKNOWLEDGED" -> {"EXECUTING", "FAILED", "TIMEOUT", "CANCELLED"}
      [] previous = "EXECUTING"    -> {"COMPLETED", "FAILED", "TIMEOUT", "CANCELLED"}
      [] OTHER                     -> {}

\* isValidCommandTransition: there is no way from RECEIVED to QUEUED.
IsValidCommandTransition(previous, next) ==
    CASE previous = ""         -> next \in {"RECEIVED", "VALIDATED", "REJECTED"}
      [] previous = "RECEIVED" -> next \in {"RECEIVED", "VALIDATED", "REJECTED"}
      [] OTHER                 -> next = previous \/ next \in StageNext(previous)

\* validCommandExecutionTransition: feedback about an unknown command is taken as is.
ValidCommandExecutionTransition(previous, next) ==
    CASE previous = ""        -> next \in ExecutionStates
      [] previous = "CREATED" -> next \in {"CREATED", "VALIDATED", "QUEUED", "REJECTED", "CANCELLED"}
      [] OTHER                -> next = previous \/ next \in StageNext(previous)
=============================================================================
