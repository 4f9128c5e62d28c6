----------------------------- MODULE TaskStatus -----------------------------
(***************************************************************************)
(* The declared task-status table (engine/transitions.py) and the moves a  *)
(* hat, an operator's ruling, the steer hat or the engine's own un-reopen  *)
(* may claim by it (engine/state.py, apply_task_status_change).            *)
(***************************************************************************)
EXTENDS TaskGraph

\* The statuses a re-opened record may be restored to.
UnReopenTargets ==
    {"validated", "completed", "failed", "skipped", "superseded", "petitioned"}

TaskStatusTable(vigilant) ==
    [s \in Statuses |->
        CASE s = "pending" -> {"in-progress"} \cup UnReopenTargets
          [] s = "in-progress" ->
                {"failed", "skipped", "superseded",
                 IF vigilant THEN "awaiting-validation" ELSE "completed"}
          [] s = "validation-failed" -> {"in-progress", "failed", "skipped"}
          [] s = "awaiting-validation" /\ vigilant ->
                {"validated", "validation-failed", "failed", "petitioned"}
          [] s = "failed" -> {"skipped"}
          [] OTHER -> {}]

IsUnReopen(current, target) == current = "pending" /\ target \in UnReopenTargets

VariantClaimTerminal(vigilant) == IF vigilant THEN "validated" ELSE "completed"

IsLegalMove(current, target, vigilant) ==
    current = target \/ target \in TaskStatusTable(vigilant)[current]

\* What a report of `target` may do to a task that stands at `current`.
\* restoring: the engine's own un-reopen; justified: a non-empty justification.
ReportAccepted(current, target, vigilant, restoring, justified) ==
    /\ IsLegalMove(current, target, vigilant)
    /\ (target = "superseded" /\ current # target) => restoring
    /\ IsUnReopen(current, target) => restoring
    /\ (current = "failed" /\ target = "skipped") => justified

\* apply_task_status_change: no such task, a repeat and a refused move change nothing.
Moved(plan, t, target, vigilant, restoring, justified) ==
    IF /\ t \in DOMAIN plan
       /\ ReportAccepted(plan[t].status, target, vigilant, restoring, justified)
    THEN [plan EXCEPT ![t].status = target]
    ELSE plan

=============================================================================
