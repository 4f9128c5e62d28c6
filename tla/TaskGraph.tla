------------------------------ MODULE TaskGraph ------------------------------
(***************************************************************************)
(* The plan (tasks.json) as a graph: which task the scheduler may offer,   *)
(* which tasks can never run again, which edges may be written and when a  *)
(* plan counts as done (engine/scheduler.py, engine/state.py,              *)
(* engine/plan_ingestion.py).                                              *)
(*                                                                         *)
(* A plan is a function from the ids present to task records with at least *)
(* the fields status, deps (the set of ids in dependsOn) and waits         *)
(* (deferredUntil is set).  Priorities and list positions are abstracted:  *)
(* where the code breaks a tie by them, any member of the bucket is taken. *)
(***************************************************************************)
EXTENDS Integers, FiniteSets

Statuses ==
    {"pending", "in-progress", "awaiting-validation", "validated",
     "validation-failed", "completed", "failed", "skipped", "petitioned",
     "superseded"}

SatisfiedStatuses == {"completed", "validated", "superseded"}
DeadStatuses == {"failed", "skipped"}
ActionableStatuses == {"pending", "in-progress", "validation-failed"}
CompletionStatuses == {"completed", "validated", "skipped"}
NonblockingStatuses == {"awaiting-validation", "superseded"}
ClaimedStatuses == {"in-progress", "validation-failed"}

Having(plan, statuses) == {t \in DOMAIN plan : plan[t].status \in statuses}
Actionable(plan) == Having(plan, ActionableStatuses)

\* A dependency that names no task is as unmet as one that is not done.
PendingCandidates(plan) ==
    {t \in Having(plan, {"pending"}) :
        /\ ~plan[t].waits
        /\ plan[t].deps \subseteq Having(plan, SatisfiedStatuses)}

\* Rejected work first, then work under way, then what may start.
Selectable(plan) ==
    IF Having(plan, {"validation-failed"}) # {} THEN Having(plan, {"validation-failed"})
    ELSE IF Having(plan, {"in-progress"}) # {} THEN Having(plan, {"in-progress"})
    ELSE PendingCandidates(plan)

(***************************************************************************)
(* Blocked work: what waits, through tasks not done, on a dead task.       *)
(***************************************************************************)
\* The dead tasks' dependents, through whatever is not done: the least set.
Doomed(plan) ==
    LET open == DOMAIN plan \ Having(plan, SatisfiedStatuses)
        Closed(S) == \A t \in open : (plan[t].deps \cap S # {}) => t \in S
    IN  {t \in open :
            \A S \in SUBSET open : (Having(plan, DeadStatuses) \subseteq S /\ Closed(S)) => t \in S}

BlockedByOver(plan, held) ==
    {t \in DOMAIN plan \ (Having(plan, DeadStatuses \cup SatisfiedStatuses) \cup held) :
        plan[t].deps \cap (Doomed(plan) \cup held) # {}}

BlockedBy(plan) == BlockedByOver(plan, {})

\* include_petitioned: a petitioned dependency holds its dependents, and only them.
HeldBy(plan) == BlockedByOver(plan, Having(plan, {"petitioned"}))

\* The whole remainder that a worker could move is blocked.
DoomedPlanFault(plan) == Actionable(plan) # {} /\ Actionable(plan) \subseteq BlockedBy(plan)
PetitionHeld(plan) == Actionable(plan) # {} /\ Actionable(plan) \subseteq HeldBy(plan)

(***************************************************************************)
(* Cycles and edges to nowhere.                                            *)
(***************************************************************************)
\* What t waits on, directly or not: every set that holds its dependencies
\* and those of its own members.
Ancestors(deps, t) ==
    LET Closed(S) == \A x \in S : deps[x] \cap DOMAIN deps \subseteq S
    IN  {x \in DOMAIN deps :
            \A S \in SUBSET DOMAIN deps :
                (deps[t] \cap DOMAIN deps \subseteq S /\ Closed(S)) => x \in S}

DepsOf(plan) == [t \in DOMAIN plan |-> plan[t].deps]

OnCycle(plan) == {t \in DOMAIN plan : t \in Ancestors(DepsOf(plan), t)}

\* No set of tasks waits on itself: some member waits on none of the others.
Acyclic(deps) ==
    \A S \in SUBSET DOMAIN deps : S # {} => \E t \in S : deps[t] \cap S = {}

Resolved(plan) == \A t \in DOMAIN plan : plan[t].deps \subseteq DOMAIN plan

UnschedulableCycleFault(plan) == OnCycle(plan) \cap Actionable(plan) # {}
UnresolvableEdgeFault(plan) == \E t \in Actionable(plan) : ~(plan[t].deps \subseteq DOMAIN plan)

\* Mutant (a plausible bug): only the two easy refusals are checked.
EdgeRefusedShallow(deps, t, d) == d = t \/ d \notin DOMAIN deps

\* Edge t -> d is refused when it names t itself, no task at all, or a task
\* that already waits on t.
EdgeRefused(deps, t, d) ==
    \/ d = t
    \/ d \notin DOMAIN deps
    \/ t \in DOMAIN deps /\ t \in Ancestors(deps, d)

\* The edges of t that are kept.  The code tries them one by one with those
\* accepted before; a path back to t ends at t and uses no edge of t's own, so
\* neither the order nor t's stored edges matter.
ValidEdges(deps, t, candidates) == {d \in candidates : ~EdgeRefused(deps, t, d)}

(***************************************************************************)
(* Done?                                                                   *)
(***************************************************************************)
\* A failure counts as unresolved once nothing else is left to act on.
UnresolvedFailures(plan) ==
    IF Actionable(plan) # {} THEN {} ELSE Having(plan, {"failed"})

\* `accepted` are the petitioned tasks whose obligation is confirmed void.
OutstandingForCompletion(plan, accepted) ==
    {t \in DOMAIN plan :
        IF plan[t].status = "petitioned" THEN t \notin accepted
        ELSE plan[t].status \notin CompletionStatuses \cup NonblockingStatuses}

=============================================================================
