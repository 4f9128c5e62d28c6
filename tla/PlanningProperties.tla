------------------------- MODULE PlanningProperties -------------------------
(***************************************************************************)
(* What planning and the retry of its iterations promise.                  *)
(***************************************************************************)
EXTENDS Planning

\* Waiting is not work: the time left to the job's deadline is what it was
\* allowed, less what its attempts worked and the wait that is under way
\* (_extend_deadline): backoffs, rate limits and the delay before the
\* reflection are given back however they end.
DeadlineCountsOnlyWork == clock.left + clock.worked + wait.elapsed = clock.allowance

Edges(plan) == [t \in IdsOf(plan) |-> UNION {plan[i].deps : i \in {j \in DOMAIN plan : plan[j].id = t}}]

\* What planning hands over can be worked and is what was proposed (ingest,
\* repair_criteria): the criteria of every task pass every lint, each thing the
\* proposal demanded is still demanded, no id is taken twice, and the graph can
\* be scheduled.
HandedOver ==
    /\ \A i \in DOMAIN disk.plan :
        /\ disk.plan[i].criteria # <<>> /\ CriteriaLints(disk.plan[i].criteria) = {}
        /\ Demands(disk.proposed[i].criteria) \subseteq Demands(disk.plan[i].criteria)
        /\ \A j \in DOMAIN disk.plan : disk.plan[j].id = disk.plan[i].id => j = i
    /\ Acyclic(Edges(disk.plan))

\* Work recorded on an approach's plan is never planned over while that approach
\* is the current one, by a late objection of the peer, a resume or a dead
\* planning (plan_review, _resume_point): only a graph that could not be
\* scheduled is replaced.
RecordedWorkSurvives ==
    [][disk.worked = memory.approach /\ memory'.approach = memory.approach =>
          disk'.worked = disk.worked \/ memory.approach \in record.faulted]_vars

\* Whatever its iterations meet (outages, limits, refusals, kills), whatever the
\* hat proposes and the peer objects, planning comes to hand a plan over or to
\* end the run.
PlanningConcludes ==
    step \in {"planning", "plan_review", "replan"} ~> step \in {"worker", "tail", "over"}

=============================================================================
