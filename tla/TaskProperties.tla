---------------------------- MODULE TaskProperties ----------------------------
(***************************************************************************)
(* What the worker's step promises about the plan it works off.            *)
(***************************************************************************)
EXTENDS Tasks

TaskRecord ==
    [status : Statuses, deps : SUBSET Ids, waits : BOOLEAN, tries : Nat, tier : Nat,
     kind : Kinds, parent : Ids \cup {NoTask}]

IsPlan(p) == DOMAIN p \subseteq Ids /\ p \in [DOMAIN p -> TaskRecord]

IsReopen(r) ==
    DOMAIN r \subseteq Ids /\ r \in [DOMAIN r -> [prior : Statuses, owners : SUBSET Ids]]

StatusRecord ==
    [approach : Nat, task : Ids \cup {NoTask}, used : Nat, splits : Nat, repoints : Nat,
     faulted : SUBSET Nat, midPlan : SUBSET Nat, cures : Nat, filed : SUBSET Ids,
     settled : SUBSET Ids, confirmed : SUBSET Ids, remedied : SUBSET Ids]

AnswerSheets == UNION {[S -> Answers] : S \in SUBSET Ids}

PassRecord ==
    [cur : Ids \cup {NoTask}, from : Statuses \cup {"none"}, tier : Nat,
     forced : BOOLEAN, told : 0 .. 5, claim : {"none", "idle", "corroborated"},
     stirred : BOOLEAN, applied : BOOLEAN, held : BOOLEAN, fault : BOOLEAN,
     toVerify : SUBSET Ids, k : Nat, answers : AnswerSheets,
     then : {"top", "held", "midplan", "verify", "reviewed"}]

StreakRecord ==
    [stagnant : Nat, held : Nat, repolls : Nat, on : Ids \cup {NoTask}, seen : SUBSET Ids]

Rulings == Seq([task : Ids, status : Statuses, in : Nat])

WorldRecord ==
    [spent : Nat, cut : BOOLEAN, steering : {0, 1}, undefer : SUBSET Ids,
     rulings : Rulings, edits : Nat]

Past == [Ids -> [rejected : Nat, corroborated : Nat, split : BOOLEAN]]

\* Every reachable value has the shape the actions assume.
TypeOK ==
    /\ IsPlan(plan) /\ IsReopen(reopened) /\ at \in Places
    /\ status \in StatusRecord /\ pass \in PassRecord
    /\ streak \in StreakRecord /\ world \in WorldRecord
    /\ past \in Past

-----------------------------------------------------------------------------
(* The graph *)

\* Whatever splits, re-points, cures, steers and adjudicates, the plan never
\* waits on itself and never on a task that is not there: validate_dependency_
\* edges, lint_worker_split and lint_worker_task_updates between them leave the
\* scheduler nothing it could starve on.
Schedulable == Acyclic(DepsOf(plan)) /\ Resolved(plan)

-----------------------------------------------------------------------------
(* Honest records *)

\* A task is petitioned only after verdicts against it used its attempts up, and
\* none that is out of attempts is ever offered again: no kill, fault or verdict
\* that never came is charged as a rejection.
RoundsAreRejections ==
    \A t \in DOMAIN plan :
        /\ plan[t].tries <= past[t].rejected
        /\ t \in status.filed => past[t].rejected >= AttemptLimit
        /\ plan[t].status \in ActionableStatuses => plan[t].tries < AttemptLimit

\* A task climbs the tier ladder by rejections of its work and by nothing else:
\* an iteration the machinery failed is given back with its tier (_step_worker).
TierIsEarned == \A t \in DOMAIN plan : plan[t].tier <= past[t].rejected

\* The forced split is asked only of a task under whose id believed progress claims
\* used the budget up (a task that takes the id of a deleted one takes its record).
ForcedSplitIsEarned ==
    at = "run" /\ pass.forced => past[pass.cur].corroborated >= ProgressMax

\* Once a forced split has put its children in the plan, the parent is not
\* worked on again (superseded is terminal).
SplitParentRests == at = "run" /\ pass.cur # NoTask => ~past[pass.cur].split

-----------------------------------------------------------------------------
(* Cures *)

\* A record that a cure re-opened is not taken again before the cure is done
\* with: no path re-validates it while an owner is still to be worked on.
CuresComeFirst ==
    \A t \in DOMAIN reopened \cap DOMAIN plan :
        plan[t].status = "validated" =>
            \A c \in reopened[t].owners \cap DOMAIN plan : plan[c].status \notin ActionableStatuses

NobodyWaitsOn(t) == \A x \in DOMAIN plan : t \notin plan[x].deps

\* No dependent is left behind on a task that a petition decided: from the write
\* on that skips a task whose petition was confirmed, and from the one on that
\* puts the remedy of a failed task into the plan, nobody waits on it, through the
\* cure passes, restored records and kills that follow.  (Between the failure and
\* its remedy a kill does leave the dependents on the failed task.)
NoEdgeToVoided ==
    \A t \in DOMAIN plan :
        (t \in status.confirmed /\ plan[t].status = "skipped") \/ t \in status.remedied
            => NobodyWaitsOn(t)

-----------------------------------------------------------------------------
(* Progress *)

\* The worker's step and what follows it come to an end: a deferral, a hold, a
\* graph fault or a task that is never done cannot keep a run going for good.
LeavesWorker == <>(at \in {"tail", "done"})

=============================================================================
