----------------------------- MODULE Supervisor -----------------------------
(***************************************************************************)
(* The run supervisor: LoopSupervisor's dispatch loop (engine/loop.py),    *)
(* the operator's requests that act on it (engine/api.py), the end of its  *)
(* process and the next start of the engine over the same run directory    *)
(* (engine/main.py, `ralphctl resume`).                                    *)
(*                                                                         *)
(* The engine is one asyncio loop.  Between two awaits a step runs         *)
(* alone; at an await (AtAwait) a request handler may run.  A kill may     *)
(* come anywhere, so a synchronous stretch that makes several durable      *)
(* writes is split where the order of those writes shows.                  *)
(***************************************************************************)
EXTENDS Ladder, Transitions, Integers

CONSTANTS
    MaxApproaches,  \* job.yaml's max_approaches at the first start
    Iterations,     \* job.yaml's iterations at the first start
    CureCeiling,    \* cure_pass_ceiling
    PeerGate,       \* peer_verdict_gate
    Reflect,        \* reflect
    InputPause,     \* operator_input_needed_pause
    Rejections,     \* the sets of blocking findings a rejection may carry
    Environment,    \* which of EnvironmentEvents happen
    Patches,        \* the iteration budgets PATCH /config/budget may ask for
    ApproachBound,  \* bound: no grant lifts the approaches above this
    BudgetBound,    \* bound: no top-up lifts the iteration budget above this
    TopUpBound,     \* bound: cure rounds granted per approach
    FaultBound,     \* judge faults one outage budget absorbs
    SteerBound,     \* bound: steering messages unsettled at once
    BootBound       \* bound: starts of the engine after the first

EnvironmentEvents ==
    {"abort", "pause", "steer", "deadline", "input_timeout", "early_verdict",
     "judge_fault", "planning_death", "steer_unsettled", "steer_fault", "secret",
     "graph_fault", "patch", "patch_cures", "kill", "kill_opening", "kill_answered"}

ASSUME SupervisorAssumption ==
    /\ MaxApproaches \in Nat \ {0}
    /\ Iterations \in Nat \ {0}
    /\ CureCeiling \in Nat
    /\ {PeerGate, Reflect, InputPause} \subseteq BOOLEAN
    /\ Rejections \subseteq SUBSET Findings
    /\ Environment \subseteq EnvironmentEvents
    /\ Patches \subseteq Nat \ {0}
    /\ ApproachBound \in Nat /\ ApproachBound >= MaxApproaches
    /\ BudgetBound \in Nat /\ BudgetBound >= Iterations
    /\ {TopUpBound, FaultBound, SteerBound, BootBound} \subseteq Nat

Approaches == 1 .. ApproachBound

VARIABLES
    status,  \* status.json
    dir,     \* the rest of the run directory
    job,     \* job.yaml: the approaches a new process starts with
    proc,    \* the engine process's memory
    step,    \* _run_job_core's `step`: the dispatch loop's position
    at,      \* where inside the step the loop stands
    passed,  \* history: who passed the tree as it stands (a judge, its early
             \* word, or the operator in a judge's place)
    boots    \* history: starts of the engine so far, counted for BootBound

vars == <<status, dir, job, proc, step, at, passed, boots>>

-----------------------------------------------------------------------------
(* What the files and the process hold *)

RunStates == RunTerminalStates \cup
    {"starting", "running", "paused", "awaiting_input", "exhausted", "finishing"}

Verdicts == {"none", "verified", "rejected", "unreviewed", "unverified"}

NoQuestion == [kind |-> "none", judge |-> "none", trigger |-> "none",
               findings |-> {}, approach |-> 0]

SecretQuestion(a) == [NoQuestion EXCEPT !.kind = "secret", !.approach = a]

FindingsQuestion(judge, trigger, blocking, a) ==
    [kind |-> "findings", judge |-> judge, trigger |-> trigger,
     findings |-> blocking, approach |-> a]

FindingsQuestions ==
    [kind : {"findings"}, judge : Judges, trigger : Triggers,
     findings : SUBSET Findings, approach : Approaches]

SecretQuestions ==
    [kind : {"secret"}, judge : {"none"}, trigger : {"none"},
     findings : {{}}, approach : Approaches]

Questions == FindingsQuestions \cup SecretQuestions \cup {NoQuestion}

NoAnswer == [outcome |-> "none", judge |-> "none", approach |-> 0]

Answers ==
    [outcome : {"verified", "cure", "next_approach"}, judge : Judges,
     approach : Approaches] \cup {NoAnswer}

NoCheckpoint == [approach |-> 0, verdict |-> "none"]

Checkpoints ==
    [approach : Approaches \cup {0}, verdict : {"none", "verified", "rejected"}]

Steps == {"planning", "worker", "steer", "review", "verdict_gate", "cure",
          "paused", "replan"}

\* "entry" is the top of a step; "gate", "run", "backoff" and "wait" are its
\* awaits; at "woken" the gate's event was set, which ends the wait whatever
\* happens to the event after (the wait of "wait" looks again); "cure_count"
\* and "archived" stand between two durable writes; "opening" is between the
\* two opening writes of a start that found a parked question; "reflect" is the
\* reflection after a settled outcome; "down" is no engine process.
Places == {"entry", "gate", "woken", "run", "backoff", "wait", "cure_count",
           "archived", "opening", "reflect", "down"}

\* A process that has just started.  approach is self._approach, max is
\* cfg.max_approaches, gateOpen the `_pause` event, parked the question the
\* paused step captured as it began, judge and target what a half-done cure or
\* archive works for, carried what the steering iteration was handed.
Fresh(a, max) ==
    [approach |-> a, max |-> max, gateOpen |-> TRUE, aborted |-> FALSE,
     timeUp |-> FALSE, skip |-> FALSE, guard |-> "none", parked |-> NoQuestion,
     judge |-> "none", target |-> 0, faults |-> 0, carried |-> 0]

Idle == Fresh(1, MaxApproaches)

\* The guard of the last advance, as far as a later step reads it.
Guards == {"none", "empty_plan", "unschedulable_task_graph", "charged",
           "review_judge_fault_retry"}

Statuses ==
    [state : RunStates, verdict : Verdicts,
     pending : RunTerminalStates \cup {"none"},
     exhausted : {"none", "approaches", "iterations", "time"},
     approach : Approaches, question : Questions, answer : Answers,
     cures : [Approaches -> Nat], topUps : [Approaches -> Int], budget : Nat,
     stalled : SUBSET Approaches, faulted : SUBSET Approaches,
     planningDied : BOOLEAN]

Dirs ==
    [planOf : Approaches \cup {0}, work : {"none", "plan", "cure"},
     archived : SUBSET Approaches, charged : Nat, waivers : SUBSET Clauses,
     reReview : Approaches \cup {0}, midReview : BOOLEAN, early : Checkpoints,
     steering : Nat, deferred : Nat]

Processes ==
    [approach : Approaches, max : Approaches, gateOpen : BOOLEAN,
     aborted : BOOLEAN, timeUp : BOOLEAN, skip : BOOLEAN, guard : Guards,
     parked : Questions, judge : Judges \cup {"none", "worker"},
     target : Approaches \cup {0}, faults : Nat, carried : Nat]

TypeOK ==
    /\ status \in Statuses
    /\ dir \in Dirs
    /\ job \in Approaches
    /\ proc \in Processes
    /\ step \in Steps
    /\ at \in Places
    /\ passed \in Judges \cup {"no", "early"}
    /\ boots \in Nat

Init ==
    /\ status = [state |-> "starting", verdict |-> "none", pending |-> "none",
                 exhausted |-> "none", approach |-> 1, question |-> NoQuestion,
                 answer |-> NoAnswer, cures |-> [a \in Approaches |-> 0],
                 topUps |-> [a \in Approaches |-> 0], budget |-> Iterations,
                 stalled |-> {}, faulted |-> {}, planningDied |-> FALSE]
    /\ dir = [planOf |-> 0, work |-> "none", archived |-> {}, charged |-> 0,
              waivers |-> {}, reReview |-> 0, midReview |-> FALSE,
              early |-> NoCheckpoint, steering |-> 0, deferred |-> 0]
    /\ job = MaxApproaches
    /\ proc = Idle
    /\ step = EntryState
    /\ at = "down"
    /\ passed = "no"
    /\ boots = 0

-----------------------------------------------------------------------------
(* Budget, gate, and the ways a step ends *)

\* An operator marked "Mutant" is no part of the system: it is the definition
\* that follows it with a plausible bug, put in its place to see that a property
\* notices.

\* Mutant: one iteration too many.
BudgetLeftOffByOne(charged) ==
    charged <= status.budget /\ ~proc.timeUp /\ ~proc.aborted

\* Mutant: a budget that an abort does not end.
BudgetLeftAborted(charged) == charged < status.budget /\ ~proc.timeUp

BudgetLeft(charged) == charged < status.budget /\ ~proc.timeUp /\ ~proc.aborted

\* "advance": the dispatch loop enters the next step.
Goto(s) == step' = s /\ at' = "entry"

\* run_iteration's start: its `iteration.start` event outdates an earlier
\* escalation, and its meta.json takes the slot an unfinished one held.
Started(d, phase) ==
    [d EXCEPT !.reReview = 0, !.midReview = phase = "review"]

\* Mutant: what was deferred takes the place of what is pending.
EndedOverwrites(d) ==
    [d EXCEPT !.midReview = FALSE, !.steering = d.deferred, !.deferred = 0]

\* A finished iteration's meta.json is closed, and (the steer hat's apart) the
\* steering deferred by an earlier one is pending again.
Ended(d) ==
    [d EXCEPT !.midReview = FALSE, !.steering = @ + d.deferred, !.deferred = 0]

\* Mutant (a plausible bug): an iteration that is never charged.
ChargedNever(d) == Ended(d)

Charged(d) == [Ended(d) EXCEPT !.charged = @ + 1]

\* The iteration of step s begins; one that acts on steering is handed what is
\* unsettled now.
Run(s, d, p) ==
    /\ step' = s /\ at' = "run"
    /\ dir' = Started(d, s)
    /\ proc' = IF s \in {"planning", "steer"}
               THEN [p EXCEPT !.carried = d.steering] ELSE p

\* `await self._gate()` and then the iteration.
GateThenRun(s, d, p) ==
    IF p.gateOpen THEN Run(s, d, p)
    ELSE step' = s /\ at' = "gate" /\ dir' = d /\ proc' = p

\* The process exits: nothing of its memory is left.
Exit == step' = EntryState /\ at' = "down" /\ proc' = Idle

\* Mutant: the outcome is not on record while the reflection runs.
FinishingUnnamed(st, outcome, verdict) ==
    [st EXCEPT !.state = "finishing", !.verdict = verdict]

Finishing(st, outcome, verdict) ==
    [st EXCEPT !.state = "finishing", !.verdict = verdict, !.pending = outcome]

\* _finish: with reflection on, the outcome is recorded as pending first.
Finish(st, outcome, verdict) ==
    IF Reflect
    THEN /\ status' = Finishing(st, outcome, verdict)
         /\ at' = "reflect"
         /\ UNCHANGED <<step, proc>>
    ELSE /\ status' = [st EXCEPT !.state = outcome, !.verdict = verdict]
         /\ Exit

\* _finish_exhausted: the run holds, without reflection.
Hold(st, budget) ==
    /\ status' = [st EXCEPT !.state = "exhausted", !.verdict = "none",
                            !.exhausted = budget, !.pending = "none"]
    /\ Exit

\* _spent_run_budget, where some budget is spent.
SpentBudget(st, charged) ==
    IF charged >= st.budget THEN "iterations" ELSE "time"

\* _finish_tail_unverified: an abort comes before whatever else the step left.
Tail(st, why, charged) ==
    IF proc.aborted THEN Finish(st, "aborted", "unverified")
    ELSE CASE why = "budget" -> Hold(st, SpentBudget(st, charged))
           [] why = "approaches" -> Hold(st, "approaches")
           [] why = "provisional_rejected" -> Finish(st, "failed", "rejected")
           [] why \in {"deadline", "graph_fault"} -> Finish(st, "failed", "none")
           [] why = "unreviewed" -> Finish(st, "failed", "unreviewed")
           [] why = "unverified" -> Finish(st, "failed", "unverified")

-----------------------------------------------------------------------------
(* Where a start of the engine takes the run up: _resume_point *)

\* Mutant: a run that holds is started like any other.
OpeningBudgetIgnored == "none"

OpeningBudget == IF status.state = "exhausted" THEN status.exhausted ELSE "none"

OpeningQuestion ==
    IF status.state = "awaiting_input" THEN status.question ELSE NoQuestion

\* A unfinished review's meta.json, or an escalation or an unjudged review of
\* this approach with no iteration started since.
ReviewOwed(a) == dir.midReview \/ dir.reReview = a

\* [step, skip]: the step the dispatch loop starts with, and skip_planning.
ResumePoint ==
    LET a == status.approach
        At(s, skip) == [step |-> s, skip |-> skip]
    IN  CASE dir.planOf = 0 -> At("planning", FALSE)
          [] dir.planOf # 0 /\ OpeningBudget = "approaches" -> At("replan", FALSE)
          [] /\ dir.planOf # 0 /\ OpeningBudget # "approaches"
             /\ OpeningQuestion.kind # "none" -> At("paused", FALSE)
          [] OTHER -> IF a \in dir.archived THEN At("replan", FALSE)
                      ELSE IF ReviewOwed(a) THEN At("review", FALSE)
                      ELSE At("planning", TRUE)

\* The first of the two opening writes of a start with the budget topped up.
OpeningWrite(budget) ==
    [status EXCEPT !.state = "running", !.verdict = "none",
                   !.exhausted = "none", !.question = NoQuestion,
                   !.budget = budget]

\* `ralphctl start` and `ralphctl resume` (moreApproaches, moreIterations,
\* moreTime are resume's top-ups), up to the first dispatch.  An exhausted run
\* is resumed only with a top-up of the budget it names.
Boot(moreApproaches, moreIterations, moreTime) ==
    LET resumed == ResumePoint
        first == IF dir.planOf = 0 THEN 1 ELSE status.approach
        topped == status.budget + moreIterations
    IN  /\ at = "down" /\ status.state # "finishing"
        /\ boots <= BootBound
        /\ status.state # "starting" \/ moreApproaches + moreIterations = 0
        /\ job + moreApproaches <= ApproachBound /\ topped <= BudgetBound
        /\ OpeningBudget = "approaches" => moreApproaches > 0
        /\ OpeningBudget = "iterations" => moreIterations > 0
        /\ OpeningBudget = "time" => moreTime
        /\ boots' = boots + 1
        /\ job' = job + moreApproaches
        /\ status' = OpeningWrite(topped)
        /\ proc' = [Fresh(first, job') EXCEPT
                        !.gateOpen = OpeningQuestion.kind = "none",
                        !.skip = resumed.skip, !.parked = OpeningQuestion]
        /\ step' = resumed.step
        /\ at' = IF OpeningQuestion.kind # "none" THEN "opening" ELSE "entry"
        /\ UNCHANGED <<dir, passed>>

\* Mutant: the run is parked again without its question.
ReparkStateOnly ==
    /\ at = "opening"
    /\ status' = [status EXCEPT !.state = "awaiting_input"]
    /\ at' = "entry"
    /\ UNCHANGED <<dir, job, proc, step, passed, boots>>

\* The second opening write: a run that was parked is parked again.
Repark ==
    /\ at = "opening"
    /\ status' = [status EXCEPT !.state = "awaiting_input",
                                !.question = proc.parked]
    /\ at' = "entry"
    /\ UNCHANGED <<dir, job, proc, step, passed, boots>>

\* Mutant: the outcome the crashed process had settled is given up.
PromoteAsFailed ==
    /\ at = "down" /\ status.state = "finishing"
    /\ boots <= BootBound
    /\ boots' = boots + 1
    /\ status' = [status EXCEPT !.state = "failed", !.verdict = "unverified"]
    /\ UNCHANGED <<dir, job, proc, step, at, passed>>

\* run_job over a run directory recorded `finishing`: nothing is redone.
PromoteRecorded ==
    /\ at = "down" /\ status.state = "finishing"
    /\ boots <= BootBound
    /\ boots' = boots + 1
    /\ status' = IF status.pending \in RunTerminalStates
                 THEN [status EXCEPT !.state = status.pending, !.pending = "none"]
                 ELSE [status EXCEPT !.state = "failed", !.verdict = "unverified"]
    /\ UNCHANGED <<dir, job, proc, step, at, passed>>

\* The reflection iteration ends, however it ends, and run_job promotes.
ReflectDone ==
    /\ at = "reflect"
    /\ status' = [status EXCEPT !.state = status.pending, !.pending = "none"]
    /\ Exit
    /\ UNCHANGED <<dir, job, passed, boots>>

-----------------------------------------------------------------------------
(* planning *)

\* status.approach moves before planning has produced anything.
PlanningStep ==
    /\ step = "planning" /\ at = "entry"
    /\ LET st == [status EXCEPT !.approach = proc.approach]
       IN  IF ~BudgetLeft(dir.charged)
           THEN Tail(st, "budget", dir.charged) /\ UNCHANGED dir
           ELSE /\ status' = st
                /\ IF proc.skip
                   THEN /\ Goto("worker") /\ UNCHANGED dir
                        /\ proc' = [proc EXCEPT !.skip = FALSE]
                   ELSE GateThenRun("planning", dir, proc)
    /\ UNCHANGED <<job, passed, boots>>

\* The steering an iteration that acts on it was handed, once it exits clean.
Consumed(d) == [d EXCEPT !.steering = @ - proc.carried]

\* Mutant: the plan of the approach before stays in tasks.json.
IngestedOverOldPlan(d) == [d EXCEPT !.work = "plan"]

\* The proposal is ingested: tasks.json is the plan of this approach.
Ingested(d) == [d EXCEPT !.planOf = proc.approach, !.work = "plan"]

\* Planning ends with a proposal, and the budget is looked at before it is used.
PlanningProducesTasks ==
    /\ step = "planning" /\ at = "run"
    /\ passed' = "no"
    /\ LET d == Consumed(Charged(dir))
       IN  IF ~BudgetLeft(d.charged)
           THEN /\ Tail(status, "budget", d.charged)
                /\ dir' = d
           ELSE /\ dir' = Ingested(d)
                /\ status' = [status EXCEPT !.planningDied = FALSE]
                /\ Goto("worker")
                /\ UNCHANGED proc
    /\ UNCHANGED <<job, boots>>

\* No usable proposal.  The first such death replans the same approach, a
\* second one with the same lint signature ends the run.
PlanningDies(same) ==
    /\ step = "planning" /\ at = "run"
    /\ "planning_death" \in Environment
    /\ LET d == Consumed(Charged(dir))
       IN  /\ dir' = d
           /\ IF ~BudgetLeft(d.charged) THEN Tail(status, "budget", d.charged)
              ELSE IF same /\ status.planningDied
              THEN Tail(status, "unverified", d.charged)
              ELSE /\ status' = [status EXCEPT !.planningDied = TRUE]
                   /\ proc' = [proc EXCEPT !.guard = "empty_plan"]
                   /\ Goto("replan")
    /\ UNCHANGED <<job, passed, boots>>

-----------------------------------------------------------------------------
(* replan *)

\* Mutant: the last approach is never used.
ApproachLeftOneShort == proc.approach + 1 < proc.max

ApproachLeft == proc.approach < proc.max

\* A planning that produced nothing and a task graph that cannot be scheduled
\* replan the same approach.
ReplansForFree == proc.guard \in {"empty_plan", "unschedulable_task_graph"}

\* Anything else charges an approach.
ReplanStep ==
    /\ step = "replan" /\ at = "entry"
    /\ LET a == proc.approach
           recurring == {a, a - 1} \subseteq status.stalled
       IN  IF ReplansForFree
           THEN Goto("planning") /\ UNCHANGED <<status, proc>>
           ELSE IF recurring /\ ApproachLeft
           THEN Tail(status, "unverified", dir.charged)
           ELSE IF ApproachLeft
           THEN /\ proc' = [proc EXCEPT !.approach = a + 1]
                /\ Goto("planning")
                /\ UNCHANGED status
           ELSE Tail(status, "approaches", dir.charged)
    /\ UNCHANGED <<dir, job, passed, boots>>

-----------------------------------------------------------------------------
(* worker and steer *)

WorkerSpent ==
    /\ step = "worker" /\ at = "entry"
    /\ ~BudgetLeft(dir.charged)
    /\ Tail(status, "budget", dir.charged)
    /\ UNCHANGED <<dir, job, passed, boots>>

\* `while self.budget_left(): await self._gate()`: the budget is read before
\* the wait and not again after it.
WorkerWaits ==
    /\ step = "worker" /\ at = "entry"
    /\ BudgetLeft(dir.charged) /\ ~proc.gateOpen
    /\ at' = "gate"
    /\ UNCHANGED <<status, dir, job, proc, step, passed, boots>>

WorkerTurn ==
    /\ step = "worker"
    /\ \/ at = "woken"
       \/ at = "entry" /\ proc.gateOpen /\ BudgetLeft(dir.charged)

WorkerSteers ==
    /\ WorkerTurn /\ dir.steering > 0
    /\ Goto("steer")
    /\ UNCHANGED <<status, dir, job, proc, passed, boots>>

WorkerRuns ==
    /\ WorkerTurn /\ dir.steering = 0
    /\ at' = "run"
    /\ dir' = Started(dir, "worker")
    /\ passed' = "no"
    /\ UNCHANGED <<status, job, proc, step, boots>>

\* _self_heal_graph_fault: one uncharged replan per approach, then the end.
WorkerGraphFault ==
    /\ "graph_fault" \in Environment
    /\ WorkerTurn /\ dir.steering = 0 /\ dir.work # "none"
    /\ IF proc.approach \in status.faulted
       THEN Tail(status, "graph_fault", dir.charged)
       ELSE /\ status' = [status EXCEPT !.faulted = @ \cup {proc.approach}]
            /\ proc' = [proc EXCEPT !.guard = "unschedulable_task_graph"]
            /\ Goto("replan")
    /\ UNCHANGED <<dir, job, passed, boots>>

\* The end of a worker iteration that leaves something to do.
WorkerProgress ==
    /\ step = "worker" /\ at = "run"
    /\ dir' = Charged(dir)
    /\ Goto("worker")
    /\ UNCHANGED <<status, job, proc, passed, boots>>

\* The loop breaks for review: with nothing outstanding (verdict_ready), or with
\* tasks left that only failed (blocked_with_failures).  The budget is read once
\* more before review is entered.
WorkerReadyForReview(left) ==
    /\ step = "worker" /\ at = "run"
    /\ left \in {"none", dir.work}
    /\ LET d == Charged([dir EXCEPT !.work = left])
       IN  /\ dir' = d
           /\ IF ~BudgetLeft(d.charged) THEN Tail(status, "budget", d.charged)
              ELSE Goto("review") /\ UNCHANGED <<status, proc>>
    /\ UNCHANGED <<job, passed, boots>>

\* An outstanding plan no iteration can act on (doomed, or held by a petition)
\* is found before one is dispatched.
WorkerHasNothingToRun ==
    /\ WorkerTurn /\ dir.steering = 0 /\ dir.work # "none"
    /\ IF ~BudgetLeft(dir.charged)
       THEN Tail(status, "budget", dir.charged)
       ELSE Goto("review") /\ UNCHANGED <<status, proc>>
    /\ UNCHANGED <<dir, job, passed, boots>>

\* No progress: the approach is archived and replanned.  `recurs`: the blocker
\* signature recorded is the recurring one.  (The code counts three idle
\* iterations; here any iteration may be the last of them.)
WorkerStagnates(recurs) ==
    /\ step = "worker" /\ at = "run" /\ dir.work # "none"
    /\ LET d == Charged(dir)
           st == IF recurs
                 THEN [status EXCEPT !.stalled = @ \cup {proc.approach}]
                 ELSE status
       IN  IF ~BudgetLeft(d.charged)
           THEN Tail(st, "budget", d.charged) /\ dir' = d
           ELSE /\ status' = st
                /\ dir' = [d EXCEPT !.archived = @ \cup {proc.approach}]
                /\ proc' = [proc EXCEPT !.judge = "worker",
                                        !.target = proc.approach]
                /\ at' = "archived" /\ UNCHANGED step
    /\ UNCHANGED <<job, passed, boots>>

\* _park_for_input: the gate closes and the question is on disk before anyone
\* waits on it.
Parked(st, q) == [st EXCEPT !.state = "awaiting_input", !.question = q]

\* A secret in the iteration's commits: parked from inside the worker's loop.
WorkerFindsSecret ==
    /\ "secret" \in Environment
    /\ step = "worker" /\ at = "run"
    /\ dir' = Charged(dir)
    /\ status' = Parked(status, SecretQuestion(proc.approach))
    /\ proc' = [proc EXCEPT !.gateOpen = FALSE]
    /\ Goto("worker")
    /\ UNCHANGED <<job, passed, boots>>

SteerStep ==
    /\ step = "steer" /\ at = "entry"
    /\ GateThenRun("steer", dir, proc)
    /\ UNCHANGED <<status, job, passed, boots>>

\* The steer hat answers for what it was handed, adding tasks or not; `kept` of
\* the messages it owns up to not having settled (those that reached
\* steer_redelivery_max are closed all the same) are deferred until another
\* hat's iteration has run.  The iteration is refunded.
SteerSettles(work, kept) ==
    /\ step = "steer" /\ at = "run"
    /\ work \in {dir.work} \cup (IF dir.work = "none" THEN {"plan"} ELSE {})
    /\ kept <= proc.carried /\ (kept > 0 => "steer_unsettled" \in Environment)
    /\ dir' = [Consumed(dir) EXCEPT !.work = work, !.deferred = @ + kept]
    /\ passed' = "no"
    /\ Goto("worker")
    /\ UNCHANGED <<status, job, proc, boots>>

\* The iteration ended with an error and its payload is read all the same: what
\* it was handed stays pending.  (That an unsettled message is then deferred
\* while it is still pending is followed in Steering.)
SteerAnswersInError(work) ==
    /\ step = "steer" /\ at = "run"
    /\ "steer_fault" \in Environment
    /\ work \in {dir.work} \cup (IF dir.work = "none" THEN {"plan"} ELSE {})
    /\ dir' = [dir EXCEPT !.work = work]
    /\ passed' = "no"
    /\ Goto("worker")
    /\ UNCHANGED <<status, job, proc, boots>>

\* It gives no answer: cut short by the engine, or (`clean`) its payload never met the
\* contract.  It is asked again while there is a budget; without one the
\* broken contract is recorded as the reason of an abort.
SteerFails(clean) ==
    /\ step = "steer" /\ at = "run"
    /\ clean => "steer_fault" \in Environment
    /\ LET d == IF clean THEN Consumed(dir) ELSE dir
       IN  IF BudgetLeft(dir.charged)
           THEN GateThenRun("steer", d, proc) /\ UNCHANGED status
           ELSE /\ IF clean THEN Finish(status, "aborted", "unverified")
                   ELSE Tail(status, "budget", dir.charged)
                /\ dir' = d
    /\ UNCHANGED <<job, passed, boots>>

-----------------------------------------------------------------------------
(* The ladder: what a judge's verdict leads to *)

RoundsAllowed(a) == CureCeiling + status.topUps[a]

\* Mutant: off by one.
RoundsSpentOffByOne(a) == status.cures[a] > RoundsAllowed(a)

RoundsSpent(a) == status.cures[a] >= RoundsAllowed(a)

\* _take_cure_pass / _take_gate_cure_pass: the cure tasks are written first, one
\* for each finding the rejection carries.
TakeCure(judge, a, d, blocking, p) ==
    /\ dir' = IF blocking = {} THEN d ELSE [d EXCEPT !.work = "cure"]
    /\ proc' = [p EXCEPT !.judge = judge, !.target = a]
    /\ at' = "cure_count"
    /\ UNCHANGED step

\* ... and the round is counted second.
CountCure ==
    /\ at = "cure_count"
    /\ status' = [status EXCEPT !.cures[proc.target] = @ + 1]
    /\ Goto("cure")
    /\ UNCHANGED <<dir, job, proc, passed, boots>>

\* Mutant: the cured tree is judged before anyone worked on it.
CureStepReviews ==
    /\ step = "cure" /\ at = "entry"
    /\ Goto("review")
    /\ UNCHANGED <<status, dir, job, proc, passed, boots>>

CureStep ==
    /\ step = "cure" /\ at = "entry"
    /\ Goto("worker")
    /\ UNCHANGED <<status, dir, job, proc, passed, boots>>

\* Mutant: the approach is replanned without having been archived.
ArchiveForgotten(judge, a, d, p) ==
    /\ dir' = d
    /\ proc' = [p EXCEPT !.judge = judge, !.target = a]
    /\ at' = "archived"
    /\ UNCHANGED step

\* _archive_and_replan_outcome: the archive is written first.
Archive(judge, a, d, p) ==
    /\ dir' = [d EXCEPT !.archived = @ \cup {a}]
    /\ proc' = [p EXCEPT !.judge = judge, !.target = a]
    /\ at' = "archived"
    /\ UNCHANGED step

Archived ==
    /\ at = "archived"
    /\ IF proc.judge = "worker" \/ proc.target < proc.max
       THEN /\ proc' = [proc EXCEPT !.guard = "charged"]
            /\ Goto("replan")
            /\ UNCHANGED status
       ELSE Tail(status, "approaches", dir.charged)
    /\ UNCHANGED <<dir, job, passed, boots>>

\* A judge's verdict closes the fault episode.
Judged == [proc EXCEPT !.faults = 0]

\* Mutant (a plausible bug): only the cures are looked at.
BlockedByCures(d) == d.work = "cure"

\* _terminal_success_blockers.
SuccessBlocked(d) == d.steering + d.deferred > 0 \/ d.work = "cure"

\* Mutant: review's word is enough, gate or no gate.
ReviewVerifiedUngated(st, d) ==
    IF SuccessBlocked(d)
    THEN status' = st /\ Goto("worker") /\ proc' = Judged
    ELSE Finish(st, "succeeded", "verified")

\* Mutant: what blocks success is left to the gate, which does not look.
ReviewVerifiedUnblocked(st, d) ==
    IF PeerGate
    THEN status' = st /\ Goto("verdict_gate") /\ proc' = Judged
    ELSE Finish(st, "succeeded", "verified")

\* _review_verified_edge.
ReviewVerifiedEdge(st, d) ==
    IF SuccessBlocked(d)
    THEN status' = st /\ Goto("worker") /\ proc' = Judged
    ELSE IF PeerGate
    THEN status' = st /\ Goto("verdict_gate") /\ proc' = Judged
    ELSE Finish(st, "succeeded", "verified")

\* The verified edge of either judge; the gate's is _verdict_gate_approved_edge.
VerifiedEdge(judge, st, d) ==
    IF judge = "review" THEN ReviewVerifiedEdge(st, d)
    ELSE Finish(st, "succeeded", "verified")

\* What nobody's answer leads to: at the park itself when parks are off, or at
\* the input timeout.
TimeoutOutcome(judge, trigger, blocking, a, d, p) ==
    LET left == RoundsAllowed(a) - status.cures[a]
    IN  IF InputOnTimeout(trigger, blocking, left, a, p.max) = "cure_now"
        THEN TakeCure(judge, a, d, blocking, p)
        ELSE Archive(judge, a, d, p)

\* _run_rejection_ladder for a rejection by `judge`; d is the run directory
\* after the judge's iteration was charged.
Reject(judge, blocking, escalation, d) ==
    LET a == proc.approach
        decision == Decide(BudgetLeft(d.charged), FALSE, blocking, d.waivers,
                           escalation, RoundsSpent(a))
    IN  CASE decision.step = "exhausted" ->
               /\ Tail(status, "budget", d.charged)
               /\ dir' = d /\ passed' = "no"
          [] decision.step = "waived" ->
               /\ VerifiedEdge(judge, status, d)
               /\ dir' = d /\ passed' = judge
          [] decision.step = "cure" ->
               /\ TakeCure(judge, a, d, blocking, Judged)
               /\ UNCHANGED status /\ passed' = "no"
          [] decision.step = "park" /\ InputPause ->
               /\ status' = Parked(status, FindingsQuestion(
                                judge, decision.trigger, blocking, a))
               /\ dir' = IF judge = "review" THEN [d EXCEPT !.reReview = a] ELSE d
               /\ proc' = [Judged EXCEPT !.gateOpen = FALSE]
               /\ Goto("paused") /\ passed' = "no"
          [] decision.step = "park" /\ ~InputPause ->
               /\ TimeoutOutcome(judge, decision.trigger, blocking, a, d, Judged)
               /\ UNCHANGED status /\ passed' = "no"

\* A verdict `verified` goes through the ladder too: the budget comes first.
Verify(judge, d) ==
    IF BudgetLeft(d.charged)
    THEN VerifiedEdge(judge, status, d) /\ dir' = d /\ passed' = judge
    ELSE Tail(status, "budget", d.charged) /\ dir' = d /\ passed' = "no"

-----------------------------------------------------------------------------
(* review *)

ReviewStep ==
    /\ step = "review" /\ at = "entry"
    /\ IF BudgetLeft(dir.charged)
       THEN GateThenRun("review", dir, proc) /\ UNCHANGED status
       ELSE Tail(status, "budget", dir.charged) /\ UNCHANGED dir
    /\ UNCHANGED <<job, passed, boots>>

\* The gate opens under a step that was about to run its iteration; the
\* worker's own gate is WorkerTurn's.
GateOpens ==
    /\ at = "woken" /\ step # "worker"
    /\ Run(step, dir, proc)
    /\ UNCHANGED <<status, job, passed, boots>>

\* The review hat records its verdict before it refines it (record-verdict).
EarlyVerdict(verdict) ==
    /\ "early_verdict" \in Environment
    /\ step = "review" /\ at = "run"
    /\ dir' = [dir EXCEPT !.early = [approach |-> proc.approach,
                                     verdict |-> verdict]]
    /\ passed' = IF verdict = "verified" THEN "early" ELSE "no"
    /\ UNCHANGED <<status, job, proc, step, at, boots>>

\* _review_unjudged_at_budget_end: the run concludes on the recorded verdict of
\* this approach, or ends unjudged and owes this approach a review.
Unjudged(d) ==
    LET recorded == ~proc.aborted /\ d.early.approach = proc.approach
    IN  CASE recorded /\ d.early.verdict = "verified" ->
               Finish(status, "succeeded", "verified") /\ dir' = d
          [] recorded /\ d.early.verdict = "rejected" ->
               Tail(status, "provisional_rejected", d.charged) /\ dir' = d
          [] OTHER ->
               /\ Tail(status, "deadline", d.charged)
               /\ dir' = [d EXCEPT !.reReview = proc.approach]

\* A timed-out review whose verdict is already on record is not asked again.
Concludes(d, timedOut) ==
    timedOut /\ ~proc.aborted /\ d.early.approach = proc.approach

ReviewOver(d, timedOut) == Concludes(d, timedOut) \/ ~BudgetLeft(d.charged)

\* A review iteration ends without having spoken: cut by the engine, killed,
\* or timed out.
ReviewInterrupted(timedOut) ==
    /\ step = "review" /\ at = "run"
    /\ LET d == Charged(dir)
       IN  IF ReviewOver(d, timedOut)
           THEN Unjudged(d) /\ UNCHANGED passed
           ELSE GateThenRun("review", d, proc) /\ UNCHANGED <<status, passed>>
    /\ UNCHANGED <<job, boots>>

ReviewVerified ==
    /\ step = "review" /\ at = "run"
    /\ Verify("review", Charged(dir))
    /\ UNCHANGED <<job, boots>>

ReviewRejected(blocking, escalation) ==
    /\ step = "review" /\ at = "run"
    /\ Reject("review", blocking, escalation, Charged(dir))
    /\ UNCHANGED <<job, boots>>

\* No usable verdict after every retry.  `contract`: review's claim or findings
\* are unreadable, which re-enters the step; the other faults ask again inside
\* it, after a look at the budget.  The iteration is refunded.
JudgeFault(contract) ==
    /\ "judge_fault" \in Environment
    /\ at = "run" /\ step \in Judges /\ (contract => step = "review")
    /\ LET spent == proc.faults >= FaultBound
                    \/ (~contract /\ ~BudgetLeft(dir.charged + 1))
       IN  IF proc.aborted \/ spent
           THEN Tail(status, "unreviewed", dir.charged + 1) /\ dir' = Charged(dir)
           ELSE /\ dir' = Ended(dir)
                /\ proc' = [proc EXCEPT !.faults = @ + 1, !.guard =
                        IF contract THEN "review_judge_fault_retry" ELSE "none"]
                /\ at' = "backoff" /\ UNCHANGED <<status, step>>
    /\ UNCHANGED <<job, passed, boots>>

\* Asked again inside the step, a judge is dispatched without the gate.
BackoffEnds ==
    /\ at = "backoff"
    /\ IF proc.aborted
       THEN Tail(status, "unverified", dir.charged) /\ UNCHANGED dir
       ELSE IF proc.guard = "review_judge_fault_retry"
       THEN Goto("review") /\ UNCHANGED <<status, dir, proc>>
       ELSE Run(step, dir, proc) /\ UNCHANGED status
    /\ UNCHANGED <<job, passed, boots>>

-----------------------------------------------------------------------------
(* verdict_gate: like every step it looks at the budget, but not at the gate *)

VerdictGateStep ==
    /\ step = "verdict_gate" /\ at = "entry"
    /\ IF BudgetLeft(dir.charged)
       THEN Run(step, dir, proc) /\ UNCHANGED status
       ELSE Tail(status, "budget", dir.charged) /\ UNCHANGED dir
    /\ UNCHANGED <<job, passed, boots>>

GateApproved ==
    /\ step = "verdict_gate" /\ at = "run"
    /\ Verify("verdict_gate", Charged(dir))
    /\ UNCHANGED <<job, boots>>

GateRejected(blocking) ==
    /\ step = "verdict_gate" /\ at = "run"
    /\ Reject("verdict_gate", blocking, FALSE, Charged(dir))
    /\ UNCHANGED <<job, boots>>

-----------------------------------------------------------------------------
(* paused *)

PausedStep ==
    /\ step = "paused" /\ at = "entry"
    /\ IF BudgetLeft(dir.charged)
       THEN /\ proc' = [proc EXCEPT !.parked = status.question]
            /\ at' = "wait" /\ UNCHANGED <<status, step>>
       ELSE Tail(status, "budget", dir.charged)
    /\ UNCHANGED <<dir, job, passed, boots>>

\* The step the park came from asks again.
AskAgain ==
    CASE proc.parked.kind = "secret"                 -> "worker"
      [] /\ proc.parked.kind # "secret"
         /\ proc.parked.judge = "verdict_gate"       -> "verdict_gate"
      [] OTHER                                       -> "review"

\* The gate opened: the recorded answer is taken and carried out, whatever else
\* (an abort) released the park after it.
PausedWakes ==
    /\ step = "paused" /\ at = "wait" /\ proc.gateOpen
    /\ LET answer == status.answer
           st == [status EXCEPT !.answer = NoAnswer]
       IN  CASE answer.outcome = "none" ->
                  /\ Goto(AskAgain)
                  /\ UNCHANGED <<status, dir, proc, passed>>
             [] answer.outcome = "verified" ->
                  /\ VerifiedEdge(answer.judge, st, dir)
                  /\ passed' = IF proc.parked.findings # {} THEN answer.judge
                               ELSE passed
                  /\ UNCHANGED dir
             [] answer.outcome = "cure" ->
                  /\ TakeCure(answer.judge, answer.approach, dir,
                              proc.parked.findings, proc)
                  /\ status' = st /\ UNCHANGED passed
             [] answer.outcome = "next_approach" ->
                  /\ Archive(answer.judge, answer.approach, dir, proc)
                  /\ status' = st /\ UNCHANGED passed
    /\ UNCHANGED <<job, boots>>

\* resume(): the event is set, and whatever park or pause is recorded is cleared.
Woken == at' = IF at = "gate" THEN "woken" ELSE at

\* Mutants: only a park is cleared, and a park is cleared without its question.
ReleasedParksOnly(st) ==
    IF st.state = "awaiting_input"
    THEN [st EXCEPT !.state = "running", !.question = NoQuestion] ELSE st

ReleasedKeepsQuestion(st) ==
    IF st.state \in {"paused", "awaiting_input"}
    THEN [st EXCEPT !.state = "running"] ELSE st

Released(st) ==
    IF st.state \in {"paused", "awaiting_input"}
    THEN [st EXCEPT !.state = "running", !.question = NoQuestion] ELSE st

\* Mutant: silence is consent.
InputTimesOutApproved ==
    /\ "input_timeout" \in Environment
    /\ step = "paused" /\ at = "wait" /\ ~proc.gateOpen
    /\ status.question.kind = "findings"
    /\ VerifiedEdge(status.question.judge, Released(status), dir)
    /\ UNCHANGED <<dir, job, passed, boots>>

\* expiresAt passed with the gate still closed.
InputTimesOut ==
    /\ "input_timeout" \in Environment
    /\ step = "paused" /\ at = "wait" /\ ~proc.gateOpen
    /\ status.question.kind = "findings"
    /\ LET q == status.question
       IN  TimeoutOutcome(q.judge, q.trigger, q.findings, q.approach, dir,
                          [proc EXCEPT !.gateOpen = TRUE])
    /\ status' = Released(status)
    /\ UNCHANGED <<job, passed, boots>>

-----------------------------------------------------------------------------
(* The operator's requests: each runs between two steps of the engine *)

\* Where the event loop may run a request handler.
AtAwait == at \in {"gate", "woken", "run", "backoff", "wait", "reflect"}

\* api.finished answers 409 first.
Reachable == AtAwait /\ status.state \notin RunTerminalStates \cup {"exhausted"}

Pause ==
    /\ "pause" \in Environment
    /\ Reachable
    /\ proc' = [proc EXCEPT !.gateOpen = FALSE]
    /\ status' = IF status.state \in {"finishing", "awaiting_input"} THEN status
                 ELSE [status EXCEPT !.state = "paused"]
    /\ UNCHANGED <<dir, job, step, at, passed, boots>>

\* POST /resume, refused where the run is answered or topped up instead.
Unpause ==
    /\ AtAwait /\ status.state \notin {"awaiting_input", "exhausted"}
    /\ proc' = [proc EXCEPT !.gateOpen = TRUE]
    /\ status' = Released(status)
    /\ Woken
    /\ UNCHANGED <<dir, job, step, passed, boots>>

AnswerPlan(waive, rounds, granted) ==
    PlanAnswer(status.question.findings, dir.waivers, waive, {}, rounds, granted,
               status.question.approach, proc.max)

\* What LoopSupervisor.answer writes before it releases the park: the rounds
\* granted (to the approach the process is at) and last the answer itself.
Answered(plan) ==
    [status EXCEPT !.topUps[proc.approach] = @ + plan.rounds,
                   !.answer = [outcome |-> plan.outcome,
                               judge |-> status.question.judge,
                               approach |-> status.question.approach]]

Answerable(plan) ==
    /\ AtAwait
    /\ status.state = "awaiting_input" /\ status.question.kind = "findings"
    /\ plan.outcome # "refused"
    /\ status.topUps[proc.approach] + plan.rounds <= TopUpBound
    /\ proc.max + plan.granted <= ApproachBound

\* POST /answer.  The approaches granted are the process's alone.
Answer(waive, rounds, granted) ==
    LET plan == AnswerPlan(waive, rounds, granted)
    IN  /\ Answerable(plan)
        /\ status' = Released(Answered(plan))
        /\ dir' = [dir EXCEPT !.waivers = @ \cup NewWaivers(waive)]
        /\ proc' = [proc EXCEPT !.max = @ + plan.granted, !.gateOpen = TRUE]
        /\ Woken
        /\ UNCHANGED <<job, step, passed, boots>>

SecretHandled ==
    /\ AtAwait
    /\ status.state = "awaiting_input" /\ status.question.kind = "secret"
    /\ status' = Released(status)
    /\ proc' = [proc EXCEPT !.gateOpen = TRUE]
    /\ Woken
    /\ UNCHANGED <<dir, job, step, passed, boots>>

\* POST /abort, and a stop signal: both end with resume().
Abort ==
    /\ "abort" \in Environment
    /\ Reachable /\ ~proc.aborted
    /\ status' = Released(status)
    /\ proc' = [proc EXCEPT !.aborted = TRUE, !.gateOpen = TRUE]
    /\ Woken
    /\ UNCHANGED <<dir, job, step, passed, boots>>

Steer ==
    /\ "steer" \in Environment
    /\ Reachable /\ dir.steering + dir.deferred < SteerBound
    /\ dir' = [dir EXCEPT !.steering = @ + 1]
    /\ UNCHANGED <<status, job, proc, step, at, passed, boots>>

\* PATCH /config/budget.  A request with several fields is several requests:
\* those before a refused one stay in force.
\* The iteration in flight counts as used; the budget goes no lower than that.
PatchIterations(budget) ==
    /\ "patch" \in Environment
    /\ Reachable
    /\ budget >= dir.charged + (IF at = "run" THEN 1 ELSE 0)
    /\ status' = [status EXCEPT !.budget = budget]
    /\ UNCHANGED <<dir, job, proc, step, at, passed, boots>>

\* Like an answer's grant, the process's alone.
PatchMaxApproaches(max) ==
    /\ "patch" \in Environment
    /\ Reachable
    /\ max >= status.approach
    /\ proc' = [proc EXCEPT !.max = max]
    /\ UNCHANGED <<status, dir, job, step, at, passed, boots>>

PatchDeadline ==
    /\ "patch" \in Environment
    /\ Reachable
    /\ proc' = [proc EXCEPT !.timeUp = FALSE]
    /\ UNCHANGED <<status, dir, job, step, at, passed, boots>>

\* The allowance of the approach the process is at, and of no other.
PatchCureRounds(allowed) ==
    /\ "patch_cures" \in Environment
    /\ Reachable
    /\ allowed >= status.cures[proc.approach]
    /\ status' = [status EXCEPT !.topUps[proc.approach] = allowed - CureCeiling]
    /\ UNCHANGED <<dir, job, proc, step, at, passed, boots>>

\* job_timeout_s: once past, only the operator moves the deadline.  The time
\* a run is parked or backs off is credited back to it.
DeadlinePasses ==
    /\ "deadline" \in Environment
    /\ at \notin {"down", "gate", "wait", "backoff"} /\ ~proc.timeUp
    /\ proc' = [proc EXCEPT !.timeUp = TRUE]
    /\ UNCHANGED <<status, dir, job, step, at, passed, boots>>

-----------------------------------------------------------------------------
(* The process is killed: between any two durable writes *)

Kill ==
    /\ "kill" \in Environment
    /\ at # "down"
    /\ at = "opening" => "kill_opening" \in Environment
    /\ status.answer # NoAnswer => "kill_answered" \in Environment
    /\ Exit
    /\ UNCHANGED <<status, dir, job, passed, boots>>

\* ... or inside LoopSupervisor.answer, before resume() clears the park.
KilledInAnswer(waive, rounds, granted) ==
    LET plan == AnswerPlan(waive, rounds, granted)
    IN  /\ "kill_answered" \in Environment
        /\ Answerable(plan)
        /\ status' = Answered(plan)
        /\ dir' = [dir EXCEPT !.waivers = @ \cup NewWaivers(waive)]
        /\ Exit
        /\ UNCHANGED <<job, passed, boots>>

-----------------------------------------------------------------------------
(* The specification *)

\* One turn of the engine's own loop: what goes on without anybody's request.
EngineStep ==
    \/ Repark \/ ReflectDone
    \/ PlanningStep \/ PlanningProducesTasks
    \/ \E same \in BOOLEAN : PlanningDies(same)
    \/ ReplanStep
    \/ WorkerSpent \/ WorkerWaits \/ WorkerSteers \/ WorkerRuns
    \/ WorkerGraphFault \/ WorkerHasNothingToRun \/ WorkerProgress
    \/ \E left \in {"none", "plan", "cure"} : WorkerReadyForReview(left)
    \/ \E recurs \in BOOLEAN : WorkerStagnates(recurs)
    \/ WorkerFindsSecret
    \/ SteerStep
    \/ \E work \in {"none", "plan", "cure"}, kept \in 0 .. SteerBound :
          SteerSettles(work, kept)
    \/ \E work \in {"none", "plan", "cure"} : SteerAnswersInError(work)
    \/ \E clean \in BOOLEAN : SteerFails(clean)
    \/ ReviewStep \/ GateOpens
    \/ \E timedOut \in BOOLEAN : ReviewInterrupted(timedOut)
    \/ ReviewVerified
    \/ \E blocking \in Rejections, escalation \in BOOLEAN :
          ReviewRejected(blocking, escalation)
    \/ \E contract \in BOOLEAN : JudgeFault(contract)
    \/ BackoffEnds
    \/ VerdictGateStep \/ GateApproved
    \/ \E blocking \in Rejections : GateRejected(blocking)
    \/ CountCure \/ CureStep \/ Archived
    \/ PausedStep \/ PausedWakes \/ InputTimesOut

OperatorStep ==
    \/ Pause \/ Unpause \/ SecretHandled \/ Abort \/ Steer
    \/ \E waive \in SUBSET status.question.findings,
          rounds \in {Unset, 0, 1}, granted \in {0, 1} :
          Answer(waive, rounds, granted)
    \/ \E budget \in Patches : PatchIterations(budget)
    \/ \E max \in Approaches : PatchMaxApproaches(max)
    \/ PatchDeadline
    \/ \E allowed \in 0 .. CureCeiling + TopUpBound : PatchCureRounds(allowed)
    \/ \E moreApproaches, moreIterations \in {0, 1}, moreTime \in BOOLEAN :
          Boot(moreApproaches, moreIterations, moreTime)
    \/ PromoteRecorded

\* What the review hat, the clock and the host do on their own.
WorldStep ==
    \/ \E verdict \in {"verified", "rejected"} : EarlyVerdict(verdict)
    \/ DeadlinePasses \/ Kill
    \/ \E waive \in SUBSET status.question.findings,
          rounds \in {Unset, 0, 1}, granted \in {0, 1} :
          KilledInAnswer(waive, rounds, granted)

\* With no process nothing has to happen; anywhere else a state with no step
\* is a deadlock.
AtRest == at = "down" /\ UNCHANGED vars

Next == EngineStep \/ OperatorStep \/ WorldStep \/ AtRest

Spec == Init /\ [][Next]_vars

\* The event loop keeps running the engine's coroutine; nothing is assumed of
\* the operator, of a supervisor that restarts the process, or of a mishap.
FairSpec == Spec /\ WF_vars(EngineStep)

=============================================================================
