-------------------------------- MODULE Tasks --------------------------------
(***************************************************************************)
(* The worker step of a vigilant run (engine/loop.py, _step_worker,        *)
(* _verify_task) over the plan it works off: a pass claims a task, runs an *)
(* iteration, applies what its report declares, has the finished tasks     *)
(* verified and tallies whether anything moved.  Supervisor sees the whole *)
(* step as one action; here every durable write is one, and a kill may     *)
(* fall between any two.  What follows the step (a cure round, a replan)   *)
(* is kept as far as it changes the plan.                                  *)
(***************************************************************************)
EXTENDS CurePass, Sequences

CONSTANTS
    Initial,        \* the tasks a fresh plan holds
    AttemptLimit,   \* VALIDATION_ATTEMPT_LIMIT
    TopTier,        \* tiers above the baseline
    ProgressMax,    \* progressBudget
    SplitMax,       \* worker_split_budget_per_approach
    RepointMax,     \* worker_repoint_budget_per_approach
    CureMax,        \* cure passes, review's and mid-plan's together
    MaxApproaches,
    StagnationMax,  \* 3 in the code
    HeldMax,        \* PETITION_HELD_MAX_NO_TASK_ITERATIONS
    RepollMax,      \* 2 in the code
    Iterations,     \* iterations the run has
    Edits,          \* operator requests: messages, releases, rulings
    SteerCalls,     \* a steer iteration's tool calls
    Features        \* which of WorkFeatures happen

\* faults: iterations end with an infrastructure fault or a signal; breaker:
\* the instant-failure breaker trips; secret: a commit carries one; splits,
\* deferral, reports: the worker's reports beside its verdict; twofold: one
\* report both splits its task and puts it off; petitions: the contract declares
\* the petition protocol; replacement: a confirmed one may name the task that
\* replaces its task; midplan: mid_plan_review; cures: review's cure passes;
\* steering, undefer, rulings: the operator; killed: the process is killed.
WorkFeatures ==
    {"faults", "breaker", "secret", "splits", "deferral", "reports", "twofold",
     "petitions", "replacement", "midplan", "cures", "steering", "undefer",
     "rulings", "killed"}

ASSUME TasksAssumption ==
    /\ Initial \subseteq Ids /\ Initial # {}
    /\ {Record, Freeze, Sweep} \subseteq Initial \cup {NoTask}
    /\ IsFiniteSet(Ids)
    /\ {TopTier, SplitMax, RepointMax, CureMax, HeldMax, Iterations, Edits, SteerCalls} \subseteq Nat
    /\ {AttemptLimit, ProgressMax, MaxApproaches, StagnationMax, RepollMax}
            \subseteq Nat \ {0}
    /\ Features \subseteq WorkFeatures

VARIABLES
    plan,     \* tasks.json
    status,   \* status.json and the petition files: what a kill leaves
    reopened, \* status.json preCureHeads, preCureStatuses; the reopen events
    at,       \* where the step stands
    pass,     \* the loop's local variables, reset by every pass
    streak,   \* those that live as long as the step
    world,    \* the operator's requests, and how much of the run is spent
    past      \* history: what the plan's tasks went through in this approach

vars == <<plan, status, reopened, at, pass, streak, world, past>>

\* The worker's step; then review, as far as it changes the plan.  "record" to
\* "void" are between the durable writes of one adjudication.
Places ==
    {"top", "rulings", "steer", "select", "sleep", "run", "report", "splitting",
     "vigilant",
     "midplan", "verify", "tally", "held", "adjudicate", "refute", "remedy",
     "void", "review", "reviewed", "counted", "replan", "tail", "done"}

On(feature) == feature \in Features

BudgetLeft == world.spent < Iterations /\ ~world.cut

\* A fresh plan: dependencies point to earlier tasks of it.
FreshPlans ==
    {[t \in Initial |-> NewTask("plan", deps[t], NoTask)] :
        deps \in {d \in [Initial -> SUBSET Initial] :
                    \A t \in Initial : \A x \in d[t] : x < t}}

Answers == {"confirmed", "form", "substance", "silence"}
NoAnswers == [t \in {} |-> "silence"]

\* told: how far the report has been applied; claim: its progress block;
\* stirred: something moved; answers: the adjudicator's, not yet applied;
\* then: where to go on after an adjudication or a cure pass; k: rulings applied,
\* or children inserted.
NewPass == [cur |-> NoTask, from |-> "none", tier |-> 0, forced |-> FALSE,
            told |-> 0, claim |-> "none", stirred |-> FALSE, applied |-> FALSE,
            held |-> FALSE, fault |-> FALSE, toVerify |-> {}, k |-> 0,
            answers |-> NoAnswers, then |-> "top"]

\* seen: _petition_adjudication_seen.
NewStreak == [stagnant |-> 0, held |-> 0, repolls |-> 0, on |-> NoTask, seen |-> {}]

\* task, used: progressBudget; faulted, midPlan: approaches; filed, settled,
\* confirmed: tasks whose obligation was petitioned, ruled on either way, or ruled
\* void, on record; remedied: those whose failure has its remedy in the plan
\* (remedyFor, PETITION_REMEDY_TASK_EVENT).
NewStatus == [approach |-> 1, task |-> NoTask, used |-> 0, splits |-> 0,
              repoints |-> 0, faulted |-> {}, midPlan |-> {}, cures |-> 0,
              filed |-> {}, settled |-> {}, confirmed |-> {}, remedied |-> {}]

\* rejected: verdicts against it; corroborated: progress claims believed;
\* split: superseded once.
Fresh == [rejected |-> 0, corroborated |-> 0, split |-> FALSE]
Untouched == [t \in Ids |-> Fresh]

Init ==
    /\ plan \in FreshPlans
    /\ status = NewStatus
    /\ reopened = NoReopen
    /\ at = "top"
    /\ pass = NewPass
    /\ streak = NewStreak
    /\ world = [spent |-> 0, cut |-> FALSE, steering |-> 0, undefer |-> {},
                rulings |-> <<>>, edits |-> Edits]
    /\ past = Untouched

(***************************************************************************)
(* The operator.  A request may come at every await; nothing of the step   *)
(* reads it elsewhere than at the top of a pass and asleep.                *)
(***************************************************************************)
Asked == world.edits > 0 /\ at \in {"top", "sleep"}

SteeringArrives ==
    /\ On("steering") /\ Asked
    /\ world' = [world EXCEPT !.steering = 1, !.edits = @ - 1]
    /\ UNCHANGED <<plan, status, reopened, at, pass, streak, past>>

UndeferRequested(t) ==
    /\ On("undefer") /\ Asked
    /\ t \in DOMAIN plan /\ plan[t].waits
    /\ world' = [world EXCEPT !.undefer = @ \cup {t}, !.edits = @ - 1]
    /\ UNCHANGED <<plan, status, reopened, at, pass, streak, past>>

\* OPERATOR_RULEABLE_TASK_STATUSES; the ruling is stamped with its approach.
RulingGiven(t, s) ==
    /\ On("rulings") /\ Asked
    /\ t \in DOMAIN plan /\ s \in Statuses \ {"superseded"}
    /\ world' = [world EXCEPT !.edits = @ - 1,
                    !.rulings = Append(@, [task |-> t, status |-> s, in |-> status.approach])]
    /\ UNCHANGED <<plan, status, reopened, at, pass, streak, past>>

\* The deadline passes, or the operator aborts.
TimeRunsOut ==
    /\ On("deferral") /\ at = "sleep"
    /\ world' = [world EXCEPT !.cut = TRUE]
    /\ UNCHANGED <<plan, status, reopened, at, pass, streak, past>>

(***************************************************************************)
(* The top of a pass: rulings, releases, steering, selection.              *)
(***************************************************************************)
PassBegins ==
    /\ at = "top" /\ BudgetLeft
    /\ pass' = NewPass
    /\ at' = "rulings"
    /\ UNCHANGED <<plan, status, reopened, streak, world, past>>

BudgetGone ==
    /\ at = "top" /\ ~BudgetLeft
    /\ at' = "tail"
    /\ UNCHANGED <<plan, status, reopened, pass, streak, world, past>>

\* apply_amendment_status_rulings: one recorded ruling after another, each
\* boundary all of them anew, whatever the approach they were given in.
RulingReapplied ==
    /\ at = "rulings" /\ pass.k < Len(world.rulings)
    /\ LET r == world.rulings[pass.k + 1]
           moved == Moved(plan, r.task, r.status, TRUE, FALSE, TRUE)
       IN  /\ plan' = moved
           /\ past' = IF moved # plan
                      THEN [past EXCEPT ![r.task].rejected =
                                        @ + (IF r.status = "validation-failed" THEN 1 ELSE 0)]
                      ELSE past
    /\ pass' = [pass EXCEPT !.k = @ + 1]
    /\ UNCHANGED <<status, reopened, at, streak, world>>

\* _apply_undefer_requests, then the steering check.
BoundaryPassed ==
    /\ at = "rulings" /\ pass.k = Len(world.rulings)
    /\ plan' = [t \in DOMAIN plan |->
                    IF t \in world.undefer THEN [plan[t] EXCEPT !.waits = FALSE] ELSE plan[t]]
    /\ world' = [world EXCEPT !.undefer = {}]
    /\ at' = IF world.steering > 0 THEN "steer" ELSE "select"
    /\ pass' = [pass EXCEPT !.k = 0]
    /\ UNCHANGED <<status, reopened, streak, past>>

\* What the step does not keep is made anew when it is entered again.
StepEntered == [NewStreak EXCEPT !.repolls = streak.repolls, !.on = streak.on,
                                 !.seen = streak.seen]

\* The steer hat's tools (steer_task_insert, steer_task_delete and
\* steer_task_update); the step is left, and entered again afterwards.
SteerCall == at = "steer" /\ pass.k < SteerCalls /\ pass' = [pass EXCEPT !.k = @ + 1]

SteerInsert(deps) ==
    /\ SteerCall /\ Room(plan, 1) /\ deps \subseteq Ids
    /\ LET i == FreshId(plan)
       IN  plan' = Added(plan, i, NewTask("steer", ValidEdges(DepsOf(plan), i, deps), NoTask))
    /\ UNCHANGED <<status, reopened, at, streak, world, past>>

\* progressBudget is keyed by task id: a later task of that id inherits it.
SteerDelete(t) ==
    /\ SteerCall /\ t \in DOMAIN plan
    /\ ~\E x \in DOMAIN plan : t \in plan[x].deps
    /\ plan' = [x \in DOMAIN plan \ {t} |-> plan[x]]
    /\ past' = [past EXCEPT ![t] = [Fresh EXCEPT !.corroborated = past[t].corroborated]]
    /\ UNCHANGED <<status, reopened, at, streak, world>>

\* Edges of a claimed task are not rewritten.
SteerRepoint(t, deps) ==
    /\ SteerCall /\ t \in DOMAIN plan /\ deps \subseteq Ids
    /\ plan[t].status \notin ClaimedStatuses
    /\ plan' = [plan EXCEPT ![t].deps = ValidEdges(DepsOf(plan), t, deps)]
    /\ UNCHANGED <<status, reopened, at, streak, world, past>>

SteerMoves(t, s) ==
    /\ SteerCall /\ t \in DOMAIN plan
    /\ ReportAccepted(plan[t].status, s, TRUE, FALSE, TRUE)
    /\ plan' = [plan EXCEPT ![t].status = s]
    /\ past' = [past EXCEPT ![t].rejected = @ + (IF s = "validation-failed" /\ plan[t].status # s
                                                    THEN 1 ELSE 0)]
    /\ UNCHANGED <<status, reopened, at, streak, world>>

\* Its iteration is refunded.
Resteered ==
    /\ at = "steer"
    /\ world' = [world EXCEPT !.steering = 0]
    /\ at' = "top"
    /\ streak' = StepEntered
    /\ UNCHANGED <<plan, status, reopened, pass, past>>

SpentItsBudget(t) == status.task = t /\ status.used >= ProgressMax

Escalated(tier) == IF tier < TopTier THEN tier + 1 ELSE tier

ExhaustedSplitChild(t) ==
    /\ SpentItsBudget(t)
    /\ plan[t].parent \in DOMAIN plan
    /\ plan[plan[t].parent].status = "superseded"

\* The claim is written before the spent budget of a split child is noticed.
Claim(t) ==
    /\ at = "select" /\ t \in Selectable(plan)
    /\ LET from == plan[t].status
       IN  /\ plan' = [plan EXCEPT ![t].status = "in-progress",
                            ![t].tier = IF from = "validation-failed" THEN Escalated(@) ELSE @]
           /\ pass' = [pass EXCEPT !.cur = t, !.forced = SpentItsBudget(t),
                            !.from = IF from = "in-progress" THEN "none" ELSE from,
                            !.tier = plan[t].tier]
    /\ at' = IF ExhaustedSplitChild(t) THEN "replan" ELSE "run"
    /\ streak' = [streak EXCEPT !.held = 0]
    /\ UNCHANGED <<status, reopened, world, past>>

NothingToDo == at = "select" /\ Selectable(plan) = {}

DoomedPlan ==
    /\ NothingToDo /\ DoomedPlanFault(plan)
    /\ at' = "review"
    /\ UNCHANGED <<plan, status, reopened, pass, streak, world, past>>

\* _self_heal_graph_fault: once per approach a replan for free, then the end.
GraphFault ==
    /\ NothingToDo /\ ~DoomedPlanFault(plan)
    /\ UnschedulableCycleFault(plan) \/ UnresolvableEdgeFault(plan)
    /\ IF status.approach \in status.faulted
       THEN /\ at' = "done"
            /\ UNCHANGED <<plan, status, past>>
       ELSE /\ status' = [status EXCEPT !.faulted = @ \cup {status.approach}, !.remedied = {}]
            /\ plan' \in FreshPlans /\ past' = Untouched
            /\ at' = "top"
    /\ UNCHANGED <<reopened, pass, streak, world>>

GraphIsSound ==
    /\ NothingToDo /\ ~DoomedPlanFault(plan)
    /\ ~UnschedulableCycleFault(plan) /\ ~UnresolvableEdgeFault(plan)

Held ==
    /\ GraphIsSound /\ PetitionHeld(plan)
    /\ pass' = [pass EXCEPT !.held = TRUE, !.then = "held"]
    /\ at' = "adjudicate"
    /\ UNCHANGED <<plan, status, reopened, streak, world, past>>

Waiting == {t \in Having(plan, {"pending"}) : plan[t].waits}

GoesToSleep ==
    /\ GraphIsSound /\ ~PetitionHeld(plan) /\ Waiting # {}
    /\ at' = "sleep"
    /\ UNCHANGED <<plan, status, reopened, pass, streak, world, past>>

NoTaskToRun ==
    /\ GraphIsSound /\ ~PetitionHeld(plan) /\ Waiting = {}
    /\ streak' = [streak EXCEPT !.held = 0]
    /\ at' = "run"
    /\ UNCHANGED <<plan, status, reopened, pass, world, past>>

\* _sleep_until_earliest_deferred: woken, the deferral stands (its release
\* comes at the top of the next pass); on the timer it is cleared; at the
\* deadline the pass goes on without a task.
WokenEarly ==
    /\ at = "sleep" /\ (world.undefer # {} \/ world.steering > 0)
    /\ at' = "top"
    /\ UNCHANGED <<plan, status, reopened, pass, streak, world, past>>

\* Mutant (a plausible bug): the elapsed wait is not cleared.
TimerElapsedUncleared(t) == plan

TimerElapsed(t) == [plan EXCEPT ![t].waits = FALSE]

SleepsOut ==
    /\ at = "sleep" /\ ~world.cut
    /\ \E t \in Waiting : plan' = TimerElapsed(t)
    /\ at' = "top"
    /\ UNCHANGED <<status, reopened, pass, streak, world, past>>

DeadlineWakes ==
    /\ at = "sleep" /\ world.cut
    /\ streak' = [streak EXCEPT !.held = 0]
    /\ at' = "run"
    /\ UNCHANGED <<plan, status, reopened, pass, world, past>>

HoldIsSpent == streak.held + 1 > HeldMax

HoldsOn ==
    /\ at = "held"
    /\ streak' = [streak EXCEPT !.held = @ + 1]
    /\ at' = IF HoldIsSpent THEN "review" ELSE "run"
    /\ UNCHANGED <<plan, status, reopened, pass, world, past>>

(***************************************************************************)
(* One iteration of the worker.                                            *)
(***************************************************************************)
Spent == [world EXCEPT !.spent = @ + 1]

Iterates ==
    /\ at = "run"
    /\ world' = Spent
    /\ at' = "report"
    /\ UNCHANGED <<plan, status, reopened, pass, streak, past>>

\* The commit scan found a secret: the task is failed and the run parked; the
\* answer to that park goes on with the next pass.
SecretFound ==
    /\ On("secret") /\ at = "run" /\ pass.cur \in DOMAIN plan
    /\ world' = Spent
    /\ plan' = [plan EXCEPT ![pass.cur].status = "failed"]
    /\ at' = "top"
    /\ UNCHANGED <<status, reopened, pass, streak, past>>

\* Mutant (a plausible bug): the claim is given back, the tier is kept.
GivenBackEscalated ==
    IF pass.from # "none" /\ plan[pass.cur].status = "in-progress"
    THEN [plan EXCEPT ![pass.cur].status = pass.from]
    ELSE plan

\* The work did not fail, the machinery did: status and tier as they were.
GivenBack ==
    IF pass.from # "none" /\ plan[pass.cur].status = "in-progress"
    THEN [plan EXCEPT ![pass.cur].status = pass.from,
                      ![pass.cur].tier = IF pass.from = "validation-failed"
                                         THEN pass.tier ELSE @]
    ELSE plan

\* An infrastructure fault, a rate limit or a refusal gives the claim back; a
\* signal, or an instant exit, leaves it.
IterationFaulted(givesBack) ==
    /\ On("faults") /\ at = "run"
    /\ world' = Spent
    /\ plan' = IF givesBack THEN GivenBack ELSE plan
    /\ pass' = [pass EXCEPT !.fault = TRUE]
    /\ at' = "vigilant"
    /\ UNCHANGED <<status, reopened, streak, past>>

(***************************************************************************)
(* The report, in the order the code applies it.  Every part is optional,  *)
(* and one the contract ladder could not repair is as good as absent.      *)
(***************************************************************************)
Part == [task_status |-> 1, progress |-> 2, forced_split |-> 3, split |-> 4, repoint |-> 5]
Telling(part) == at = "report" /\ pass.told < Part[part]
Told(part) == [pass EXCEPT !.told = Part[part]]
ToldAndStirred(part) == [pass EXCEPT !.told = Part[part], !.stirred = TRUE]

\* Done work is reconciled with the records its owner re-opened.
Lands(p, t, s, touched) ==
    IF s \in {"completed", "validated"} THEN Reconciled(p, reopened, t, TRUE, touched) ELSE p

\* _apply_worker_task_status_report: about some other task.
StatusReported(t, s, justified, touched) ==
    /\ On("reports") /\ Telling("task_status")
    /\ t \in DOMAIN plan \ {pass.cur} /\ plan[t].status # s
    /\ ReportAccepted(plan[t].status, s, TRUE, FALSE, justified)
    /\ plan' = Lands([plan EXCEPT ![t].status = s], t, s, touched)
    /\ past' = [past EXCEPT ![t].rejected = @ + (IF s = "validation-failed" THEN 1 ELSE 0)]
    /\ pass' = ToldAndStirred("task_status")
    /\ UNCHANGED <<status, reopened, at, streak, world>>

\* Mutant (a plausible bug): any claim is charged.
ProgressChargedAlways(claim) == TRUE

ProgressCharged(claim) == claim = "corroborated"

\* progress: beside no_verdict only; a claim that is not believed is "idle", one
\* over an untouched tree.
ProgressReported(claim) ==
    /\ On("reports") /\ Telling("progress") /\ pass.cur \in DOMAIN plan
    /\ pass' = [Told("progress") EXCEPT !.claim = claim]
    /\ status' = IF ProgressCharged(claim)
                 THEN [status EXCEPT !.task = pass.cur,
                          !.used = IF status.task = pass.cur THEN @ + 1 ELSE 1]
                 ELSE status
    /\ past' = [past EXCEPT ![pass.cur].corroborated =
                    @ + (IF claim = "corroborated" THEN 1 ELSE 0)]
    /\ UNCHANGED <<plan, reopened, at, streak, world>>

\* The ids of a split's children.
Kid(n) == IF n = 1 THEN FreshId(plan)
          ELSE FreshId(Added(plan, FreshId(plan), NewTask("worker", {}, NoTask)))
Kids(n) == {Kid(i) : i \in 1 .. n}

\* lint_worker_split: new ids, edges to tasks that exist, no cycle.
SplitsInto(n) ==
    {d \in [Kids(n) -> {D \in SUBSET (DOMAIN plan \cup Kids(n)) : Cardinality(D) <= 1}] :
        Acyclic([k \in Kids(n) |-> d[k] \cap Kids(n)])}

\* insert_worker_split_tasks
WithKids(deps, inherited) ==
    [t \in DOMAIN plan \cup DOMAIN deps |->
        IF t \in DOMAIN deps THEN NewTask("worker", deps[t] \cup inherited, pass.cur)
        ELSE plan[t]]

SplitFits(n) ==
    Room(plan, n) /\ status.splits + n <= SplitMax /\ pass.cur \in DOMAIN plan

Inherited == plan[pass.cur].deps

\* The task's progress budget is spent: the children are in the plan ...
ForcedSplit(n) ==
    /\ On("splits") /\ pass.forced /\ Telling("forced_split") /\ SplitFits(n)
    /\ pass.claim = "idle" => On("twofold")
    /\ \E deps \in SplitsInto(n) : plan' = WithKids(deps, Inherited)
    /\ past' = [past EXCEPT ![pass.cur].split = TRUE]
    /\ pass' = [pass EXCEPT !.k = n]
    /\ at' = "splitting"
    /\ UNCHANGED <<status, reopened, streak, world>>

\* Mutant (a plausible bug): the children are in, the parent stays as it was.
ParentLeftAlone(p, t) == p

ParentSuperseded(p, t) == [p EXCEPT ![t].status = "superseded"]

\* ... before they are counted and the parent is superseded.
SplitDone ==
    /\ at = "splitting"
    /\ plan' = ParentSuperseded(plan, pass.cur)
    /\ status' = [status EXCEPT !.splits = @ + pass.k]
    /\ streak' = [streak EXCEPT !.stagnant = 0]
    /\ pass' = ToldAndStirred("split")
    /\ at' = "report"
    /\ UNCHANGED <<reopened, world, past>>

\* A voluntary split adds tasks and leaves the parent where it is.
VoluntarySplit(n) ==
    /\ On("splits") /\ Telling("split") /\ SplitFits(n)
    /\ \E deps \in SplitsInto(n) : plan' = WithKids(deps, {})
    /\ status' = [status EXCEPT !.splits = @ + n]
    /\ pass' = Told("split")
    /\ UNCHANGED <<reopened, at, streak, world, past>>

\* lint_worker_task_updates: only edges onto dead tasks go, and all of them do.
Repointable(t, deps) ==
    /\ t \in BlockedBy(plan) /\ plan[t].status = "pending"
    /\ LET dead == Having(plan, DeadStatuses)
       IN  /\ plan[t].deps \ deps # {} /\ plan[t].deps \ deps \subseteq dead
           /\ deps \cap dead = {}
    /\ ValidEdges(DepsOf(plan), t, deps) = deps

WorkerRepoints(t, deps) ==
    /\ On("reports") /\ Telling("repoint") /\ pass.cur # NoTask
    /\ status.repoints < RepointMax
    /\ t \in DOMAIN plan /\ Repointable(t, deps)
    /\ plan' = [plan EXCEPT ![t].deps = deps]
    /\ status' = [status EXCEPT !.repoints = @ + 1]
    /\ pass' = ToldAndStirred("repoint")
    /\ UNCHANGED <<reopened, at, streak, world, past>>

(***************************************************************************)
(* The verdict.                                                            *)
(***************************************************************************)
\* A progress block is read beside no_verdict only.
AtVerdict == at = "report" /\ pass.claim = "none"

Complete ==
    /\ AtVerdict /\ pass.cur \in DOMAIN plan
    /\ ReportAccepted(plan[pass.cur].status, "awaiting-validation", TRUE, FALSE, FALSE)
    /\ plan' = [plan EXCEPT ![pass.cur].status = "awaiting-validation"]
    /\ pass' = [pass EXCEPT !.applied = TRUE, !.stirred = TRUE]
    /\ streak' = [streak EXCEPT !.stagnant = 0]
    /\ at' = "vigilant"
    /\ UNCHANGED <<status, reopened, world, past>>

\* Names any task, with or without one assigned.
Unsatisfiable(t) ==
    /\ On("reports") /\ AtVerdict /\ t \in DOMAIN plan
    /\ ReportAccepted(plan[t].status, "skipped", TRUE, FALSE, FALSE)
    /\ plan' = [plan EXCEPT ![t].status = "skipped"]
    /\ streak' = [streak EXCEPT !.stagnant = 0]
    /\ at' = IF Actionable(plan') # {} THEN "top" ELSE "review"
    /\ UNCHANGED <<status, reopened, pass, world, past>>

\* Refused while anything is outstanding, unless only failures are left.
PlanComplete ==
    /\ AtVerdict /\ pass.cur = NoTask
    /\ \/ UnresolvedFailures(plan) # {}
       \/ OutstandingForCompletion(plan, status.confirmed) = {}
    /\ at' = "review"
    /\ UNCHANGED <<plan, status, reopened, pass, streak, world, past>>

\* What the task's status is by now is not asked: `twofold` is the report that
\* has just split it.
Deferred ==
    /\ On("deferral") /\ AtVerdict /\ pass.cur \in DOMAIN plan
    /\ plan[pass.cur].status = "superseded" => On("twofold")
    /\ plan' = [plan EXCEPT ![pass.cur].status = "pending", ![pass.cur].waits = TRUE]
    /\ streak' = [streak EXCEPT !.stagnant = 0]
    /\ at' = "top"
    /\ UNCHANGED <<status, reopened, pass, world, past>>

\* no_verdict, none at all, or one the ladder gave up on.
NoVerdict ==
    /\ at = "report"
    /\ at' = "vigilant"
    /\ UNCHANGED <<plan, status, reopened, pass, streak, world, past>>

(***************************************************************************)
(* The vigilant cadence: what claims to be done is verified at once, with  *)
(* the adjudication of open petitions and the mid-plan review before it.   *)
(***************************************************************************)
Relabelled(p) ==
    [t \in DOMAIN p |-> IF p[t].status = "completed"
                        THEN [p[t] EXCEPT !.status = "awaiting-validation"] ELSE p[t]]

\* The list is taken here, and the two episodes come before it is worked off.
VerificationListed ==
    /\ at = "vigilant"
    /\ plan' = Relabelled(plan)
    /\ LET listed == Having(plan', {"awaiting-validation"})
       IN  /\ pass' = [pass EXCEPT !.toVerify = listed, !.then = "midplan",
                                   !.stirred = @ \/ plan' # plan]
           /\ at' = IF listed = {} THEN "tally" ELSE "adjudicate"
    /\ UNCHANGED <<status, reopened, streak, world, past>>

\* open_unconfirmed_petitions, as far as the plan's own tasks filed them.  What
\* was ruled on, either way, is not presented again.
OpenPetitions == Having(plan, {"petitioned"}) \ status.settled

AdjudicationSkipped ==
    /\ at = "adjudicate"
    /\ ~BudgetLeft \/ OpenPetitions \subseteq streak.seen
    /\ at' = pass.then
    /\ UNCHANGED <<plan, status, reopened, pass, streak, world, past>>

Answered(answers, answer) == {t \in DOMAIN answers : answers[t] = answer}
RuledOn(answers) == {t \in DOMAIN answers : answers[t] # "silence"}

\* The bound on an episode: one substantive remedy at a time.
Adjudications ==
    {f \in [OpenPetitions -> Answers] :
        Cardinality(Answered(f, "substance")) <= (IF Room(plan, 1) THEN 1 ELSE 0)}

\* Both rulings are on record before the plan is touched.
RulingsRecorded(answers) ==
    [status EXCEPT !.confirmed = @ \cup Answered(answers, "confirmed"),
                   !.settled = @ \cup RuledOn(answers)]

AdjudicationRecorded(answers) ==
    /\ status' = RulingsRecorded(answers)
    /\ pass' = [pass EXCEPT !.answers = answers, !.stirred = TRUE]
    /\ at' = "refute"

\* Off the budget: the iteration is refunded.
Adjudicated ==
    /\ at = "adjudicate" /\ BudgetLeft /\ ~(OpenPetitions \subseteq streak.seen)
    /\ \E answers \in Adjudications : AdjudicationRecorded(answers)
    /\ streak' = [streak EXCEPT !.seen = @ \cup OpenPetitions]
    /\ UNCHANGED <<plan, reopened, world, past>>

\* A refuted petition: over its form the work stands, over its substance it failed.
RefutedApplied ==
    /\ at = "refute"
    /\ LET form == Answered(pass.answers, "form")
           substance == Answered(pass.answers, "substance")
       IN  /\ plan' = [t \in DOMAIN plan |->
                        CASE t \in form -> [plan[t] EXCEPT !.status = "validated"]
                          [] t \in substance -> [plan[t] EXCEPT !.status = "failed"]
                          [] OTHER -> plan[t]]
           /\ at' = IF substance # {} THEN "remedy" ELSE "void"
    /\ UNCHANGED <<status, reopened, pass, streak, world, past>>

\* The remedy becomes a cure task that the failed task's dependents wait for.
RemedyInserted(moved) ==
    /\ at = "remedy" /\ Room(plan, 1)
    /\ LET finding == [named |-> Answered(pass.answers, "substance"), paths |-> {}]
       IN  /\ plan' = CurePass(plan, finding)
           /\ reopened' = ReopenedAfter(plan, reopened, finding, moved)
           /\ status' = [status EXCEPT !.remedied = @ \cup finding.named]
    /\ at' = "void"
    /\ UNCHANGED <<pass, streak, world, past>>

\* Mutant (a plausible bug): the dependents keep the edge to the voided task.
EdgeOfVoidedKept(p, t, by) == p[t].deps

\* A dependent of a voided task waits for its replacement instead, if one is
\* named (NoTask otherwise); the new edge is not validated.
EdgeOfVoided(p, t, by) ==
    LET voided == Answered(pass.answers, "confirmed")
    IN  IF p[t].deps \cap voided = {} THEN p[t].deps
        ELSE (p[t].deps \ voided) \cup ({by} \cap DOMAIN p)

ConfirmedApplied(by) ==
    /\ at = "void"
    /\ by # NoTask => On("replacement") /\ by \in DOMAIN plan
    /\ plan' = [t \in DOMAIN plan |->
                  [plan[t] EXCEPT
                     !.status = IF t \in Answered(pass.answers, "confirmed") THEN "skipped" ELSE @,
                     !.deps = EdgeOfVoided(plan, t, by)]]
    /\ pass' = [pass EXCEPT !.answers = NoAnswers]
    /\ at' = pass.then
    /\ UNCHANGED <<status, reopened, streak, world, past>>

\* _mid_plan_review_due: half of the plan is validated.
MidPlanReviewDue ==
    /\ On("midplan") /\ BudgetLeft
    /\ status.approach \notin status.midPlan
    /\ 2 * Cardinality(Having(plan, {"validated"})) >= Cardinality(DOMAIN plan)

MidPlanSkipped ==
    /\ at = "midplan" /\ ~MidPlanReviewDue
    /\ at' = "verify"
    /\ UNCHANGED <<plan, status, reopened, pass, streak, world, past>>

\* The findings of a review: the failed tasks it names, the evidence it voids.
ReviewFindings ==
    {[named |-> N, paths |-> P] :
        N \in {M \in SUBSET Having(plan, {"failed"}) : Cardinality(M) <= 1},
        P \in SUBSET {"lane", "other"}}

Curable(finding) == status.cures < CureMax /\ Room(plan, IdsTaken(finding))

\* _take_cure_pass: the plan first, the count after it.
CuresInserted(finding, moved) ==
    /\ plan' = CurePass(plan, finding)
    /\ reopened' = ReopenedAfter(plan, reopened, finding, moved)
    /\ at' = "counted"

\* It is noted as done before it runs; blocking findings may cost a cure pass.
MidPlanReviewed ==
    /\ at = "midplan" /\ MidPlanReviewDue
    /\ status' = [status EXCEPT !.midPlan = @ \cup {status.approach}]
    /\ world' = Spent
    /\ pass' = [pass EXCEPT !.then = "verify", !.stirred = TRUE]
    /\ \/ at' = "verify" /\ UNCHANGED <<plan, reopened>>
       \/ \E finding \in ReviewFindings, moved \in BOOLEAN :
             Curable(finding) /\ CuresInserted(finding, moved)
    /\ UNCHANGED <<streak, past>>

CurePassCounted ==
    /\ at = "counted"
    /\ status' = [status EXCEPT !.cures = @ + 1]
    /\ at' = pass.then
    /\ UNCHANGED <<plan, reopened, pass, streak, world, past>>

\* _verify_task.  A verdict for the work counts whatever became of the task.
Listed(t) == at = "verify" /\ t \in pass.toVerify

VerifyPasses(t, touched) ==
    /\ Listed(t) /\ BudgetLeft
    /\ plan' = Lands([plan EXCEPT ![t].status = "validated"], t, "validated", touched)
    /\ world' = Spent
    /\ pass' = [pass EXCEPT !.toVerify = @ \ {t}, !.stirred = TRUE]
    /\ UNCHANGED <<status, reopened, at, streak, past>>

\* Mutant (a plausible bug): the limit is passed by one.
OutOfAttemptsLate(tries) == tries > AttemptLimit

OutOfAttempts(tries) == tries >= AttemptLimit

\* At the limit the task is petitioned, once per obligation, or failed.
VerifyRejects(t) ==
    /\ Listed(t) /\ BudgetLeft
    /\ LET out == OutOfAttempts(plan[t].tries + 1)
           petition == On("petitions") /\ t \notin status.filed
       IN  /\ plan' = [plan EXCEPT ![t].tries = @ + 1,
                          ![t].status = IF ~out THEN "validation-failed"
                                        ELSE IF petition THEN "petitioned" ELSE "failed"]
           /\ status' = IF out /\ petition THEN [status EXCEPT !.filed = @ \cup {t}] ELSE status
           /\ at' = IF out /\ petition THEN "adjudicate" ELSE "verify"
    /\ past' = [past EXCEPT ![t].rejected = @ + 1]
    /\ world' = Spent
    /\ pass' = [pass EXCEPT !.toVerify = @ \ {t}, !.stirred = TRUE, !.then = "verify"]
    /\ UNCHANGED <<reopened, streak>>

\* The verifier never reached a verdict, retried or not; or there is no budget.
VerifyMute(t) ==
    /\ Listed(t)
    /\ world' = IF BudgetLeft THEN Spent ELSE world
    /\ pass' = [pass EXCEPT !.toVerify = @ \ {t}]
    /\ UNCHANGED <<plan, status, reopened, at, streak, past>>

VerificationOver ==
    /\ at = "verify" /\ pass.toVerify = {}
    /\ at' = "tally"
    /\ UNCHANGED <<plan, status, reopened, pass, streak, world, past>>

(***************************************************************************)
(* The tally: did anything move?                                           *)
(***************************************************************************)
TallyApplied ==
    /\ at = "tally" /\ pass.applied
    /\ at' = IF OutstandingForCompletion(plan, status.confirmed) = {} THEN "review" ELSE "top"
    /\ UNCHANGED <<plan, status, reopened, pass, streak, world, past>>

\* The instant-failure breaker sets the abort reason, which is no budget.
BreakerTrips ==
    /\ On("breaker") /\ at = "tally" /\ ~pass.applied /\ pass.fault
    /\ world' = [world EXCEPT !.cut = TRUE]
    /\ at' = "tail"
    /\ UNCHANGED <<plan, status, reopened, pass, streak, past>>

\* Neither a fault nor a hold says anything about the plan.
TallyPassedOver ==
    /\ at = "tally" /\ ~pass.applied /\ (pass.fault \/ pass.held)
    /\ at' = "top"
    /\ UNCHANGED <<plan, status, reopened, pass, streak, world, past>>

Tallied == at = "tally" /\ ~pass.applied /\ ~pass.fault /\ ~pass.held

Repolls == IF pass.claim # "idle" THEN 0
           ELSE IF streak.on = pass.cur THEN streak.repolls + 1 ELSE 1

\* _apply_engine_repoll_backoff: a task asked about in vain is put off.
BacksOff ==
    /\ Tallied /\ Repolls >= RepollMax
    /\ plan' = [plan EXCEPT ![pass.cur].status = "pending", ![pass.cur].waits = TRUE]
    /\ streak' = [streak EXCEPT !.on = pass.cur, !.repolls = RepollMax]
    /\ at' = "top"
    /\ UNCHANGED <<status, reopened, pass, world, past>>

\* Commits, and tool calls on the assigned task, are progress of their own.
Progressed(activity) == pass.stirred \/ pass.claim = "corroborated" \/ activity

Stagnant(activity) == IF Progressed(activity) THEN 0 ELSE streak.stagnant + 1

Tally(activity) ==
    /\ Tallied /\ Repolls < RepollMax
    /\ LET n == Stagnant(activity)
       IN  /\ streak' = [streak EXCEPT !.on = pass.cur, !.repolls = Repolls, !.stagnant = n]
           /\ at' = IF n > 0 /\ UnresolvedFailures(plan) # {} THEN "review"
                    ELSE IF n < StagnationMax THEN "top"
                    ELSE IF BudgetLeft THEN "replan" ELSE "tail"
    /\ UNCHANGED <<plan, status, reopened, pass, world, past>>

(***************************************************************************)
(* What review and a replan do to the plan.                                *)
(***************************************************************************)
\* Review answers the open petitions too, seen or not.
ReviewAnswers ==
    /\ at = "review" /\ BudgetLeft
    /\ \E f \in Adjudications :
          /\ status' = RulingsRecorded(f)
          /\ pass' = [NewPass EXCEPT !.answers = f, !.then = "reviewed"]
    /\ world' = Spent
    /\ at' = "refute"
    /\ UNCHANGED <<plan, reopened, streak, past>>

ReviewUnaffordable ==
    /\ at = "review" /\ ~BudgetLeft
    /\ at' = "tail"
    /\ UNCHANGED <<plan, status, reopened, pass, streak, world, past>>

\* A rejection it can afford to cure sends the worker back to the same plan.
ReviewCured ==
    /\ On("cures") /\ at = "reviewed"
    /\ \E finding \in ReviewFindings, moved \in BOOLEAN :
          Curable(finding) /\ CuresInserted(finding, moved)
    /\ pass' = [pass EXCEPT !.then = "top"]
    /\ streak' = StepEntered
    /\ UNCHANGED <<status, world, past>>

ReviewRejects ==
    /\ at = "reviewed" /\ at' = "replan"
    /\ UNCHANGED <<plan, status, reopened, pass, streak, world, past>>

\* A verdict that stands, or a run held for the operator.
ReviewEnds ==
    /\ at = "reviewed" /\ at' = "done"
    /\ UNCHANGED <<plan, status, reopened, pass, streak, world, past>>

\* The next approach has a plan and a worker's budgets of its own; the progress
\* record, and what cure passes noted of re-opened records, are keyed by task id
\* alone.  An obligation worded as before is known, one worded anew is not.
Replanned(worded) ==
    /\ at = "replan" /\ status.approach < MaxApproaches
    /\ plan' \in FreshPlans
    /\ status' = [status EXCEPT !.approach = @ + 1, !.splits = 0, !.repoints = 0,
                     !.filed = IF worded THEN @ ELSE {}, !.settled = IF worded THEN @ ELSE {},
                     !.confirmed = IF worded THEN @ ELSE {}, !.remedied = {}]
    /\ past' = Untouched
    /\ streak' = StepEntered
    /\ at' = "top"
    /\ UNCHANGED <<reopened, pass, world>>

OutOfApproaches ==
    /\ at = "replan" /\ status.approach = MaxApproaches
    /\ at' = "done"
    /\ UNCHANGED <<plan, status, reopened, pass, streak, world, past>>

(***************************************************************************)
(* A kill, between any two durable writes, and the start that follows it.  *)
(***************************************************************************)
\* status.json says which step to go on with.
ResumesAt ==
    CASE at = "replan" -> "replan"
      [] \/ at \in {"review", "reviewed"} \/ pass.then = "reviewed"
         \/ at = "counted" /\ pass.then = "top" -> "review"
      [] OTHER -> "top"

Killed ==
    /\ On("killed") /\ at \notin {"tail", "done"}
    /\ at' = ResumesAt
    /\ pass' = NewPass /\ streak' = NewStreak
    /\ world' = [world EXCEPT !.undefer = {}]
    /\ UNCHANGED <<plan, status, reopened, past>>

Over == at \in {"tail", "done"} /\ UNCHANGED vars

-----------------------------------------------------------------------------
Operator ==
    \/ SteeringArrives \/ TimeRunsOut
    \/ \E t \in Ids : UndeferRequested(t)
    \/ \E t \in Ids, s \in Statuses : RulingGiven(t, s)

Boundary ==
    \/ PassBegins \/ BudgetGone \/ RulingReapplied \/ BoundaryPassed
    \/ Resteered
    \/ \E deps \in SUBSET Ids : SteerInsert(deps)
    \/ \E t \in Ids : SteerDelete(t)
    \/ \E t \in Ids, deps \in SUBSET Ids : SteerRepoint(t, deps)
    \/ \E t \in Ids, s \in Statuses : SteerMoves(t, s)

Selection ==
    \/ \E t \in Ids : Claim(t)
    \/ DoomedPlan \/ GraphFault \/ Held \/ GoesToSleep \/ NoTaskToRun
    \/ WokenEarly \/ SleepsOut \/ DeadlineWakes \/ HoldsOn

Iteration ==
    \/ Iterates \/ SecretFound
    \/ \E givesBack \in BOOLEAN : IterationFaulted(givesBack)
    \/ \E t \in Ids, s \in Statuses, justified, touched \in BOOLEAN :
          StatusReported(t, s, justified, touched)
    \/ \E claim \in {"corroborated", "idle"} : ProgressReported(claim)
    \/ \E n \in 1 .. 2 : ForcedSplit(n)
    \/ \E n \in 1 .. 2 : VoluntarySplit(n)
    \/ SplitDone
    \/ \E t \in Ids, deps \in SUBSET Ids : WorkerRepoints(t, deps)
    \/ Complete \/ PlanComplete \/ Deferred \/ NoVerdict
    \/ \E t \in Ids : Unsatisfiable(t)

Verification ==
    \/ VerificationListed \/ AdjudicationSkipped \/ Adjudicated
    \/ RefutedApplied
    \/ \E moved \in BOOLEAN : RemedyInserted(moved)
    \/ \E by \in Ids \cup {NoTask} : ConfirmedApplied(by)
    \/ MidPlanSkipped \/ MidPlanReviewed \/ CurePassCounted
    \/ \E t \in Ids, touched \in BOOLEAN : VerifyPasses(t, touched)
    \/ \E t \in Ids : VerifyRejects(t)
    \/ \E t \in Ids : VerifyMute(t)
    \/ VerificationOver

Judgement ==
    \/ TallyApplied \/ BreakerTrips \/ TallyPassedOver \/ BacksOff
    \/ \E activity \in BOOLEAN : Tally(activity)
    \/ ReviewAnswers \/ ReviewUnaffordable \/ ReviewCured \/ ReviewRejects \/ ReviewEnds
    \/ \E worded \in BOOLEAN : Replanned(worded)
    \/ OutOfApproaches

Engine == Boundary \/ Selection \/ Iteration \/ Verification \/ Judgement

Next == Engine \/ Operator \/ Killed \/ Over

\* The engine goes on; nothing is asked of the operator, the clock or a kill.
Spec == Init /\ [][Next]_vars /\ WF_vars(Engine)

=============================================================================
