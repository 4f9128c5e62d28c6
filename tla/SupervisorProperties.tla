------------------------ MODULE SupervisorProperties ------------------------
(***************************************************************************)
(* What the run supervisor promises.                                       *)
(***************************************************************************)
EXTENDS Supervisor

\* The run is, or is about to be recorded as, a success.
Succeeding ==
    \/ status.state = "succeeded"
    \/ status.state = "finishing" /\ status.pending = "succeeded"

\* The strongest judge the configuration has.
LastJudge == IF PeerGate THEN "verdict_gate" ELSE "review"

-----------------------------------------------------------------------------
(* Outcomes *)

\* A run only succeeds on a tree its last judge passed, or whose findings the
\* operator waived in that judge's place, or that review had passed in the
\* iteration the clock cut: no path from a park, a timeout, a restart or a
\* fault reaches success around a judge (loop.py _step_review,
\* _step_verdict_gate, _carry_out_input_answer).
SuccessIsJudged == Succeeding => passed \in {LastJudge, "early"}

\* No step into success leaves a cure round's tasks outstanding: neither judge
\* nor an operator's answer outruns _terminal_success_blockers.
NoSuccessOverCures ==
    [][~Succeeding /\ Succeeding' => dir.work # "cure"]_vars

\* No step into success leaves the operator's steering unsettled, be it pending
\* or deferred (the other of _terminal_success_blockers).
NoSuccessOverSteering ==
    [][~Succeeding /\ Succeeding' => dir.steering + dir.deferred = 0]_vars

\* An abort the run has accepted is never overtaken by a success, unless an
\* operator's answer is on record already that the paused step is still to carry
\* out (loop.py _step_paused, _carry_out_input_answer).
AbortIsSticky ==
    [][proc.aborted /\ status.answer = NoAnswer /\ ~Succeeding => ~Succeeding']_vars

\* Once an outcome is settled, nothing that happens during the reflection that
\* follows changes it: not a pause, an abort, a crash or the next start
\* (loop.py _finish, _promote_recorded_finishing_state).
SettledOutcomeSurvives ==
    [][status.state = "finishing" =>
          /\ status'.verdict = status.verdict
          /\ \/ status'.state = "finishing" /\ status'.pending = status.pending
             \/ status'.state = status.pending]_vars

\* A run that holds names a budget that is spent, so the top-up `resume` asks
\* for is the one that helps (loop.py _spent_run_budget,
\* _archive_and_replan_outcome, _step_replan).
HoldNamesASpentBudget ==
    [][status.state # "exhausted" /\ status'.state = "exhausted" =>
          CASE status'.exhausted = "iterations" -> dir'.charged >= status.budget
            [] status'.exhausted = "time"       -> proc.timeUp
            [] status'.exhausted = "approaches" -> proc.approach >= proc.max
            [] OTHER                            -> FALSE]_vars

-----------------------------------------------------------------------------
(* Budgets *)

\* Refunds, retries, waits at the gate and restarts never let the run charge an
\* iteration it has no budget for; an operator who lowers the budget to what is
\* used (PATCH /config/budget) may see the one iteration that already stood
\* behind the check, at the gate or in a backoff, and no more.
ChargedWithinBudget ==
    dir.charged <= status.budget + (IF status.budget \in Patches THEN 1 ELSE 0)

\* Both judges draw on one allowance of cure rounds per approach, which only an
\* operator's answer raises; a cure at a park or at the input timeout counts
\* like any other.
CureRoundsWithinAllowance ==
    \A a \in Approaches : status.cures[a] <= CureCeiling + status.topUps[a]

\* An approach is left for the next one only when it has been archived, and
\* never past the number of approaches the process has; a planning that died
\* and a task graph that cannot be scheduled cost none.
ApproachChargedOnce ==
    [][at # "down" /\ at' # "down" /\ proc'.approach # proc.approach =>
          /\ proc'.approach = proc.approach + 1 /\ proc'.approach <= proc.max
          /\ proc.approach \in dir.archived]_vars

-----------------------------------------------------------------------------
(* Parks, pauses and the plan *)

\* Whoever reads status.json sees whether the loop is being held: wherever a
\* request can arrive, the gate is closed exactly when the file says `paused`
\* or `awaiting_input` (or the outcome is settled and the gate moot).
GateIsOnRecord ==
    AtAwait /\ status.state # "finishing" =>
        (proc.gateOpen <=> status.state \notin {"paused", "awaiting_input"})

\* A run awaits input exactly when there is a question on file to answer; only
\* a run that ended may leave a stale one behind (its budget or an abort took
\* the step the question was to be waited on in).
ParkHasItsQuestion ==
    at # "opening" =>
        /\ status.state = "awaiting_input" => status.question.kind # "none"
        /\ status.question.kind # "none" =>
              status.state \notin {"starting", "running", "paused"}

\* Within one life of the process the worker works on the plan of the current
\* approach, never on one already rejected (loop.py _step_planning).
WorksOnItsOwnPlan ==
    step = "worker" /\ at = "run" =>
        dir.planOf = proc.approach /\ proc.approach \notin dir.archived

\* Every move of the dispatch loop is an edge of the declared table
\* (transitions.py), which the engine takes or dies of an `engine error`.
StepsAreDeclared ==
    [][at # "down" /\ at' # "down" /\ step' # step =>
          step' \in Successors(step, FALSE, FALSE, PeerGate)]_vars

-----------------------------------------------------------------------------
(* The inductive invariant behind TypeOK and SettledOutcomeSurvives *)

\* An outcome is `finishing` only in front of, or during, the reflection, and
\* then names what it will be.
SettledShape ==
    /\ status.state = "finishing" =>
          at \in {"reflect", "down"} /\ status.pending \in RunTerminalStates
    /\ at = "reflect" => status.state = "finishing"

\* An iteration never consumes steering it was not handed: nothing unsettled
\* disappears while it runs.
SteeringHanded ==
    step \in {"planning", "steer"} /\ at = "run" =>
        proc.carried <= dir.steering

IInv == TypeOK /\ SettledShape /\ SteeringHanded

-----------------------------------------------------------------------------
(* Progress *)

\* With an input timeout, no pause and no secret, a run nobody attends to comes
\* to rest: it settles or holds, whatever its judges say and however they fail.
ComesToRest == []<>(at = "down")

-----------------------------------------------------------------------------
(* Refinement: status.json keeps the promises of RunLifecycle *)

Lifecycle == INSTANCE RunLifecycle WITH
    state <- status.state, verdict <- status.verdict,
    pending <- status.pending, spent <- status.exhausted,
    approach <- status.approach, charged <- dir.charged,
    budget <- status.budget

ImplementsLifecycle == Lifecycle!Spec

=============================================================================
