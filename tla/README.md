# ralphd: TLA+ models and proofs

`ralphd` runs a coding job unattended. An engine process drives a loop of
*iterations*; in each one an external agent wears a *hat* (planning, worker,
steer, review, verdict gate, ...). The engine keeps all it must not forget in a
run directory, and an operator talks to it over a small HTTP API and a command
line. These modules specify the part that decides what a run *does next* and
how it *ends*: the supervisor of the loop and the judges' rejection ladder, the
operator's requests and the restart of the engine, the worker's step over the
task graph, the review with its adjudication of petitions, planning with the
retry of failed iterations, and the life of a steering message.

All paths below are relative to `src/`; `loop.py` and the like stand for
`src/ralphd/engine/loop.py`.

## 1. Inventory

| Component | State it keeps | Operations | Modelled |
|---|---|---|---|
| Dispatch loop and steps (`loop.py`, class `LoopSupervisor`) | `_approach`, the pause event, abort reason, deadline, counters; through `RunDir` everything in `status.json` | `_run_job_core`, `_step_planning`, `_step_replan`, `_step_worker`, `_step_steer`, `_step_review`, `_step_verdict_gate`, cures, `_step_paused`, `_finish*` | `Supervisor` |
| Declared step machine (`transitions.py`) | none (a table) | successors of a step, refusal of an undeclared edge | `Transitions` |
| Rejection ladder, answer, input timeout (`ladder.py`, `answer.py`, `state.py`) | none (pure) | `route_rejection`, `plan_operator_answer`, `input_on_timeout` | `Ladder` |
| What `status.json` promises (`state.py`, `run_record.py`) | `state`, `verdict`, `pendingTerminalState`, `exhaustedBudget`, ... | read by the CLI, the hub, the UI | `RunLifecycle` (abstract) |
| Steering (`state.py`, `loop.py`) | `steering/*.md`, `.consumed.json`, `.ledger.json`, two maps of `status.json` | add, deliver, consume, settle, defer, flush, exhaust | `Steering` (in `Supervisor`: counts; in `Tasks`: what it does to the plan) |
| Operator API (`api.py`) | none of its own | `pause`, `resume`, `answer`, secret decision, `abort`, `steer`, `PATCH /config/budget`, `retry`, undefer, task edits | all but the task edits: `Supervisor`, `InfraRetry`, `Tasks` |
| Start and resume (`main.py`, `cli/main.py`) | `job.yaml`, run lock | seed, resume point, top-ups, promotion of a recorded outcome | in `Supervisor`, `Planning`, `Review`, `Tasks` |
| Task graph (`loop.py`, `state.py`, `scheduler.py`) | `tasks.json` | select, claim, report, verify, split, defer, petition, cure, re-open, restore, steer edits, stagnation | `TaskGraph`, `TaskStatus`, `CurePass`, `Tasks` |
| Infrastructure retry (`loop.py`, `faults.py`, `runner.py`) | outage episode, waits, deadline, streaks | classify, back off, wait out a limit, refund, break, give up | `Faults`, `InfraRetry` |
| Plan ingestion (`plan_ingestion.py`) | proposal | lint, repair criteria, ingest | `PlanIngestion` |
| Planning and the peer's plan review (`loop.py`) | plan on disk, revisions, death signatures, blockers | plan, review, revise, replan, resume | `Planning` |
| Review (`loop.py`, `findings.py`, `transitions.py`) | `findings.json`, counters of attempts and faults | dispatch, contract ladder, fresh attempts, verdict, cure rounds, confirmation review | `ReviewFindings`, `Review` |
| Petitions (`petitions.py`) | filings, the record of rulings, its key and its events | file, adjudicate, record, witness, believe, exempt | `Petitions`, `Review`; their effect on the plan: `Tasks` |
| Hat contracts (`contract_enforcement.py`, `contracts.py`) | none | retry ladder over a payload | the ladders in `Planning`, `Review`, `Steering` |
| Record files and lock (`state.py`) | event log, atomically replaced files | append, replace, lock | planned |
| Configuration, routing, tiers, pricing, skills, redaction, commit scan, privileges | none that decides a step | lookups, parsing, OS calls | no |
| CLI, hub, containers, UI, rendering, log merge, harness adapters, prompts | external processes, presentation | | no (but for the resume top-ups) |

### How they interact

- One `asyncio` loop runs the supervisor's coroutine and the API's handlers.
  Between two awaits a step runs alone. At an await a handler may change
  `status.json`, the run directory and the supervisor's fields.
- The pause event is the one gate: `pause` and a park clear it, `resume`,
  `answer`, `abort` and the input timeout set it.
- `_resume_point` rebuilds the position of a new process from the run directory
  alone. What lives only in the process (the granted approaches, the deadline,
  an abort, an unsettled objection of the plan's peer) is lost with it.
- The judges do not move the run: they record a rejection, and the ladder picks
  cure, park, waiver or the next approach.
- The plan is written by many hands: planning, the worker's reports, cure
  passes, steering, adjudications. Each goes through the same validation of
  edges and the same table of statuses.
- Every hat's iteration goes through the same retry; its wait is where bells
  (messages, aborts, a manual retry, a moved deadline) are heard.
- Steering goes from handler to run directory to the next iteration; both
  judges' success edges are to look at what is unsettled.

### What is hard here

Requests that land while a step waits; values read before an await and used
after it; several durable writes that mean one thing, with a kill between them;
two judges drawing on one allowance; budgets that are refunded, topped up and
patched while work stands behind a check that has passed; messages handed out
again after failures; a graph edited from five sides; a record an agent may
have forged; an outage that must cost neither the deadline nor a task's
attempts. `PROJECT.json` lists each such hazard at its line, with the
properties that cover it or the reason none does.

### What makes each component correct

- *Supervisor*: success only past its last judge and with nothing outstanding;
  budgets never overdrawn; an outcome, once settled, final; a held run names the
  budget that was spent; a paused or parked run says so, with its question; the
  run comes to rest.
- *Step machine*: no move outside of the declared table.
- *Ladder*: a cure round is only given within the allowance, a waiver covers
  only what the operator waived.
- *Steering*: never silently lost, never applied again after it was closed,
  boundedly often redelivered.
- *Task graph*: always schedulable; a task is charged for rejections of its
  work and for nothing else; a re-opened record waits for its cures; nothing
  waits on what a ruling voided; the step is left in the end.
- *Review*: success only after a full audit, over no finding a ruling or a
  confirmation's scope does not exempt; the record of rulings says what was
  ruled; each judgement is paid for once.
- *Planning and retry*: what is handed over passes every lint and demands what
  was proposed; recorded work is not planned over; waiting costs no time; every
  outage, refusal and objection comes to an end.
- *Records* (planned): a torn tail never hides a whole line.

## 2. Modules

| Module | Contents |
|---|---|
| `Transitions` | the declared edges of the steps, with the deltas a configuration adds |
| `Ladder` | decision tables over findings, clauses, waivers and rounds |
| `Supervisor` | the engine, the operator, the world; EXTENDS the two above |
| `SupervisorProperties` | what is claimed of it, the invariant, the refinement mapping |
| `RunLifecycle` | the abstract specification of `status.json` |
| `TaskGraph` | the plan as a graph: selection, blocked work, the validation of edges |
| `TaskStatus` | the table of statuses and the moves a report may claim by it |
| `CurePass` | what a cure pass inserts, which record it re-opens, when that is restored |
| `Tasks` | the worker's step, pass by pass; EXTENDS the three above |
| `ReviewFindings` | findings, their channel, the downgrades, when a reply is usable |
| `Petitions` | filings, the record of rulings, its authority and its witness |
| `Review` | the review and the adjudicating episodes; EXTENDS the two above |
| `Faults` | how an ending is classified |
| `InfraRetry` | one iteration through its attempts and waits; EXTENDS `Faults` |
| `PlanIngestion` | lints, the repair of criteria, the plan an accepted proposal becomes |
| `Planning` | planning, plan review, replan, reflection; EXTENDS the two above |
| `Steering` | one message's life, with its properties |
| `TaskProperties`, `ReviewProperties`, `PlanningProperties` | what is claimed of the three |
| `SupervisorInvariants` | what holds between any two steps of `Supervisor`, conjunct by conjunct |
| `SupervisorSteps` | its steps, told in the fields those conjuncts read: two dozen kinds |
| `SupervisorProofs`, `SupervisorSafetyProofs`, `SteeringProofs`, `PlanningProofs`, `ReviewProofs`, `TasksProofs`, `TasksSafetyProofs` | the theorems |
| `MC...` | values of the constants for TLC |

`Supervisor` sees a worker's step, a review or a planning as one action with
several outcomes. `Tasks`, `Review`, `Planning` and `Steering` each open one of
them up, and keep of the rest what can change their own state. No module
composes all of them: the product is far out of TLC's reach, and what they
share is narrow (the budget, the approach, "a cure pass was granted").

### Supervisor

`status` is `status.json`; `dir` the rest of the run directory as far as a step
reads it (whose plan is on disk, what kind of work is left in it, archived
approaches, iterations charged, waivers, an unfinished review, the early
verdict checkpoint, pending and deferred steering); `job` the approaches in
`job.yaml`; `proc` the memory that dies with the process. `step` and `at` are
the program counter: `step` is the dispatch loop's own variable, `at` says at
which await or between which two writes of the step the loop stands. Two history
variables carry no behaviour: `passed` (who passed the tree as it stands) and
`boots`.

Every synchronous stretch of code between two awaits is one action. It is split
further only where a kill between two writes leaves something a restart can
see: the two opening writes (`Boot`, `Repark`), the cure's tasks and its count
(`CureStep`, `CountCure`), the archive and the advance (`Archived`), the answer
and the release (`KilledInAnswer`), the settled outcome and its promotion
(`ReflectDone`, `PromoteRecorded`).

An agent is a nondeterministic choice among the outcomes the engine tells
apart. A worker iteration leaves nothing, ordinary work or cure tasks; a judge
verifies, rejects with a set of findings from `Rejections`, faults, or is
interrupted; planning produces tasks or dies with the same or another
signature.

The four budget fields of `PATCH /config/budget` are `PatchIterations`,
`PatchMaxApproaches`, `PatchDeadline` and `PatchCureRounds`, taken at any await.
`Patches` are the iteration budgets an operator may set, lower ones included.

`Environment` names which events of the outside happen (`EnvironmentEvents`):
each run turns on what its question needs. The theorems hold for every subset.

### Steering

Here the messages are individuals. An iteration is broken up into dispatch,
attempts, waits between attempts, its end, the reading of the payload, and the
writes that follow. `Mishaps` are four circumstances in which the code does
*not* keep its promises. The run `steering` leaves them out and `mishaps` has two
of them; one by one they give:

| Mishap | What TLC finds |
|---|---|
| `late`: a message arrives while a steer iteration waits for its next attempt | `HeardBeforeSuccess` fails: it is handed to the second attempt and consumed with it, but the answers are read against what the first was handed (`loop.py:6335`) |
| `faulted`: a steer iteration ends with an error, but with a readable payload | `ClosedStaysClosed` and `RedeliveredApart` fail: the message is recorded settled, or deferred, while it is still pending |
| `broken`: the payload never meets its contract after a clean end | `HeardBeforeSuccess` fails: consumed, and nobody ever answers for it; the others hold (run `mishaps`) |
| `killed`: a kill between the iteration's end and the last of its writes | `HeardBeforeSuccess`, `TriesBounded` and `ClosedStaysClosed` fail |

### Tasks

`plan` is `tasks.json`; `status` what `status.json` and the petition files keep
of the step (the task in hand, budgets spent, which petitions were filed, ruled
on, confirmed, and which refuted ones have their remedy in the plan);
`reopened` the records a cure pass re-opened, with the status each had and the
cures it waits for; `at` where a pass stands; `pass` the locals of one pass;
`streak` the locals of the whole step (stagnation, held passes, verifications
asked again, petitions already adjudicated); `world` the operator's requests and the iterations spent.
`past` is history: rejections, believed progress claims, splits, per task.

A pass has four parts, as in `_step_worker`. *Boundary*: rulings are applied
again, deferrals and undefers taken in, a steer hat edits the plan. *Selection*:
held, blocked, deferred or claimed. *Iteration*: a worker or a forced split; its
end, its reports, a fault that gives the claim back. *Verification*: the tasks
that reached `awaiting-validation`, each with a verdict, a confirmed petition or
no usable answer. A petition ruled on, either way, is on record before the plan
is touched and is not presented again. *Judgement* tallies, breaks off, or hands over to the review,
which is kept as far as it changes the plan: it ends, rejects, or grants a cure
pass; a replan writes a fresh plan. Every write of `tasks.json` or `status.json`
is an action of its own, and `Killed` may come between any two; the process then
resumes where `_resume_point` puts it.

The edges a hat may ask for are every subset of the ids, so that each of the
lints is needed for `Schedulable`. Text enters by what it decides: whether a
claim of progress is corroborated, whether a dependency is ordering only, which
task a finding names. `Features` turns parts of the protocol on.

### Review

`record` is the file of rulings with its key and the event that witnesses it;
`files` petitions, `findings.json`, rewritten criteria and the cure lineage;
`ledger` the approach and the iterations charged; `memory` what the process
remembers (its authority, attempts, faults, the reply in hand). `past` is
history: what was truly ruled, audited, settled, disturbed.

A dispatch is charged when it begins and given back where the code gives it
back. Its reply goes through the contract ladder (`ReviewFindings`: unreadable,
inconsistent with its findings, ruling on what it must), then a fresh attempt,
a wait for a faulted judge, or adoption: the rulings are merged and written, the
event witnesses them, remedies are inserted, findings annotated, the verdict
taken. `Kill` may come between any two; `Features` has a tree the agent
writes petitions into, a record edited or lost behind the engine's back, and
criteria rewritten by the worker.

A MAC is the pair of a key and what it was taken over, so nobody but the holder
of the key has it; a disturbance replaces the document, never the key.

### Planning

`InfraRetry` is one iteration: `asked`, an attempt, then `backoff`, `limited` or
`delay`, until it is `left` with a result. `episode` is the outage so far,
`wait` the one under way, `clock` the job's deadline in ticks. An attempt works
one tick or fails at once. `Faults` classifies an ending as the code's cascade
does; the runs choose seven endings, one for each class that behaves
differently.

`PlanIngestion` has a criterion as a sequence of clauses and a clause as the set
of cues the code's patterns find in it: what a lint refuses, and what the repair
rewrites, are functions of the cues. `Demands` is what a criterion asks, however
its clauses are cut.

`Planning` puts a hat behind each iteration. `disk` is the plan, the proposal it
came from and the approach that recorded work on it; `record` what `status.json`
keeps of approaches, revisions, deaths and blockers; `memory` what a kill loses.

### Mutants

An operator whose comment begins with `Mutant` is no part of the system. It is
the following definition with a plausible bug: a dropped guard, an off-by-one, a
missing reset. `PROJECT.json` pairs every property of every passing run with one;
putting it in the place of the right definition makes TLC report that property.

## 3. Runs

| Run | Configuration | Question |
|---|---|---|
| `episode` | review only, 2 approaches (3 with a grant), 5 iterations (4 after a patch), 1 cure round (2 with a top-up), 1 message, 1 judge fault, no restart | all requests, patches and mishaps within one process |
| `restarts` | peer gate and reflection, 2 approaches, 5 iterations (6 with a top-up), patched cure rounds, 1 message, 1 restart, kills anywhere but inside `answer` | what survives a restart |
| `unattended` | the same judges, a rejection without a finding, fairness, input timeout, kills, no operator but an abort | the run comes to rest |
| `steering` | 3 messages, 2 redeliveries, `Mishaps = {}` | no message is lost or doubled |
| `mishaps` | the same with `Mishaps = {"late", "broken"}` | what still holds then |
| `work` | 3 ids (1 planned), 3 iterations, 2 attempts, splits, steer edits, deferrals, faults, a secret, reports of every kind | the graph under every edit; splits |
| `cures` | 4 ids (2 planned: the sweep and the record task), 9 iterations, petitions, a cure pass, kills, faults | what a task is charged with; re-opened records; rulings |
| `leaves` | 2 approaches, 4 iterations, deferrals and undefers, holds, rulings, replacements, a mid-plan review, the breaker, fairness | the worker's step is left |
| `review` | 1 obligation, 3 iterations, 2 approaches, 1 cure round, 1 fresh attempt, 2 faults, 1 kill, a key store, petitions in the tree, contradictory replies | audits, charges, and that a review ends |
| `rulings` | 2 obligations, with and without a key store, 2 iterations, 1 kill, the record disturbed once, rewritten criteria, a mid-plan review | what exempts a finding, what the record says |
| `planning` | 5 iterations, 2 approaches, 1 revision, 1 contract retry, an outage budget of 2 ticks, backoff 1 then 2, 1 bell, 1 kill, 7 endings, a repairable and a cyclic proposal | planning through outages, objections and kills |
| `restarted_plan` | the smallest configuration with a kill and two approaches | the finding of section 6 |

What each property says is in the comment in front of it.

**Bounds.** Two approaches are the least with a "previous" and a "last" one; a
grant makes a third. Five iterations are enough for planning, work, review, a
cure round and a second approach's planning, and few enough for the budget to
run out inside every step; a sixth comes from the top-up or goes by the patch.
Three kinds of finding (curable, incurable, curable but citing no clause) are
all the ladder tells apart. One cure round plus one granted reaches both sides
of every comparison. One restart suffices for every pair of "before" and
"after"; what a second would add is that the first already started from a
restarted state, which `Boot` does not distinguish from any other run
directory. `BootBound`, `BudgetBound`, `ApproachBound`, `TopUpBound`,
`FaultBound` and `SteerBound` are `Supervisor`'s only bounds, each a guard of
the action that would exceed it.

In `work` one task is planned and a steer hat or a split adds the other two, so
edges run between tasks of every origin; a steer iteration is refunded and so the
number of steer hats is bounded by the messages (`Edits`). In `cures` and `leaves`
two planned tasks give an edge and a third id a cure or a replacement; a
fourth is there when a cure pass writes a re-take besides its cure. Two attempts have a first rejection (offered again, one tier up) and a
last one (petitioned or failed). Nine iterations are more than `cures` needs to
use a task's attempts up, have it adjudicated and cured, and be killed between.
`leaves` has one attempt so that every ending of a task is reached within four
iterations. The counters of the whole step (`StagnationMax`, `HeldMax`,
`RepollMax`) have the code's small values or less.

One obligation is enough for all a single ruling can meet (filed in the run, in
the tree, in both; ruled either way, asked or not); two are needed for a record
that speaks of one and not of the other. In `review` three iterations are work, a
review and a confirmation or second approach's review; a fault, a fresh attempt
and the off-budget episode each fit once.

In `planning` an outage of two ticks is spent by one backoff of each length, so
the schedule's last entry, the truncation of a wait to what is left and the
spent budget are all met. `KillMax`, `BellMax` bound the world, the rest are the
program's own settings.

**Deadlock** is checked in every run of `Supervisor`, `Steering`, `Tasks` and
`Planning`: a process that is down may stay down, a step that is over stays over,
every other state must have a step. `Review` stops when the verdict is in
(`CHECK_DEADLOCK FALSE`); that it does not stop before is `ReviewConcludes`.

**Fairness.** `FairSpec` of `Supervisor` asks weak fairness of `EngineStep`
alone, `Spec` of `Tasks` and `Planning` of `Engine`, of `Review` of `EngineStep`:
the event loop keeps running the engine's coroutine, an iteration ends (the
harness has its own timeouts) and a timed wait elapses, an input question's
expiry included. Nothing is asked of the operator, of a host that would restart
the process, of the clock's deadline, or of a mishap. `unattended` therefore
leaves out `pause` and `secret` (which wait for a human for ever, by design) and
has the input timeout. In `Tasks` a deferral's timer is an engine step: the sleep
is the engine's own. What bounds the liveness runs is the program's own budget
of iterations and, where waits cost none, the outage budget and the caps on
held, stagnant and repeated passes, not a bound of the model.

**Refinement.** `ImplementsLifecycle` checks, in `restarts`, that every step of
`Supervisor` is a step of `RunLifecycle` or leaves its variables alone: a
settled outcome is never reopened, a held run only by a larger budget of the
kind it named, one iteration charged at a time. A patch that lowers the budget
of iterations is no step of `RunLifecycle`, so `episode`, which has one, does not
ask it.

**A lowered budget.** The budget is checked in front of an iteration and
charged at its dispatch. In between, at the pause gate, an operator may lower it
(`api.py:549`), and the iteration that stood behind the check still runs. So
`ChargedWithinBudget` allows one iteration over a budget that was lowered to a
value in `Patches`, and none otherwise. The docstring of the endpoint says a
change is live "at the next iteration boundary"; the gate is behind it.

## 4. Proofs

### Supervisor

`SupervisorProofs` holds for every value of the constants that satisfies
`SupervisorAssumption` and `LadderAssumption` (the sizes are natural numbers,
the bounds are no smaller than the initial values, the sets are what they are
said to be).

- `TypeCorrect`: `Spec => []TypeOK`.
- `SettledOutcome`: `Spec => SettledOutcomeSurvives`.
- `Inductive`: `Spec => []IInv`, on which both rest.

`TypeOK` is not inductive by itself. At a promotion the status takes the value
of `pending`, which is an outcome only because nothing but `_finish` makes a run
`finishing`; and the count of unsettled messages stays a natural number after an
iteration consumed what it was handed only because nothing takes messages away
while it runs. `IInv` adds the two facts: `SettledShape` (a run is `finishing`
only in front of or during its reflection, and then names its outcome; the
reflection only ever runs for a settled outcome) and `SteeringHanded` (what an
iteration was handed is still there). The proof has one lemma per kind of end
of a step (`SettledKeeps`, `GoesOnKeeps`, `RunKeeps`), one per group of actions
(`PatchesKeep` for the patches), and `NextKeeps` puts them together.
`SettledOutcome` needs in addition that no engine step but the promotion starts
in a reflection (`EngineAtWork`).

`SupervisorSafetyProofs` proves the other safety properties and the refinement.
Going through every action for every conjunct would be a proof nobody reads, so
it goes through the *kinds of step* of `SupervisorSteps`. A kind says what a step
does to the fields the invariants read, and no more: `Stops`, `Succeeds`,
`Dispatches`, `Cures(a)`, `Parks`, `Starts`, `IsAnswered`, `Dies` and so on. One
lemma per action says of which kinds it is; `NextDoes` says there is no other:
`IInv /\ [Next]_vars => Does`. Every conjunct is then kept by every kind.

The invariants stand in layers, in `SupervisorInvariants`:

| Layer | Says | Rests on | Needs |
|---|---|---|---|
| `CoreInv` | where in a step the loop may stand (`Stands`); gate, state and question agree (`GateKept`); an iteration in flight is paid for (`Paid`); whose approach is on file (`OnFile`); nothing asked or answered is about a later one (`NotAhead`) | `IInv` | nothing |
| `HeldInv` | a question is about the judge and the approach in hand, its answer is taken before all else (`Asked`); what is behind the run is archived (`LeftArchived`) | `CoreInv` | `Surviving` |
| `RoundsCovered` | a cure round decided on and not yet counted still fits | `HeldInv` | `Unpatched` |
| `Unspoken`, `JudgedOnly` | no review's word on file but the one it ends with; every question names a finding | `HeldInv` | `Silent`, `Structured` |
| `FirstLife` | in the first life no planning is skipped, and the archives are behind | `CoreInv` | nothing |

- From `CoreInv` (`CoreHolds`), for every environment: `WithinBudget`
  (`ChargedWithinBudget`), `GateRecorded` (`GateIsOnRecord`), `ParkAsks`
  (`ParkHasItsQuestion`), `Declared` (`StepsAreDeclared`), `AbortSticks`
  (`AbortIsSticky`), `HoldsOverSpent` (`HoldNamesASpentBudget`).
- From `HeldInv` (`AnswersApply`): `ChargedOnce` (`ApproachChargedOnce`); with
  `RoundsCovered`, `RoundsWithinAllowance` (`CureRoundsWithinAllowance`); with
  `Unspoken` and `JudgedOnly`, `JudgedSuccess` (`SuccessIsJudged`) and
  `OverNoCures` (`NoSuccessOverCures`).
- `OverNoSteering` (`NoSuccessOverSteering`) assumes `Silent` and `~PeerGate`.
- `FirstPlan`: `Spec => [](boots <= 1 => WorksOnItsOwnPlan)`, the property as
  `episode` checks it; a second life breaks it (`restarted_plan`).
- `Implements`: `Spec => ImplementsLifecycle` where `Patches = {}`. The initial
  state maps to one (`LifecycleInit`), and each kind of step to the move of
  `RunLifecycle` that `LifecycleStep` names for it, or to none.

The assumptions are hypotheses of the theorems, and each excludes a circumstance
in which the code does not do what the property says; TLC finds the run:

| Assumption | Excludes | Without it |
|---|---|---|
| `Surviving` (`"kill_answered"` not in `Environment`) | a kill between the writes of `LoopSupervisor.answer` and the end of its park (`loop.py:1637`): the recorded answer stays on file | it is taken for the answer to a later question: `CureRoundsWithinAllowance`, `NoSuccessOverCures`, `ApproachChargedOnce` and, after a second restart, `SuccessIsJudged` fail |
| `Unpatched` (no `"patch_cures"`) | a ceiling lowered between an accepted answer and its round | `CureRoundsWithinAllowance` fails |
| `Silent` (no `"early_verdict"`) | a review's word written before its end (`loop.py:13726` takes it without a look at what blocks a success) | `SuccessIsJudged`, `NoSuccessOverCures`, `NoSuccessOverSteering` fail |
| `Structured` (`{} \notin Rejections`) | a rejection without findings (`answer.py:127`) | `SuccessIsJudged` fails |
| `~PeerGate` (for `OverNoSteering`) | the gate's approval, which looks at no steering (`loop.py:9589`) | `NoSuccessOverSteering` fails |
| `Patches = {}` (for `Implements`) | a lowered budget | no move of `RunLifecycle` |

`Asked` is what makes these work, and is easy to get wrong: a question outlives
the process that asked it, the gate may be open or shut while it stands, and the
answer is written in one handler and read in another. Because a recorded answer
is only ever met in the paused step with its own question parked, what it
decides is about the approach in hand.

### Steering

`SteeringProofs` holds for every set of messages and every redelivery cap.

- Assuming `Orderly` (no iteration is answered for after a fault, no kill
  between two writes that belong together; late messages and broken payloads
  are allowed): `Bookkeeping`, `BoundedTries` (`TriesBounded`), `Closed`
  (`ClosedStaysClosed`), `Apart` (`RedeliveredApart`).
- Assuming `Mishaps = {}`: `WithoutMishaps`, `Heard` (`HeardBeforeSuccess`).

The assumptions are hypotheses of the theorems. Each is needed: the table in
section 2 says which property fails without it.

The argument is an accounting. `TriesCounted`: every redelivery allows for one
more try, and a message that is pending or deferred has not used its own.
`DeferredOpen`: what waits for its redelivery is unsettled, not given up, and
consumed until the flush, so the flush never frees a closed message.
`PendingApart`: what is pending again was kept apart first. `NotedMessages`
makes these inductive: what the steer hat answers for was pending when noted,
handed to it, and consumed with the clean end. `HandedNoted` (the converse, which
a late message breaks) and `Accounted` then give `Heard`.

### Planning and the retry

`PlanningProofs` holds for all endings, schedules, budgets, proposals and
blockers that satisfy `RetryAssumption` and `PlanningAssumption`.

- `WaitingIsNoWork`: `Spec => []DeadlineCountsOnlyWork`. The equation alone is
  not inductive: a wait that begins while another is under way would forget what
  that one took. `ClockInv` adds that nothing has elapsed outside of a wait.
  `WaitGivenBack` says what every way of leaving a wait does, `WaitStarted` and
  `LimitStarted` the two ways into one; `ClockOfProceed` goes through the retry's
  actions, `ClockOfBell`, `ClockOfSteps`, `ClockOfTail` and `ClockOfKill` through
  the rest.
- `WorkSurvives`: `Spec => RecordedWorkSurvives`. `Guarded` says where another
  plan may be written next, and that no recorded work of the approach in hand is
  there to lose unless its graph was at fault. To keep it, `Reached` ties the
  approach the work is recorded under to those the memory and the record have
  reached (what a resume reads is the record's, and it may be the smaller), and
  `OnRecord` says from where on both agree. `OnlyGraphFaultsReplace` is the step.
- `PlansAreWorkable`: `Spec => []HandedOver`. `AcceptedInv` says that what is on
  disk came from a proposal that passed, and that a reply without errors waiting
  to be ingested did too. That the lints' verdict is about the very criteria that
  are handed over, and about their edges, is `AcceptedCanBeWorked`. That the
  repair loses no demand is about a loop of as many passes as there are clauses
  (`RepairOf`, a recursive function): `PassesExist` shows that it is defined,
  `RepairBears` what every pass keeps, both with `SetInduction`, which states the
  induction over the numbers for a set instead of a predicate.

### Review

`ReviewProofs` proves all of `Review`'s safety properties, for any obligations,
clauses, findings, rulings, budgets, numbers of kills and features that satisfy
`ReviewAssumption` and `FindingsAssumption`.

- `EachJudgementOnce`: `Spec => []ChargedForJudgements`. `ChargeInv` adds what the
  refunds rest on: the wait for another attempt is only ever a review's, and the
  charges never exceed the iterations. `ChargedAtDispatch` and
  `SettledWhereItEnds` are the two ends of an iteration.
- `VerifiedIsAudited`: `Spec => []AuditedInFull`, assuming
  `"midplan" \notin Features`. A granted pass stands for a review that was not
  confined; a mid-plan review's pass does not, and with it the property fails
  (section 6).
- `NothingElseExempts`: `Spec => []ExemptOnlyConfirmed`. `SpeakerInv` is about who
  speaks in the record: a MAC is over what review confirmed, or made without the
  key (`ForeignKey`). So what is *read* was confirmed (`OnlyTheSpokenIsRead`), even
  from a document somebody put there; `VerdictExempts` follows a blocking finding
  through the channel.
- `TheRecordIsBelieved`: `Spec => []RecordSpeaksTrue`. `TruthInv` says how an
  undisturbed record hangs together: kept under the last key made, remembered by
  the process that has the key, and witnessed but for the moment between the two
  writes. `FaithfulIsBelieved` is that such a record is read in full.

### Tasks

`TasksProofs` holds for every plan, set of features, budget and size that
satisfies `TasksAssumption` (any finite set of task ids, any number of rounds
and iterations).

- `TasksTyped`: `Spec => []TypeOK`.
- `EveryTierIsARejection`: `Spec => []TierIsEarned`. The property alone is not
  inductive: a task climbs at its next claim, so `StandingEarned` keeps one
  rejection in reserve for a task that stands rejected, and `ClaimRecalled` says
  the same of what a claim may be given back with when an iteration fails, is
  put off or does not start. `TierInv` joins them. `Tame` and `Leads` say once, for every
  operator that rewrites the plan, that it rejects nothing and climbs nothing.
- `NothingStarves`: `Spec => []Schedulable`, assuming `~On("replacement")`; with
  replacements the property fails (section 6). `Sound` (no set of tasks waits
  on itself, and every edge leads to a task of the plan) is inductive given the
  types, once each rewriting of the edges is shown to keep it: fewer
  edges (`FewerEdges`), edges the code validates (`ValidatedEdges`), edges onto a
  task that waits on nothing, such as a new cure (`EdgesOntoSink`), a new task
  that nobody waits on (`AddedSound`). `CurePassLeads` composes them for a whole
  cure pass.

`TasksSafetyProofs` goes on from there to what a task's record says of its past.

- `AttemptsAreRejections`: `Spec => []Attempts`, for all constants. An attempt is
  a rejection, and what may still be worked on or verified (`Working`) has one
  left. `SameTries(p, q)` is what every other rewriting of the plan does to it: a
  task keeps its attempts or starts over with none, and comes back to work only
  from work or with attempts left. The hard cases are the ones that send a task
  back without a look at its attempts: a secret, a deferral, the back-off, a claim
  given back. That the task in hand has an attempt left *then*, several steps and
  reports after its claim, is `HandInv`; what a pass holds at each point of the
  loop is `PassInv`.
- `RoundsAreEarned`: `Spec => []RoundsAreRejections`, assuming `OneRound` (one
  approach, no steer hat, no replacement). To `Attempts` it adds the petitions:
  what is on file was filed with the last attempt spent (`FiledInv`), which rests
  on the list of what is to be verified being of the plan (`ListedInv`; the
  list outlives adjudications, remedies and cure passes) and on a history that
  nothing but a replan or a deletion resets (`Grows`).
- `SplitsAreEarned`: `Spec => []ForcedSplitIsEarned`, assuming `OneRound`.
  `BudgetInv`: the progress record counts claims believed of the task it names,
  and was read by the claim in hand before its iteration could add to it.
- `ParentsRest`: `Spec => []SplitParentRests`, assuming `Unbroken` (no kill, no
  report that both splits and defers, no cure pass). `SplitInv` says where a split
  parent can be met: superseded, or for the one write between its children's and
  its own; never on the list of the verification, among the answers of an
  adjudication, or in hand with verdict still to come.
- `VoidedIsLeft`: `Spec => []NoEdgeToVoided`, assuming `Quiet`, for the tasks a
  confirmed petition voided and for those a refuted one failed, from their remedy
  on. `VoidInv` speaks of
  every task that is skipped, confirmed or not, and of those that were skipped
  when a cure pass re-opened them (`Dropped`): a restore brings the old status
  back long after the adjudication, with whatever edges were made since.
  `CuredDrops` is the step that could make one: a pass that re-opens hands its
  dependents to its own new cure and to nothing else (`Wrought`). The remedy is such
  a pass over the failed tasks, after which none of them is waited on
  (`NamedIsLeft`); that no later ruling comes back to them is `AnswerInv` and
  `Remembers`: what an adjudication answers is on record as settled.
- `CuresAwaited`: `Spec => []CuresComeFirst`, assuming `Quiet` and no `"midplan"`.
  The property is about a status; what keeps it is the graph. `AwaitInv` says that a
  re-opened record is pending for as long as a cure that owns it is to be worked on
  or verified (`Live`), and waits for it by an edge of its own or, as the lane's
  record does, through one of its verification steps (`Stands`). Two relations carry
  it: `Waits` is what a cure pass does to the edges and statuses it finds
  (`CurePassWaits` composes its parts; `CuresAwait` adds what is re-opened now to
  what was re-opened before), `Onward` what every other step does. A restore needs
  *all* the cures of its record done (`ReconciledAwaits`), and what the verification
  lists is still as it was listed (`EpisodeInv`): a mid-plan review between the list
  and its verdicts is what breaks that.

| Assumption | Excludes | Without it |
|---|---|---|
| `OneRound`: one approach | the progress record is kept by task id and outlives the approach; so does a petition of the same wording | `ForcedSplitIsEarned` fails (section 6); `RoundsAreRejections` only because `past` starts over |
| `OneRound`: no steer hat | a deleted task's id is given out again, so that what `past` says of an id is not of one task (`Grows`) | `Grows` fails, which the arguments use; TLC finds no violation of `ForcedSplitIsEarned` in `work`, which has the steer hat and counts the claims of the id (section 6) |
| `OneRound`: no replacement | a cyclic graph, for which the engine replans out of turn | the approach gets a second plan |
| `Quiet`: `OneRound` and no `"splits"` | a child of a split takes the dependencies its report asks for, the voided task among them | `NoEdgeToVoided` fails in `cures` with `"splits"`, `Iterations = 7` |
| `Quiet`: no `"reports"`, `"rulings"` | a report or an operator's ruling skips a task and leaves its edges, which `VoidInv` forbids of every skipped task | TLC finds no violation of `NoEdgeToVoided` itself in the bounds it could finish |
| `Quiet`: no `"reports"`, `"rulings"` (for `CuresAwaited`) | a report about another task or an operator's ruling puts the record in progress, and what is in progress is claimed whatever it waits for | `CuresComeFirst` fails in `cures` with `"reports"`, `Iterations = 5`, and with `"rulings"`, `Iterations = 6` |
| `Quiet`: no `"splits"`, `OneRound` (for `CuresAwaited`) | what moves edges from a split task to its children, what the steer hat rewires, and the records of an approach that are re-opened on file when the next has other tasks of those ids: `AwaitInv` knows none of them | TLC finds no violation of `CuresComeFirst` itself in the bounds it could finish |
| no `"midplan"` (for `CuresAwaited`) | a cure pass between the verification's list and its verdicts | `CuresComeFirst` fails (section 6) |
| `Unbroken`: no kill | a kill between the children's write and the parent's | `SplitParentRests` fails in `work` with `"killed"` |
| `Unbroken`: no `"twofold"` | one report that splits its task and defers it: the deferral puts the superseded parent back | `SplitParentRests` fails in `work` with `"twofold"`, `Iterations = 4` |
| `Unbroken`: no `"cures"`, `"midplan"` | a cure pass re-opens a superseded parent among the verification steps of its record, as it is documented to (SPEC.md:2325) | `SplitParentRests` fails with a record that waits on the parent |

### What stays with TLC

Every safety property the passing runs check is also the statement of a theorem,
under the assumptions above. Liveness under fairness (`ComesToRest`,
`LeavesWorker`, `ReviewConcludes`, `PlanningConcludes`) is out of the proof
system's reach and stays with TLC.

## 5. Not modelled

- The text of tasks, criteria, findings, petitions and prompts: each enters by
  what the code's patterns make of it (a cue, a named task, a matched clause).
  That a pattern finds what it is meant to find is not checked.
- Priorities and list positions among tasks: where the code breaks a tie by
  them, the model takes any.
- Retries below an iteration in `Supervisor` and in `Tasks` (there a whole
  iteration is one outcome); the agents' sub-jobs and the second harness.
- The run directory's files: torn tails of the event log, the atomic replace,
  the run lock, two engines over one directory.
- Task edits over the API, the iteration timeout, rate-limit ceiling and input
  timeout of `PATCH`, the hub and the UI. Of a patch with several fields each is
  an action of its own; the code, too, applies the first ones before it may
  answer 409 for a later one.
- In `Tasks`, the petition a worker declares in its report (`loop.py:11333-11358`):
  it is filed, counts as progress and resets the stagnation, and moves no task.
  That it is filed and ruled on is `PetitionFiled` of `Review`.
- What of a report is still read after some iteration faults (`Tasks` gives the
  claim back and reads none of it), and a kill between the three writes of a cure
  pass (`tasks.json`, the heads before the cure, the event), which are one action.
- In `Review`, an early verdict, on which a review that was cut may end, and an
  operator's waiver of a finding: both are in `Supervisor` and `Ladder`.
- The peer gate's own findings file, which may be an earlier judge's
  (`loop.py:9614`).
- The wall clock: one event in `Supervisor` (`DeadlinePasses`) and `Tasks`
  (`TimeRunsOut`), ticks in `InfraRetry`.
- An operator who edits the run directory by hand, but for the record of rulings.
- Configuration, privileges, routing, pricing, redaction, adapters, rendering
  and the web client decide no step of the run.

## 6. Findings

### A run that reports one

`restarted_plan`: a kill while approach 2 is planned makes the next start
skip planning, and the worker runs the archived plan of approach 1
(`loop.py:4678`). `restarts` does not ask `WorksOnItsOwnPlan` therefore.

### Disagreements a change of configuration shows

The passing runs leave out the circumstance, so that it cannot mask others.

| What | Where | To see it |
|---|---|---|
| an abort between an answer and the wake-up of the paused step is overtaken by the answer, and the run ends `succeeded` | `loop.py:1658` | `AbortIsSticky` without its conjunct on the answer, in `episode` |
| a kill inside `answer` leaves the answer on file; after the restart it is taken for the answer to a later question, of another approach or another judge | `loop.py:1637` | `CureRoundsWithinAllowance` or `NoSuccessOverCures` in `restarts` with `"kill_answered"` |
| a rejection that lists no finding is turned into a success by any answer, a waiver of nothing included | `answer.py:127` | `SuccessIsJudged` with `Rejections <- WithBare` |
| a review's early `verified` survives that review's rejection and is taken for a later, interrupted review's verdict | `loop.py:13726` | `SuccessIsJudged` in `restarts` with `"early_verdict"` |
| the peer gate's approval ends the run with a message unsettled that arrived while the gate ran | `loop.py:9589` | `NoSuccessOverSteering` with `PeerGate = TRUE` |
| a message handed to the second attempt of a steer iteration is consumed without ever being answered for | `loop.py:6335` | `HeardBeforeSuccess` with `Mishaps = {"late"}` |
| a reply that confirms a petition and keeps a finding about it may reach the assertion that it cannot, and the engine with it | `loop.py:13062` | `NoVerdictFromUnusable` in `review` (`"crossed"`) |
| the replacement a confirmed petition names is put into the dependencies of what waited for the voided task without a validation: a dependent named as the replacement waits for itself | `petitions.py:2461` | `Schedulable` in `work` with `Initial = {1, 2}`, `Iterations = 7`, `Features = {"petitions", "replacement"}` |
| a kill between the children of a forced split and their parent's `superseded` lets the parent be worked on again | `loop.py:8075` | `SplitParentRests` in `work` with `"killed"` |
| a report that splits its task and defers it puts the superseded parent back to `pending` | `loop.py:7121` | `SplitParentRests` in `work` with `"twofold"`, `Iterations = 4` |
| the budget of believed progress claims is kept under the task's id, and neither an approach's archive nor the next plan's ingestion clears it: a task of approach 2 with the id of one that spent its budget in approach 1 is made to split when it is first claimed, though a claim is to count "against T's own budget" (`docs/prds/v0.20-a-commit-is-progress.md:220`) | `loop.py:8755`, read at `10980` | `ForcedSplitIsEarned` in `work` with `MaxApproaches = 2`, `StagnationMax = 1`, `Iterations = 4`, `Features = {"splits", "reports"}` |
| a mid-plan review's cure pass re-opens a record that is already on the list of what is to be verified: the verdict on its old work validates it while its cure has not begun | the list `loop.py:12059`, the pass `12098`, the verdicts `12105` | `CuresComeFirst` in `cures` with `"midplan"`, `Iterations = 5` |
| a worker's report about another task, or an operator's ruling, puts a re-opened record in progress; its next claim looks at no dependencies and it is validated with its cure still to be done | the report `loop.py:6959`, the claim `scheduler.py:132` | `CuresComeFirst` in `cures` with `"reports"`, `Iterations = 5` |
| a task that gets the id of one a steer hat deleted gets that task's spent progress budget with it, and is made to split when it is first claimed | `loop.py:8755` | `ForcedSplitIsEarned` in `work` with `past[t]` set to `Fresh` by `SteerDelete`, `SteerCalls = 2`, `Features = {"reports", "steering", "splits"}` |
| a kill between the failure of a task whose petition was refuted and the insertion of its remedy leaves its dependents on the failed task: the ruling is on record, so the petition is not presented again (`petitions.py:1369`) and no remedy follows, while the insertion is there to hand the dependents over "instead of leaving them doomed" (`loop.py:16607`) | between `loop.py:12973` and `12975` | `NoEdgeToVoided` asked of every failed task that is in `status.settled` and not `confirmed`, when `at # "remedy"`, in `cures` |
| more than five clauses, one of them an unscoped count of what the task's own output grows by: the repair folds the count into another clause whose sha exempts it, and the refused criteria are accepted | `plan_ingestion.py:1765` | a proposal of that shape in `planning`: `HandedOver` holds, the folded criteria pass |

### What else the reading brought up

The models reproduce these; no property of a run speaks against them.

- *Budgets.* A lowered budget lets one more iteration through (section 3). A
  cure allowance lowered between an accepted answer and its round is overrun by
  that round. An abort or an outage during a plan review spends a revision,
  though the comment at `loop.py:9379` says interruptions do not. A plan ingested
  with the last iteration is thrown away (`loop.py:9156` comes before the result
  is looked at). A verdict of `verified` with the budget spent goes to the tail.
- *Waits.* A bell that rings in the moment a backoff expires (`loop.py:2841`)
  dispatches one more iteration, an abort included. Bells rung before a wait are
  cleared when it begins (`loop.py:2942`). A rate limit that asks for no time is
  asked again at once. The deadline is not looked at while an iteration is
  retried.
- *Plans.* A proposal with no task is accepted, and a resume over the empty plan
  starts at approach 1 (`loop.py:4274`, `4577`). The peer's objection is consumed
  when planning starts, and lost if that planning dies.
- *Findings.* On a confirmation review the engine's own findings (rewritten
  criteria, duplicate petitions) are downgraded with the others
  (`loop.py:12646`; `docs/api.md:203` and `docs/petition-format.md:68` say they
  reject). Duplicates are not added when the review left no findings file
  (`loop.py:12684`). `findings.json` is copied, never cleared, between reviews
  and approaches (`loop.py:19365`). Unusable findings are recorded as a
  rejection (`loop.py:13073`) where the note at `10127` says none is recorded.
  The mark that criteria were edited after a failed validation is never cleared.
  A mid-plan review's cure pass makes the first review at the end a confirmation
  review.
- *Rulings.* A kill between the record and its event (`petitions.py:2007`,
  `2009`) makes the engine's own record read as tampered with for good. A
  refutation without a remedy passes the ladder, fails the task and inserts
  nothing. An obligation that was confirmed and is refuted later keeps its
  record, but the task fails and a remedy is inserted. An operator's ruling is
  applied again at every boundary, and may take a re-opened record before its
  cure.

## 7. Plan

Model next:

1. `RunRecord`: the run lock, the atomic replace, the event log's append and its
   torn tail, under kills and with a second engine.
2. The task edits of the API, over `Tasks`; the remaining fields of the patch.
3. The command line's steps around a start (`cli/main.py`), which write
   `job.yaml` before the start is accepted.
4. A composition of `Planning`, `Tasks` and `Review` over abstract iterations,
   as an implementation of `Supervisor`'s steps.

Prove next: of `Tasks` `CuresComeFirst` and `NoEdgeToVoided` over splits and more
than one approach, with an invariant for the edges a split moves; lemmas on `Ladder`
(a waiver never covers a finding without a clause; a decision is never a cure past
the allowance).
