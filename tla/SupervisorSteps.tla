--------------------------- MODULE SupervisorSteps ---------------------------
(***************************************************************************)
(* What a step of the run supervisor does, told in the fields the          *)
(* invariants read: two dozen kinds of step instead of the actions and     *)
(* their branches.  The lemmas say that every action is of its kinds, and  *)
(* NextDoes that these are all.                                            *)
(***************************************************************************)
EXTENDS SupervisorInvariants, SupervisorProofs

-----------------------------------------------------------------------------
(* What a step leaves alone: every field but those named *)

FileKeeps(but) ==
    /\ "state" \in but \/ status'.state = status.state
    /\ "verdict" \in but \/ status'.verdict = status.verdict
    /\ "pending" \in but \/ status'.pending = status.pending
    /\ "exhausted" \in but \/ status'.exhausted = status.exhausted
    /\ "approach" \in but \/ status'.approach = status.approach
    /\ "question" \in but \/ status'.question = status.question
    /\ "answer" \in but \/ status'.answer = status.answer
    /\ "cures" \in but \/ status'.cures = status.cures
    /\ "topUps" \in but \/ status'.topUps = status.topUps
    /\ "budget" \in but \/ status'.budget = status.budget

PlanKeeps(but) ==
    /\ "planOf" \in but \/ dir'.planOf = dir.planOf
    /\ "work" \in but \/ dir'.work = dir.work
    /\ "archived" \in but \/ dir'.archived = dir.archived
    /\ "charged" \in but \/ dir'.charged = dir.charged
    /\ "early" \in but \/ dir'.early = dir.early

MemoryKeeps(but) ==
    /\ "approach" \in but \/ proc'.approach = proc.approach
    /\ "max" \in but \/ proc'.max = proc.max
    /\ "gateOpen" \in but \/ proc'.gateOpen = proc.gateOpen
    /\ "aborted" \in but \/ proc'.aborted = proc.aborted
    /\ "timeUp" \in but \/ proc'.timeUp = proc.timeUp
    /\ "skip" \in but \/ proc'.skip = proc.skip
    /\ "guard" \in but \/ proc'.guard = proc.guard
    /\ "parked" \in but \/ proc'.parked = proc.parked
    /\ "judge" \in but \/ proc'.judge = proc.judge
    /\ "target" \in but \/ proc'.target = proc.target

-----------------------------------------------------------------------------
(* The end of a run *)

\* Through the reflection or at once: an outcome and its verdict.
Outcome(outcome, verdict) ==
    /\ status'.verdict = verdict /\ status'.exhausted = status.exhausted
    /\ \/ /\ status'.state = "finishing" /\ status'.pending = outcome
          /\ at' = "reflect" /\ step' = step /\ proc' = proc
       \/ /\ status'.state = outcome /\ status'.pending = status.pending
          /\ Exit

\* The budgets a run can hold over.
Spent ==
    \/ status'.exhausted = "iterations" /\ dir'.charged >= status.budget
    \/ status'.exhausted = "time" /\ proc.timeUp
    \/ /\ status'.exhausted = "approaches"
       /\ \/ step = "replan" /\ ~ReplansForFree /\ proc.approach >= proc.max
          \/ at = "archived" /\ proc.target >= proc.max

Holds ==
    /\ status'.state = "exhausted" /\ status'.verdict = "none" /\ status'.pending = "none"
    /\ Spent /\ Exit

EndsOrHolds ==
    \/ Outcome("aborted", "unverified") \/ Holds
    \/ \E v \in {"none", "rejected", "unreviewed", "unverified"} : Outcome("failed", v)

\* What the iteration that just ended was charged.
Charges ==
    dir'.charged = dir.charged + (IF at = "run" /\ step # "steer" THEN 1 ELSE 0)

\* planning puts the approach on file as it begins.
Announces ==
    status'.approach = IF step = "planning" /\ at = "entry" THEN proc.approach
                       ELSE status.approach

\* A step ends the run without success, or the run holds.
Stops ==
    /\ at \in {"entry", "woken", "run", "backoff", "archived"}
    /\ FileKeeps({"state", "verdict", "pending", "exhausted", "approach"})
    /\ PlanKeeps({"charged", "work"}) /\ dir'.work \in {"none", dir.work}
    /\ Announces /\ Charges
    /\ EndsOrHolds
    /\ boots' = boots

\* Whose word a success rests on.
Word ==
    \/ /\ at = "run" /\ step \in Judges /\ passed' = step /\ ~proc.aborted
       /\ step = "review" => ~PeerGate /\ ~SuccessBlocked(dir)
    \/ /\ at = "wait" /\ step = "paused" /\ proc.gateOpen
       /\ status.answer.outcome = "verified" /\ status.answer.judge \in Judges
       /\ passed' = IF proc.parked.findings # {} THEN status.answer.judge ELSE passed
       /\ status.answer.judge = "review" => ~PeerGate /\ ~SuccessBlocked(dir)
    \/ /\ at = "run" /\ step = "review" /\ passed' = passed /\ ~proc.aborted
       /\ dir.early.approach = proc.approach /\ dir.early.verdict = "verified"

Succeeds ==
    /\ FileKeeps({"state", "verdict", "pending", "exhausted", "answer"})
    /\ status'.answer = IF at = "wait" THEN NoAnswer ELSE status.answer
    /\ PlanKeeps({"charged"}) /\ Charges
    /\ Word
    /\ Outcome("succeeded", "verified")
    /\ boots' = boots

-----------------------------------------------------------------------------
(* From one step to the next *)

\* An iteration begins, or waits at the gate for it.
Dispatches ==
    /\ step' = step /\ at' \in {"run", "gate"}
    /\ at \in {"entry", "woken", "run", "backoff"}
    /\ at = "entry" => step \in {"planning", "worker", "steer", "review", "verdict_gate"}
    /\ at = "run" => step \in {"steer", "review"}
    /\ at \in {"woken", "backoff"} => at' = "run"
    /\ step = "verdict_gate" => at' = "run"
    /\ step = "planning" /\ at = "entry" => ~proc.skip
    /\ at \in {"entry", "run"} /\ step # "steer" => dir'.charged < status.budget
    /\ FileKeeps({"approach"}) /\ PlanKeeps({"charged"}) /\ MemoryKeeps({})
    /\ Announces /\ Charges
    /\ passed' \in {passed, "no"} /\ boots' = boots

\* A start takes up the plan it found.
Skips ==
    /\ step = "planning" /\ at = "entry" /\ proc.skip
    /\ step' = "worker" /\ at' = "entry"
    /\ FileKeeps({"approach"}) /\ PlanKeeps({}) /\ MemoryKeeps({"skip"})
    /\ Announces /\ ~proc'.skip
    /\ passed' = passed /\ boots' = boots

Ingests ==
    /\ step = "planning" /\ at = "run" /\ step' = "worker" /\ at' = "entry"
    /\ FileKeeps({}) /\ PlanKeeps({"planOf", "work", "charged"}) /\ MemoryKeeps({})
    /\ dir'.planOf = proc.approach /\ dir'.work = "plan" /\ Charges
    /\ boots' = boots

Replans ==
    /\ step' = "replan" /\ at' = "entry"
    /\ FileKeeps({}) /\ PlanKeeps({"charged"}) /\ MemoryKeeps({"guard"}) /\ Charges
    /\ \/ step = "planning" /\ at = "run" /\ proc'.guard = "empty_plan"
       \/ /\ step = "worker" /\ at \in {"entry", "woken"}
          /\ proc'.guard = "unschedulable_task_graph"
       \/ at = "archived" /\ proc'.guard = "charged"
    /\ boots' = boots

\* ... the same approach for free, or the next one.
PlansAnew ==
    /\ step = "replan" /\ at = "entry" /\ step' = "planning" /\ at' = "entry"
    /\ FileKeeps({}) /\ PlanKeeps({}) /\ MemoryKeeps({"approach"})
    /\ IF ReplansForFree THEN proc'.approach = proc.approach
       ELSE proc.approach < proc.max /\ proc'.approach = proc.approach + 1
    /\ boots' = boots

\* Any other move of the loop without a word of the operator's.
Turns ==
    /\ at' = "entry"
    /\ FileKeeps({}) /\ PlanKeeps({"charged", "work"}) /\ MemoryKeeps({}) /\ Charges
    /\ \/ /\ step = "worker" /\ at \in {"entry", "woken"}
          /\ step' \in {"steer", "review"} /\ dir'.work = dir.work
       \/ /\ step = "worker" /\ at = "run"
          /\ step' \in {"worker", "review"} /\ dir'.work \in {"none", dir.work}
       \/ /\ step = "steer" /\ at = "run" /\ step' = "worker"
          /\ dir'.work = dir.work \/ dir'.work = "plan"
       \/ /\ at = "backoff" /\ proc.guard = "review_judge_fault_retry"
          /\ step' = "review" /\ dir'.work = dir.work
       \/ /\ step = "review" /\ at = "run" /\ step' = "worker" /\ dir'.work = dir.work
       \/ /\ step = "review" /\ at = "run" /\ step' = "verdict_gate"
          /\ PeerGate /\ dir.work # "cure" /\ dir'.work = dir.work
       \/ /\ step = "cure" /\ at = "entry" /\ step' = "worker" /\ dir'.work = dir.work
    /\ boots' = boots

\* A judge is to be asked again after a wait.
BacksOff ==
    /\ step \in Judges /\ at = "run" /\ step' = step /\ at' = "backoff"
    /\ FileKeeps({}) /\ PlanKeeps({}) /\ MemoryKeeps({"guard"})
    /\ proc'.guard = "review_judge_fault_retry" => step = "review"
    /\ boots' = boots

-----------------------------------------------------------------------------
(* Cures and archives, each between two durable writes; parks *)

\* Released as a request does it, where the park is known to be one.
Freed ==
    IF status.state \in {"paused", "awaiting_input"}
    THEN status'.state = "running" /\ status'.question = NoQuestion
    ELSE status'.state = status.state /\ status'.question = status.question

\* What decides on approach a: the ladder, an answer, or nobody's answer.
\* `outcome` is the answer's.
Decides(a, outcome) ==
    /\ step' = step /\ Charges /\ boots' = boots
    /\ FileKeeps({"state", "question", "answer"}) /\ MemoryKeeps({"judge", "target", "gateOpen"})
    /\ proc'.target = a
    /\ \/ /\ at = "run" /\ a = proc.approach
          /\ step \in Judges \/ (step = "worker" /\ outcome = "next_approach")
          /\ FileKeeps({}) /\ proc'.gateOpen = proc.gateOpen
       \/ /\ step = "paused" /\ at = "wait" /\ proc.gateOpen /\ proc'.gateOpen
          /\ status.answer.outcome = outcome /\ status.answer.approach = a
          /\ FileKeeps({"answer"}) /\ status'.answer = NoAnswer
       \/ /\ step = "paused" /\ at = "wait" /\ ~proc.gateOpen /\ proc'.gateOpen
          /\ status.question.kind = "findings" /\ status.question.approach = a
          /\ FileKeeps({"state", "question"}) /\ Freed

Cures(a) ==
    /\ at' = "cure_count" /\ Decides(a, "cure")
    /\ PlanKeeps({"work", "charged"})
    /\ at = "run" \/ ~proc.gateOpen => status.cures[a] < RoundsAllowed(a)

Archives(a) ==
    /\ at' = "archived" /\ Decides(a, "next_approach")
    /\ PlanKeeps({"archived", "charged"}) /\ dir'.archived = dir.archived \cup {a}

\* The round is counted.
Counts ==
    /\ at = "cure_count" /\ step' = "cure" /\ at' = "entry"
    /\ FileKeeps({"cures"}) /\ PlanKeeps({}) /\ MemoryKeeps({})
    /\ status'.cures = [status.cures EXCEPT ![proc.target] = @ + 1]
    /\ boots' = boots

Parks ==
    /\ at = "run" /\ at' = "entry"
    /\ FileKeeps({"state", "question"}) /\ PlanKeeps({"charged"}) /\ Charges
    /\ MemoryKeeps({"gateOpen"})
    /\ status'.state = "awaiting_input" /\ ~proc'.gateOpen
    /\ \/ /\ step = "worker" /\ step' = "worker"
          /\ status'.question = SecretQuestion(proc.approach)
       \/ /\ step \in Judges /\ step' = "paused"
          /\ \E trigger \in Triggers, blocking \in Rejections :
                status'.question =
                    FindingsQuestion(step, trigger, blocking, proc.approach)
    /\ boots' = boots

Waits ==
    /\ step = "paused" /\ at = "entry" /\ step' = step /\ at' = "wait"
    /\ FileKeeps({}) /\ PlanKeeps({}) /\ MemoryKeeps({"parked"})
    /\ proc'.parked = status.question
    /\ boots' = boots

\* The park is over and leads back to work.
Wakes ==
    /\ step = "paused" /\ at = "wait" /\ proc.gateOpen /\ at' = "entry"
    /\ FileKeeps({"answer"}) /\ PlanKeeps({}) /\ MemoryKeeps({})
    /\ status'.answer = NoAnswer
    /\ \/ step' \in {"worker", "review"}
       \/ /\ step' = "verdict_gate"
          /\ proc.parked.judge = "verdict_gate" \/ (PeerGate /\ dir.work # "cure")
    /\ boots' = boots

-----------------------------------------------------------------------------
(* Starts, requests and the world *)

Starts ==
    /\ at = "down" /\ status.state # "finishing" /\ boots' = boots + 1
    /\ FileKeeps({"state", "verdict", "exhausted", "question", "budget"}) /\ PlanKeeps({})
    /\ status'.state = "running" /\ status'.verdict = "none"
    /\ status'.exhausted = "none" /\ status'.question = NoQuestion
    /\ status'.budget \in {status.budget, status.budget + 1}
    /\ status.state = "exhausted" /\ status.exhausted = "iterations" =>
          status'.budget = status.budget + 1
    /\ proc'.approach = (IF dir.planOf = 0 THEN 1 ELSE status.approach)
    /\ proc'.guard = "none" /\ proc'.target = 0 /\ proc'.judge = "none"
    /\ proc'.parked = OpeningQuestion
    /\ proc'.gateOpen = (OpeningQuestion.kind = "none")
    /\ at' = (IF OpeningQuestion.kind = "none" THEN "entry" ELSE "opening")
    /\ step' = ResumePoint.step /\ proc'.skip = ResumePoint.skip
    /\ passed' = passed

ParksAgain ==
    /\ at = "opening" /\ at' = "entry" /\ step' = step
    /\ FileKeeps({"state", "question"}) /\ PlanKeeps({}) /\ MemoryKeeps({})
    /\ status'.state = "awaiting_input" /\ status'.question = proc.parked
    /\ passed' = passed /\ boots' = boots

\* The settled outcome is recorded, by the process or by the next start.
Promotes ==
    /\ at \in {"down", "reflect"} /\ status.state = "finishing"
    /\ FileKeeps({"state", "pending"}) /\ PlanKeeps({})
    /\ status'.state = status.pending /\ status'.pending = "none"
    /\ at' = "down"
    /\ proc' = (IF at = "down" THEN proc ELSE Idle)
    /\ step' = (IF at = "down" THEN step ELSE EntryState)
    /\ passed' = passed /\ boots' = (IF at = "down" THEN boots + 1 ELSE boots)

\* A request leaves the loop where it is, or wakes it at the gate.
Stirs == step' = step /\ at' \in {at, IF at = "gate" THEN "woken" ELSE at}

Pauses ==
    /\ AtAwait /\ step' = step /\ at' = at
    /\ FileKeeps({"state"}) /\ PlanKeeps({}) /\ MemoryKeeps({"gateOpen"})
    /\ ~proc'.gateOpen
    /\ IF status.state \in {"finishing", "awaiting_input"}
       THEN status'.state = status.state ELSE status'.state = "paused"
    /\ status.state \notin RunTerminalStates \cup {"exhausted"}
    /\ passed' = passed /\ boots' = boots

Releases ==
    /\ AtAwait /\ Stirs
    /\ FileKeeps({"state", "question"}) /\ PlanKeeps({})
    /\ MemoryKeeps({"gateOpen", "aborted"})
    /\ proc'.gateOpen /\ Freed
    /\ passed' = passed /\ boots' = boots

\* The answer written to status.json.
Records ==
    /\ AtAwait /\ status.state = "awaiting_input" /\ status.question.kind = "findings"
    /\ PlanKeeps({})
    /\ \E rounds \in 0 .. 1, outcome \in {"verified", "cure", "next_approach"} :
          /\ status'.topUps =
                [status.topUps EXCEPT ![proc.approach] = @ + rounds]
          /\ status'.answer = [outcome |-> outcome, judge |-> status.question.judge,
                               approach |-> status.question.approach]
          /\ outcome = "cure" => rounds > 0
    /\ passed' = passed /\ boots' = boots

IsAnswered ==
    /\ Records /\ Stirs
    /\ FileKeeps({"state", "question", "topUps", "answer"})
    /\ MemoryKeeps({"gateOpen", "max"})
    /\ proc'.gateOpen /\ Freed

\* ... by a process killed before the park was cleared.
DiesAnswered ==
    /\ "kill_answered" \in Environment
    /\ Records /\ FileKeeps({"topUps", "answer"}) /\ Exit

Rebudgets ==
    /\ step' = step /\ at' = at
    /\ FileKeeps({"budget"}) /\ PlanKeeps({}) /\ MemoryKeeps({})
    /\ status'.budget \in Patches
    /\ status'.budget >= dir.charged + (IF at = "run" THEN 1 ELSE 0)
    /\ passed' = passed /\ boots' = boots

Reallows ==
    /\ "patch_cures" \in Environment
    /\ step' = step /\ at' = at
    /\ FileKeeps({"topUps"}) /\ PlanKeeps({}) /\ MemoryKeeps({})
    /\ passed' = passed /\ boots' = boots

\* Steering, the rest of the patches, the clock, the hat's early word.
Ticks ==
    /\ step' = step /\ at' = at
    /\ FileKeeps({}) /\ PlanKeeps({"early"}) /\ MemoryKeeps({"max", "timeUp"})
    /\ \/ dir'.early = dir.early /\ passed' = passed
       \/ "early_verdict" \in Environment /\ at = "run"
    /\ boots' = boots

Dies ==
    /\ at # "down"
    /\ status.answer # NoAnswer => "kill_answered" \in Environment
    /\ FileKeeps({}) /\ PlanKeeps({}) /\ Exit
    /\ passed' = passed /\ boots' = boots

Does ==
    \/ Stops \/ Succeeds
    \/ Dispatches \/ Skips \/ Ingests \/ Replans \/ PlansAnew \/ Turns \/ BacksOff
    \/ (\E a \in Approaches : Cures(a) \/ Archives(a))
    \/ Counts \/ Parks \/ Waits \/ Wakes
    \/ Starts \/ ParksAgain \/ Promotes
    \/ Pauses \/ Releases \/ IsAnswered \/ DiesAnswered \/ Rebudgets \/ Reallows
    \/ Ticks \/ Dies \/ UNCHANGED vars

-----------------------------------------------------------------------------
(* How the engine's writes show in the fields *)

\* What the end of a run leaves of the status it starts from.
FileOf(st) ==
    /\ status'.approach = st.approach /\ status'.question = st.question
    /\ status'.answer = st.answer /\ status'.cures = st.cures
    /\ status'.topUps = st.topUps /\ status'.budget = st.budget

\* _finish settles on an outcome.
LEMMA FinishDoes ==
    ASSUME NEW st \in Statuses, NEW o, NEW v, Finish(st, o, v),
           st.exhausted = status.exhausted, st.pending = status.pending
    PROVE  Outcome(o, v) /\ FileOf(st)
<1>1. CASE Reflect
  BY <1>1 DEF Finish, Finishing, Outcome, FileOf, Statuses
<1>2. CASE ~Reflect
  BY <1>2 DEF Finish, Outcome, FileOf, Statuses
<1> QED BY <1>1, <1>2

\* _finish_exhausted holds.
LEMMA HoldDoes ==
    ASSUME NEW st \in Statuses, NEW b, Hold(st, b)
    PROVE  /\ status'.state = "exhausted" /\ status'.verdict = "none"
           /\ status'.pending = "none" /\ status'.exhausted = b
           /\ Exit /\ FileOf(st)
BY DEF Hold, FileOf, Statuses

\* Why a run may hold over its approaches.
ApproachesSpent ==
    \/ step = "replan" /\ ~ReplansForFree /\ proc.approach >= proc.max
    \/ at = "archived" /\ proc.target >= proc.max

\* _finish_tail_unverified.
LEMMA TailDoes ==
    ASSUME NEW st \in Statuses, NEW c \in Nat, NEW why \in Whys, Tail(st, why, c),
           st.exhausted = status.exhausted, st.pending = status.pending,
           st.budget = status.budget, status.budget \in Nat, dir'.charged = c,
           why = "budget" => ~BudgetLeft(c), why = "approaches" => ApproachesSpent
    PROVE  EndsOrHolds /\ FileOf(st)
<1>1. CASE proc.aborted
  <2>1. Finish(st, "aborted", "unverified")
    BY <1>1 DEF Tail
  <2> QED BY <2>1, FinishDoes DEF EndsOrHolds
<1>2. CASE ~proc.aborted /\ why = "budget"
  <2>1. Hold(st, SpentBudget(st, c))
    BY <1>2 DEF Tail
  <2>2. /\ status'.state = "exhausted" /\ status'.verdict = "none"
        /\ status'.pending = "none" /\ status'.exhausted = SpentBudget(st, c)
        /\ Exit /\ FileOf(st)
    BY <2>1, HoldDoes
  <2>3. Spent
    BY <1>2, <2>2 DEF Spent, SpentBudget, BudgetLeft
  <2> QED BY <2>2, <2>3 DEF EndsOrHolds, Holds
<1>3. CASE ~proc.aborted /\ why = "approaches"
  <2>1. Hold(st, "approaches")
    BY <1>3 DEF Tail
  <2>2. /\ status'.state = "exhausted" /\ status'.verdict = "none"
        /\ status'.pending = "none" /\ status'.exhausted = "approaches"
        /\ Exit /\ FileOf(st)
    BY <2>1, HoldDoes
  <2>3. Spent
    BY <1>3, <2>2 DEF Spent, ApproachesSpent
  <2> QED BY <2>2, <2>3 DEF EndsOrHolds, Holds
<1>4. CASE ~proc.aborted /\ why \notin {"budget", "approaches"}
  <2>1. PICK v \in {"none", "rejected", "unreviewed", "unverified"} :
            Finish(st, "failed", v)
    BY <1>4 DEF Tail, Whys
  <2> QED BY <2>1, FinishDoes DEF EndsOrHolds
<1> QED BY <1>1, <1>2, <1>3, <1>4

\* The same as a kind of step: no step but planning's first puts another
\* approach on file.
LEMMA TailStops ==
    ASSUME IInv, NEW st \in Statuses, NEW c \in Nat, NEW why \in Whys, Tail(st, why, c),
           st.exhausted = status.exhausted, st.pending = status.pending,
           st.budget = status.budget, st.question = status.question,
           st.answer = status.answer, st.cures = status.cures, st.topUps = status.topUps,
           st.approach = IF step = "planning" /\ at = "entry" THEN proc.approach
                         ELSE status.approach,
           why = "budget" => ~BudgetLeft(c), why = "approaches" => ApproachesSpent,
           at \in {"entry", "woken", "run", "backoff", "archived"},
           dir'.charged = c, Charges, PlanKeeps({"charged", "work"}),
           dir'.work \in {"none", dir.work}, boots' = boots
    PROVE  Stops
<1>1. status.budget \in Nat
  BY DEF IInv, TypeOK, Statuses
<1>2. EndsOrHolds /\ FileOf(st)
  BY <1>1, TailDoes
<1>3. FileKeeps({"state", "verdict", "pending", "exhausted", "approach"}) /\ Announces
  BY <1>2 DEF FileOf, FileKeeps, Announces
<1> QED BY <1>2, <1>3 DEF Stops

\* Waiting at the gate for an iteration, or starting it.
LEMMA GateDispatches ==
    ASSUME NEW d \in Dirs, GateThenRun(step, d, proc) \/ Run(step, d, proc), IInv
    PROVE  /\ step' = step /\ at' \in {"run", "gate"} /\ MemoryKeeps({})
           /\ dir'.planOf = d.planOf /\ dir'.work = d.work /\ dir'.archived = d.archived
           /\ dir'.charged = d.charged /\ dir'.early = d.early
           /\ Run(step, d, proc) => at' = "run"
<1>1. MemoryKeeps({})
  BY DEF GateThenRun, Run, MemoryKeeps, IInv, TypeOK, Processes
<1>2. /\ dir'.planOf = d.planOf /\ dir'.work = d.work /\ dir'.archived = d.archived
      /\ dir'.charged = d.charged /\ dir'.early = d.early
  BY DEF GateThenRun, Run, Started, Dirs
<1> QED BY <1>1, <1>2 DEF GateThenRun, Run

\* What is left of the run directory by a finished, a charged and a steered
\* iteration.
LEMMA IterationEnds ==
    ASSUME NEW d \in Dirs
    PROVE  /\ Charged(d).charged = d.charged + 1 /\ d.charged \in Nat
           /\ Ended(d).charged = d.charged
           /\ \A e \in {Ended(d), Charged(d), Consumed(d), Consumed(Charged(d))} :
                 /\ e.planOf = d.planOf /\ e.work = d.work /\ e.archived = d.archived
                 /\ e.early = d.early
           /\ Consumed(Charged(d)).charged = d.charged + 1
           /\ Consumed(d).charged = d.charged
BY DEF Ended, Charged, Consumed, Dirs

-----------------------------------------------------------------------------
(* Every action is of its kinds *)

\* planning.
LEMMA PlanningStepDoes ==
    ASSUME IInv, PlanningStep
    PROVE  Stops \/ Skips \/ Dispatches
<1> USE DEF IInv, TypeOK
<1> DEFINE st == [status EXCEPT !.approach = proc.approach]
<1>1. /\ st \in Statuses /\ st.approach = proc.approach
      /\ st.exhausted = status.exhausted /\ st.pending = status.pending
      /\ st.budget = status.budget /\ st.question = status.question
      /\ st.answer = status.answer /\ st.cures = status.cures
      /\ st.topUps = status.topUps /\ dir.charged \in Nat
      /\ st.state = status.state /\ st.verdict = status.verdict
  BY DEF Statuses, Processes, Dirs
<1>2. /\ step = "planning" /\ at = "entry" /\ boots' = boots /\ passed' = passed
  BY DEF PlanningStep
<1> HIDE DEF IInv, TypeOK, st
<1>3. CASE ~BudgetLeft(dir.charged)
  <2>1. Tail(st, "budget", dir.charged) /\ dir' = dir
    BY <1>3 DEF PlanningStep, st
  <2>2. Charges /\ PlanKeeps({"charged", "work"})
    BY <1>1, <1>2, <2>1 DEF Charges, PlanKeeps
  <2> QED BY <1>1, <1>2, <1>3, <2>1, <2>2, TailStops DEF Whys
<1>4. CASE BudgetLeft(dir.charged) /\ proc.skip
  <2>1. /\ status' = st /\ dir' = dir /\ proc' = [proc EXCEPT !.skip = FALSE]
        /\ Goto("worker")
    BY <1>4 DEF PlanningStep, st
  <2>2. FileKeeps({"approach"}) /\ PlanKeeps({}) /\ Announces
    BY <1>1, <1>2, <2>1 DEF FileKeeps, PlanKeeps, Announces
  <2>3. MemoryKeeps({"skip"}) /\ ~proc'.skip
    BY <2>1 DEF MemoryKeeps, IInv, TypeOK, Processes
  <2> QED BY <1>2, <1>4, <2>1, <2>2, <2>3 DEF Skips, Goto
<1>5. CASE BudgetLeft(dir.charged) /\ ~proc.skip
  <2>1. status' = st /\ GateThenRun(step, dir, proc)
    BY <1>2, <1>5 DEF PlanningStep, st
  <2>2. FileKeeps({"approach"}) /\ Announces
    BY <1>1, <1>2, <2>1 DEF FileKeeps, Announces
  <2>3. /\ step' = step /\ at' \in {"run", "gate"} /\ MemoryKeeps({})
        /\ PlanKeeps({"charged"}) /\ dir'.charged = dir.charged
    BY <2>1, GateDispatches DEF IInv, TypeOK, PlanKeeps
  <2>4. Charges
    BY <1>1, <1>2, <2>3 DEF Charges
  <2>5. dir'.charged < status.budget
    BY <1>5, <2>3 DEF BudgetLeft
  <2> QED BY <1>2, <1>5, <2>1, <2>2, <2>3, <2>4, <2>5 DEF Dispatches
<1> QED BY <1>3, <1>4, <1>5

\* What an iteration that is charged leaves of the run directory.
LEMMA ChargedKeeps ==
    ASSUME IInv, at = "run", step # "steer",
           dir' = Charged(dir) \/ dir' = Consumed(Charged(dir))
    PROVE  /\ Charges /\ PlanKeeps({"charged", "work"}) /\ PlanKeeps({"charged"})
           /\ dir'.charged = dir.charged + 1 /\ dir'.charged \in Nat
           /\ dir'.work = dir.work
BY IterationEnds DEF IInv, TypeOK, Charges, PlanKeeps

LEMMA PlanningEndDoes ==
    ASSUME IInv, NEW same \in BOOLEAN,
           PlanningProducesTasks \/ PlanningDies(same)
    PROVE  Stops \/ Ingests \/ Replans
<1> DEFINE d == Consumed(Charged(dir))
<1>1. /\ step = "planning" /\ at = "run" /\ boots' = boots /\ status \in Statuses
      /\ dir \in Dirs /\ proc \in Processes
  BY DEF IInv, TypeOK, PlanningProducesTasks, PlanningDies
<1>2. /\ d.charged = dir.charged + 1 /\ d.charged \in Nat
      /\ d.planOf = dir.planOf /\ d.work = dir.work /\ d.archived = dir.archived
      /\ d.early = dir.early
  BY <1>1, IterationEnds
<1>3. ASSUME NEW why \in {"budget", "unverified"}, Tail(status, why, d.charged),
             dir' = d, why = "budget" => ~BudgetLeft(d.charged)
      PROVE  Stops
  <2>1. Charges /\ PlanKeeps({"charged", "work"}) /\ dir'.work = dir.work
    BY <1>1, <1>3, ChargedKeeps
  <2> QED BY <1>1, <1>2, <1>3, <2>1, TailStops DEF Whys
<1>4. CASE PlanningProducesTasks
  <2>1. CASE ~BudgetLeft(d.charged)
    BY <1>3, <1>4, <2>1 DEF PlanningProducesTasks
  <2>2. CASE BudgetLeft(d.charged)
    <3>1. /\ dir' = Ingested(d) /\ Goto("worker") /\ proc' = proc
          /\ status' = [status EXCEPT !.planningDied = FALSE]
      BY <1>4, <2>2 DEF PlanningProducesTasks
    <3>2. FileKeeps({}) /\ MemoryKeeps({})
      BY <1>1, <3>1 DEF FileKeeps, MemoryKeeps, Statuses
    <3>3. d \in Dirs
      <4>1. proc.carried <= dir.steering /\ proc.carried \in Nat /\ dir.steering \in Nat
        BY <1>1 DEF IInv, SteeringHanded, Dirs, Processes
      <4>2. /\ Charged(dir) \in Dirs /\ Charged(dir).steering >= dir.steering
            /\ Charged(dir).steering \in Nat
        BY <1>1, DirTypes DEF Dirs
      <4> QED BY <1>1, <4>1, <4>2, ConsumedType
    <3>4. /\ PlanKeeps({"planOf", "work", "charged"}) /\ dir'.planOf = proc.approach
          /\ dir'.work = "plan" /\ Charges
      BY <1>1, <1>2, <3>1, <3>3 DEF Ingested, PlanKeeps, Charges, Dirs
    <3> QED BY <1>1, <3>1, <3>2, <3>4 DEF Ingests, Goto
  <2> QED BY <2>1, <2>2
<1>5. CASE PlanningDies(same)
  <2>1. CASE ~BudgetLeft(d.charged) \/ (same /\ status.planningDied)
    BY <1>3, <1>5, <2>1 DEF PlanningDies
  <2>2. CASE BudgetLeft(d.charged) /\ ~(same /\ status.planningDied)
    <3>1. /\ status' = [status EXCEPT !.planningDied = TRUE] /\ dir' = d
          /\ proc' = [proc EXCEPT !.guard = "empty_plan"] /\ Goto("replan")
      BY <1>5, <2>2 DEF PlanningDies
    <3>2. FileKeeps({}) /\ MemoryKeeps({"guard"}) /\ proc'.guard = "empty_plan"
      BY <1>1, <3>1 DEF FileKeeps, MemoryKeeps, Statuses, Processes
    <3>3. Charges /\ PlanKeeps({"charged"})
      BY <1>1, <3>1, ChargedKeeps
    <3> QED BY <1>1, <3>1, <3>2, <3>3 DEF Replans, Goto
  <2> QED BY <2>1, <2>2
<1> QED BY <1>4, <1>5

LEMMA ReplanDoes ==
    ASSUME IInv, ReplanStep
    PROVE  Stops \/ PlansAnew
<1> USE DEF IInv, TypeOK
<1>1. /\ step = "replan" /\ at = "entry" /\ boots' = boots /\ dir' = dir
      /\ status \in Statuses /\ proc \in Processes /\ dir.charged \in Nat
      /\ proc.approach \in Int /\ proc.max \in Int
  BY DEF ReplanStep, Dirs, Processes, Approaches
<1>2. FileKeeps({}) \/ status' # status
  BY DEF FileKeeps
<1>3. Charges /\ PlanKeeps({}) /\ PlanKeeps({"charged", "work"})
  BY <1>1 DEF Charges, PlanKeeps
<1>4. ASSUME NEW why \in {"unverified", "approaches"}, Tail(status, why, dir.charged),
             why = "approaches" => ~ApproachLeft /\ ~ReplansForFree
      PROVE  Stops
  <2>1. why = "approaches" => ApproachesSpent
    BY <1>1, <1>4 DEF ApproachesSpent, ApproachLeft
  <2> QED BY <1>1, <1>3, <1>4, <2>1, TailStops DEF Whys
<1>5. CASE ReplansForFree
  BY <1>1, <1>2, <1>3, <1>5 DEF ReplanStep, PlansAnew, MemoryKeeps, Goto
<1>6. CASE ~ReplansForFree /\ status' = status /\ ApproachLeft
           /\ proc' = [proc EXCEPT !.approach = proc.approach + 1] /\ Goto("planning")
  <2>1. MemoryKeeps({"approach"}) /\ proc'.approach = proc.approach + 1
    BY <1>1, <1>6 DEF MemoryKeeps, Processes
  <2> QED BY <1>1, <1>2, <1>3, <1>6, <2>1 DEF PlansAnew, Goto, ApproachLeft
<1> QED BY <1>4, <1>5, <1>6 DEF ReplanStep

\* worker.
LEMMA WorkerTurnDoes ==
    ASSUME IInv,
           \/ WorkerSpent \/ WorkerWaits \/ WorkerSteers \/ WorkerRuns
           \/ WorkerGraphFault \/ WorkerHasNothingToRun
    PROVE  Stops \/ Dispatches \/ Turns \/ Replans
<1>1. /\ step = "worker" /\ at \in {"entry", "woken"} /\ boots' = boots
      /\ status \in Statuses /\ dir \in Dirs /\ proc \in Processes /\ dir.charged \in Nat
  BY DEF IInv, TypeOK, Dirs, WorkerSpent, WorkerWaits, WorkerSteers, WorkerRuns,
         WorkerGraphFault, WorkerHasNothingToRun, WorkerTurn
<1>2. dir' = dir => Charges /\ PlanKeeps({}) /\ PlanKeeps({"charged"})
                    /\ PlanKeeps({"charged", "work"})
  BY <1>1 DEF Charges, PlanKeeps
<1>3. status' = status => FileKeeps({}) /\ FileKeeps({"approach"}) /\ Announces
  BY <1>1 DEF FileKeeps, Announces
<1>4. proc' = proc => MemoryKeeps({})
  BY DEF MemoryKeeps
<1>5. ASSUME NEW why \in {"budget", "graph_fault"}, Tail(status, why, dir.charged),
             dir' = dir, why = "budget" => ~BudgetLeft(dir.charged)
      PROVE  Stops
  BY <1>1, <1>2, <1>5, TailStops DEF Whys
<1>6. CASE WorkerSpent
  BY <1>5, <1>6 DEF WorkerSpent
<1>7. CASE WorkerWaits
  BY <1>1, <1>2, <1>3, <1>4, <1>7 DEF WorkerWaits, Dispatches, BudgetLeft
<1>8. CASE WorkerSteers
  BY <1>1, <1>2, <1>3, <1>4, <1>8 DEF WorkerSteers, Turns, Goto
<1>9. CASE WorkerRuns
  <2>1. dir'.charged = dir.charged /\ PlanKeeps({"charged"}) /\ Charges
    BY <1>1, <1>9 DEF WorkerRuns, Started, PlanKeeps, Dirs, Charges
  <2>2. at = "entry" => dir.charged < status.budget
    BY <1>9 DEF WorkerRuns, WorkerTurn, BudgetLeft
  <2> QED BY <1>1, <1>3, <1>4, <1>9, <2>1, <2>2 DEF WorkerRuns, Dispatches
<1>10. CASE WorkerGraphFault
  <2>1. CASE proc.approach \in status.faulted
    BY <1>5, <1>10, <2>1 DEF WorkerGraphFault
  <2>2. CASE proc.approach \notin status.faulted
    <3>1. /\ status' = [status EXCEPT !.faulted = @ \cup {proc.approach}]
          /\ proc' = [proc EXCEPT !.guard = "unschedulable_task_graph"]
          /\ Goto("replan") /\ dir' = dir
      BY <1>10, <2>2 DEF WorkerGraphFault
    <3>2. FileKeeps({}) /\ MemoryKeeps({"guard"}) /\ proc'.guard = "unschedulable_task_graph"
      BY <1>1, <3>1 DEF FileKeeps, MemoryKeeps, Statuses, Processes
    <3> QED BY <1>1, <1>2, <3>1, <3>2 DEF Replans, Goto
  <2> QED BY <2>1, <2>2
<1>11. CASE WorkerHasNothingToRun
  <2>1. CASE ~BudgetLeft(dir.charged)
    BY <1>5, <1>11, <2>1 DEF WorkerHasNothingToRun
  <2>2. CASE BudgetLeft(dir.charged)
    BY <1>1, <1>2, <1>3, <1>4, <1>11, <2>2 DEF WorkerHasNothingToRun, Turns, Goto
  <2> QED BY <2>1, <2>2
<1> QED BY <1>6, <1>7, <1>8, <1>9, <1>10, <1>11

LEMMA WorkerEndDoes ==
    ASSUME IInv, NEW left \in {"none", "plan", "cure"}, NEW recurs \in BOOLEAN,
           \/ WorkerProgress \/ WorkerReadyForReview(left) \/ WorkerStagnates(recurs)
           \/ WorkerFindsSecret
    PROVE  Stops \/ Turns \/ Archives(proc.approach) \/ Parks
<1>1. /\ step = "worker" /\ at = "run" /\ boots' = boots
      /\ status \in Statuses /\ dir \in Dirs /\ proc \in Processes
      /\ proc.approach \in Approaches
  BY DEF IInv, TypeOK, Processes, WorkerProgress, WorkerReadyForReview, WorkerStagnates,
         WorkerFindsSecret
<1>2. status' = status => FileKeeps({})
  BY DEF FileKeeps
<1>3. proc' = proc => MemoryKeeps({})
  BY DEF MemoryKeeps
<1>4. dir' = Charged(dir) => Charges /\ PlanKeeps({"charged", "work"})
                             /\ PlanKeeps({"charged"}) /\ dir'.work = dir.work
  BY <1>1, ChargedKeeps
<1>5. CASE WorkerProgress
  BY <1>1, <1>2, <1>3, <1>4, <1>5 DEF WorkerProgress, Turns, Goto
<1>6. CASE WorkerReadyForReview(left)
  <2> DEFINE e == [dir EXCEPT !.work = left]
             d == Charged(e)
  <2>1. e \in Dirs /\ e.charged = dir.charged /\ e.planOf = dir.planOf /\ e.work = left
        /\ e.archived = dir.archived /\ e.early = dir.early
    BY <1>1 DEF Dirs
  <2>2. /\ dir' = d /\ d.charged = dir.charged + 1 /\ d.charged \in Nat
        /\ d.planOf = dir.planOf /\ d.work = left /\ d.archived = dir.archived
        /\ d.early = dir.early
    <3>1. dir' = d
      BY <1>6 DEF WorkerReadyForReview
    <3> HIDE DEF e
    <3> QED BY <2>1, <3>1, IterationEnds
  <2>3. /\ Charges /\ PlanKeeps({"charged", "work"}) /\ dir'.work \in {"none", dir.work}
    BY <1>1, <1>6, <2>2 DEF Charges, PlanKeeps, WorkerReadyForReview
  <2>4. CASE ~BudgetLeft(d.charged)
    <3>1. Tail(status, "budget", d.charged)
      BY <1>6, <2>4 DEF WorkerReadyForReview
    <3> QED BY <1>1, <2>2, <2>3, <2>4, <3>1, TailStops DEF Whys
  <2>5. CASE BudgetLeft(d.charged)
    <3>1. Goto("review") /\ status' = status /\ proc' = proc
      BY <1>6, <2>5 DEF WorkerReadyForReview
    <3> QED BY <1>1, <1>2, <1>3, <2>3, <3>1 DEF Turns, Goto
  <2> QED BY <2>4, <2>5
<1>7. CASE WorkerStagnates(recurs)
  <2> DEFINE d == Charged(dir)
             st == IF recurs THEN [status EXCEPT !.stalled = @ \cup {proc.approach}]
                   ELSE status
  <2>1. /\ d.charged = dir.charged + 1 /\ d.charged \in Nat /\ d \in Dirs
        /\ d.archived = dir.archived /\ d.planOf = dir.planOf /\ d.work = dir.work
        /\ d.early = dir.early
    BY <1>1, IterationEnds, DirTypes
  <2>2. /\ st \in Statuses /\ st.approach = status.approach
        /\ st.exhausted = status.exhausted /\ st.pending = status.pending
        /\ st.budget = status.budget /\ st.question = status.question
        /\ st.answer = status.answer /\ st.cures = status.cures
        /\ st.topUps = status.topUps /\ st.state = status.state
        /\ st.verdict = status.verdict
    BY <1>1 DEF Statuses
  <2>3. CASE ~BudgetLeft(d.charged)
    <3>1. Tail(st, "budget", d.charged) /\ dir' = d
      BY <1>7, <2>3 DEF WorkerStagnates
    <3> HIDE DEF st
    <3> QED BY <1>1, <1>4, <2>1, <2>2, <2>3, <3>1, TailStops DEF Whys
  <2>4. CASE BudgetLeft(d.charged)
    <3>1. /\ status' = st /\ dir' = [d EXCEPT !.archived = @ \cup {proc.approach}]
          /\ proc' = [proc EXCEPT !.judge = "worker", !.target = proc.approach]
          /\ at' = "archived" /\ step' = step
      BY <1>7, <2>4 DEF WorkerStagnates
    <3>2. FileKeeps({}) /\ FileKeeps({"state", "question", "answer"})
      <4> HIDE DEF st
      <4> QED BY <2>2, <3>1 DEF FileKeeps
    <3>3. /\ MemoryKeeps({"judge", "target", "gateOpen"}) /\ proc'.target = proc.approach
          /\ proc'.gateOpen = proc.gateOpen
      BY <1>1, <3>1 DEF MemoryKeeps, Processes
    <3>4. /\ PlanKeeps({"archived", "charged"}) /\ Charges
          /\ dir'.archived = dir.archived \cup {proc.approach}
      <4> HIDE DEF d
      <4> QED BY <1>1, <2>1, <3>1 DEF PlanKeeps, Charges, Dirs
    <3> QED BY <1>1, <3>1, <3>2, <3>3, <3>4 DEF Archives, Decides
  <2> QED BY <2>3, <2>4
<1>8. CASE WorkerFindsSecret
  <2>1. /\ status' = [status EXCEPT !.state = "awaiting_input",
                                    !.question = SecretQuestion(proc.approach)]
        /\ proc' = [proc EXCEPT !.gateOpen = FALSE] /\ dir' = Charged(dir)
        /\ Goto("worker")
    BY <1>8 DEF WorkerFindsSecret, Parked
  <2>2. /\ FileKeeps({"state", "question"}) /\ status'.state = "awaiting_input"
        /\ status'.question = SecretQuestion(proc.approach)
    BY <1>1, <2>1 DEF FileKeeps, Statuses
  <2>3. MemoryKeeps({"gateOpen"}) /\ ~proc'.gateOpen
    BY <1>1, <2>1 DEF MemoryKeeps, Processes
  <2> QED BY <1>1, <1>4, <2>1, <2>2, <2>3 DEF Parks, Goto
<1> QED BY <1>5, <1>6, <1>7, <1>8

\* steer.
LEMMA SteerDoes ==
    ASSUME IInv, NEW work \in {"none", "plan", "cure"}, NEW kept, NEW clean \in BOOLEAN,
           \/ SteerStep \/ SteerSettles(work, kept) \/ SteerAnswersInError(work)
           \/ SteerFails(clean)
    PROVE  Stops \/ Dispatches \/ Turns
<1>1. /\ step = "steer" /\ at \in {"entry", "run"} /\ boots' = boots
      /\ status \in Statuses /\ dir \in Dirs /\ proc \in Processes /\ dir.charged \in Nat
  BY DEF IInv, TypeOK, Dirs, SteerStep, SteerSettles, SteerAnswersInError, SteerFails
<1>2. status' = status => FileKeeps({}) /\ FileKeeps({"approach"}) /\ Announces
  BY <1>1 DEF FileKeeps, Announces
<1>3. proc' = proc => MemoryKeeps({})
  BY DEF MemoryKeeps
<1>4. ASSUME NEW d \in Dirs, d.charged = dir.charged, d.planOf = dir.planOf,
             d.work = dir.work, d.archived = dir.archived, d.early = dir.early,
             GateThenRun("steer", d, proc), status' = status, passed' = passed
      PROVE  Dispatches
  <2>1. /\ step' = step /\ at' \in {"run", "gate"} /\ MemoryKeeps({})
        /\ PlanKeeps({"charged"}) /\ dir'.charged = dir.charged
    BY <1>1, <1>4, GateDispatches DEF PlanKeeps
  <2>2. Charges
    BY <1>1, <2>1 DEF Charges
  <2> QED BY <1>1, <1>2, <1>4, <2>1, <2>2 DEF Dispatches
<1>5. CASE SteerStep
  BY <1>1, <1>4, <1>5 DEF SteerStep
<1>6. CASE SteerSettles(work, kept)
  <2>1. /\ dir' = [Consumed(dir) EXCEPT !.work = work, !.deferred = @ + kept]
        /\ work \in {dir.work, "plan"}
    BY <1>6 DEF SteerSettles
  <2>2. PlanKeeps({"charged", "work"}) /\ dir'.work = work /\ dir'.charged = dir.charged
    BY <1>1, <2>1 DEF Consumed, Dirs, PlanKeeps
  <2>3. Charges
    BY <1>1, <2>2 DEF Charges
  <2> QED BY <1>1, <1>2, <1>3, <1>6, <2>1, <2>2, <2>3 DEF SteerSettles, Turns, Goto
<1>7. CASE SteerAnswersInError(work)
  <2>1. dir' = [dir EXCEPT !.work = work] /\ work \in {dir.work, "plan"}
    BY <1>7 DEF SteerAnswersInError
  <2>2. PlanKeeps({"charged", "work"}) /\ dir'.work = work /\ dir'.charged = dir.charged
    BY <1>1, <2>1 DEF Dirs, PlanKeeps
  <2>3. Charges
    BY <1>1, <2>2 DEF Charges
  <2> QED BY <1>1, <1>2, <1>3, <1>7, <2>1, <2>2, <2>3 DEF SteerAnswersInError, Turns, Goto
<1>8. CASE SteerFails(clean)
  <2> DEFINE d == IF clean THEN Consumed(dir) ELSE dir
  <2>1. at = "run" /\ proc.carried <= dir.steering
    BY <1>1, <1>8 DEF SteerFails, IInv, SteeringHanded
  <2>2. d \in Dirs
    BY <1>1, <2>1, ConsumedType
  <2>3. /\ d.charged = dir.charged /\ d.planOf = dir.planOf /\ d.work = dir.work
        /\ d.archived = dir.archived /\ d.early = dir.early
    BY <1>1, IterationEnds
  <2>4. BudgetLeft(dir.charged) \/ dir' = d
    BY <1>8 DEF SteerFails
  <2>5. dir' = d => Charges /\ PlanKeeps({"charged", "work"}) /\ dir'.work = dir.work
                    /\ dir'.charged = dir.charged
    <3> HIDE DEF d
    <3> QED BY <1>1, <2>3 DEF Charges, PlanKeeps
  <2>6. CASE BudgetLeft(dir.charged)
    <3>1. GateThenRun("steer", d, proc) /\ status' = status /\ passed' = passed
      BY <1>8, <2>6 DEF SteerFails
    <3> HIDE DEF d
    <3> QED BY <1>4, <2>2, <2>3, <3>1
  <2>7. CASE ~BudgetLeft(dir.charged) /\ ~clean
    <3>1. Tail(status, "budget", dir.charged)
      BY <1>8, <2>7 DEF SteerFails
    <3> HIDE DEF d
    <3> QED BY <1>1, <2>4, <2>5, <2>7, <3>1, TailStops DEF Whys
  <2>8. CASE ~BudgetLeft(dir.charged) /\ clean
    <3>1. Finish(status, "aborted", "unverified")
      BY <1>8, <2>8 DEF SteerFails
    <3>2. Outcome("aborted", "unverified") /\ FileOf(status)
      BY <1>1, <3>1, FinishDoes
    <3>3. /\ FileKeeps({"state", "verdict", "pending", "exhausted", "approach"})
          /\ Announces
      BY <1>1, <3>2 DEF FileOf, FileKeeps, Announces
    <3> HIDE DEF d
    <3> QED BY <1>1, <2>4, <2>5, <2>8, <3>2, <3>3 DEF Stops, EndsOrHolds
  <2> QED BY <2>6, <2>7, <2>8
<1> QED BY <1>5, <1>6, <1>7, <1>8

\* What blocks success is not changed by charging the iteration that found it.
LEMMA BlockedAlike ==
    ASSUME NEW d \in Dirs
    PROVE  SuccessBlocked(Charged(d)) <=> SuccessBlocked(d)
BY DEF SuccessBlocked, Charged, Ended, Dirs

\* What a judge's iteration leaves behind it.
JudgeAtWork ==
    /\ at = "run" /\ step \in Judges /\ boots' = boots
    /\ status \in Statuses /\ dir \in Dirs /\ proc \in Processes
    /\ proc.approach \in Approaches

\* The verified edge, after the judge's iteration.
LEMMA EdgeDoes ==
    ASSUME IInv, JudgeAtWork, ~proc.aborted, VerifiedEdge(step, status, Charged(dir)),
           dir' = Charged(dir), passed' = step
    PROVE  Succeeds \/ Turns
<1>1. /\ Charges /\ PlanKeeps({"charged", "work"}) /\ PlanKeeps({"charged"})
      /\ dir'.work = dir.work
  BY ChargedKeeps DEF JudgeAtWork, Judges
<1>2. Charged(dir).work = dir.work
  BY <1>1
<1>3. CASE /\ Finish(status, "succeeded", "verified")
           /\ step = "review" => ~PeerGate /\ ~SuccessBlocked(dir)
  <2>1. Outcome("succeeded", "verified") /\ FileOf(status)
    BY <1>3, FinishDoes DEF JudgeAtWork
  <2>2. /\ FileKeeps({"state", "verdict", "pending", "exhausted", "answer"})
        /\ status'.answer = status.answer
    BY <2>1 DEF FileOf, FileKeeps
  <2> QED BY <1>1, <1>3, <2>1, <2>2 DEF Succeeds, Word, JudgeAtWork
<1>4. CASE /\ step = "review" /\ status' = status /\ proc' = Judged
           /\ \/ Goto("worker")
              \/ Goto("verdict_gate") /\ PeerGate /\ dir.work # "cure"
  <2>1. FileKeeps({}) /\ MemoryKeeps({})
    BY <1>4 DEF FileKeeps, MemoryKeeps, Judged, JudgeAtWork, Processes
  <2> QED BY <1>1, <1>4, <2>1 DEF Turns, Goto, JudgeAtWork
<1>5. CASE step = "review"
  <2>1. SuccessBlocked(Charged(dir)) <=> SuccessBlocked(dir)
    BY BlockedAlike DEF JudgeAtWork
  <2>2. ReviewVerifiedEdge(status, Charged(dir))
    BY <1>5 DEF VerifiedEdge
  <2>3. CASE SuccessBlocked(Charged(dir))
    BY <1>4, <1>5, <2>2, <2>3 DEF ReviewVerifiedEdge
  <2>4. CASE ~SuccessBlocked(Charged(dir)) /\ PeerGate
    BY <1>2, <1>4, <1>5, <2>2, <2>4 DEF ReviewVerifiedEdge, SuccessBlocked
  <2>5. CASE ~SuccessBlocked(Charged(dir)) /\ ~PeerGate
    BY <1>3, <1>5, <2>1, <2>2, <2>5 DEF ReviewVerifiedEdge
  <2> QED BY <2>3, <2>4, <2>5
<1>6. CASE step # "review"
  BY <1>3, <1>6 DEF VerifiedEdge
<1> QED BY <1>5, <1>6

\* The budget was spent when the verdict came.
LEMMA SpentDoes ==
    ASSUME IInv, JudgeAtWork, NEW why \in {"budget", "provisional_rejected", "unreviewed"},
           Tail(status, why, Charged(dir).charged), dir' = Charged(dir),
           why = "budget" => ~BudgetLeft(Charged(dir).charged)
    PROVE  Stops
<1>1. /\ Charges /\ PlanKeeps({"charged", "work"}) /\ dir'.work = dir.work
      /\ dir'.charged \in Nat
  BY ChargedKeeps DEF JudgeAtWork, Judges
<1> QED BY <1>1, TailStops DEF Whys, JudgeAtWork, Judges

LEMMA VerifyDoes ==
    ASSUME IInv, JudgeAtWork, Verify(step, Charged(dir))
    PROVE  Succeeds \/ Turns \/ Stops
BY EdgeDoes, SpentDoes DEF Verify, BudgetLeft

\* A cure or an archive half done, right after the iteration.
LEMMA HalfDoneDoes ==
    ASSUME IInv, JudgeAtWork, status' = status, NEW blocking,
           \/ /\ TakeCure(step, proc.approach, Charged(dir), blocking, Judged)
              /\ status.cures[proc.approach] < RoundsAllowed(proc.approach)
           \/ Archive(step, proc.approach, Charged(dir), Judged)
    PROVE  Cures(proc.approach) \/ Archives(proc.approach)
<1> DEFINE d == Charged(dir)
<1>1. /\ d \in Dirs /\ d.charged = dir.charged + 1 /\ d.planOf = dir.planOf
      /\ d.work = dir.work /\ d.archived = dir.archived /\ d.early = dir.early
  BY DirTypes, IterationEnds DEF JudgeAtWork
<1>2. FileKeeps({}) /\ FileKeeps({"state", "question", "answer"})
  BY DEF FileKeeps
<1>3. /\ MemoryKeeps({"judge", "target", "gateOpen"}) /\ proc'.target = proc.approach
      /\ proc'.gateOpen = proc.gateOpen /\ step' = step
  BY DEF MemoryKeeps, TakeCure, Archive, Judged, JudgeAtWork, Processes
<1>4. dir'.charged = d.charged
  <2> HIDE DEF d
  <2>1. dir' \in {d, [d EXCEPT !.work = "cure"],
                  [d EXCEPT !.archived = @ \cup {proc.approach}]}
    BY DEF TakeCure, Archive, d
  <2> QED BY <1>1, <2>1 DEF Dirs
<1>5. Decides(proc.approach, "cure") /\ Decides(proc.approach, "next_approach")
  BY <1>1, <1>2, <1>3, <1>4 DEF Decides, Charges, JudgeAtWork, Judges
<1>6. CASE /\ TakeCure(step, proc.approach, d, blocking, Judged)
           /\ status.cures[proc.approach] < RoundsAllowed(proc.approach)
  <2>1. dir' \in {d, [d EXCEPT !.work = "cure"]} /\ at' = "cure_count"
    BY <1>6 DEF TakeCure
  <2> HIDE DEF d
  <2>2. PlanKeeps({"work", "charged"})
    BY <1>1, <2>1 DEF PlanKeeps, Dirs
  <2> QED BY <1>5, <1>6, <2>1, <2>2 DEF Cures
<1>7. CASE Archive(step, proc.approach, d, Judged)
  <2>1. dir' = [d EXCEPT !.archived = @ \cup {proc.approach}] /\ at' = "archived"
    BY <1>7 DEF Archive
  <2> HIDE DEF d
  <2>2. PlanKeeps({"archived", "charged"}) /\ dir'.archived = dir.archived \cup {proc.approach}
    BY <1>1, <2>1 DEF PlanKeeps, Dirs
  <2> QED BY <1>5, <2>1, <2>2 DEF Archives
<1> QED BY <1>6, <1>7

\* The five steps of the ladder.
LEMMA RejectDoes ==
    ASSUME IInv, JudgeAtWork, NEW blocking \in Rejections, NEW escalation \in BOOLEAN,
           Reject(step, blocking, escalation, Charged(dir))
    PROVE  \/ Succeeds \/ Turns \/ Stops \/ Parks
           \/ Cures(proc.approach) \/ Archives(proc.approach)
<1> DEFINE a == proc.approach
           d == Charged(dir)
           decision == Decide(BudgetLeft(d.charged), FALSE, blocking,
                              d.waivers, escalation, RoundsSpent(a))
<1>1. /\ decision.step \in {"exhausted", "waived", "cure", "park"}
      /\ decision.step = "park" => decision.trigger \in Triggers
  BY DecideParks DEF Decide
<1>2. status.cures[a] \in Int /\ RoundsAllowed(a) \in Int
  BY SupervisorAssumption DEF JudgeAtWork, Statuses, RoundsAllowed
<1>3. CASE decision.step = "exhausted"
  <2>1. Tail(status, "budget", d.charged) /\ dir' = d
    BY <1>3 DEF Reject
  <2>2. ~BudgetLeft(d.charged)
    BY <1>3 DEF Decide
  <2> QED BY <2>1, <2>2, SpentDoes
<1>4. CASE decision.step = "waived"
  <2>1. VerifiedEdge(step, status, d) /\ dir' = d /\ passed' = step
    BY <1>4 DEF Reject
  <2>2. ~proc.aborted
    BY <1>4 DEF Decide, BudgetLeft
  <2> QED BY <2>1, <2>2, EdgeDoes
<1>5. CASE decision.step = "cure"
  <2>1. TakeCure(step, a, d, blocking, Judged) /\ status' = status
    BY <1>5 DEF Reject
  <2>2. ~RoundsSpent(a)
    BY <1>5 DEF Decide, ParkTrigger
  <2>3. status.cures[a] < RoundsAllowed(a)
    BY <1>2, <2>2 DEF RoundsSpent
  <2> QED BY <2>1, <2>3, HalfDoneDoes
<1>6. CASE decision.step = "park" /\ InputPause
  <2> DEFINE q == FindingsQuestion(step, decision.trigger, blocking, a)
  <2>1. /\ status' = Parked(status, q)
        /\ dir' = IF step = "review" THEN [d EXCEPT !.reReview = a] ELSE d
        /\ proc' = [Judged EXCEPT !.gateOpen = FALSE]
        /\ Goto("paused")
    BY <1>6 DEF Reject
  <2>2. \E trigger \in Triggers, b \in Rejections :
            q = FindingsQuestion(step, trigger, b, a)
    BY <1>1, <1>6
  <2> HIDE DEF q, decision
  <2>3. /\ FileKeeps({"state", "question"}) /\ status'.state = "awaiting_input"
        /\ status'.question = q
    BY <2>1 DEF FileKeeps, Parked, JudgeAtWork, Statuses
  <2>4. MemoryKeeps({"gateOpen"}) /\ ~proc'.gateOpen
    BY <2>1 DEF MemoryKeeps, Judged, JudgeAtWork, Processes
  <2>5. /\ d \in Dirs /\ d.charged = dir.charged + 1 /\ d.planOf = dir.planOf
        /\ d.work = dir.work /\ d.archived = dir.archived /\ d.early = dir.early
    BY DirTypes, IterationEnds DEF JudgeAtWork
  <2>6. PlanKeeps({"charged"}) /\ Charges
    <3> HIDE DEF d
    <3> QED BY <2>1, <2>5 DEF PlanKeeps, Charges, Dirs, JudgeAtWork, Judges
  <2> QED BY <2>1, <2>2, <2>3, <2>4, <2>6 DEF Parks, Goto, JudgeAtWork
<1>7. CASE decision.step = "park" /\ ~InputPause
  <2>1. TimeoutOutcome(step, decision.trigger, blocking, a, d, Judged) /\ status' = status
    BY <1>7 DEF Reject
  <2>2. \/ /\ TakeCure(step, a, d, blocking, Judged)
           /\ RoundsAllowed(a) - status.cures[a] > 0
        \/ Archive(step, a, d, Judged)
    <3> HIDE DEF decision, d, a
    <3> QED BY <2>1 DEF TimeoutOutcome, InputOnTimeout
  <2>3. RoundsAllowed(a) - status.cures[a] > 0 => status.cures[a] < RoundsAllowed(a)
    BY <1>2
  <2> HIDE DEF decision
  <2> QED BY <2>1, <2>2, <2>3, HalfDoneDoes
<1> HIDE DEF decision
<1> QED BY <1>1, <1>3, <1>4, <1>5, <1>6, <1>7

\* A judge's iteration begins, or waits for the gate.
LEMMA JudgeStepDoes ==
    ASSUME IInv, ReviewStep \/ VerdictGateStep
    PROVE  Stops \/ Dispatches
<1>1. /\ step \in Judges /\ at = "entry" /\ boots' = boots /\ passed' = passed
      /\ status \in Statuses /\ dir \in Dirs /\ dir.charged \in Nat
  BY DEF IInv, TypeOK, Dirs, ReviewStep, VerdictGateStep, Judges
<1>2. CASE BudgetLeft(dir.charged)
  <2>1. /\ GateThenRun(step, dir, proc) \/ Run(step, dir, proc)
        /\ status' = status
        /\ step = "verdict_gate" => Run(step, dir, proc)
    BY <1>2 DEF ReviewStep, VerdictGateStep
  <2>2. /\ step' = step /\ at' \in {"run", "gate"} /\ MemoryKeeps({})
        /\ PlanKeeps({"charged"}) /\ dir'.charged = dir.charged
        /\ step = "verdict_gate" => at' = "run"
    BY <1>1, <2>1, GateDispatches DEF PlanKeeps
  <2>3. FileKeeps({"approach"}) /\ Announces /\ Charges
    BY <1>1, <1>2, <2>1, <2>2 DEF FileKeeps, Announces, Charges, Judges, ReviewStep,
                                 VerdictGateStep
  <2> QED BY <1>1, <1>2, <2>2, <2>3 DEF Dispatches, BudgetLeft, Judges
<1>3. CASE ~BudgetLeft(dir.charged)
  <2>1. Tail(status, "budget", dir.charged) /\ dir' = dir
    BY <1>3 DEF ReviewStep, VerdictGateStep
  <2>2. Charges /\ PlanKeeps({"charged", "work"})
    BY <1>1, <2>1 DEF Charges, PlanKeeps
  <2> QED BY <1>1, <1>3, <2>1, <2>2, TailStops DEF Whys, Judges
<1> QED BY <1>2, <1>3

\* A review's iteration that ends without having spoken.
LEMMA InterruptedDoes ==
    ASSUME IInv, NEW timedOut \in BOOLEAN, ReviewInterrupted(timedOut)
    PROVE  Stops \/ Succeeds \/ Dispatches
<1> DEFINE d == Charged(dir)
<1>1. JudgeAtWork /\ step = "review"
  BY DEF ReviewInterrupted, JudgeAtWork, Judges, IInv, TypeOK, Processes
<1>2. /\ d \in Dirs /\ d.charged = dir.charged + 1 /\ d.planOf = dir.planOf
      /\ d.work = dir.work /\ d.archived = dir.archived /\ d.early = dir.early
      /\ d.charged \in Nat
  BY <1>1, DirTypes, IterationEnds DEF JudgeAtWork
<1>3. CASE ReviewOver(d, timedOut)
  <2>1. Unjudged(d) /\ passed' = passed
    BY <1>3 DEF ReviewInterrupted
  <2>2. CASE /\ ~proc.aborted
             /\ d.early.approach = proc.approach /\ d.early.verdict = "verified"
             /\ Finish(status, "succeeded", "verified") /\ dir' = d
    <3>1. Outcome("succeeded", "verified") /\ FileOf(status)
      BY <1>1, <2>2, FinishDoes DEF JudgeAtWork
    <3>2. /\ FileKeeps({"state", "verdict", "pending", "exhausted", "answer"})
          /\ status'.answer = status.answer
      BY <3>1 DEF FileOf, FileKeeps
    <3>3. Charges /\ PlanKeeps({"charged"})
      BY <1>1, <2>2, ChargedKeeps DEF JudgeAtWork, Judges
    <3>4. Word
      <4> HIDE DEF d
      <4> QED BY <1>1, <1>2, <2>1, <2>2 DEF Word, JudgeAtWork
    <3> QED BY <1>1, <3>1, <3>2, <3>3, <3>4 DEF Succeeds, JudgeAtWork
  <2>3. CASE Tail(status, "provisional_rejected", d.charged) /\ dir' = d
    BY <1>1, <2>3, SpentDoes
  <2>4. CASE /\ Tail(status, "deadline", d.charged)
             /\ dir' = [d EXCEPT !.reReview = proc.approach]
    <3>1. PlanKeeps({"charged", "work"}) /\ dir'.work = dir.work
          /\ dir'.charged = d.charged
      <4> HIDE DEF d
      <4> QED BY <1>2, <2>4 DEF PlanKeeps, Dirs
    <3>2. Charges
      BY <1>1, <1>2, <3>1 DEF Charges, JudgeAtWork
    <3> HIDE DEF d
    <3> QED BY <1>1, <1>2, <2>4, <3>1, <3>2, TailStops DEF Whys, JudgeAtWork
  <2> HIDE DEF d
  <2> QED BY <2>1, <2>2, <2>3, <2>4 DEF Unjudged
<1>4. CASE ~ReviewOver(d, timedOut)
  <2>1. GateThenRun(step, d, proc) /\ status' = status /\ passed' = passed
    BY <1>1, <1>4 DEF ReviewInterrupted
  <2> HIDE DEF d
  <2>2. /\ step' = step /\ at' \in {"run", "gate"} /\ MemoryKeeps({})
        /\ PlanKeeps({"charged"}) /\ dir'.charged = d.charged
    BY <1>2, <2>1, GateDispatches DEF PlanKeeps
  <2>3. FileKeeps({"approach"}) /\ Announces /\ Charges
    BY <1>1, <1>2, <2>1, <2>2 DEF FileKeeps, Announces, Charges, JudgeAtWork
  <2>4. dir'.charged < status.budget
    BY <1>4, <2>2 DEF ReviewOver, BudgetLeft
  <2> QED BY <1>1, <2>1, <2>2, <2>3, <2>4 DEF Dispatches, JudgeAtWork
<1> QED BY <1>3, <1>4

\* What the two judges say.
LEMMA JudgesVerify ==
    ASSUME IInv, ReviewVerified \/ GateApproved
    PROVE  Succeeds \/ Turns \/ Stops
<1>1. JudgeAtWork
  BY DEF ReviewVerified, GateApproved, JudgeAtWork, Judges, IInv, TypeOK, Processes
<1> QED BY <1>1, VerifyDoes DEF ReviewVerified, GateApproved

LEMMA JudgesReject ==
    ASSUME IInv, NEW blocking \in Rejections, NEW escalation \in BOOLEAN,
           ReviewRejected(blocking, escalation) \/ GateRejected(blocking)
    PROVE  \/ Succeeds \/ Turns \/ Stops \/ Parks
           \/ \E a \in Approaches : Cures(a) \/ Archives(a)
<1>1. JudgeAtWork
  BY DEF ReviewRejected, GateRejected, JudgeAtWork, Judges, IInv, TypeOK, Processes
<1>2. \E e \in BOOLEAN : Reject(step, blocking, e, Charged(dir))
  BY DEF ReviewRejected, GateRejected
<1> QED BY <1>1, <1>2, RejectDoes DEF JudgeAtWork

\* No usable verdict, and the wait before the judge is asked again.
LEMMA FaultDoes ==
    ASSUME IInv, NEW contract \in BOOLEAN, JudgeFault(contract) \/ BackoffEnds \/ GateOpens
    PROVE  Stops \/ BacksOff \/ Turns \/ Dispatches
<1>1. /\ status \in Statuses /\ dir \in Dirs /\ proc \in Processes /\ dir.charged \in Nat
      /\ boots' = boots /\ passed' = passed
  BY DEF IInv, TypeOK, Dirs, JudgeFault, BackoffEnds, GateOpens
<1>2. CASE JudgeFault(contract)
  <2>1. JudgeAtWork
    BY <1>1, <1>2 DEF JudgeFault, JudgeAtWork, Processes
  <2>2. Charged(dir).charged = dir.charged + 1
    BY <1>1, IterationEnds
  <2>3. CASE Tail(status, "unreviewed", dir.charged + 1) /\ dir' = Charged(dir)
    BY <2>1, <2>2, <2>3, SpentDoes
  <2>4. CASE /\ dir' = Ended(dir) /\ at' = "backoff" /\ status' = status /\ step' = step
             /\ proc' = [proc EXCEPT !.faults = @ + 1, !.guard =
                             IF contract THEN "review_judge_fault_retry" ELSE "none"]
             /\ contract => step = "review"
    <3>1. FileKeeps({}) /\ MemoryKeeps({"guard"}) /\ PlanKeeps({})
      BY <1>1, <2>4, IterationEnds DEF FileKeeps, MemoryKeeps, PlanKeeps, Processes
    <3>2. proc'.guard = "review_judge_fault_retry" => step = "review"
      BY <1>1, <2>4 DEF Processes
    <3> QED BY <1>1, <2>1, <2>4, <3>1, <3>2 DEF BacksOff, JudgeAtWork
  <2> QED BY <1>2, <2>3, <2>4 DEF JudgeFault
<1>3. ASSUME Run(step, dir, proc), at \in {"woken", "backoff"}, status' = status
      PROVE  Dispatches
  <2>1. /\ step' = step /\ at' = "run" /\ MemoryKeeps({})
        /\ PlanKeeps({"charged"}) /\ dir'.charged = dir.charged
    BY <1>1, <1>3, GateDispatches DEF PlanKeeps
  <2>2. FileKeeps({"approach"}) /\ Announces /\ Charges
    BY <1>1, <1>3, <2>1 DEF FileKeeps, Announces, Charges
  <2> QED BY <1>1, <1>3, <2>1, <2>2 DEF Dispatches
<1>4. CASE BackoffEnds
  <2>1. dir' = dir => Charges /\ PlanKeeps({"charged", "work"})
    BY <1>1, <1>4 DEF Charges, PlanKeeps, BackoffEnds
  <2>2. CASE proc.aborted
    BY <1>1, <1>4, <2>1, <2>2, TailStops DEF BackoffEnds, Whys
  <2>3. CASE ~proc.aborted /\ proc.guard = "review_judge_fault_retry"
    BY <1>1, <1>4, <2>1, <2>3 DEF BackoffEnds, Turns, Goto, FileKeeps, MemoryKeeps
  <2>4. CASE ~proc.aborted /\ proc.guard # "review_judge_fault_retry"
    BY <1>3, <1>4, <2>4 DEF BackoffEnds
  <2> QED BY <2>2, <2>3, <2>4
<1>5. CASE GateOpens
  BY <1>3, <1>5 DEF GateOpens
<1> QED BY <1>2, <1>4, <1>5

\* The second of two durable writes.
LEMMA SecondWriteDoes ==
    ASSUME IInv, CountCure \/ CureStep \/ Archived
    PROVE  Counts \/ Turns \/ Replans \/ Stops
<1>1. /\ status \in Statuses /\ dir \in Dirs /\ proc \in Processes /\ dir.charged \in Nat
      /\ boots' = boots /\ passed' = passed /\ dir' = dir
      /\ proc.target \in Int /\ proc.max \in Int
  BY DEF IInv, TypeOK, Dirs, Processes, Approaches, CountCure, CureStep, Archived
<1>2. PlanKeeps({}) /\ PlanKeeps({"charged"}) /\ PlanKeeps({"charged", "work"})
  BY <1>1 DEF PlanKeeps
<1>3. CASE CountCure
  <2>1. FileKeeps({"cures"}) /\ status'.cures = [status.cures EXCEPT ![proc.target] = @ + 1]
    BY <1>1, <1>3 DEF FileKeeps, CountCure, Statuses
  <2> QED BY <1>1, <1>2, <1>3, <2>1 DEF Counts, CountCure, Goto, MemoryKeeps
<1>4. CASE CureStep
  <2>1. Charges
    BY <1>1, <1>4 DEF CureStep, Charges
  <2> QED BY <1>1, <1>2, <1>4, <2>1 DEF Turns, CureStep, Goto, MemoryKeeps, FileKeeps
<1>5. CASE Archived
  <2>1. Charges /\ at = "archived"
    BY <1>1, <1>5 DEF Archived, Charges
  <2>2. CASE proc.judge = "worker" \/ proc.target < proc.max
    <3>1. /\ proc' = [proc EXCEPT !.guard = "charged"] /\ Goto("replan")
          /\ status' = status
      BY <1>5, <2>2 DEF Archived
    <3>2. FileKeeps({}) /\ MemoryKeeps({"guard"}) /\ proc'.guard = "charged"
      BY <1>1, <3>1 DEF FileKeeps, MemoryKeeps, Processes
    <3> QED BY <1>1, <1>2, <2>1, <3>1, <3>2 DEF Replans, Goto
  <2>3. CASE ~(proc.judge = "worker" \/ proc.target < proc.max)
    <3>1. Tail(status, "approaches", dir.charged) /\ ApproachesSpent
      BY <1>1, <1>5, <2>1, <2>3 DEF Archived, ApproachesSpent
    <3> QED BY <1>1, <1>2, <2>1, <3>1, TailStops DEF Whys
  <2> QED BY <2>2, <2>3
<1> QED BY <1>3, <1>4, <1>5

\* paused: the answer carried out, or nobody's.
LEMMA PausedDoes ==
    ASSUME IInv, PausedStep \/ PausedWakes
    PROVE  \/ Waits \/ Stops \/ Wakes \/ Succeeds
           \/ \E a \in Approaches : Cures(a) \/ Archives(a)
<1>1. /\ status \in Statuses /\ dir \in Dirs /\ proc \in Processes /\ dir.charged \in Nat
      /\ step = "paused" /\ boots' = boots
  BY DEF IInv, TypeOK, Dirs, PausedStep, PausedWakes
<1>2. at # "run" /\ dir'.charged = dir.charged => Charges
  BY <1>1 DEF Charges
<1>3. dir' = dir => PlanKeeps({}) /\ PlanKeeps({"charged"}) /\ PlanKeeps({"charged", "work"})
  BY DEF PlanKeeps
<1>4. CASE PausedStep
  <2>1. CASE BudgetLeft(dir.charged)
    <3>1. /\ proc' = [proc EXCEPT !.parked = status.question] /\ status' = status
          /\ at = "entry" /\ at' = "wait" /\ step' = step /\ dir' = dir
      BY <1>4, <2>1 DEF PausedStep
    <3>2. FileKeeps({}) /\ MemoryKeeps({"parked"}) /\ proc'.parked = status.question
      BY <1>1, <3>1 DEF FileKeeps, MemoryKeeps, Processes
    <3> QED BY <1>1, <1>3, <3>1, <3>2 DEF Waits
  <2>2. CASE ~BudgetLeft(dir.charged)
    <3>1. Tail(status, "budget", dir.charged) /\ dir' = dir /\ at = "entry"
      BY <1>4, <2>2 DEF PausedStep
    <3> QED BY <1>1, <1>2, <1>3, <2>2, <3>1, TailStops DEF Whys
  <2> QED BY <2>1, <2>2
<1>5. CASE PausedWakes
  <2> DEFINE answer == status.answer
             st == [status EXCEPT !.answer = NoAnswer]
  <2>1. /\ at = "wait" /\ proc.gateOpen
        /\ answer.outcome \in {"none", "verified", "cure", "next_approach"}
        /\ answer.outcome = "none" => answer = NoAnswer
        /\ answer.outcome # "none" => answer.judge \in Judges /\ answer.approach \in Approaches
    BY <1>1, <1>5 DEF PausedWakes, Statuses, Answers, NoAnswer
  <2>2. /\ st \in Statuses /\ st.answer = NoAnswer
        /\ st.approach = status.approach
        /\ st.exhausted = status.exhausted /\ st.pending = status.pending
        /\ st.budget = status.budget /\ st.question = status.question
        /\ st.cures = status.cures
        /\ st.topUps = status.topUps /\ st.state = status.state
        /\ st.verdict = status.verdict
    BY <1>1 DEF Statuses, Answers
  <2> HIDE DEF st
  <2>3. status' = st => FileKeeps({"answer"}) /\ FileKeeps({"state", "question", "answer"})
                        /\ status'.answer = NoAnswer
    BY <2>2 DEF FileKeeps
  <2>4. CASE answer.outcome = "none"
    <3>1. Goto(AskAgain) /\ status' = status /\ dir' = dir /\ proc' = proc
      BY <1>5, <2>4 DEF PausedWakes
    <3>2. AskAgain \in {"worker", "review"}
          \/ (AskAgain = "verdict_gate" /\ proc.parked.judge = "verdict_gate")
      BY DEF AskAgain
    <3>3. FileKeeps({"answer"}) /\ MemoryKeeps({}) /\ status'.answer = NoAnswer
      BY <2>1, <2>4, <3>1 DEF FileKeeps, MemoryKeeps
    <3> QED BY <1>1, <1>3, <2>1, <3>1, <3>2, <3>3 DEF Wakes, Goto
  <2>5. CASE answer.outcome = "verified"
    <3>1. /\ VerifiedEdge(answer.judge, st, dir) /\ dir' = dir
          /\ passed' = IF proc.parked.findings # {} THEN answer.judge ELSE passed
      BY <1>5, <2>5 DEF PausedWakes, st
    <3>2. CASE /\ Finish(st, "succeeded", "verified")
               /\ answer.judge = "review" => ~PeerGate /\ ~SuccessBlocked(dir)
      <4>1. Outcome("succeeded", "verified") /\ FileOf(st)
        BY <2>2, <3>2, FinishDoes
      <4>2. /\ FileKeeps({"state", "verdict", "pending", "exhausted", "answer"})
            /\ status'.answer = NoAnswer
        BY <2>2, <4>1 DEF FileOf, FileKeeps
      <4>3. Charges
        BY <1>2, <2>1, <3>1
      <4>4. Word
        BY <1>1, <2>1, <2>5, <3>1, <3>2 DEF Word
      <4> QED BY <1>1, <1>3, <2>1, <3>1, <4>1, <4>2, <4>3, <4>4 DEF Succeeds
    <3>3. CASE /\ status' = st /\ proc' = Judged
               /\ \/ Goto("worker")
                  \/ Goto("verdict_gate") /\ PeerGate /\ dir.work # "cure"
      <4>1. MemoryKeeps({})
        BY <1>1, <3>3 DEF MemoryKeeps, Judged, Processes
      <4> QED BY <1>1, <1>3, <2>1, <2>3, <3>1, <3>3, <4>1 DEF Wakes, Goto
    <3>4. CASE answer.judge = "review"
      <4>1. ReviewVerifiedEdge(st, dir)
        BY <3>1, <3>4 DEF VerifiedEdge
      <4>2. CASE SuccessBlocked(dir)
        BY <3>3, <4>1, <4>2 DEF ReviewVerifiedEdge
      <4>3. CASE ~SuccessBlocked(dir) /\ PeerGate
        BY <3>3, <4>1, <4>3 DEF ReviewVerifiedEdge, SuccessBlocked
      <4>4. CASE ~SuccessBlocked(dir) /\ ~PeerGate
        BY <3>2, <4>1, <4>4 DEF ReviewVerifiedEdge
      <4> QED BY <4>2, <4>3, <4>4
    <3>5. CASE answer.judge # "review"
      BY <3>1, <3>2, <3>5 DEF VerifiedEdge
    <3> QED BY <3>4, <3>5
  <2>6. CASE answer.outcome = "cure"
    <3>1. TakeCure(answer.judge, answer.approach, dir, proc.parked.findings, proc)
          /\ status' = st
      BY <1>5, <2>6 DEF PausedWakes, st
    <3>2. /\ proc' = [proc EXCEPT !.judge = answer.judge, !.target = answer.approach]
          /\ dir' \in {dir, [dir EXCEPT !.work = "cure"]}
          /\ at' = "cure_count" /\ step' = step
      BY <3>1 DEF TakeCure
    <3>3. /\ MemoryKeeps({"judge", "target", "gateOpen"}) /\ proc'.gateOpen
          /\ proc'.target = answer.approach
      BY <1>1, <2>1, <3>2 DEF MemoryKeeps, Processes
    <3>4. PlanKeeps({"work", "charged"}) /\ Charges
      BY <1>1, <1>2, <2>1, <3>2 DEF PlanKeeps, Dirs
    <3>5. Decides(answer.approach, "cure")
      BY <1>1, <2>1, <2>3, <2>6, <3>1, <3>2, <3>3, <3>4 DEF Decides
    <3> QED BY <2>1, <2>6, <3>2, <3>4, <3>5 DEF Cures
  <2>7. CASE answer.outcome = "next_approach"
    <3>1. Archive(answer.judge, answer.approach, dir, proc) /\ status' = st
      BY <1>5, <2>7 DEF PausedWakes, st
    <3>2. /\ proc' = [proc EXCEPT !.judge = answer.judge, !.target = answer.approach]
          /\ dir' = [dir EXCEPT !.archived = @ \cup {answer.approach}]
          /\ at' = "archived" /\ step' = step
      BY <3>1 DEF Archive
    <3>3. /\ MemoryKeeps({"judge", "target", "gateOpen"}) /\ proc'.gateOpen
          /\ proc'.target = answer.approach
      BY <1>1, <2>1, <3>2 DEF MemoryKeeps, Processes
    <3>4. /\ PlanKeeps({"archived", "charged"}) /\ Charges
          /\ dir'.archived = dir.archived \cup {answer.approach}
      BY <1>1, <1>2, <2>1, <3>2 DEF PlanKeeps, Dirs
    <3>5. Decides(answer.approach, "next_approach")
      BY <1>1, <2>1, <2>3, <2>7, <3>1, <3>2, <3>3, <3>4 DEF Decides
    <3> QED BY <2>1, <2>7, <3>2, <3>4, <3>5 DEF Archives
  <2> QED BY <2>1, <2>4, <2>5, <2>6, <2>7
<1> QED BY <1>4, <1>5

\* What is cleared when a park or a pause ends.
LEMMA ReleasedDoes ==
    ASSUME status \in Statuses, status' = Released(status)
    PROVE  FileKeeps({"state", "question"}) /\ Freed
BY DEF Released, FileKeeps, Freed, Statuses

LEMMA TimeoutDoes ==
    ASSUME IInv, InputTimesOut
    PROVE  \E a \in Approaches : Cures(a) \/ Archives(a)
<1> DEFINE q == status.question
           a == q.approach
           p == [proc EXCEPT !.gateOpen = TRUE]
<1>1. /\ status \in Statuses /\ dir \in Dirs /\ proc \in Processes /\ dir.charged \in Nat
      /\ step = "paused" /\ at = "wait" /\ ~proc.gateOpen /\ boots' = boots
      /\ q.kind = "findings"
  BY DEF IInv, TypeOK, Dirs, InputTimesOut
<1>2. a \in Approaches
  BY <1>1 DEF Statuses, Questions, FindingsQuestions, SecretQuestions, NoQuestion
<1>3. /\ FileKeeps({"state", "question"}) /\ Freed
      /\ FileKeeps({"state", "question", "answer"})
  <2>1. FileKeeps({"state", "question"}) /\ Freed
    BY <1>1, ReleasedDoes DEF InputTimesOut
  <2> QED BY <2>1 DEF FileKeeps
<1>4. \/ /\ TakeCure(q.judge, a, dir, q.findings, p)
         /\ RoundsAllowed(a) - status.cures[a] > 0
      \/ Archive(q.judge, a, dir, p)
  BY DEF InputTimesOut, TimeoutOutcome, InputOnTimeout
<1>5. RoundsAllowed(a) - status.cures[a] > 0 => status.cures[a] < RoundsAllowed(a)
  <2>1. status.cures[a] \in Int /\ RoundsAllowed(a) \in Int
    BY <1>1, <1>2, SupervisorAssumption DEF Statuses, RoundsAllowed
  <2> QED BY <2>1
<1>6. /\ MemoryKeeps({"judge", "target", "gateOpen"}) /\ proc'.gateOpen
      /\ proc'.target = a /\ step' = step
  <2>1. /\ proc' = [p EXCEPT !.judge = q.judge, !.target = a] /\ step' = step
    BY <1>4 DEF TakeCure, Archive
  <2> QED BY <1>1, <2>1 DEF MemoryKeeps, Processes
<1>7. dir'.charged = dir.charged => Charges
  BY <1>1 DEF Charges
<1> HIDE DEF p
<1>8. CASE /\ TakeCure(q.judge, a, dir, q.findings, p)
           /\ status.cures[a] < RoundsAllowed(a)
  <2>1. dir' \in {dir, [dir EXCEPT !.work = "cure"]} /\ at' = "cure_count"
    BY <1>8 DEF TakeCure
  <2>2. PlanKeeps({"work", "charged"}) /\ Charges
    BY <1>1, <1>7, <2>1 DEF PlanKeeps, Dirs
  <2>3. Decides(a, "cure")
    BY <1>1, <1>3, <1>6, <2>2 DEF Decides
  <2> QED BY <1>2, <1>8, <2>1, <2>2, <2>3 DEF Cures
<1>9. CASE Archive(q.judge, a, dir, p)
  <2>1. dir' = [dir EXCEPT !.archived = @ \cup {a}] /\ at' = "archived"
    BY <1>9 DEF Archive
  <2>2. PlanKeeps({"archived", "charged"}) /\ Charges /\ dir'.archived = dir.archived \cup {a}
    BY <1>1, <1>7, <2>1 DEF PlanKeeps, Dirs
  <2>3. Decides(a, "next_approach")
    BY <1>1, <1>3, <1>6, <2>2 DEF Decides
  <2> QED BY <1>2, <2>1, <2>2, <2>3 DEF Archives
<1> QED BY <1>4, <1>5, <1>8, <1>9

-----------------------------------------------------------------------------
(* Starts, requests and the world *)

LEMMA BootDoes ==
    ASSUME IInv, NEW a \in {0, 1}, NEW i \in {0, 1}, NEW t \in BOOLEAN, Boot(a, i, t)
    PROVE  Starts
<1> DEFINE first == IF dir.planOf = 0 THEN 1 ELSE status.approach
<1>1. /\ status \in Statuses /\ dir \in Dirs /\ status.budget \in Nat
      /\ at = "down" /\ status.state # "finishing" /\ boots' = boots + 1
      /\ passed' = passed /\ dir' = dir /\ step' = ResumePoint.step
  BY DEF IInv, TypeOK, Statuses, Boot
<1>2. status' = OpeningWrite(status.budget + i)
  BY DEF Boot
<1>3. /\ FileKeeps({"state", "verdict", "exhausted", "question", "budget"})
      /\ status'.state = "running" /\ status'.verdict = "none"
      /\ status'.exhausted = "none" /\ status'.question = NoQuestion
      /\ status'.budget = status.budget + i
  BY <1>1, <1>2 DEF OpeningWrite, FileKeeps, Statuses
<1>4. status.state = "exhausted" /\ status.exhausted = "iterations" => i > 0
  BY DEF Boot, OpeningBudget
<1>5. proc' = [Fresh(first, job') EXCEPT
                    !.gateOpen = OpeningQuestion.kind = "none",
                    !.skip = ResumePoint.skip, !.parked = OpeningQuestion]
  BY Zenon DEF Boot
<1>6. ASSUME NEW f, NEW m, NEW g, NEW k, NEW q
      PROVE  LET p == [Fresh(f, m) EXCEPT !.gateOpen = g, !.skip = k, !.parked = q]
             IN  /\ p.approach = f /\ p.guard = "none" /\ p.target = 0
                 /\ p.judge = "none" /\ p.parked = q /\ p.gateOpen = g
                 /\ p.skip = k
  BY DEF Fresh
<1>7. /\ proc'.approach = first /\ proc'.guard = "none" /\ proc'.target = 0
      /\ proc'.judge = "none" /\ proc'.parked = OpeningQuestion
      /\ proc'.gateOpen = (OpeningQuestion.kind = "none")
      /\ proc'.skip = ResumePoint.skip
  <2> DEFINE g == OpeningQuestion.kind = "none"
             k == ResumePoint.skip
             q == OpeningQuestion
             m == job'
  <2>1. proc' = [Fresh(first, m) EXCEPT !.gateOpen = g, !.skip = k, !.parked = q]
    BY <1>5
  <2> HIDE DEF first, g, k, q, m
  <2>2. /\ proc'.approach = first /\ proc'.guard = "none" /\ proc'.target = 0
        /\ proc'.judge = "none" /\ proc'.parked = q /\ proc'.gateOpen = g
        /\ proc'.skip = k
    BY <1>6, <2>1
  <2> QED BY <2>2 DEF g, k, q
<1>8. at' = IF OpeningQuestion.kind = "none" THEN "entry" ELSE "opening"
  BY DEF Boot
<1>9. PlanKeeps({})
  BY <1>1 DEF PlanKeeps
<1>10. /\ status'.budget \in {status.budget, status.budget + 1}
       /\ status.state = "exhausted" /\ status.exhausted = "iterations" =>
              status'.budget = status.budget + 1
  BY <1>1, <1>3, <1>4
<1> QED BY <1>1, <1>3, <1>7, <1>8, <1>9, <1>10, Zenon DEF Starts

LEMMA StartsDo ==
    ASSUME IInv, Repark \/ ReflectDone \/ PromoteRecorded
    PROVE  ParksAgain \/ Promotes
<1>1. status \in Statuses /\ proc \in Processes
  BY DEF IInv, TypeOK
<1>2. CASE Repark
  BY <1>1, <1>2 DEF Repark, ParksAgain, FileKeeps, PlanKeeps, MemoryKeeps, Statuses
<1>3. CASE ReflectDone
  <2>1. status.state = "finishing"
    BY <1>3 DEF ReflectDone, IInv, SettledShape
  <2> QED BY <1>1, <1>3, <2>1
          DEF ReflectDone, Promotes, FileKeeps, PlanKeeps, Exit, Statuses
<1>4. CASE PromoteRecorded
  <2>1. status.pending \in RunTerminalStates
    BY <1>4 DEF PromoteRecorded, IInv, SettledShape
  <2> QED BY <1>1, <1>4, <2>1 DEF PromoteRecorded, Promotes, FileKeeps, PlanKeeps, Statuses
<1> QED BY <1>2, <1>3, <1>4

LEMMA RequestsDo ==
    ASSUME IInv, Pause \/ Unpause \/ SecretHandled \/ Abort \/ Steer
    PROVE  Pauses \/ Releases \/ Ticks
<1>1. /\ status \in Statuses /\ dir \in Dirs /\ proc \in Processes
      /\ passed' = passed /\ boots' = boots /\ step' = step
  BY DEF IInv, TypeOK, Pause, Unpause, SecretHandled, Abort, Steer
<1>2. PlanKeeps({}) /\ PlanKeeps({"early"}) /\ dir'.early = dir.early
  BY <1>1 DEF PlanKeeps, Dirs, Pause, Unpause, SecretHandled, Abort, Steer
<1>3. CASE Pause
  <2>1. MemoryKeeps({"gateOpen"}) /\ ~proc'.gateOpen /\ at' = at
    BY <1>1, <1>3 DEF Pause, MemoryKeeps, Processes
  <2>2. /\ FileKeeps({"state"})
        /\ IF status.state \in {"finishing", "awaiting_input"}
           THEN status'.state = status.state ELSE status'.state = "paused"
    BY <1>1, <1>3 DEF Pause, FileKeeps, Statuses
  <2> QED BY <1>1, <1>2, <1>3, <2>1, <2>2 DEF Pauses, Pause, Reachable
<1>4. CASE Unpause \/ SecretHandled \/ Abort
  <2>1. MemoryKeeps({"gateOpen", "aborted"}) /\ proc'.gateOpen
    BY <1>1, <1>4 DEF Unpause, SecretHandled, Abort, MemoryKeeps, Processes
  <2>2. FileKeeps({"state", "question"}) /\ Freed
    BY <1>1, <1>4, ReleasedDoes DEF Unpause, SecretHandled, Abort
  <2>3. AtAwait /\ Stirs
    BY <1>1, <1>4 DEF Unpause, SecretHandled, Abort, Reachable, Woken, Stirs
  <2> QED BY <1>1, <1>2, <2>1, <2>2, <2>3 DEF Releases
<1>5. CASE Steer
  BY <1>1, <1>2, <1>5 DEF Steer, Ticks, FileKeeps, MemoryKeeps
<1> QED BY <1>3, <1>4, <1>5

\* The answer, and the kill inside it.
LEMMA AnswersDo ==
    ASSUME IInv, NEW waive \in SUBSET status.question.findings,
           NEW rounds \in {Unset, 0, 1}, NEW granted \in {0, 1},
           \/ Answer(waive, rounds, granted) \/ KilledInAnswer(waive, rounds, granted)
    PROVE  IsAnswered \/ DiesAnswered
<1> DEFINE plan == AnswerPlan(waive, rounds, granted)
           st == Answered(plan)
<1>1. /\ status \in Statuses /\ dir \in Dirs /\ proc \in Processes
      /\ passed' = passed /\ boots' = boots
      /\ AtAwait /\ status.state = "awaiting_input" /\ status.question.kind = "findings"
      /\ plan.outcome # "refused"
  BY DEF IInv, TypeOK, Answer, KilledInAnswer, Answerable
<1>2. Rounds(rounds, granted) \in 0 .. 1
  BY DEF Rounds, Unset
<1>3. /\ plan.outcome \in {"verified", "cure", "next_approach"} /\ plan.rounds \in 0 .. 1
      /\ plan.outcome = "cure" => plan.rounds > 0
  BY <1>1, <1>2 DEF AnswerPlan, PlanAnswer, Refused
<1>4. /\ st.topUps = [status.topUps EXCEPT ![proc.approach] = @ + plan.rounds]
      /\ st.answer = [outcome |-> plan.outcome, judge |-> status.question.judge,
                      approach |-> status.question.approach]
      /\ st.state = status.state /\ st.verdict = status.verdict
      /\ st.pending = status.pending /\ st.exhausted = status.exhausted
      /\ st.approach = status.approach /\ st.question = status.question
      /\ st.cures = status.cures /\ st.budget = status.budget
  <2> HIDE DEF plan
  <2> QED BY <1>1 DEF Answered, Statuses
<1>5. PlanKeeps({})
  BY <1>1 DEF Answer, KilledInAnswer, PlanKeeps, Dirs
<1>6. CASE Answer(waive, rounds, granted)
  <2>1. /\ status' = Released(st)
        /\ proc' = [proc EXCEPT !.max = @ + plan.granted, !.gateOpen = TRUE]
        /\ Woken /\ step' = step
    BY <1>6 DEF Answer
  <2> HIDE DEF plan, st
  <2>2. /\ status'.topUps = st.topUps /\ status'.answer = st.answer
        /\ FileKeeps({"state", "question", "topUps", "answer"}) /\ Freed
    <3>1. status' = [st EXCEPT !.state = "running", !.question = NoQuestion]
      BY <1>1, <1>4, <2>1 DEF Released
    <3>2. st \in Statuses
      <4> USE DEF plan, st
      <4> QED BY <1>6, AnsweredType DEF Answer
    <3> QED BY <1>1, <1>4, <3>1, <3>2 DEF FileKeeps, Freed, Statuses
  <2>3. MemoryKeeps({"gateOpen", "max"}) /\ proc'.gateOpen
    BY <1>1, <2>1 DEF MemoryKeeps, Processes
  <2>4. Stirs
    BY <2>1 DEF Woken, Stirs
  <2>5. Records
    BY <1>1, <1>3, <1>4, <1>5, <2>2 DEF Records
  <2> QED BY <1>5, <2>2, <2>3, <2>4, <2>5 DEF IsAnswered
<1>7. CASE KilledInAnswer(waive, rounds, granted)
  <2>1. status' = st /\ Exit /\ "kill_answered" \in Environment
    BY <1>7 DEF KilledInAnswer
  <2> HIDE DEF plan, st
  <2>2. FileKeeps({"topUps", "answer"})
    BY <1>4, <2>1 DEF FileKeeps
  <2>3. Records
    BY <1>1, <1>3, <1>4, <1>5, <2>1 DEF Records
  <2> QED BY <2>1, <2>2, <2>3 DEF DiesAnswered
<1> QED BY <1>6, <1>7

LEMMA PatchesDo ==
    ASSUME IInv, NEW max, NEW allowed, NEW verdict \in {"verified", "rejected"},
           \/ \E budget \in Patches : PatchIterations(budget)
           \/ PatchMaxApproaches(max) \/ PatchDeadline
           \/ PatchCureRounds(allowed) \/ EarlyVerdict(verdict) \/ DeadlinePasses
    PROVE  Rebudgets \/ Reallows \/ Ticks
<1>1. /\ status \in Statuses /\ dir \in Dirs /\ proc \in Processes
      /\ boots' = boots /\ step' = step /\ at' = at
  BY DEF IInv, TypeOK, PatchIterations, PatchMaxApproaches, PatchDeadline,
         PatchCureRounds, EarlyVerdict, DeadlinePasses
<1>2. CASE \E budget \in Patches : PatchIterations(budget)
  <2>0. PICK budget \in Patches : PatchIterations(budget)
    BY <1>2
  <2>1. FileKeeps({"budget"}) /\ status'.budget = budget
    BY <1>1, <2>0 DEF PatchIterations, FileKeeps, Statuses
  <2> QED BY <1>1, <2>0, <2>1 DEF PatchIterations, Rebudgets, PlanKeeps, MemoryKeeps
<1>3. CASE PatchMaxApproaches(max) \/ PatchDeadline \/ DeadlinePasses
  <2>1. MemoryKeeps({"max", "timeUp"})
    BY <1>1, <1>3 DEF PatchMaxApproaches, PatchDeadline, DeadlinePasses, MemoryKeeps,
                      Processes
  <2> QED BY <1>1, <1>3, <2>1 DEF PatchMaxApproaches, PatchDeadline, DeadlinePasses,
                                  Ticks, FileKeeps, PlanKeeps
<1>4. CASE PatchCureRounds(allowed)
  <2>1. FileKeeps({"topUps"})
    BY <1>1, <1>4 DEF PatchCureRounds, FileKeeps, Statuses
  <2> QED BY <1>1, <1>4, <2>1 DEF PatchCureRounds, Reallows, PlanKeeps, MemoryKeeps
<1>5. CASE EarlyVerdict(verdict)
  <2>1. PlanKeeps({"early"})
    BY <1>1, <1>5 DEF EarlyVerdict, PlanKeeps, Dirs
  <2> QED BY <1>1, <1>5, <2>1 DEF EarlyVerdict, Ticks, FileKeeps, MemoryKeeps
<1> QED BY <1>2, <1>3, <1>4, <1>5

-----------------------------------------------------------------------------
(* These are all *)

LEMMA EngineDoes == IInv /\ EngineStep => Does
<1> SUFFICES ASSUME IInv, EngineStep PROVE Does
  OBVIOUS
<1> USE DEF Does
<1>1. CASE Repark \/ ReflectDone
  BY <1>1, StartsDo
<1>2. CASE \/ PlanningStep \/ PlanningProducesTasks
           \/ \E same \in BOOLEAN : PlanningDies(same)
           \/ ReplanStep
  BY <1>2, PlanningStepDoes, PlanningEndDoes, ReplanDoes
<1>3. CASE \/ WorkerSpent \/ WorkerWaits \/ WorkerSteers \/ WorkerRuns
           \/ WorkerGraphFault \/ WorkerHasNothingToRun
  BY <1>3, WorkerTurnDoes
<1>4. CASE \/ WorkerProgress
           \/ \E left \in {"none", "plan", "cure"} : WorkerReadyForReview(left)
           \/ \E recurs \in BOOLEAN : WorkerStagnates(recurs)
           \/ WorkerFindsSecret
  <2>1. proc.approach \in Approaches
    BY DEF IInv, TypeOK, Processes
  <2> QED BY <1>4, <2>1, WorkerEndDoes
<1>5. CASE \/ SteerStep
           \/ \E work \in {"none", "plan", "cure"}, kept \in 0 .. SteerBound :
                 SteerSettles(work, kept)
           \/ \E work \in {"none", "plan", "cure"} : SteerAnswersInError(work)
           \/ \E clean \in BOOLEAN : SteerFails(clean)
  BY <1>5, SteerDoes
<1>6. CASE ReviewStep \/ VerdictGateStep
  BY <1>6, JudgeStepDoes
<1>7. CASE \E timedOut \in BOOLEAN : ReviewInterrupted(timedOut)
  BY <1>7, InterruptedDoes
<1>8. CASE ReviewVerified \/ GateApproved
  BY <1>8, JudgesVerify
<1>9. CASE \/ \E blocking \in Rejections, escalation \in BOOLEAN :
                 ReviewRejected(blocking, escalation)
           \/ \E blocking \in Rejections : GateRejected(blocking)
  BY <1>9, JudgesReject
<1>10. CASE \/ \E contract \in BOOLEAN : JudgeFault(contract)
            \/ BackoffEnds \/ GateOpens
  BY <1>10, FaultDoes
<1>11. CASE CountCure \/ CureStep \/ Archived
  BY <1>11, SecondWriteDoes
<1>12. CASE PausedStep \/ PausedWakes
  BY <1>12, PausedDoes
<1>13. CASE InputTimesOut
  BY <1>13, TimeoutDoes
<1> QED
  BY <1>1, <1>2, <1>3, <1>4, <1>5, <1>6, <1>7, <1>8, <1>9, <1>10, <1>11, <1>12, <1>13
     DEF EngineStep

\* Every step of the run supervisor is of one of the kinds.
LEMMA NextDoes == IInv /\ [Next]_vars => Does
<1> SUFFICES ASSUME IInv, [Next]_vars PROVE Does
  OBVIOUS
<1>1. CASE EngineStep
  BY <1>1, EngineDoes
<1>2. CASE OperatorStep
  <2> USE DEF Does
  <2>1. CASE Pause \/ Unpause \/ SecretHandled \/ Abort \/ Steer
    BY <2>1, RequestsDo
  <2>2. CASE \E waive \in SUBSET status.question.findings,
                rounds \in {Unset, 0, 1}, granted \in {0, 1} :
                Answer(waive, rounds, granted)
    BY <2>2, AnswersDo
  <2>3. CASE \E moreApproaches, moreIterations \in {0, 1}, moreTime \in BOOLEAN :
                Boot(moreApproaches, moreIterations, moreTime)
    BY <2>3, BootDoes
  <2>4. CASE PromoteRecorded
    BY <2>4, StartsDo
  <2>5. CASE \E budget \in Patches : PatchIterations(budget)
    <3>1. "verified" \in {"verified", "rejected"}
      OBVIOUS
    <3> QED BY <2>5, <3>1, PatchesDo
  <2>6. CASE \/ \E max \in Approaches : PatchMaxApproaches(max)
             \/ PatchDeadline
             \/ \E allowed \in 0 .. CureCeiling + TopUpBound : PatchCureRounds(allowed)
    <3>1. "verified" \in {"verified", "rejected"}
      OBVIOUS
    <3> QED BY <2>6, <3>1, PatchesDo
  <2> QED BY <1>2, <2>1, <2>2, <2>3, <2>4, <2>5, <2>6 DEF OperatorStep
<1>3. CASE WorldStep
  <2> USE DEF Does
  <2>1. CASE \/ \E verdict \in {"verified", "rejected"} : EarlyVerdict(verdict)
             \/ DeadlinePasses
    BY <2>1, PatchesDo
  <2>2. CASE Kill
    <3>1. Dies
      BY <2>2 DEF Kill, Dies, FileKeeps, PlanKeeps
    <3> QED BY <3>1
  <2>3. CASE \E waive \in SUBSET status.question.findings,
                rounds \in {Unset, 0, 1}, granted \in {0, 1} :
                KilledInAnswer(waive, rounds, granted)
    BY <2>3, AnswersDo
  <2> QED BY <1>3, <2>1, <2>2, <2>3 DEF WorldStep
<1>4. CASE AtRest \/ UNCHANGED vars
  BY <1>4 DEF AtRest, Does
<1> QED BY <1>1, <1>2, <1>3, <1>4 DEF Next

=============================================================================
