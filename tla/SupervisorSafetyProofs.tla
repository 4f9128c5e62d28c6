------------------------ MODULE SupervisorSafetyProofs ------------------------
(***************************************************************************)
(* Proofs, for every value of the constants, of what the run supervisor    *)
(* promises: its outcomes, its budgets, its parks and its approaches.      *)
(* Each conjunct of SupervisorInvariants is shown to be kept by every kind *)
(* of step; the properties follow.                                         *)
(***************************************************************************)
EXTENDS SupervisorSteps

-----------------------------------------------------------------------------
(* What several kinds of step have in common *)

\* The end of a run leaves the reflection, or no process.
LEMMA EndsDo ==
    ASSUME Stops \/ Succeeds
    PROVE  /\ at' \in {"reflect", "down"}
           /\ at' = "reflect" => step' = step /\ proc' = proc
           /\ at' = "down" => step' = "planning" /\ proc' = Idle
           /\ FileKeeps({"state", "verdict", "pending", "exhausted", "approach", "answer"})
           /\ PlanKeeps({"charged", "work"})
           /\ status'.state \in RunTerminalStates \cup {"finishing", "exhausted"}
           /\ Charges /\ boots' = boots
<1> USE DEF Exit, EntryState, RunTerminalStates
<1>1. CASE Stops
  BY <1>1 DEF Stops, EndsOrHolds, Outcome, Holds, FileKeeps, PlanKeeps
<1>2. CASE Succeeds
  BY <1>2 DEF Succeeds, Outcome, FileKeeps, PlanKeeps
<1> QED BY <1>1, <1>2

\* The memory of no process.
LEMMA IdleFields ==
    /\ Idle.approach = 1 /\ Idle.gateOpen /\ ~Idle.skip /\ Idle.guard = "none"
    /\ Idle.parked = NoQuestion /\ Idle.target = 0
BY DEF Idle, Fresh

\* The kinds of step that leave the process where it would be without them.
Requests ==
    \/ Pauses \/ Releases \/ IsAnswered \/ Rebudgets \/ Reallows \/ Ticks

\* A request moves the loop at most from the gate to behind it.
LEMMA RequestsStir ==
    ASSUME Requests
    PROVE  Stirs /\ boots' = boots /\ PlanKeeps({"early"})
BY DEF Requests, Pauses, Releases, IsAnswered, Records, Rebudgets, Reallows, Ticks, Stirs,
       PlanKeeps

\* What a request leaves of the process and of the file.
LEMMA RequestsKeepFields ==
    ASSUME Requests
    PROVE  /\ MemoryKeeps({"gateOpen", "aborted", "max", "timeUp"})
           /\ FileKeeps({"state", "question", "topUps", "answer", "budget"})
<1>1. CASE Pauses \/ Releases
  BY <1>1 DEF Pauses, Releases, MemoryKeeps, FileKeeps
<1>2. CASE IsAnswered
  BY <1>2 DEF IsAnswered, MemoryKeeps, FileKeeps
<1>3. CASE Rebudgets \/ Reallows \/ Ticks
  BY <1>3 DEF Rebudgets, Reallows, Ticks, MemoryKeeps, FileKeeps
<1> QED BY <1>1, <1>2, <1>3 DEF Requests

\* What a park asks.
LEMMA ParksAsk ==
    ASSUME Parks
    PROVE  /\ status'.question.kind \in {"secret", "findings"}
           /\ status'.question.approach = proc.approach
           /\ status'.question.kind = "secret" =>
                  status'.question.judge = "none" /\ step' = "worker"
           /\ status'.question.kind = "findings" =>
                  /\ step \in Judges /\ step' = "paused" /\ status'.question.judge = step
                  /\ status'.question.findings \in Rejections
<1>1. CASE status'.question = SecretQuestion(proc.approach) /\ step' = "worker"
  BY <1>1 DEF SecretQuestion, NoQuestion
<1>2. CASE /\ step \in Judges /\ step' = "paused"
           /\ \E trigger \in Triggers, blocking \in Rejections :
                  status'.question =
                      FindingsQuestion(step, trigger, blocking, proc.approach)
  <2>1. PICK trigger \in Triggers, blocking \in Rejections :
            status'.question = FindingsQuestion(step, trigger, blocking, proc.approach)
    BY <1>2
  <2> QED BY <1>2, <2>1 DEF FindingsQuestion
<1> QED BY <1>1, <1>2 DEF Parks

\* The approaches questions and answers name.
LEMMA QuestionsTyped ==
    ASSUME IInv
    PROVE  /\ status.question.approach \in Int /\ status.answer.approach \in Int
           /\ proc.parked.approach \in Int
<1>1. /\ status.question \in Questions /\ proc.parked \in Questions
      /\ status.answer \in Answers
  BY DEF IInv, TypeOK, Statuses, Processes
<1>2. \A q \in Questions : q.approach \in Int
  BY DEF Questions, FindingsQuestions, SecretQuestions, NoQuestion, Approaches
<1>3. \A a \in Answers : a.approach \in Int
  BY DEF Answers, NoAnswer, Approaches
<1> QED BY <1>1, <1>2, <1>3

\* An answer is a judge's the question was.
LEMMA AnswersName ==
    ASSUME Does
    PROVE  status'.answer.judge \in {"none", status.answer.judge, status.question.judge}
<1> USE DEF NoAnswer
<1>1. CASE Stops \/ Dispatches \/ Skips \/ Ingests \/ Replans \/ PlansAnew \/ Turns \/ BacksOff
  BY <1>1 DEF Stops, Dispatches, Skips, Ingests, Replans, PlansAnew, Turns, BacksOff, FileKeeps
<1>2. CASE Succeeds
  BY <1>2 DEF Succeeds
<1>3. CASE \E a \in Approaches : Cures(a) \/ Archives(a)
  BY <1>3 DEF Cures, Archives, Decides, FileKeeps
<1>4. CASE Counts \/ Parks \/ Waits \/ Wakes \/ Starts \/ ParksAgain \/ Promotes
  BY <1>4 DEF Counts, Parks, Waits, Wakes, Starts, ParksAgain, Promotes, FileKeeps
<1>5. CASE Requests \/ DiesAnswered
  BY <1>5 DEF Requests, Pauses, Releases, IsAnswered, DiesAnswered, Records, Rebudgets, Reallows,
              Ticks, FileKeeps
<1>6. CASE Dies \/ UNCHANGED vars
  BY <1>6 DEF Dies, vars, FileKeeps
<1> QED BY <1>1, <1>2, <1>3, <1>4, <1>5, <1>6 DEF Does, Requests

-----------------------------------------------------------------------------
(* Stands *)

LEMMA StandsInit == Init => Stands
BY DEF Init, Stands, Idle, Fresh, NoQuestion, NoAnswer, EntryState

LEMMA StandsKept ==
    ASSUME IInv, Stands, Does
    PROVE  Stands'
<1> USE DEF Judges
<1>0. /\ status \in Statuses /\ proc \in Processes /\ step \in Steps /\ at \in Places
  BY DEF IInv, TypeOK
<1>a. status'.answer.judge \in {"none", status.answer.judge, status.question.judge}
  BY AnswersName
<1> USE <1>a
<1>1. CASE Stops \/ Succeeds
  BY <1>1, EndsDo, IdleFields DEF Stands, FileKeeps, NoQuestion
<1>2. CASE Dispatches \/ Skips
  BY <1>2 DEF Dispatches, Skips, Stands, FileKeeps, MemoryKeeps
<1>3. CASE Ingests \/ Replans \/ PlansAnew
  BY <1>3 DEF Ingests, Replans, PlansAnew, Stands, FileKeeps, MemoryKeeps
<1>4. CASE Turns \/ BacksOff
  BY <1>4 DEF Turns, BacksOff, Stands, FileKeeps, MemoryKeeps
<1>5. CASE \E a \in Approaches : Cures(a) \/ Archives(a)
  BY <1>5 DEF Cures, Archives, Decides, Freed, Stands, FileKeeps, MemoryKeeps, NoQuestion
<1>6. CASE Counts \/ Waits \/ Wakes
  BY <1>6 DEF Counts, Waits, Wakes, Stands, FileKeeps, MemoryKeeps
<1>7. CASE Parks
  BY <1>7, ParksAsk DEF Parks, Stands, FileKeeps, MemoryKeeps
<1>8. CASE Starts
  BY <1>8 DEF Starts, Stands, FileKeeps, ResumePoint, OpeningQuestion, NoQuestion
<1>9. CASE ParksAgain \/ Promotes \/ Dies \/ DiesAnswered
  BY <1>9, IdleFields DEF ParksAgain, Promotes, Dies, DiesAnswered, Exit, Stands,
                          FileKeeps, MemoryKeeps, EntryState, NoQuestion
<1>10. CASE Requests
  <2>1. Stirs /\ MemoryKeeps({"gateOpen", "aborted", "max", "timeUp"})
    BY <1>10, RequestsStir, RequestsKeepFields
  <2>2. status'.question \in {status.question, NoQuestion}
    BY <1>10 DEF Requests, Pauses, Releases, IsAnswered, Rebudgets, Reallows, Ticks, Freed,
                 FileKeeps
  <2> QED BY <1>0, <2>1, <2>2 DEF Stirs, Stands, MemoryKeeps, NoQuestion
<1>11. CASE UNCHANGED vars
  BY <1>11 DEF vars, Stands
<1> QED BY <1>1, <1>2, <1>3, <1>4, <1>5, <1>6, <1>7, <1>8, <1>9, <1>10, <1>11
        DEF Does, Requests


-----------------------------------------------------------------------------
(* GateKept *)

LEMMA GateKeptInit == Init => GateKept
BY DEF Init, GateKept, NoQuestion

LEMMA GateKeptKept ==
    ASSUME IInv, Stands, GateKept, Does
    PROVE  GateKept'
<1> USE DEF RunTerminalStates
<1>1. CASE Stops \/ Succeeds
  BY <1>1, EndsDo DEF GateKept, FileKeeps
<1>2. CASE Dispatches \/ Skips
  BY <1>2 DEF Dispatches, Skips, GateKept, FileKeeps, MemoryKeeps
<1>3. CASE Ingests \/ Replans \/ PlansAnew
  BY <1>3 DEF Ingests, Replans, PlansAnew, GateKept, FileKeeps, MemoryKeeps
<1>4. CASE Turns \/ BacksOff
  BY <1>4 DEF Turns, BacksOff, GateKept, FileKeeps, MemoryKeeps
<1>5. CASE \E a \in Approaches : Cures(a) \/ Archives(a)
  BY <1>5 DEF Cures, Archives, Decides, Freed, GateKept, FileKeeps, MemoryKeeps, NoQuestion
<1>6. CASE Counts \/ Waits \/ Wakes
  BY <1>6 DEF Counts, Waits, Wakes, GateKept, FileKeeps, MemoryKeeps
<1>7. CASE Parks
  BY <1>7, ParksAsk DEF Parks, GateKept
<1>8. CASE Starts
  <2>1. proc'.gateOpen = (OpeningQuestion.kind = "none")
    BY <1>8 DEF Starts
  <2>2. proc'.gateOpen <=> OpeningQuestion.kind = "none"
    BY <2>1, Zenon
  <2>3. /\ at' = IF OpeningQuestion.kind = "none" THEN "entry" ELSE "opening"
        /\ status'.state = "running" /\ status'.question = NoQuestion
        /\ proc'.parked = OpeningQuestion
    BY <1>8 DEF Starts
  <2> QED BY <2>2, <2>3 DEF GateKept, NoQuestion
<1>9. CASE ParksAgain \/ Promotes
  BY <1>9 DEF ParksAgain, Promotes, GateKept, FileKeeps, MemoryKeeps, IInv, SettledShape
<1>10. CASE Dies \/ DiesAnswered
  BY <1>10 DEF Dies, DiesAnswered, Exit, GateKept, FileKeeps
<1>11. CASE Requests
  <2>1. CASE Pauses
    BY <2>1 DEF Pauses, AtAwait, GateKept, FileKeeps, MemoryKeeps, IInv, SettledShape
  <2>2. CASE Releases \/ IsAnswered
    BY <2>2 DEF Releases, IsAnswered, Records, Stirs, Freed, AtAwait, GateKept, FileKeeps,
                MemoryKeeps, NoQuestion
  <2>3. CASE Rebudgets \/ Reallows \/ Ticks
    BY <2>3 DEF Rebudgets, Reallows, Ticks, GateKept, FileKeeps, MemoryKeeps
  <2> QED BY <1>11, <2>1, <2>2, <2>3 DEF Requests
<1>12. CASE UNCHANGED vars
  BY <1>12 DEF vars, GateKept
<1> QED BY <1>1, <1>2, <1>3, <1>4, <1>5, <1>6, <1>7, <1>8, <1>9, <1>10, <1>11, <1>12
        DEF Does, Requests

-----------------------------------------------------------------------------
(* Paid *)

LEMMA PaidInit == Init => Paid
BY SupervisorAssumption DEF Init, Paid, ChargedWithinBudget

\* An iteration is charged where it was paid for.
LEMMA ChargesPaid ==
    ASSUME IInv, Paid, Charges, status'.budget = status.budget
    PROVE  ChargedWithinBudget' /\ dir'.charged \in Nat
<1>1. dir.charged \in Nat /\ status.budget \in Nat
  BY DEF IInv, TypeOK, Dirs, Statuses
<1> QED BY <1>1 DEF Paid, ChargedWithinBudget, Charges

LEMMA PaidKept ==
    ASSUME IInv, Stands, Paid, Does
    PROVE  Paid'
<1>0. dir.charged \in Nat /\ status.budget \in Nat
  BY DEF IInv, TypeOK, Dirs, Statuses
<1>1. ASSUME Charges, status'.budget = status.budget,
             at' \notin {"run", "gate", "woken", "backoff"}
      PROVE  Paid'
  BY <1>1, ChargesPaid DEF Paid
<1>2. ASSUME dir'.charged = dir.charged, status'.budget = status.budget,
             \/ at' \notin {"run", "gate", "woken", "backoff"}
             \/ step' = step /\ at \in {"run", "gate", "woken", "backoff"}
      PROVE  Paid'
  BY <1>2 DEF Paid, ChargedWithinBudget
<1>3. CASE Stops \/ Succeeds
  BY <1>1, <1>3, EndsDo DEF FileKeeps
<1>4. CASE Dispatches
  <2>1. CASE at \in {"woken", "backoff"} \/ step = "steer"
    <3>1. dir'.charged = dir.charged /\ status'.budget = status.budget /\ step' = step
      BY <1>0, <1>4, <2>1 DEF Dispatches, Charges, FileKeeps
    <3> QED BY <1>4, <2>1, <3>1 DEF Dispatches, Paid, ChargedWithinBudget
  <2>2. CASE at \in {"entry", "run"} /\ step # "steer"
    <3>1. /\ dir'.charged < status.budget /\ status'.budget = status.budget
          /\ dir'.charged \in Nat
      BY <1>4, <2>2, ChargesPaid DEF Dispatches, FileKeeps
    <3> QED BY <1>0, <3>1 DEF Paid, ChargedWithinBudget
  <2> QED BY <1>4, <2>1, <2>2 DEF Dispatches
<1>5. CASE Skips \/ PlansAnew \/ Counts \/ Waits \/ Wakes \/ ParksAgain \/ Promotes
  BY <1>2, <1>5 DEF Skips, PlansAnew, Counts, Waits, Wakes, ParksAgain, Promotes, FileKeeps,
                    PlanKeeps
<1>6. CASE Ingests \/ Replans \/ Turns \/ Parks
  BY <1>1, <1>6 DEF Ingests, Replans, Turns, Parks, FileKeeps
<1>7. CASE \E a \in Approaches : Cures(a) \/ Archives(a)
  BY <1>1, <1>7 DEF Cures, Archives, Decides, FileKeeps
<1>8. CASE BacksOff
  BY <1>2, <1>8 DEF BacksOff, FileKeeps, PlanKeeps
<1>9. CASE Starts
  <2>1. /\ dir'.charged = dir.charged /\ at' \notin {"run", "gate", "woken", "backoff"}
        /\ status'.budget = status.budget \/ status'.budget = status.budget + 1
    BY <1>9 DEF Starts, PlanKeeps
  <2> QED BY <1>0, <2>1 DEF Paid, ChargedWithinBudget
<1>10. CASE Rebudgets
  <2>1. /\ dir'.charged = dir.charged /\ step' = step /\ at' = at
        /\ status'.budget \in Patches /\ status'.budget \in Nat
        /\ status'.budget >= dir.charged + (IF at = "run" THEN 1 ELSE 0)
    BY <1>10, SupervisorAssumption DEF Rebudgets, PlanKeeps
  <2> QED BY <1>0, <2>1 DEF Paid, ChargedWithinBudget
<1>11. CASE Pauses \/ Releases \/ IsAnswered \/ Reallows \/ Ticks
  <2>1. dir'.charged = dir.charged /\ status'.budget = status.budget /\ Stirs
    BY <1>11, RequestsStir DEF Requests, Pauses, Releases, IsAnswered, Reallows, Ticks,
                               FileKeeps, PlanKeeps
  <2> QED BY <2>1 DEF Stirs, Paid, ChargedWithinBudget
<1>12. CASE Dies \/ DiesAnswered
  BY <1>2, <1>12 DEF Dies, DiesAnswered, Records, Exit, FileKeeps, PlanKeeps
<1>13. CASE UNCHANGED vars
  BY <1>13 DEF vars, Paid, ChargedWithinBudget
<1> QED BY <1>3, <1>4, <1>5, <1>6, <1>7, <1>8, <1>9, <1>10, <1>11, <1>12, <1>13 DEF Does

-----------------------------------------------------------------------------
(* OnFile *)

LEMMA OnFileInit == Init => OnFile
BY IdleFields DEF Init, OnFile, EntryState

LEMMA OnFileKept ==
    ASSUME IInv, Stands, OnFile, Does
    PROVE  OnFile'
<1> USE DEF Judges
<1>0. /\ status.approach \in Int /\ proc.approach \in Approaches /\ proc.approach # 0
      /\ proc.approach \in Int /\ step \in Steps
  BY DEF IInv, TypeOK, Statuses, Processes, Approaches
<1>1. CASE Stops \/ Succeeds
  <2>1. at # "down" /\ Announces
    BY <1>1 DEF Stops, Succeeds, Word, Announces, FileKeeps
  <2>2. dir'.planOf = dir.planOf /\ at' \in {"reflect", "down"}
    BY <1>1, EndsDo DEF PlanKeeps
  <2>3. CASE at' = "reflect"
    <3>1. step' = step /\ proc' = proc
      BY <1>1, <2>3, EndsDo
    <3> QED BY <2>1, <2>2, <2>3, <3>1 DEF OnFile, Announces
  <2>4. CASE at' = "down"
    <3>1. step' = "planning" /\ proc' = Idle
      BY <1>1, <2>4, EndsDo
    <3> QED BY <2>1, <2>2, <2>4, <3>1, IdleFields DEF OnFile, Announces
  <2> QED BY <2>2, <2>3, <2>4
<1>2. CASE Dispatches
  BY <1>0, <1>2 DEF Dispatches, Announces, OnFile, FileKeeps, PlanKeeps, MemoryKeeps
<1>3. CASE Skips
  BY <1>0, <1>3 DEF Skips, Announces, OnFile, FileKeeps, PlanKeeps, MemoryKeeps
<1>4. CASE Ingests
  BY <1>0, <1>4 DEF Ingests, OnFile, FileKeeps, MemoryKeeps
<1>5. CASE Replans
  BY <1>0, <1>5 DEF Replans, OnFile, Stands, FileKeeps, PlanKeeps, MemoryKeeps
<1>6. CASE PlansAnew
  BY <1>0, <1>6 DEF PlansAnew, ReplansForFree, OnFile, FileKeeps, PlanKeeps, MemoryKeeps
<1>7. CASE Turns
  BY <1>0, <1>7 DEF Turns, OnFile, Stands, FileKeeps, PlanKeeps, MemoryKeeps
<1>8. CASE BacksOff
  BY <1>0, <1>8 DEF BacksOff, OnFile, FileKeeps, PlanKeeps, MemoryKeeps
<1>9. CASE \E a \in Approaches : Cures(a) \/ Archives(a)
  BY <1>0, <1>9 DEF Cures, Archives, Decides, OnFile, FileKeeps, PlanKeeps, MemoryKeeps
<1>10. CASE Counts \/ Waits \/ Wakes \/ ParksAgain
  BY <1>0, <1>10 DEF Counts, Waits, Wakes, ParksAgain, OnFile, Stands, FileKeeps, PlanKeeps,
                     MemoryKeeps
<1>11. CASE Parks
  BY <1>0, <1>11 DEF Parks, OnFile, FileKeeps, PlanKeeps, MemoryKeeps
<1>12. CASE Starts
  BY <1>0, <1>12 DEF Starts, ResumePoint, OnFile, FileKeeps, PlanKeeps
<1>13. CASE Promotes \/ Dies \/ DiesAnswered
  BY <1>13, IdleFields DEF Promotes, Dies, DiesAnswered, Records, Exit, EntryState, OnFile,
                           FileKeeps, PlanKeeps
<1>14. CASE Requests
  <2>1. /\ Stirs /\ PlanKeeps({"early"})
        /\ MemoryKeeps({"gateOpen", "aborted", "max", "timeUp"})
        /\ FileKeeps({"state", "question", "topUps", "answer", "budget"})
    BY <1>14, RequestsStir, RequestsKeepFields
  <2> QED BY <2>1 DEF Stirs, OnFile, PlanKeeps, MemoryKeeps, FileKeeps
<1>15. CASE UNCHANGED vars
  BY <1>15 DEF vars, OnFile
<1> QED BY <1>1, <1>2, <1>3, <1>4, <1>5, <1>6, <1>7, <1>8, <1>9, <1>10, <1>11, <1>12, <1>13,
           <1>14, <1>15 DEF Does, Requests

-----------------------------------------------------------------------------
(* NotAhead *)

LEMMA NotAheadInit == Init => NotAhead
BY IdleFields DEF Init, NotAhead, NoQuestion, NoAnswer

LEMMA NotAheadKept ==
    ASSUME IInv, Stands, OnFile, NotAhead, Does
    PROVE  NotAhead'
<1> USE DEF Judges
<1>0. /\ status.approach \in Int /\ proc.approach \in Int /\ status.approach >= 1
      /\ NoQuestion.approach = 0 /\ NoAnswer.approach = 0
  BY DEF IInv, TypeOK, Statuses, Processes, Approaches, NoQuestion, NoAnswer
<1>1. CASE Stops \/ Succeeds
  <2>1. /\ status.approach <= status'.approach /\ status'.approach \in Int
        /\ status'.question = status.question
        /\ status'.answer \in {status.answer, NoAnswer}
    BY <1>0, <1>1 DEF Stops, Succeeds, Word, Announces, FileKeeps, OnFile
  <2>2. /\ at' \in {"reflect", "down"} /\ proc' \in {proc, Idle}
    BY <1>1, EndsDo
  <2>3. /\ status.question.approach \in Int /\ status.answer.approach \in Int
        /\ proc.parked.approach \in Int
    BY QuestionsTyped
  <2> QED BY <1>0, <2>1, <2>2, <2>3, IdleFields DEF NotAhead
<1>2. CASE Dispatches \/ Skips
  <2>1. /\ status.approach <= status'.approach /\ status'.approach \in Int
        /\ status'.question = status.question /\ status'.answer = status.answer
        /\ proc'.parked = proc.parked /\ at' \in {"entry", "run", "gate"}
    BY <1>0, <1>2 DEF Dispatches, Skips, Announces, FileKeeps, MemoryKeeps, OnFile
  <2>2. /\ status.question.approach \in Int /\ status.answer.approach \in Int
        /\ proc.parked.approach \in Int
    BY QuestionsTyped
  <2> QED BY <1>0, <2>1, <2>2 DEF NotAhead
<1>3. CASE Ingests \/ Replans \/ PlansAnew \/ Turns \/ BacksOff \/ Counts \/ Waits \/ Wakes
  <2>1. /\ status'.approach = status.approach /\ status'.question = status.question
        /\ status'.answer \in {status.answer, NoAnswer}
        /\ proc'.parked \in {proc.parked, status.question}
        /\ at' \in {"entry", "backoff", "wait"}
    BY <1>3 DEF Ingests, Replans, PlansAnew, Turns, BacksOff, Counts, Waits, Wakes, FileKeeps,
                MemoryKeeps
  <2> QED BY <1>0, <2>1 DEF NotAhead
<1>4. ASSUME NEW a \in Approaches, Cures(a) \/ Archives(a) PROVE NotAhead'
  <2>1. PICK outcome \in {"cure", "next_approach"} : Decides(a, outcome)
    BY <1>4 DEF Cures, Archives
  <2>2. /\ status'.approach = status.approach /\ proc'.parked = proc.parked
        /\ proc'.approach = proc.approach /\ proc'.target = a
        /\ status'.question \in {status.question, NoQuestion}
        /\ status'.answer \in {status.answer, NoAnswer}
    BY <2>1 DEF Decides, Freed, FileKeeps, MemoryKeeps
  <2>3. /\ a = proc.approach \/ a = status.answer.approach \/ a = status.question.approach
        /\ at = "run" \/ (at = "wait" /\ step = "paused")
    BY <2>1 DEF Decides
  <2>4. a <= proc.approach
    <3>1. at = "wait" => proc.approach = status.approach
      BY <2>3 DEF OnFile
    <3> QED BY <1>0, <2>1, <2>3, <3>1 DEF NotAhead, Decides
  <2> QED BY <1>0, <2>2, <2>4 DEF NotAhead
<1>5. CASE Parks
  <2>1. /\ status'.approach = status.approach /\ status'.answer = status.answer
        /\ proc'.parked = proc.parked /\ at' = "entry"
        /\ status'.question.approach = proc.approach
        /\ proc.approach = status.approach
    BY <1>5, ParksAsk DEF Parks, FileKeeps, MemoryKeeps, OnFile
  <2> QED BY <1>0, <2>1 DEF NotAhead
<1>6. CASE Starts
  <2>1. /\ status'.approach = status.approach /\ status'.answer = status.answer
        /\ status'.question = NoQuestion /\ proc'.parked = OpeningQuestion
        /\ at' \in {"entry", "opening"}
    BY <1>6 DEF Starts, FileKeeps
  <2> QED BY <1>0, <2>1 DEF NotAhead, OpeningQuestion
<1>7. CASE ParksAgain
  BY <1>7 DEF ParksAgain, NotAhead, FileKeeps, MemoryKeeps
<1>8. CASE Promotes \/ Dies
  BY <1>0, <1>8, IdleFields DEF Promotes, Dies, Exit, NotAhead, FileKeeps
<1>9. ASSUME Records, status'.approach = status.approach PROVE
        status'.answer.approach <= status'.approach
  BY <1>9 DEF Records, NotAhead
<1>10. CASE DiesAnswered
  BY <1>0, <1>9, <1>10, IdleFields DEF DiesAnswered, Exit, NotAhead, FileKeeps
<1>11. CASE Requests
  <2>1. /\ Stirs /\ MemoryKeeps({"gateOpen", "aborted", "max", "timeUp"})
        /\ status'.approach = status.approach
    BY <1>11, RequestsStir, RequestsKeepFields DEF FileKeeps
  <2>2. status'.question \in {status.question, NoQuestion}
    BY <1>11 DEF Requests, Pauses, Releases, IsAnswered, Rebudgets, Reallows, Ticks, Freed,
                 FileKeeps
  <2>3. status'.answer.approach <= status'.approach
    BY <1>9, <1>11, <2>1 DEF Requests, Pauses, Releases, IsAnswered, Rebudgets, Reallows, Ticks,
                             FileKeeps, NotAhead
  <2> QED BY <1>0, <2>1, <2>2, <2>3 DEF Stirs, NotAhead, MemoryKeeps
<1>12. CASE UNCHANGED vars
  BY <1>12 DEF vars, NotAhead
<1> QED BY <1>1, <1>2, <1>3, <1>4, <1>5, <1>6, <1>7, <1>8, <1>10, <1>11, <1>12
        DEF Does, Requests

-----------------------------------------------------------------------------
(* Asked: as long as no process is killed with an answer in hand *)

Surviving == "kill_answered" \notin Environment

\* This step does not.
Spares == ~DiesAnswered /\ (Dies => status.answer = NoAnswer)

LEMMA SurvivingSpares ==
    ASSUME Surviving
    PROVE  Spares
BY DEF Surviving, Spares, Dies, DiesAnswered

\* What a decision in a park is about: the approach in hand.
LEMMA DecidesOnThis ==
    ASSUME IInv, Stands, GateKept, OnFile, Asked, NEW a \in Approaches,
           NEW outcome \in {"cure", "next_approach"}, Decides(a, outcome)
    PROVE  /\ a = proc.approach /\ status.approach = proc.approach /\ dir.planOf # 0
           /\ step' = step /\ proc'.approach = proc.approach
           /\ status'.approach = status.approach
           /\ at \in {"run", "wait"} /\ status'.answer = NoAnswer
           /\ status'.state # "awaiting_input" \/ at = "run"
           /\ status'.question \in {status.question, NoQuestion}
           /\ status'.state = "awaiting_input" => status.state = "awaiting_input"
           /\ at = "wait" /\ ~proc.gateOpen => status.answer = NoAnswer
<1>1. /\ step' = step /\ proc'.approach = proc.approach /\ status'.approach = status.approach
      /\ at \in {"run", "wait"}
  BY DEF Decides, FileKeeps, MemoryKeeps
<1>2. dir.planOf # 0
  BY DEF Decides, OnFile, Judges
<1>3. status.approach = proc.approach
  BY <1>1 DEF OnFile
<1>4. CASE at = "run"
  BY <1>1, <1>2, <1>3, <1>4 DEF Decides, Asked, FileKeeps
<1>5. CASE at = "wait" /\ proc.gateOpen
  <2>1. /\ status.answer.approach = a /\ status.answer # NoAnswer
        /\ FileKeeps({"answer"}) /\ status'.answer = NoAnswer
    BY <1>5 DEF Decides, NoAnswer
  <2>2. status.answer.approach = proc.approach /\ status.state # "awaiting_input"
    BY <2>1 DEF Asked
  <2> QED BY <1>1, <1>2, <1>3, <1>5, <2>1, <2>2 DEF FileKeeps
<1>6. CASE at = "wait" /\ ~proc.gateOpen
  <2>1. /\ status.question.kind = "findings" /\ status.question.approach = a
        /\ FileKeeps({"state", "question"}) /\ Freed
    BY <1>6 DEF Decides
  <2>2. status.state = "awaiting_input"
    BY <1>6, <2>1 DEF GateKept
  <2>3. status.question.approach = status.approach /\ status.answer = NoAnswer
    BY <2>1, <2>2 DEF Asked, Apt
  <2> QED BY <1>1, <1>2, <1>3, <1>6, <2>1, <2>2, <2>3 DEF Freed, FileKeeps
<1> QED BY <1>1, <1>4, <1>5, <1>6

\* A question that speaks of the gate is one of findings.
LEMMA GateQuestions ==
    ASSUME IInv
    PROVE  /\ status.question.judge = "verdict_gate" => status.question.kind = "findings"
           /\ status.question.kind \in {"none", "secret", "findings"}
           /\ status.question.kind = "findings" => status.question.judge \in Judges
BY DEF IInv, TypeOK, Statuses, Questions, FindingsQuestions, SecretQuestions, NoQuestion

LEMMA AskedInit == Init => Asked
BY DEF Init, Asked, EntryState, NoAnswer

LEMMA AskedKept ==
    ASSUME Spares, IInv, Stands, GateKept, OnFile, Asked, Does
    PROVE  Asked'
<1> USE DEF Judges
<1>0. /\ status \in Statuses /\ dir \in Dirs /\ proc \in Processes
      /\ proc.approach \in Approaches /\ proc.approach # 0
  BY DEF IInv, TypeOK, Processes, Approaches
<1>1. CASE Stops \/ Succeeds
  <2>1. status'.answer = NoAnswer
    BY <1>1 DEF Stops, Succeeds, Word, FileKeeps, Asked
  <2>2. dir'.work \in {"none", dir.work} /\ at # "cure_count"
    BY <1>1 DEF Stops, Succeeds, Word, PlanKeeps
  <2> QED BY <1>1, <2>1, <2>2, EndsDo DEF Asked, RunTerminalStates
<1>2. CASE Dispatches \/ Skips
  <2>1. /\ status'.answer = NoAnswer /\ status'.state = status.state
        /\ status'.question = status.question /\ dir'.work = dir.work
        /\ dir'.planOf = dir.planOf /\ proc'.parked = proc.parked
        /\ at' \notin {"opening", "wait"} /\ step' # "paused"
        /\ step' = "verdict_gate" => step = "verdict_gate"
        /\ at \in {"entry", "woken", "run", "backoff"} /\ step # "paused"
    BY <1>2 DEF Dispatches, Skips, Asked, FileKeeps, PlanKeeps, MemoryKeeps, Stands
  <2>2. status.state = "awaiting_input" => status.question.kind # "findings"
    BY <2>1 DEF Asked
  <2> QED BY <1>0, <2>1, <2>2 DEF Asked, Apt
<1>3. CASE Ingests \/ Replans \/ PlansAnew
  <2>1. /\ status'.answer = NoAnswer /\ status'.state = status.state
        /\ status'.question = status.question /\ dir'.work \in {"plan", dir.work}
        /\ dir'.planOf \in {dir.planOf, proc.approach} /\ proc'.parked = proc.parked
        /\ status'.approach = status.approach
        /\ at' = "entry" /\ step' \notin {"paused", "verdict_gate"}
        /\ at \notin {"wait", "down"} /\ (at # "archived" => step # "paused")
    BY <1>3 DEF Ingests, Replans, PlansAnew, Asked, FileKeeps, PlanKeeps, MemoryKeeps
  <2>2. status.state = "awaiting_input" => status.question.kind # "findings"
    BY <2>1 DEF Asked
  <2> QED BY <1>0, <2>1, <2>2 DEF Asked, Apt
<1>4. CASE Turns \/ BacksOff
  <2>1. /\ status'.answer = NoAnswer /\ status'.state = status.state
        /\ status'.question = status.question /\ dir'.work \in {"none", "plan", dir.work}
        /\ dir'.planOf = dir.planOf /\ proc'.parked = proc.parked
        /\ status'.approach = status.approach
        /\ at' \in {"entry", "backoff"} /\ step' # "paused"
        /\ step' = "verdict_gate" => dir'.work # "cure"
        /\ at \notin {"wait", "down"} /\ step # "paused"
    BY <1>4 DEF Turns, BacksOff, Asked, Stands, FileKeeps, PlanKeeps, MemoryKeeps
  <2>2. status.state = "awaiting_input" => status.question.kind # "findings"
    BY <2>1 DEF Asked
  <2> QED BY <1>0, <2>1, <2>2, GateQuestions DEF Asked, Apt
<1>5. ASSUME NEW a \in Approaches, Cures(a) \/ Archives(a) PROVE Asked'
  <2>0. /\ \E outcome \in {"cure", "next_approach"} : Decides(a, outcome)
        /\ at' \in {"cure_count", "archived"} /\ dir'.planOf = dir.planOf
        /\ at' = "archived" => dir'.work = dir.work
    BY <1>5 DEF Cures, Archives, PlanKeeps
  <2>1. /\ step' = step /\ status'.answer = NoAnswer /\ at \in {"run", "wait"}
        /\ status'.question \in {status.question, NoQuestion} /\ dir.planOf # 0
        /\ status'.state = "awaiting_input" => status.state = "awaiting_input" /\ at = "run"
        /\ status'.approach = status.approach
    BY <2>0, DecidesOnThis
  <2>2. status'.state = "awaiting_input" =>
            status.question.kind # "findings" /\ status.question.judge # "verdict_gate"
    BY <2>1, GateQuestions DEF Asked
  <2> QED BY <2>0, <2>1, <2>2 DEF Asked, Apt, NoQuestion
<1>6. CASE Counts
  BY <1>6 DEF Counts, Asked, Apt, FileKeeps, PlanKeeps, MemoryKeeps
<1>7. CASE Waits
  BY <1>7 DEF Waits, Asked, Apt, FileKeeps, PlanKeeps, MemoryKeeps
<1>8. CASE Wakes
  <2>1. status.state # "awaiting_input"
    BY <1>8 DEF Wakes, GateKept
  <2> QED BY <1>8, <2>1 DEF Wakes, Asked, Apt, FileKeeps, PlanKeeps, MemoryKeeps
<1>9. CASE Parks
  <2>1. /\ status'.state = "awaiting_input" /\ at = "run" /\ at' = "entry"
        /\ status'.answer = status.answer /\ status'.approach = status.approach
        /\ dir'.planOf = dir.planOf /\ dir'.work = dir.work
        /\ step \in {"worker"} \cup Judges /\ step' \in {"worker", "paused"}
    BY <1>9 DEF Parks, FileKeeps, PlanKeeps
  <2>2. /\ status.answer = NoAnswer /\ dir.planOf # 0 /\ proc.approach = status.approach
        /\ step = "verdict_gate" => dir.work # "cure"
    BY <2>1 DEF Asked, OnFile
  <2>3. /\ Apt(status.question)'
        /\ status'.question.kind = "findings" => step' = "paused"
    BY <1>9, <2>1, <2>2, ParksAsk DEF Apt
  <2> QED BY <2>1, <2>2, <2>3 DEF Asked
<1>10. CASE Starts
  <2>1. /\ at = "down" /\ at' = IF OpeningQuestion.kind = "none" THEN "entry" ELSE "opening"
        /\ status'.state = "running" /\ proc'.parked = OpeningQuestion
        /\ step' = ResumePoint.step /\ status'.answer = status.answer
        /\ status'.approach = status.approach /\ dir'.work = dir.work
    BY <1>10 DEF Starts, FileKeeps, PlanKeeps
  <2>2. status.answer = NoAnswer
    BY <2>1 DEF Asked
  <2>3. /\ ResumePoint.step # "verdict_gate"
        /\ ResumePoint.step = "paused" => OpeningQuestion.kind # "none"
    BY DEF ResumePoint
  <2>4. CASE OpeningQuestion.kind = "none"
    BY <2>1, <2>2, <2>3, <2>4 DEF Asked
  <2>5. CASE OpeningQuestion.kind # "none"
    <3>1. status.state = "awaiting_input" /\ OpeningQuestion = status.question
      BY <2>5 DEF OpeningQuestion, NoQuestion
    <3>2. Apt(status.question) /\ dir.planOf # 0
      BY <3>1 DEF Asked
    <3>3. ResumePoint.step = "paused"
      BY <2>5, <3>1, <3>2 DEF ResumePoint, OpeningBudget
    <3> QED BY <2>1, <2>2, <2>5, <3>1, <3>2, <3>3 DEF Asked, Apt
  <2> QED BY <2>4, <2>5
<1>11. CASE ParksAgain
  <2>1. step = "paused" /\ Apt(proc.parked) /\ dir.planOf # 0 /\ status.answer = NoAnswer
    BY <1>11 DEF ParksAgain, Asked, OnFile
  <2> QED BY <1>11, <2>1 DEF ParksAgain, Asked, Apt, FileKeeps, PlanKeeps, MemoryKeeps
<1>12. CASE Promotes
  <2>1. status'.state # "awaiting_input"
    BY <1>12 DEF Promotes, IInv, SettledShape, RunTerminalStates
  <2> QED BY <1>12, <2>1 DEF Promotes, Asked, FileKeeps, PlanKeeps, EntryState
<1>13. CASE Dies
  BY <1>13 DEF Dies, Spares, Exit, EntryState, Asked, Apt, FileKeeps, PlanKeeps
<1>14. CASE DiesAnswered
  BY <1>14 DEF Spares
<1>15. CASE Pauses
  BY <1>15 DEF Pauses, AtAwait, Asked, Apt, FileKeeps, PlanKeeps, MemoryKeeps
<1>16. CASE Releases
  <2>1. /\ status'.state # "awaiting_input" /\ AtAwait /\ Stirs
        /\ status'.answer = status.answer
    BY <1>16 DEF Releases, Freed, FileKeeps
  <2> QED BY <1>16, <2>1 DEF Releases, Stirs, AtAwait, Asked, Apt, FileKeeps, PlanKeeps,
                             MemoryKeeps
<1>17. CASE IsAnswered
  <2>1. /\ AtAwait /\ status.state = "awaiting_input" /\ status.question.kind = "findings"
        /\ status'.answer.judge = status.question.judge
        /\ status'.answer.approach = status.question.approach
        /\ PlanKeeps({}) /\ Stirs /\ MemoryKeeps({"gateOpen", "max"})
        /\ status'.approach = status.approach /\ status'.state = "running"
    BY <1>17 DEF IsAnswered, Records, FileKeeps, Freed
  <2>2. /\ step = "paused" /\ at = "wait" /\ proc.parked = status.question
        /\ Apt(status.question)
    BY <2>1 DEF Asked, AtAwait
  <2>3. proc.approach = status.approach
    BY <2>2 DEF OnFile
  <2> QED BY <2>1, <2>2, <2>3 DEF Stirs, Asked, Apt, PlanKeeps, MemoryKeeps
<1>18. CASE Rebudgets \/ Reallows \/ Ticks
  BY <1>18 DEF Rebudgets, Reallows, Ticks, Asked, Apt, FileKeeps, PlanKeeps, MemoryKeeps
<1>19. CASE UNCHANGED vars
  BY <1>19 DEF vars, Asked, Apt
<1> QED BY <1>1, <1>2, <1>3, <1>4, <1>5, <1>6, <1>7, <1>8, <1>9, <1>10, <1>11, <1>12, <1>13,
           <1>14, <1>15, <1>16, <1>17, <1>18, <1>19 DEF Does

-----------------------------------------------------------------------------
(* LeftArchived *)

LEMMA LeftArchivedInit == Init => LeftArchived
BY DEF Init, LeftArchived

LEMMA LeftArchivedKept ==
    ASSUME Spares, IInv, Stands, GateKept, OnFile, Asked, LeftArchived, Does
    PROVE  LeftArchived'
<1> USE DEF ReplansForFree, Judges
<1>0. /\ status \in Statuses /\ dir \in Dirs /\ proc \in Processes
      /\ status.approach \in Int /\ proc.approach \in Int
  BY DEF IInv, TypeOK, Processes, Statuses, Approaches
<1>1. CASE Stops \/ Succeeds
  <2>1. /\ at \notin {"down", "reflect"} /\ Announces
        /\ status'.state = "exhausted" /\ status'.exhausted = "approaches" => ApproachesSpent
    BY <1>1 DEF Stops, Succeeds, Word, Announces, FileKeeps, EndsOrHolds, Outcome, Holds,
                Spent, ApproachesSpent, RunTerminalStates
  <2>2. /\ dir'.archived = dir.archived /\ at' \in {"reflect", "down"}
        /\ at' = "reflect" => step' = step /\ proc' = proc
    BY <1>1, EndsDo DEF PlanKeeps
  <2>3. /\ proc.approach # status.approach => status.approach \in dir.archived
        /\ status'.approach \in {status.approach, proc.approach}
        /\ status'.approach = status.approach \/ status'.approach = proc.approach
    BY <2>1 DEF LeftArchived, Announces
  <2>4. ApproachesSpent => status'.approach \in dir.archived
    BY <2>1 DEF ApproachesSpent, LeftArchived, Announces, OnFile
  <2> QED BY <2>1, <2>2, <2>3, <2>4 DEF LeftArchived
<1>2. CASE Dispatches \/ Skips
  BY <1>0, <1>2 DEF Dispatches, Skips, Announces, LeftArchived, OnFile, GateKept, FileKeeps,
                    PlanKeeps, MemoryKeeps
<1>3. CASE Ingests
  BY <1>3 DEF Ingests, LeftArchived, FileKeeps, PlanKeeps, MemoryKeeps
<1>4. CASE Replans
  BY <1>4 DEF Replans, LeftArchived, FileKeeps, PlanKeeps, MemoryKeeps
<1>5. CASE PlansAnew
  BY <1>0, <1>5 DEF PlansAnew, LeftArchived, OnFile, FileKeeps, PlanKeeps, MemoryKeeps
<1>6. CASE Turns \/ BacksOff \/ Counts \/ Waits \/ Wakes
  BY <1>6 DEF Turns, BacksOff, Counts, Waits, Wakes, LeftArchived, FileKeeps, PlanKeeps,
              MemoryKeeps
<1>7. ASSUME NEW a \in Approaches, Cures(a) \/ Archives(a) PROVE LeftArchived'
  <2>1. /\ a = proc.approach /\ status.approach = proc.approach
        /\ step' = step /\ proc'.approach = proc.approach
        /\ status'.approach = status.approach
    BY <1>7, DecidesOnThis DEF Cures, Archives
  <2>2. /\ at' \in {"cure_count", "archived"} /\ proc'.target = a /\ step # "replan"
        /\ at' = "archived" => a \in dir'.archived
        /\ status'.state # "exhausted"
    BY <1>7 DEF Cures, Archives, Decides, Freed, FileKeeps, GateKept
  <2> QED BY <2>1, <2>2 DEF LeftArchived
<1>8. CASE Parks
  BY <1>8 DEF Parks, LeftArchived, FileKeeps, PlanKeeps, MemoryKeeps
<1>9. CASE Starts
  <2>1. /\ proc'.approach = (IF dir.planOf = 0 THEN 1 ELSE status.approach)
        /\ status'.approach = status.approach /\ dir'.archived = dir.archived
        /\ status'.state = "running" /\ at' \in {"entry", "opening"}
        /\ step' = ResumePoint.step
    BY <1>9 DEF Starts, FileKeeps, PlanKeeps
  <2>2. proc'.approach = status.approach
    BY <2>1 DEF OnFile
  <2>3. ResumePoint.step = "replan" => status.approach \in dir.archived
    BY DEF ResumePoint, OpeningBudget, LeftArchived
  <2> QED BY <2>1, <2>2, <2>3 DEF LeftArchived
<1>10. CASE ParksAgain \/ Promotes \/ Dies
  BY <1>10 DEF ParksAgain, Promotes, Dies, Exit, LeftArchived, FileKeeps, PlanKeeps, MemoryKeeps,
               IInv, SettledShape, RunTerminalStates
<1>11. CASE DiesAnswered
  BY <1>11 DEF Spares
<1>12. CASE Requests
  <2>1. /\ Stirs /\ PlanKeeps({"early"})
        /\ MemoryKeeps({"gateOpen", "aborted", "max", "timeUp"})
        /\ FileKeeps({"state", "question", "topUps", "answer", "budget"})
    BY <1>12, RequestsStir, RequestsKeepFields
  <2>2. status'.state = "exhausted" => status.state = "exhausted"
    BY <1>12 DEF Requests, Pauses, Releases, IsAnswered, Rebudgets, Reallows, Ticks, Freed,
                 FileKeeps
  <2> QED BY <2>1, <2>2 DEF Stirs, LeftArchived, PlanKeeps, MemoryKeeps, FileKeeps
<1>13. CASE UNCHANGED vars
  BY <1>13 DEF vars, LeftArchived
<1> QED BY <1>1, <1>2, <1>3, <1>4, <1>5, <1>6, <1>7, <1>8, <1>9, <1>10, <1>11, <1>12, <1>13
        DEF Does, Requests

-----------------------------------------------------------------------------
(* RoundsCovered: as long as no patch lowers an approach's allowance *)

Unpatched == "patch_cures" \notin Environment

LEMMA RoundsCoveredInit == Init => RoundsCovered
BY SupervisorAssumption DEF Init, RoundsCovered, Owed, NoAnswer

\* A step that leaves the counts and owes no new round.
LEMMA RoundsStayCovered ==
    ASSUME IInv, RoundsCovered,
           status'.cures = status.cures, status'.topUps = status.topUps,
           \A a \in Approaches : Owed(a)' => Owed(a)
    PROVE  RoundsCovered'
<1>1. /\ status.cures \in [Approaches -> Nat] /\ status.topUps \in [Approaches -> Int]
      /\ CureCeiling \in Nat
  BY SupervisorAssumption DEF IInv, TypeOK, Statuses
<1> SUFFICES ASSUME NEW a \in Approaches
             PROVE  status'.cures[a] + (IF Owed(a)' THEN 1 ELSE 0)
                        <= CureCeiling + status'.topUps[a]
  BY DEF RoundsCovered
<1>2. /\ status.cures[a] \in Nat /\ status.topUps[a] \in Int
      /\ status.cures[a] + (IF Owed(a) THEN 1 ELSE 0) <= CureCeiling + status.topUps[a]
  BY <1>1 DEF RoundsCovered
<1> QED BY <1>1, <1>2

\* Rounds owed by an answer on file are owed until it is carried out.
LEMMA OwesNoMore ==
    ASSUME at' # "cure_count" \/ (at = "cure_count" /\ proc'.target = proc.target),
           status'.answer \in {status.answer, NoAnswer}
    PROVE  \A a \in Approaches : Owed(a)' => Owed(a)
BY DEF Owed, NoAnswer

LEMMA RoundsCoveredKept ==
    ASSUME Spares, Unpatched, IInv, Stands, GateKept, OnFile, Asked, RoundsCovered, Does
    PROVE  RoundsCovered'
<1>0. /\ status \in Statuses /\ proc \in Processes
      /\ status.cures \in [Approaches -> Nat] /\ status.topUps \in [Approaches -> Int]
      /\ CureCeiling \in Nat /\ proc.approach \in Approaches
  BY SupervisorAssumption DEF IInv, TypeOK, Statuses, Processes
<1>1. CASE Stops \/ Succeeds
  <2>1. /\ status'.cures = status.cures /\ status'.topUps = status.topUps
        /\ at' # "cure_count" /\ status'.answer \in {status.answer, NoAnswer}
    BY <1>1, EndsDo DEF Stops, Succeeds, FileKeeps
  <2> QED BY <2>1, OwesNoMore, RoundsStayCovered
<1>2. CASE Dispatches \/ Skips \/ Ingests \/ Replans \/ PlansAnew \/ Turns \/ BacksOff
           \/ Parks \/ Waits \/ Wakes \/ ParksAgain
  <2>1. /\ status'.cures = status.cures /\ status'.topUps = status.topUps
        /\ at' # "cure_count" /\ status'.answer \in {status.answer, NoAnswer}
    BY <1>2 DEF Dispatches, Skips, Ingests, Replans, PlansAnew, Turns, BacksOff, Parks, Waits,
                Wakes, ParksAgain, FileKeeps
  <2> QED BY <2>1, OwesNoMore, RoundsStayCovered
<1>3. CASE Starts \/ Promotes \/ Dies
  <2>1. /\ status'.cures = status.cures /\ status'.topUps = status.topUps
        /\ at' # "cure_count" /\ status'.answer = status.answer
    BY <1>3 DEF Starts, Promotes, Dies, Exit, FileKeeps
  <2> QED BY <2>1, OwesNoMore, RoundsStayCovered
<1>4. CASE Pauses \/ Releases \/ Rebudgets \/ Ticks
  <2>1. /\ status'.cures = status.cures /\ status'.topUps = status.topUps
        /\ status'.answer = status.answer /\ proc'.target = proc.target
        /\ at' = "cure_count" => at = "cure_count"
    BY <1>4 DEF Pauses, Releases, Stirs, Rebudgets, Ticks, FileKeeps, MemoryKeeps
  <2> QED BY <2>1, OwesNoMore, RoundsStayCovered
<1>5. ASSUME NEW a \in Approaches, Cures(a) PROVE RoundsCovered'
  <2>1. /\ Decides(a, "cure") /\ at' = "cure_count" /\ proc'.target = a
        /\ status'.cures = status.cures /\ status'.topUps = status.topUps
    BY <1>5 DEF Cures, Decides, FileKeeps
  <2>2. status'.answer = NoAnswer
    BY <2>1, DecidesOnThis
  <2>3. \A b \in Approaches : Owed(b)' => b = a
    BY <2>1, <2>2 DEF Owed, NoAnswer
  <2>4. Owed(a) \/ status.cures[a] + 1 <= CureCeiling + status.topUps[a]
    <3>1. CASE at = "run" \/ ~proc.gateOpen
      <4>1. status.cures[a] < CureCeiling + status.topUps[a]
        BY <1>5, <3>1 DEF Cures, RoundsAllowed
      <4> QED BY <1>0, <4>1
    <3>2. CASE ~(at = "run" \/ ~proc.gateOpen)
      BY <2>1, <3>2 DEF Decides, Owed
    <3> QED BY <3>1, <3>2
  <2>5. ASSUME NEW b \in Approaches
        PROVE  status'.cures[b] + (IF Owed(b)' THEN 1 ELSE 0)
                   <= CureCeiling + status'.topUps[b]
    <3>1. status.cures[b] + (IF Owed(b) THEN 1 ELSE 0) <= CureCeiling + status.topUps[b]
      BY DEF RoundsCovered
    <3>2. status.cures[b] \in Nat /\ status.topUps[b] \in Int
      BY <1>0
    <3> QED BY <1>0, <2>1, <2>3, <2>4, <3>1, <3>2
  <2> QED BY <2>5 DEF RoundsCovered
<1>6. ASSUME NEW a \in Approaches, Archives(a) PROVE RoundsCovered'
  <2>1. /\ Decides(a, "next_approach") /\ at' = "archived"
        /\ status'.cures = status.cures /\ status'.topUps = status.topUps
    BY <1>6 DEF Archives, Decides, FileKeeps
  <2>2. status'.answer = NoAnswer
    BY <2>1, DecidesOnThis
  <2> QED BY <2>1, <2>2, OwesNoMore, RoundsStayCovered
<1>7. CASE Counts
  <2>1. /\ at = "cure_count" /\ at' = "entry" /\ status'.topUps = status.topUps
        /\ status'.cures = [status.cures EXCEPT ![proc.target] = @ + 1]
        /\ status'.answer = status.answer
    BY <1>7 DEF Counts, FileKeeps
  <2>2. status'.answer = NoAnswer
    BY <2>1 DEF Asked
  <2>3. ASSUME NEW b \in Approaches
        PROVE  status'.cures[b] + (IF Owed(b)' THEN 1 ELSE 0)
                   <= CureCeiling + status'.topUps[b]
    <3>1. ~Owed(b)'
      BY <2>1, <2>2 DEF Owed, NoAnswer
    <3>2. status.cures[b] + (IF Owed(b) THEN 1 ELSE 0) <= CureCeiling + status.topUps[b]
      BY DEF RoundsCovered
    <3>3. Owed(b) <=> b = proc.target \/ (status.answer.outcome = "cure"
                                          /\ status.answer.approach = b)
      BY <2>1 DEF Owed
    <3>4. status'.cures[b] = status.cures[b] + (IF b = proc.target THEN 1 ELSE 0)
      BY <1>0, <2>1
    <3> QED BY <1>0, <2>1, <3>1, <3>2, <3>3, <3>4
  <2> QED BY <2>3 DEF RoundsCovered
<1>8. CASE IsAnswered
  <2>1. PICK rounds \in 0 .. 1, outcome \in {"verified", "cure", "next_approach"} :
            /\ status'.topUps = [status.topUps EXCEPT ![proc.approach] = @ + rounds]
            /\ status'.answer = [outcome |-> outcome, judge |-> status.question.judge,
                                 approach |-> status.question.approach]
            /\ outcome = "cure" => rounds > 0
    BY <1>8 DEF IsAnswered, Records
  <2>2. /\ status.state = "awaiting_input" /\ status.question.kind = "findings" /\ AtAwait
        /\ status'.cures = status.cures /\ at' # "cure_count"
    BY <1>8 DEF IsAnswered, Records, Stirs, FileKeeps, AtAwait
  <2>3. status.question.approach = proc.approach /\ status.answer = NoAnswer
    BY <2>2 DEF Asked, Apt, OnFile, AtAwait
  <2>4. ASSUME NEW b \in Approaches
        PROVE  status'.cures[b] + (IF Owed(b)' THEN 1 ELSE 0)
                   <= CureCeiling + status'.topUps[b]
    <3>1. Owed(b)' => outcome = "cure" /\ b = proc.approach
      BY <2>1, <2>2, <2>3 DEF Owed
    <3>2. status.cures[b] + (IF Owed(b) THEN 1 ELSE 0) <= CureCeiling + status.topUps[b]
      BY DEF RoundsCovered
    <3>3. /\ status.cures[b] \in Nat /\ status.topUps[b] \in Int
          /\ status'.topUps[b] = status.topUps[b]
                                 + (IF b = proc.approach THEN rounds ELSE 0)
      BY <1>0, <2>1
    <3> QED BY <1>0, <2>1, <2>2, <3>1, <3>2, <3>3
  <2> QED BY <2>4 DEF RoundsCovered
<1>9. CASE DiesAnswered \/ Reallows
  BY <1>9 DEF Spares, Reallows, Unpatched
<1>10. CASE UNCHANGED vars
  BY <1>10 DEF vars, RoundsCovered, Owed
<1> QED BY <1>1, <1>2, <1>3, <1>4, <1>5, <1>6, <1>7, <1>8, <1>9, <1>10 DEF Does

-----------------------------------------------------------------------------
(* Unspoken and JudgedOnly *)

\* No review records a word before its last.
Silent == "early_verdict" \notin Environment

LEMMA UnspokenKept ==
    ASSUME Silent, Unspoken, Does
    PROVE  Unspoken'
<1>1. CASE Stops \/ Succeeds
  BY <1>1, EndsDo DEF Unspoken, PlanKeeps
<1>2. CASE Dispatches \/ Skips \/ Ingests \/ Replans \/ PlansAnew \/ Turns \/ BacksOff
           \/ Counts \/ Parks \/ Waits \/ Wakes
  BY <1>2 DEF Dispatches, Skips, Ingests, Replans, PlansAnew, Turns, BacksOff, Counts, Parks,
              Waits, Wakes, Unspoken, PlanKeeps
<1>3. CASE \E a \in Approaches : Cures(a) \/ Archives(a)
  BY <1>3 DEF Cures, Archives, Unspoken, PlanKeeps
<1>4. CASE Starts \/ ParksAgain \/ Promotes \/ Dies \/ DiesAnswered
  BY <1>4 DEF Starts, ParksAgain, Promotes, Dies, DiesAnswered, Records, Unspoken, PlanKeeps
<1>5. CASE Requests
  BY <1>5 DEF Requests, Pauses, Releases, IsAnswered, Records, Rebudgets, Reallows, Ticks,
              Silent, Unspoken, PlanKeeps
<1>6. CASE UNCHANGED vars
  BY <1>6 DEF vars, Unspoken
<1> QED BY <1>1, <1>2, <1>3, <1>4, <1>5, <1>6 DEF Does, Requests

\* Success comes from a step into it or from one settled earlier.
LEMMA SuccessComes ==
    ASSUME IInv, GateKept, Does, Succeeding'
    PROVE  Succeeds \/ (Succeeding /\ (Silent => passed' = passed))
<1> USE DEF Succeeding, RunTerminalStates
<1>0. status.state \in RunStates
  BY DEF IInv, TypeOK, Statuses
<1>1. CASE Stops
  BY <1>1 DEF Stops, EndsOrHolds, Outcome, Holds, GateKept
<1>2. CASE Dispatches \/ Skips \/ Ingests \/ Replans \/ PlansAnew \/ Turns \/ BacksOff
           \/ Counts \/ Parks \/ Waits \/ Wakes \/ ParksAgain
  BY <1>2 DEF Dispatches, Skips, Ingests, Replans, PlansAnew, Turns, BacksOff, Counts, Parks,
              Waits, Wakes, ParksAgain, FileKeeps, GateKept
<1>3. CASE \E a \in Approaches : Cures(a) \/ Archives(a)
  BY <1>3 DEF Cures, Archives, Decides, Freed, FileKeeps, GateKept
<1>4. CASE Starts \/ Promotes \/ Dies \/ DiesAnswered
  BY <1>4 DEF Starts, Promotes, Dies, DiesAnswered, Records, FileKeeps, IInv, SettledShape
<1>5. CASE Requests
  BY <1>5 DEF Requests, Pauses, Releases, IsAnswered, Records, Rebudgets, Reallows, Ticks,
              Freed, Silent, FileKeeps
<1>6. CASE UNCHANGED vars
  BY <1>6 DEF vars
<1> QED BY <1>1, <1>2, <1>3, <1>4, <1>5, <1>6 DEF Does, Requests

\* A success of review's looks at what is outstanding.
LEMMA WordUnblocked ==
    ASSUME IInv, Stands, Unspoken, Succeeds, ~PeerGate
    PROVE  dir.steering + dir.deferred = 0
<1> USE DEF Judges
<1>0. /\ proc.approach # 0 /\ dir.steering \in Nat /\ dir.deferred \in Nat
  BY DEF IInv, TypeOK, Processes, Approaches, Dirs
<1>1. CASE step \in Judges /\ (step = "review" => ~SuccessBlocked(dir))
  BY <1>0, <1>1 DEF Stands, SuccessBlocked
<1>2. CASE /\ status.answer.judge \in Judges
           /\ status.answer.judge = "review" => ~SuccessBlocked(dir)
  BY <1>0, <1>2 DEF Stands, SuccessBlocked
<1>3. CASE dir.early.approach = proc.approach
  BY <1>0, <1>3 DEF Unspoken, NoCheckpoint
<1> QED BY <1>1, <1>2, <1>3 DEF Succeeds, Word

\* What a success rests on, once no early word is on record.
LEMMA WordIsJudged ==
    ASSUME IInv, Stands, Asked, Unspoken, Succeeds
    PROVE  /\ passed' = LastJudge \/ (at = "wait" /\ proc.parked.findings = {})
           /\ dir.work # "cure"
           /\ at = "wait" => proc.parked.kind = "findings"
<1> USE DEF Judges
<1>0. /\ proc.approach # 0 /\ dir.steering \in Nat /\ dir.deferred \in Nat
  BY DEF IInv, TypeOK, Processes, Approaches, Dirs
<1>1. CASE /\ at = "run" /\ step \in Judges /\ passed' = step
           /\ step = "review" => ~PeerGate /\ ~SuccessBlocked(dir)
  <2>1. CASE step = "review"
    BY <1>0, <1>1, <2>1 DEF SuccessBlocked, LastJudge
  <2>2. CASE step = "verdict_gate"
    BY <1>1, <2>2 DEF Stands, Asked, LastJudge
  <2> QED BY <1>1, <2>1, <2>2
<1>2. CASE /\ at = "wait"
           /\ status.answer.outcome = "verified" /\ status.answer.judge \in Judges
           /\ passed' = IF proc.parked.findings # {} THEN status.answer.judge ELSE passed
           /\ status.answer.judge = "review" => ~PeerGate /\ ~SuccessBlocked(dir)
  <2>1. proc.parked.kind = "findings" /\ status.answer.judge = proc.parked.judge
    BY <1>2 DEF Asked, NoAnswer
  <2>2. CASE status.answer.judge = "review"
    BY <1>0, <1>2, <2>1, <2>2 DEF SuccessBlocked, LastJudge
  <2>3. CASE status.answer.judge = "verdict_gate"
    BY <1>2, <2>1, <2>3 DEF Stands, Asked, Apt, LastJudge
  <2> QED BY <1>2, <2>2, <2>3
<1>3. CASE dir.early.approach = proc.approach
  BY <1>0, <1>3 DEF Unspoken, NoCheckpoint
<1> QED BY <1>1, <1>2, <1>3 DEF Succeeds, Word

\* Every rejection carries a finding.
Structured == {} \notin Rejections

LEMMA JudgedOnlyInit == Init => JudgedOnly /\ Unspoken
BY DEF Init, JudgedOnly, SuccessIsJudged, Succeeding, Unspoken

LEMMA JudgedOnlyKept ==
    ASSUME Silent, Structured, IInv, Stands, GateKept, Asked, Unspoken, JudgedOnly, Does
    PROVE  JudgedOnly'
<1>1. SuccessIsJudged'
  <2> SUFFICES ASSUME Succeeding' PROVE passed' \in {LastJudge, "early"}
    BY DEF SuccessIsJudged, LastJudge
  <2>1. CASE Succeeds
    <3>1. at = "wait" => proc.parked.findings # {}
      BY <2>1, WordIsJudged DEF JudgedOnly, NamesFindings
    <3> QED BY <2>1, <3>1, WordIsJudged
  <2>2. CASE Succeeding /\ passed' = passed
    BY <2>2 DEF JudgedOnly, SuccessIsJudged
  <2> QED BY <2>1, <2>2, SuccessComes
<1>2. ASSUME status'.state = "awaiting_input" => NamesFindings(status.question)',
             at' \in {"opening", "wait"} => NamesFindings(proc.parked)'
      PROVE  JudgedOnly'
  BY <1>1, <1>2 DEF JudgedOnly
<1>3. CASE Stops \/ Succeeds
  BY <1>2, <1>3, EndsDo DEF RunTerminalStates
<1>4. CASE Dispatches \/ Skips \/ Ingests \/ Replans \/ PlansAnew \/ Turns \/ BacksOff
           \/ Counts \/ Wakes
  <2>1. /\ status'.state = status.state /\ status'.question = status.question
        /\ at' \notin {"opening", "wait"}
    BY <1>4 DEF Dispatches, Skips, Ingests, Replans, PlansAnew, Turns, BacksOff, Counts, Wakes,
                FileKeeps
  <2> QED BY <1>2, <2>1 DEF JudgedOnly, NamesFindings
<1>5. CASE \E a \in Approaches : Cures(a) \/ Archives(a)
  <2>1. /\ status'.state = "awaiting_input" =>
               status.state = "awaiting_input" /\ status'.question = status.question
        /\ at' \notin {"opening", "wait"}
    BY <1>5 DEF Cures, Archives, Decides, Freed, FileKeeps
  <2> QED BY <1>2, <2>1 DEF JudgedOnly, NamesFindings
<1>6. CASE Parks
  <2>1. NamesFindings(status.question)' /\ at' = "entry"
    BY <1>6, ParksAsk DEF Parks, NamesFindings, Structured
  <2> QED BY <1>2, <2>1
<1>7. CASE Waits
  <2>1. /\ status.state = "awaiting_input" /\ proc'.parked = status.question
        /\ status'.state = status.state /\ status'.question = status.question
    BY <1>7 DEF Waits, Asked, FileKeeps
  <2> QED BY <1>2, <2>1 DEF JudgedOnly, NamesFindings
<1>8. CASE Starts
  <2>1. NamesFindings(OpeningQuestion)
    BY DEF OpeningQuestion, JudgedOnly, NamesFindings, NoQuestion
  <2>2. status'.state = "running" /\ proc'.parked = OpeningQuestion
    BY <1>8 DEF Starts
  <2> QED BY <1>2, <2>1, <2>2 DEF NamesFindings
<1>9. CASE ParksAgain
  <2>1. at = "opening" /\ status'.question = proc.parked /\ at' = "entry"
    BY <1>9 DEF ParksAgain
  <2> QED BY <1>2, <2>1 DEF JudgedOnly, NamesFindings
<1>10. CASE Promotes
  BY <1>2, <1>10 DEF Promotes, IInv, SettledShape, RunTerminalStates
<1>11. CASE Dies \/ DiesAnswered
  <2>1. /\ status'.state = status.state /\ status'.question = status.question /\ at' = "down"
    BY <1>11 DEF Dies, DiesAnswered, Exit, FileKeeps
  <2> QED BY <1>2, <2>1 DEF JudgedOnly, NamesFindings
<1>12. CASE Requests
  <2>1. /\ Stirs /\ MemoryKeeps({"gateOpen", "aborted", "max", "timeUp"})
    BY <1>12, RequestsStir, RequestsKeepFields
  <2>2. status'.state = "awaiting_input" =>
            status.state = "awaiting_input" /\ status'.question = status.question
    BY <1>12 DEF Requests, Pauses, Releases, IsAnswered, Rebudgets, Reallows, Ticks, Freed,
                 FileKeeps
  <2> QED BY <1>2, <2>1, <2>2 DEF Stirs, MemoryKeeps, JudgedOnly, NamesFindings
<1>13. CASE UNCHANGED vars
  BY <1>2, <1>13 DEF vars, JudgedOnly, NamesFindings
<1> QED BY <1>3, <1>4, <1>5, <1>6, <1>7, <1>8, <1>9, <1>10, <1>11, <1>12, <1>13
        DEF Does, Requests

-----------------------------------------------------------------------------
(* FirstLife *)

LEMMA FirstLifeInit == Init => FirstLife
BY DEF Init, FirstLife

LEMMA FirstLifeKept ==
    ASSUME Spares, IInv, Stands, GateKept, OnFile, Asked, LeftArchived, FirstLife, Does
    PROVE  FirstLife'
<1> USE DEF ReplansForFree, Judges
<1>0. /\ status \in Statuses /\ dir \in Dirs /\ proc \in Processes
      /\ proc.approach \in Int /\ boots \in Nat /\ dir.archived \subseteq Int
      /\ step \in Steps
  BY DEF IInv, TypeOK, Processes, Dirs, Approaches
<1>1. CASE Stops \/ Succeeds
  <2>1. /\ at \notin {"down", "reflect"} /\ boots' = boots
        /\ dir'.archived = dir.archived /\ at' \in {"reflect", "down"}
        /\ at' = "reflect" => step' = step /\ proc' = proc
    BY <1>1, EndsDo DEF Stops, Succeeds, Word, PlanKeeps
  <2> QED BY <2>1 DEF FirstLife
<1>2. CASE Dispatches
  BY <1>2 DEF Dispatches, FirstLife, PlanKeeps, MemoryKeeps
<1>3. CASE Skips
  BY <1>0, <1>3 DEF Skips, FirstLife, PlanKeeps, MemoryKeeps
<1>4. CASE Ingests
  BY <1>4 DEF Ingests, FirstLife, PlanKeeps, MemoryKeeps
<1>5. CASE Replans
  BY <1>5 DEF Replans, FirstLife, LeftArchived, PlanKeeps, MemoryKeeps
<1>6. CASE PlansAnew
  <2>1. /\ at = "entry" /\ at' = "entry" /\ step = "replan" /\ step' = "planning"
        /\ boots' = boots /\ dir'.archived = dir.archived /\ proc'.skip = proc.skip
        /\ IF ReplansForFree THEN proc'.approach = proc.approach
           ELSE proc'.approach = proc.approach + 1
    BY <1>6 DEF PlansAnew, PlanKeeps, MemoryKeeps
  <2>2. boots <= 1 => \A a \in dir.archived : a <= proc.approach
    BY <2>1 DEF FirstLife
  <2> QED BY <1>0, <2>1, <2>2 DEF FirstLife
<1>7. CASE Turns \/ BacksOff
  BY <1>0, <1>7 DEF Turns, BacksOff, FirstLife, Stands, PlanKeeps, MemoryKeeps
<1>8. CASE Counts \/ Waits \/ Wakes \/ ParksAgain
  BY <1>0, <1>8 DEF Counts, Waits, Wakes, ParksAgain, FirstLife, Stands, PlanKeeps, MemoryKeeps
<1>9. ASSUME NEW a \in Approaches, Cures(a) \/ Archives(a) PROVE FirstLife'
  <2>1. /\ a = proc.approach /\ step' = step /\ proc'.approach = proc.approach
        /\ at \in {"run", "wait"}
    BY <1>9, DecidesOnThis DEF Cures, Archives
  <2>2. /\ boots' = boots /\ proc'.skip = proc.skip /\ step \notin {"planning", "replan"}
        /\ \/ at' = "cure_count" /\ dir'.archived = dir.archived /\ dir'.planOf = dir.planOf
           \/ at' = "archived" /\ dir'.archived = dir.archived \cup {a}
    BY <1>9 DEF Cures, Archives, Decides, MemoryKeeps, PlanKeeps
  <2> QED BY <1>0, <2>1, <2>2 DEF FirstLife
<1>10. CASE Parks
  BY <1>10 DEF Parks, FirstLife, PlanKeeps, MemoryKeeps
<1>11. CASE Starts
  <2>1. /\ at = "down" /\ boots' = boots + 1 /\ step' = ResumePoint.step
        /\ proc'.skip = ResumePoint.skip /\ dir'.archived = dir.archived
        /\ dir'.planOf = dir.planOf /\ at' \in {"entry", "opening"}
    BY <1>11 DEF Starts, PlanKeeps
  <2>2. boots' <= 1 => dir.planOf = 0 /\ dir.archived = {}
    BY <1>0, <2>1 DEF FirstLife
  <2>3. dir.planOf = 0 => ResumePoint.step = "planning" /\ ~ResumePoint.skip
    BY DEF ResumePoint
  <2> QED BY <1>0, <2>1, <2>2, <2>3 DEF FirstLife
<1>12. CASE Promotes \/ Dies
  BY <1>0, <1>12 DEF Promotes, Dies, Exit, FirstLife
<1>13. CASE DiesAnswered
  BY <1>13 DEF Spares
<1>14. CASE Requests
  <2>1. /\ Stirs /\ boots' = boots /\ PlanKeeps({"early"})
        /\ MemoryKeeps({"gateOpen", "aborted", "max", "timeUp"})
    BY <1>14, RequestsStir, RequestsKeepFields
  <2>2. at # "down"  \/ status'.state = status.state
    BY <1>14 DEF Requests, Pauses, Releases, IsAnswered, Records, Rebudgets, Reallows, Ticks,
                 AtAwait, FileKeeps
  <2> QED BY <2>1, <2>2 DEF Stirs, FirstLife, PlanKeeps, MemoryKeeps
<1>15. CASE UNCHANGED vars
  BY <1>15 DEF vars, FirstLife
<1> QED BY <1>1, <1>2, <1>3, <1>4, <1>5, <1>6, <1>7, <1>8, <1>9, <1>10, <1>11, <1>12, <1>13,
           <1>14, <1>15 DEF Does, Requests

-----------------------------------------------------------------------------
(* What needs no assumption *)

LEMMA CoreInit == Init => CoreInv
BY InitKeeps, StandsInit, GateKeptInit, PaidInit, OnFileInit, NotAheadInit DEF CoreInv

LEMMA CoreKept == CoreInv /\ [Next]_vars => CoreInv'
<1> SUFFICES ASSUME CoreInv, [Next]_vars PROVE CoreInv'
  OBVIOUS
<1>1. Does /\ IInv'
  BY NextDoes, NextKeeps DEF CoreInv
<1> QED BY <1>1, StandsKept, GateKeptKept, PaidKept, OnFileKept, NotAheadKept DEF CoreInv

\* Where the loop may stand in a step, what the gate says of the file, what an
\* iteration has been paid with and whose approach is on file, after any
\* requests, kills and restarts.
THEOREM CoreHolds == Spec => []CoreInv
BY CoreInit, CoreKept, PTL DEF Spec

\* No refund, retry, wait at the gate, restart or top-up lets the run charge an
\* iteration it has no budget for; a patched budget lets one more through
\* (loop.py budget_left, api.py PATCH /config/budget).
THEOREM WithinBudget == Spec => []ChargedWithinBudget
<1>1. CoreInv => ChargedWithinBudget
  BY DEF CoreInv, Paid
<1> QED BY <1>1, CoreHolds, PTL

\* Wherever a request can arrive, status.json says whether the loop is held.
THEOREM GateRecorded == Spec => []GateIsOnRecord
<1>1. CoreInv => GateIsOnRecord
  BY DEF CoreInv, IInv, SettledShape, GateKept, GateIsOnRecord, AtAwait
<1> QED BY <1>1, CoreHolds, PTL

\* A run that awaits input has a question on file, and no run at work has one.
THEOREM ParkAsks == Spec => []ParkHasItsQuestion
<1>1. CoreInv => ParkHasItsQuestion
  BY DEF CoreInv, GateKept, ParkHasItsQuestion
<1> QED BY <1>1, CoreHolds, PTL

\* The edges the moves of the loop rest on.
LEMMA Edges ==
    LET Declares(s) == Successors(s, FALSE, FALSE, PeerGate)
    IN  /\ {"replan", "worker"} \subseteq Declares("planning")
        /\ {"steer", "review", "replan"} \subseteq Declares("worker")
        /\ {"worker", "replan", "cure", "paused"} \subseteq Declares("review")
        /\ PeerGate => /\ "verdict_gate" \in Declares("review")
                       /\ "verdict_gate" \in Declares("paused")
                       /\ {"cure", "paused", "replan"} \subseteq Declares("verdict_gate")
        /\ {"planning"} \subseteq Declares("replan")
        /\ {"worker"} \subseteq Declares("steer")
        /\ {"worker"} \subseteq Declares("cure")
        /\ {"review", "worker", "cure", "replan"} \subseteq Declares("paused")
BY DEF Successors, TableFor, Updated, Table, PeerVerdictGateDelta, RunTerminalStates

\* The dispatch loop only ever advances along the declared table, so that no run
\* dies of an undeclared edge (transitions.py).
THEOREM Declared == Spec => StepsAreDeclared
<1>1. CoreInv /\ [Next]_vars =>
        [at # "down" /\ at' # "down" /\ step' # step =>
            step' \in Successors(step, FALSE, FALSE, PeerGate)]_vars
  <2> SUFFICES ASSUME CoreInv, Next, at # "down", at' # "down", step' # step
               PROVE  step' \in Successors(step, FALSE, FALSE, PeerGate)
    OBVIOUS
  <2> USE DEF Judges
  <2>1. Does /\ Stands /\ step \in Steps
    BY NextDoes DEF CoreInv, IInv, TypeOK
  <2>2. CASE Stops \/ Succeeds
    BY <2>2, EndsDo
  <2>3. CASE Dispatches \/ Skips \/ Ingests \/ PlansAnew \/ BacksOff \/ Waits \/ ParksAgain
    BY <2>3, Edges DEF Dispatches, Skips, Ingests, PlansAnew, BacksOff, Waits, ParksAgain
  <2>4. CASE Replans
    BY <2>1, <2>4, Edges DEF Replans, Stands
  <2>5. CASE Turns
    <3>1. CASE at = "backoff"
      BY <2>1, <2>5, <3>1 DEF Turns, Stands
    <3>2. CASE at # "backoff"
      <4>1. \/ step = "worker" /\ step' \in {"steer", "review"}
            \/ step \in {"steer", "review", "cure"} /\ step' = "worker"
            \/ PeerGate /\ step = "review" /\ step' = "verdict_gate"
        BY <2>1, <2>5, <3>2 DEF Turns
      <4> QED BY <4>1, Edges
    <3> QED BY <3>1, <3>2
  <2>6. CASE \E a \in Approaches : Cures(a) \/ Archives(a)
    BY <2>6 DEF Cures, Archives, Decides
  <2>7. CASE Counts
    BY <2>1, <2>7, Edges DEF Counts, Stands
  <2>8. CASE Parks
    BY <2>1, <2>8, Edges DEF Parks, Stands
  <2>9. CASE Wakes
    BY <2>1, <2>9, Edges DEF Wakes, Stands
  <2>10. CASE Starts \/ Promotes \/ Dies \/ DiesAnswered
    BY <2>10 DEF Starts, Promotes, Dies, DiesAnswered, Exit
  <2>11. CASE Requests
    BY <2>11, RequestsStir DEF Stirs
  <2>12. CASE UNCHANGED vars
    BY <2>12 DEF vars
  <2> QED BY <2>1, <2>2, <2>3, <2>4, <2>5, <2>6, <2>7, <2>8, <2>9, <2>10, <2>11, <2>12
          DEF Does, Requests
<1> QED BY <1>1, CoreHolds, PTL DEF Spec, StepsAreDeclared

\* An abort the run accepted is overtaken by a success only where an operator's
\* answer was on file already (loop.py _carry_out_input_answer).
THEOREM AbortSticks == Spec => AbortIsSticky
<1>1. CoreInv /\ [Next]_vars =>
        [proc.aborted /\ status.answer = NoAnswer /\ ~Succeeding => ~Succeeding']_vars
  <2> SUFFICES ASSUME CoreInv, Next, proc.aborted, status.answer = NoAnswer, ~Succeeding,
                      Succeeding'
               PROVE  FALSE
    BY Zenon
  <2>1. Succeeds
    BY NextDoes, SuccessComes DEF CoreInv
  <2> QED BY <2>1 DEF Succeeds, Word, NoAnswer
<1> QED BY <1>1, CoreHolds, PTL DEF Spec, AbortIsSticky

\* A run that holds names a budget that is spent (loop.py _spent_run_budget,
\* _archive_and_replan_outcome, _step_replan).
THEOREM HoldsOverSpent ==
    Spec => HoldNamesASpentBudget
<1>1. CoreInv /\ [Next]_vars =>
        [status.state # "exhausted" /\ status'.state = "exhausted" =>
            CASE status'.exhausted = "iterations" -> dir'.charged >= status.budget
              [] status'.exhausted = "time"       -> proc.timeUp
              [] status'.exhausted = "approaches" -> proc.approach >= proc.max
              [] OTHER                            -> FALSE]_vars
  <2> SUFFICES ASSUME CoreInv, Next, status.state # "exhausted", status'.state = "exhausted"
               PROVE  Spent /\ (at = "archived" /\ proc.target >= proc.max =>
                                    proc.approach >= proc.max)
    BY DEF Spent
  <2>1. Does /\ SettledShape
    BY NextDoes DEF CoreInv, IInv
  <2>2. at = "archived" /\ proc.target >= proc.max => proc.approach >= proc.max
    <3>1. proc.target \in Int /\ proc.max \in Int /\ proc.approach \in Int
      BY DEF CoreInv, IInv, TypeOK, Processes, Approaches
    <3> QED BY <3>1 DEF CoreInv, NotAhead
  <2>3. CASE Stops
    BY <2>3, <2>2 DEF Stops, EndsOrHolds, Outcome, Holds
  <2>4. CASE Succeeds \/ Promotes
    BY <2>1, <2>4 DEF Succeeds, Outcome, Promotes, SettledShape, RunTerminalStates
  <2>5. CASE \/ Dispatches \/ Skips \/ Ingests \/ Replans \/ PlansAnew \/ Turns \/ BacksOff
             \/ Counts \/ Waits \/ Wakes \/ Dies
    BY <2>5 DEF Dispatches, Skips, Ingests, Replans, PlansAnew, Turns, BacksOff, Counts, Waits,
                Wakes, Dies, FileKeeps
  <2>6. CASE \E a \in Approaches : Cures(a) \/ Archives(a)
    BY <2>6 DEF Cures, Archives, Decides, Freed, FileKeeps
  <2>7. CASE Parks \/ Starts \/ ParksAgain
    BY <2>7 DEF Parks, Starts, ParksAgain
  <2>8. CASE Requests \/ DiesAnswered
    BY <2>8 DEF Requests, Pauses, Releases, IsAnswered, DiesAnswered, Rebudgets, Reallows, Ticks,
                Freed, FileKeeps
  <2>9. CASE UNCHANGED vars
    BY <2>9 DEF vars
  <2> QED BY <2>1, <2>3, <2>4, <2>5, <2>6, <2>7, <2>8, <2>9 DEF Does, Requests
<1> QED BY <1>1, CoreHolds, PTL DEF Spec, HoldNamesASpentBudget

-----------------------------------------------------------------------------
(* What holds where no process dies between an answer and the park's end *)

LEMMA HeldInit == Init => HeldInv
BY CoreInit, AskedInit, LeftArchivedInit DEF HeldInv

LEMMA HeldKept ==
    ASSUME Surviving
    PROVE  HeldInv /\ [Next]_vars => HeldInv'
<1> SUFFICES ASSUME HeldInv, [Next]_vars PROVE HeldInv'
  OBVIOUS
<1>1. Does /\ CoreInv' /\ Spares
  BY NextDoes, CoreKept, SurvivingSpares DEF HeldInv, CoreInv
<1> QED BY <1>1, AskedKept, LeftArchivedKept DEF HeldInv, CoreInv

\* A question is about the approach and the judge it was asked of until it is
\* answered, its answer is taken before anything else, and no approach is
\* behind the run that is not archived.
THEOREM AnswersApply ==
    ASSUME Surviving
    PROVE  Spec => []HeldInv
BY HeldInit, HeldKept, PTL DEF Spec

\* An approach is left for the next only when it is archived, and never past
\* the last (loop.py _step_replan).
THEOREM ChargedOnce ==
    ASSUME Surviving
    PROVE  Spec => ApproachChargedOnce
<1>1. HeldInv /\ [Next]_vars =>
        [at # "down" /\ at' # "down" /\ proc'.approach # proc.approach =>
            /\ proc'.approach = proc.approach + 1 /\ proc'.approach <= proc.max
            /\ proc.approach \in dir.archived]_vars
  <2> SUFFICES ASSUME HeldInv, Next, at # "down", at' # "down",
                      proc'.approach # proc.approach
               PROVE  /\ proc'.approach = proc.approach + 1 /\ proc'.approach <= proc.max
                      /\ proc.approach \in dir.archived
    OBVIOUS
  <2>1. /\ Does /\ LeftArchived
        /\ proc.approach \in Int /\ proc.max \in Int
    BY NextDoes DEF HeldInv, CoreInv, IInv, TypeOK, Processes, Approaches
  <2>2. CASE Stops \/ Succeeds
    BY <2>2, EndsDo
  <2>3. CASE \/ Dispatches \/ Skips \/ Ingests \/ Replans \/ Turns \/ BacksOff
             \/ Counts \/ Parks \/ Waits \/ Wakes \/ ParksAgain
    BY <2>3 DEF Dispatches, Skips, Ingests, Replans, Turns, BacksOff, Counts, Parks, Waits, Wakes,
                ParksAgain, MemoryKeeps
  <2>4. CASE PlansAnew
    BY <2>1, <2>4 DEF PlansAnew, LeftArchived
  <2>5. CASE \E a \in Approaches : Cures(a) \/ Archives(a)
    BY <2>5 DEF Cures, Archives, Decides, MemoryKeeps
  <2>6. CASE Starts \/ Promotes \/ Dies \/ DiesAnswered
    BY <2>6 DEF Starts, Promotes, Dies, DiesAnswered, Exit
  <2>7. CASE Requests
    BY <2>7, RequestsKeepFields DEF MemoryKeeps
  <2>8. CASE UNCHANGED vars
    BY <2>8 DEF vars
  <2> QED BY <2>1, <2>2, <2>3, <2>4, <2>5, <2>6, <2>7, <2>8 DEF Does, Requests
<1> QED BY <1>1, AnswersApply, PTL DEF Spec, ApproachChargedOnce

\* The same in the engine's first life, whatever kills it in the end.
LEMMA FirstHeldKept ==
    LET Held == boots = 0 \/ (boots <= 1 /\ at # "down") => Asked /\ LeftArchived
        Inv == CoreInv /\ FirstLife /\ Held
    IN  Inv /\ [Next]_vars => Inv'
<1> DEFINE Living == boots = 0 \/ (boots <= 1 /\ at # "down")
<1> SUFFICES ASSUME CoreInv, FirstLife, Living => Asked /\ LeftArchived, [Next]_vars
             PROVE  CoreInv' /\ FirstLife' /\ (Living' => Asked' /\ LeftArchived')
  OBVIOUS
<1>1. Does /\ CoreInv' /\ boots \in Nat
  BY NextDoes, CoreKept DEF CoreInv, IInv, TypeOK
<1>2. boots' \in {boots, boots + 1}
  BY <1>1, EndsDo, RequestsStir DEF Does, Dispatches, Skips, Ingests, Replans, PlansAnew, Turns,
         BacksOff, Cures, Archives, Decides, Counts, Parks, Waits, Wakes, Starts, ParksAgain,
         Promotes, Requests, DiesAnswered, Records, Dies, vars
<1>3. at = "down" /\ at' # "down" => boots' = boots + 1
  BY <1>1, EndsDo, RequestsStir DEF Does, Stops, Succeeds, Word, Dispatches, Skips, Ingests,
         Replans, PlansAnew, Turns, BacksOff, Cures, Archives, Decides, Counts, Parks, Waits,
         Wakes, Starts, ParksAgain, Promotes, Requests, Stirs, DiesAnswered, Exit, Dies, vars
<1>4. CASE ~Living'
  <2>1. FirstLife'
    BY <1>4 DEF FirstLife
  <2> QED BY <1>1, <1>4, <2>1
<1>5. CASE Living'
  <2>1. Living
    BY <1>1, <1>2, <1>3, <1>5
  <2>2. Spares
    BY <1>1, <1>2, <1>5 DEF Spares, Dies, DiesAnswered, Records, AtAwait, Exit, FirstLife
  <2> QED BY <1>1, <2>1, <2>2, AskedKept, LeftArchivedKept, FirstLifeKept DEF CoreInv
<1> QED BY <1>4, <1>5

\* In its first life the engine's worker works on the plan of the approach it is
\* on, never on one already left (loop.py _step_planning); the
\* `restarted_plan` run shows it may after a restart.
THEOREM FirstPlan == Spec => [](boots <= 1 => WorksOnItsOwnPlan)
<1> DEFINE Held == boots = 0 \/ (boots <= 1 /\ at # "down") => Asked /\ LeftArchived
           Inv == CoreInv /\ FirstLife /\ Held
<1>1. Init => Inv
  BY CoreInit, FirstLifeInit, AskedInit, LeftArchivedInit
<1>2. Inv /\ [Next]_vars => Inv'
  BY FirstHeldKept
<1>3. Inv => (boots <= 1 => WorksOnItsOwnPlan)
  BY DEF FirstLife, WorksOnItsOwnPlan
<1> QED BY <1>1, <1>2, <1>3, PTL DEF Spec

\* Both judges, the operator's answers and the input timeout draw on one
\* allowance of cure rounds per approach, and none outruns it.
THEOREM RoundsWithinAllowance ==
    ASSUME Surviving, Unpatched
    PROVE  Spec => []CureRoundsWithinAllowance
<1>1. Init => HeldInv /\ RoundsCovered
  BY HeldInit, RoundsCoveredInit
<1>2. HeldInv /\ RoundsCovered /\ [Next]_vars => (HeldInv /\ RoundsCovered)'
  <2> SUFFICES ASSUME HeldInv, RoundsCovered, [Next]_vars PROVE HeldInv' /\ RoundsCovered'
    OBVIOUS
  <2> QED BY HeldKept, RoundsCoveredKept, NextDoes, SurvivingSpares DEF HeldInv, CoreInv
<1>3. HeldInv /\ RoundsCovered => CureRoundsWithinAllowance
  <2> SUFFICES ASSUME HeldInv, RoundsCovered, NEW a \in Approaches
               PROVE  status.cures[a] <= CureCeiling + status.topUps[a]
    BY DEF CureRoundsWithinAllowance
  <2>1. /\ status.cures[a] \in Nat /\ status.topUps[a] \in Int /\ CureCeiling \in Nat
    BY SupervisorAssumption DEF HeldInv, CoreInv, IInv, TypeOK, Statuses
  <2>2. status.cures[a] + (IF Owed(a) THEN 1 ELSE 0) <= CureCeiling + status.topUps[a]
    BY DEF RoundsCovered
  <2> QED BY <2>1, <2>2
<1> QED BY <1>1, <1>2, <1>3, PTL DEF Spec

-----------------------------------------------------------------------------
(* Success, where a review speaks only by the way it ends *)

LEMMA UnspokenHolds ==
    ASSUME Surviving, Silent
    PROVE  Spec => [](HeldInv /\ Unspoken)
<1>1. Init => HeldInv /\ Unspoken
  BY HeldInit, JudgedOnlyInit
<1>2. HeldInv /\ Unspoken /\ [Next]_vars => (HeldInv /\ Unspoken)'
  <2> SUFFICES ASSUME HeldInv, Unspoken, [Next]_vars PROVE HeldInv' /\ Unspoken'
    OBVIOUS
  <2> QED BY HeldKept, UnspokenKept, NextDoes DEF HeldInv, CoreInv
<1> QED BY <1>1, <1>2, PTL DEF Spec

\* No path from a park, a timeout, a restart or a fault reaches success around
\* the last judge (loop.py _step_review, _step_verdict_gate,
\* _carry_out_input_answer).
THEOREM JudgedSuccess ==
    ASSUME Surviving, Silent, Structured
    PROVE  Spec => []SuccessIsJudged
<1>1. Init => (HeldInv /\ Unspoken) /\ JudgedOnly
  BY HeldInit, JudgedOnlyInit
<1>2. (HeldInv /\ Unspoken) /\ JudgedOnly /\ [Next]_vars => ((HeldInv /\ Unspoken) /\ JudgedOnly)'
  <2> SUFFICES ASSUME HeldInv, Unspoken, JudgedOnly, [Next]_vars
               PROVE  HeldInv' /\ Unspoken' /\ JudgedOnly'
    OBVIOUS
  <2>1. Does /\ CoreInv /\ Asked
    BY NextDoes DEF HeldInv, CoreInv
  <2> QED BY <2>1, HeldKept, UnspokenKept, JudgedOnlyKept DEF CoreInv
<1>3. JudgedOnly => SuccessIsJudged
  BY DEF JudgedOnly
<1> QED BY <1>1, <1>2, <1>3, PTL DEF Spec

\* Neither a judge nor an operator's answer ends the run in success over
\* outstanding cures (loop.py _terminal_success_blockers).
THEOREM OverNoCures ==
    ASSUME Surviving, Silent
    PROVE  Spec => NoSuccessOverCures
<1>1. HeldInv /\ Unspoken /\ [Next]_vars =>
        [~Succeeding /\ Succeeding' => dir.work # "cure"]_vars
  <2> SUFFICES ASSUME HeldInv, Unspoken, Next, ~Succeeding, Succeeding'
               PROVE  dir.work # "cure"
    BY Zenon
  <2> QED BY NextDoes, SuccessComes, WordIsJudged DEF HeldInv, CoreInv
<1> QED BY <1>1, UnspokenHolds, PTL DEF Spec, NoSuccessOverCures

\* Without a peer gate, whose iteration may outlast the look at the blockers, no
\* success over unsettled steering either, whatever answers a kill leaves behind.
THEOREM OverNoSteering ==
    ASSUME Silent, ~PeerGate
    PROVE  Spec => NoSuccessOverSteering
<1>1. Init => CoreInv /\ Unspoken
  BY CoreInit, JudgedOnlyInit
<1>2. CoreInv /\ Unspoken /\ [Next]_vars => (CoreInv /\ Unspoken)'
  <2> SUFFICES ASSUME CoreInv, Unspoken, [Next]_vars PROVE CoreInv' /\ Unspoken'
    OBVIOUS
  <2> QED BY CoreKept, UnspokenKept, NextDoes DEF CoreInv
<1>3. CoreInv /\ Unspoken /\ [Next]_vars =>
        [~Succeeding /\ Succeeding' => dir.steering + dir.deferred = 0]_vars
  <2> SUFFICES ASSUME CoreInv, Unspoken, Next, ~Succeeding, Succeeding'
               PROVE  dir.steering + dir.deferred = 0
    BY Zenon
  <2> QED BY NextDoes, SuccessComes, WordUnblocked DEF CoreInv
<1> QED BY <1>1, <1>2, <1>3, PTL DEF Spec, NoSuccessOverSteering

-----------------------------------------------------------------------------
(* Refinement: every step of the supervisor is one of RunLifecycle or none *)

\* What the end of an engine step does to the counters.
LEMMA Progresses ==
    ASSUME Patches = {}, CoreInv, CoreInv', Charges, Announces, FileKeeps({"state", "verdict",
           "pending", "exhausted", "approach", "question", "answer", "cures", "topUps"})
    PROVE  Lifecycle!Progress
<1>1. /\ dir.charged \in Nat /\ status.budget \in Nat /\ status'.budget = status.budget
      /\ status.approach \in Int
      /\ \/ proc.approach \in {status.approach, status.approach + 1}
         \/ ~(step = "planning" /\ at = "entry")
  BY DEF CoreInv, IInv, TypeOK, Dirs, Statuses, Approaches, OnFile, FileKeeps
<1>2. dir'.charged <= status.budget
  <2>1. ChargedWithinBudget'
    BY DEF CoreInv, Paid
  <2> QED BY <1>1, <2>1 DEF ChargedWithinBudget
<1>3. dir'.charged \in {dir.charged, dir.charged + 1}
  BY <1>1 DEF Charges
<1>4. status'.approach \in {status.approach, status.approach + 1}
  BY <1>1 DEF Announces
<1> QED BY <1>1, <1>2, <1>3, <1>4 DEF Lifecycle!Progress

\* The counters of a step that leaves them alone.
LEMMA StaysPut ==
    ASSUME CoreInv, dir'.charged = dir.charged, status'.approach = status.approach,
           status'.budget = status.budget
    PROVE  Lifecycle!Progress
BY DEF Lifecycle!Progress

LEMMA LifecycleInit == Init => Lifecycle!Init
BY SupervisorAssumption DEF Init, Lifecycle!Init

LEMMA LifecycleStep ==
    ASSUME Patches = {}, CoreInv, CoreInv', Does
    PROVE  [Lifecycle!Next]_(Lifecycle!vars)
<1> USE DEF RunTerminalStates, Lifecycle!Working, Lifecycle!Terminal
<1>0. /\ GateKept /\ GateKept' /\ SettledShape /\ SettledShape' /\ OnFile
      /\ dir.charged \in Nat /\ status.budget \in Nat
  BY DEF CoreInv, IInv, TypeOK, Dirs, Statuses
<1>1. ASSUME status'.state = status.state, status'.verdict = status.verdict,
             status'.pending = status.pending, status'.exhausted = status.exhausted,
             status'.approach = status.approach, dir'.charged = dir.charged,
             status'.budget = status.budget
      PROVE  UNCHANGED Lifecycle!vars
  BY <1>1 DEF Lifecycle!vars
<1>2. ASSUME Lifecycle!Progress, status.state \in Lifecycle!Working,
             status'.state \in Lifecycle!Working, status'.verdict = status.verdict,
             status'.pending = status.pending, status'.exhausted = status.exhausted
      PROVE  Lifecycle!Next
  BY <1>2 DEF Lifecycle!Next, Lifecycle!Work
<1>3. ASSUME Lifecycle!Progress, at \notin {"down", "reflect"},
             NEW outcome \in RunTerminalStates,
             NEW v \in {"none", "verified", "rejected", "unreviewed", "unverified"},
             outcome = "succeeded" => v = "verified",
             outcome = "aborted" => v = "unverified",
             outcome = "failed" => v # "verified",
             Outcome(outcome, v)
      PROVE  Lifecycle!Next
  <2>1. [state |-> outcome, verdict |-> v] \in Lifecycle!Outcomes
    BY <1>3 DEF Lifecycle!Outcomes
  <2>2. status.state \in Lifecycle!Working /\ status'.exhausted = status.exhausted
    BY <1>0, <1>3 DEF GateKept, Outcome
  <2>3. Lifecycle!Settle
    BY <1>3, <2>1, <2>2 DEF Lifecycle!Settle, Outcome
  <2> QED BY <2>3 DEF Lifecycle!Next
<1>4. CASE Stops
  <2>1. Lifecycle!Progress /\ at \notin {"down", "reflect"}
    <3>1. /\ Charges /\ Announces /\ at \notin {"down", "reflect"}
          /\ FileKeeps({"state", "verdict", "pending", "exhausted", "approach"})
      BY <1>4 DEF Stops
    <3>2. FileKeeps({"state", "verdict", "pending", "exhausted", "approach", "question",
                     "answer", "cures", "topUps"})
      BY <3>1 DEF FileKeeps
    <3> QED BY <3>1, <3>2, Progresses
  <2>2. CASE Outcome("aborted", "unverified")
    BY <1>3, <2>1, <2>2
  <2>3. CASE \E v \in {"none", "rejected", "unreviewed", "unverified"} : Outcome("failed", v)
    BY <1>3, <2>1, <2>3
  <2>4. CASE Holds
    <3>1. status.state \in Lifecycle!Working
      BY <1>0, <2>1 DEF GateKept
    <3>2. /\ status'.exhausted \in Lifecycle!Budgets
          /\ status'.exhausted = "iterations" => dir'.charged >= status.budget
      BY <2>4 DEF Holds, Spent, Lifecycle!Budgets
    <3>3. Lifecycle!Hold
      BY <2>1, <2>4, <3>1, <3>2 DEF Lifecycle!Hold, Holds
    <3> QED BY <3>3 DEF Lifecycle!Next
  <2> QED BY <1>4, <2>2, <2>3, <2>4 DEF Stops, EndsOrHolds
<1>5. CASE Succeeds
  <2>1. /\ Charges /\ at \in {"run", "wait"} /\ status'.approach = status.approach
        /\ status'.budget = status.budget
    BY <1>5 DEF Succeeds, Word, FileKeeps
  <2>2. Lifecycle!Progress
    BY <1>0, <2>1 DEF Lifecycle!Progress, Charges, CoreInv, Paid, ChargedWithinBudget
  <2> QED BY <1>3, <1>5, <2>1, <2>2 DEF Succeeds
<1>6. CASE Dispatches \/ Skips
  <2>1. /\ Charges /\ Announces /\ at \notin {"down", "reflect"}
        /\ at' \notin {"down", "reflect"} /\ FileKeeps({"approach"})
    <3>1. CASE Dispatches
      BY <3>1 DEF Dispatches
    <3>2. CASE Skips
      BY <1>0, <3>2 DEF Skips, Charges, PlanKeeps
    <3> QED BY <1>6, <3>1, <3>2
  <2>2. FileKeeps({"state", "verdict", "pending", "exhausted", "approach", "question",
                   "answer", "cures", "topUps"})
    BY <2>1 DEF FileKeeps
  <2> QED BY <1>0, <1>2, <2>1, <2>2, Progresses DEF GateKept, FileKeeps
<1>7. CASE \/ Ingests \/ Replans \/ Turns \/ Parks
           \/ \E a \in Approaches : Cures(a) \/ Archives(a)
  <2>1. /\ Charges /\ at \notin {"down", "reflect"} /\ at' \notin {"down", "reflect"}
        /\ FileKeeps({"state", "question", "answer"})
        /\ ~(step = "planning" /\ at = "entry")
    BY <1>7 DEF Ingests, Replans, Turns, Parks, Cures, Archives, Decides, FileKeeps
  <2>2. /\ FileKeeps({"state", "verdict", "pending", "exhausted", "approach", "question",
                      "answer", "cures", "topUps"})
        /\ Announces
    BY <2>1 DEF FileKeeps, Announces
  <2> QED BY <1>0, <1>2, <2>1, <2>2, Progresses DEF GateKept, FileKeeps
<1>8. CASE PlansAnew \/ BacksOff \/ Counts \/ Waits \/ Wakes \/ Reallows \/ Ticks \/ Dies
  BY <1>1, <1>8 DEF PlansAnew, BacksOff, Counts, Waits, Wakes, Reallows, Ticks, Dies, FileKeeps,
                    PlanKeeps
<1>9. CASE Starts
  <2>1. Lifecycle!Start
    BY <1>0, <1>9 DEF Starts, FileKeeps, PlanKeeps, Lifecycle!Start
  <2> QED BY <2>1 DEF Lifecycle!Next
<1>10. CASE ParksAgain \/ Pauses \/ Releases \/ IsAnswered
  <2>1. /\ FileKeeps({"state", "question", "topUps", "answer"})
        /\ dir'.charged = dir.charged
    <3>1. CASE ParksAgain \/ Pauses \/ Releases
      BY <3>1 DEF ParksAgain, Pauses, Releases, FileKeeps, PlanKeeps
    <3>2. CASE IsAnswered
      BY <3>2 DEF IsAnswered, Records, FileKeeps, PlanKeeps
    <3> QED BY <1>10, <3>1, <3>2
  <2>2. Lifecycle!Progress
    BY <2>1, StaysPut DEF FileKeeps
  <2>3. CASE status'.state = status.state
    BY <1>1, <2>1, <2>3 DEF FileKeeps
  <2>4. CASE status'.state # status.state
    <3>1. status.state \in Lifecycle!Working /\ status'.state \in Lifecycle!Working
      BY <1>0, <1>10, <2>4 DEF ParksAgain, Pauses, Releases, IsAnswered, Freed, AtAwait,
                               GateKept, SettledShape
    <3> QED BY <1>2, <2>1, <2>2, <3>1 DEF FileKeeps
  <2> QED BY <2>3, <2>4
<1>11. CASE Promotes
  <2>1. Lifecycle!Promote
    BY <1>11 DEF Promotes, FileKeeps, PlanKeeps, Lifecycle!Promote
  <2> QED BY <2>1 DEF Lifecycle!Next
<1>12. CASE DiesAnswered
  BY <1>1, <1>12 DEF DiesAnswered, Records, FileKeeps, PlanKeeps
<1>13. CASE Rebudgets
  BY <1>13 DEF Rebudgets
<1>14. CASE UNCHANGED vars
  BY <1>14 DEF vars, Lifecycle!vars
<1> QED BY <1>4, <1>5, <1>6, <1>7, <1>8, <1>9, <1>10, <1>11, <1>12, <1>13, <1>14 DEF Does

\* Where nobody lowers the iteration budget under what is used, status.json keeps
\* every promise of RunLifecycle: the moves of its state, outcomes and verdicts
\* that belong together and are never reopened, iterations charged within the
\* budget, approaches one at a time, and a hold that names a spent budget.
THEOREM Implements ==
    ASSUME Patches = {}
    PROVE  Spec => ImplementsLifecycle
<1>1. Init => Lifecycle!Init
  BY LifecycleInit
<1>2. CoreInv /\ CoreInv' /\ [Next]_vars => [Lifecycle!Next]_(Lifecycle!vars)
  BY NextDoes, LifecycleStep DEF CoreInv
<1> QED BY <1>1, <1>2, CoreHolds, PTL DEF Spec, ImplementsLifecycle, Lifecycle!Spec

=============================================================================
