-------------------------- MODULE SupervisorProofs --------------------------
(***************************************************************************)
(* Proofs, for every value of the constants, about the run supervisor.     *)
(***************************************************************************)
EXTENDS SupervisorProperties, TLAPS

\* What the end of a step leaves: the reflection, or no process.
Settled ==
    /\ status \in Statuses /\ proc \in Processes /\ step \in Steps
    /\ at \in {"reflect", "down"}
    /\ at = "reflect" => status.state = "finishing"
    /\ status.state = "finishing" => status.pending \in RunTerminalStates

\* The memory of a process that is not there.
LEMMA IdleType == Idle \in Processes
BY SupervisorAssumption DEF Idle, Fresh, Processes, Guards, Questions, Approaches

\* _finish leaves a settled outcome.
LEMMA FinishSettles ==
    ASSUME NEW st \in Statuses, NEW o \in RunTerminalStates, NEW v \in Verdicts,
           proc \in Processes, step \in Steps, Finish(st, o, v)
    PROVE  Settled'
<1>1. CASE Reflect
  <2>1. status' = [st EXCEPT !.state = "finishing", !.verdict = v, !.pending = o]
    BY <1>1 DEF Finish, Finishing
  <2>2. status' \in Statuses /\ status'.state = "finishing" /\ status'.pending = o
    BY <2>1 DEF Statuses, RunStates
  <2>3. proc' \in Processes /\ step' \in Steps /\ at' = "reflect"
    BY <1>1 DEF Finish
  <2> QED BY <2>2, <2>3 DEF Settled
<1>2. CASE ~Reflect
  <2>1. status' = [st EXCEPT !.state = o, !.verdict = v]
    BY <1>2 DEF Finish
  <2>2. status' \in Statuses /\ status'.state # "finishing"
    BY <2>1 DEF Statuses, RunStates, RunTerminalStates
  <2>3. proc' \in Processes /\ step' \in Steps /\ at' = "down"
    BY <1>2, IdleType DEF Finish, Exit, Steps, EntryState
  <2> QED BY <2>2, <2>3 DEF Settled
<1> QED BY <1>1, <1>2

\* _finish_exhausted leaves no process.
LEMMA HoldSettles ==
    ASSUME NEW st \in Statuses, NEW b \in {"approaches", "iterations", "time"},
           Hold(st, b)
    PROVE  Settled'
BY IdleType DEF Hold, Settled, Statuses, RunStates, Verdicts, Exit, Steps,
                EntryState

\* _finish_tail_unverified either settles an outcome or holds.
LEMMA TailSettles ==
    ASSUME NEW st \in Statuses, NEW c \in Nat,
           NEW why \in {"budget", "approaches", "provisional_rejected",
                        "deadline", "graph_fault", "unreviewed", "unverified"},
           proc \in Processes, step \in Steps, Tail(st, why, c)
    PROVE  Settled'
<1> USE DEF Verdicts, RunTerminalStates
<1>1. CASE proc.aborted
  BY <1>1, FinishSettles DEF Tail
<1>2. CASE ~proc.aborted /\ why \in {"budget", "approaches"}
  BY <1>2, HoldSettles DEF Tail, SpentBudget
<1>3. CASE ~proc.aborted /\ why \notin {"budget", "approaches"}
  BY <1>3, FinishSettles DEF Tail
<1> QED BY <1>1, <1>2, <1>3

-----------------------------------------------------------------------------
(* Assembling the invariant of the next state *)

\* What every action leaves of the rest: types of the parts no step disturbs.
Rest ==
    /\ job \in Approaches /\ boots \in Nat
    /\ passed \in Judges \cup {"no", "early"}

\* What a step that goes on leaves, outside of an iteration.
GoesOn ==
    /\ status \in Statuses /\ proc \in Processes /\ step \in Steps
    /\ at \in Places \ {"run", "reflect"}
    /\ status.state # "finishing"

\* A step that settles keeps the invariant if it keeps the types of the rest.
LEMMA SettledKeeps ==
    ASSUME Settled', dir' \in Dirs, Rest'
    PROVE  IInv'
BY DEF Settled, Rest, IInv, TypeOK, SettledShape, SteeringHanded, Places

\* So does a step that goes on with the run.
LEMMA GoesOnKeeps ==
    ASSUME GoesOn', dir' \in Dirs, Rest'
    PROVE  IInv'
BY DEF GoesOn, Rest, IInv, TypeOK, SettledShape, SteeringHanded

\* While the engine works, no outcome is settled.
LEMMA Unsettled ==
    ASSUME IInv, at \notin {"reflect", "down"}
    PROVE  status.state # "finishing"
BY DEF IInv, SettledShape

\* Every way the model rewrites the run directory stays within its type.
LEMMA DirTypes ==
    ASSUME NEW d \in Dirs, NEW phase
    PROVE  /\ Started(d, phase) \in Dirs /\ Started(d, phase).steering = d.steering
           /\ Ended(d) \in Dirs
           /\ Charged(d) \in Dirs /\ Charged(d).steering >= d.steering
           /\ Charged(d).charged \in Nat /\ d.charged \in Nat
<1> DEFINE b == phase = "review"
<1>1. b \in BOOLEAN
  OBVIOUS
<1>2. /\ d.charged \in Nat /\ d.charged + 1 \in Nat
      /\ d.steering \in Nat /\ d.deferred \in Nat
      /\ d.steering + d.deferred \in Nat
      /\ d.steering + d.deferred >= d.steering
  BY DEF Dirs
<1>3. ASSUME NEW r \in BOOLEAN, NEW n \in Nat
      PROVE  LET e == [d EXCEPT !.midReview = r, !.steering = n, !.deferred = 0]
             IN  e \in Dirs /\ e.steering = n /\ e.charged = d.charged
  BY DEF Dirs
<1>4. Ended(d) = [d EXCEPT !.midReview = FALSE,
                           !.steering = d.steering + d.deferred, !.deferred = 0]
  BY DEF Ended
<1>5. /\ Ended(d) \in Dirs /\ Ended(d).charged = d.charged
      /\ Ended(d).steering >= d.steering
  <2> DEFINE m == d.steering + d.deferred
  <2>1. m \in Nat /\ m >= d.steering
    BY <1>2
  <2>2. Ended(d) = [d EXCEPT !.midReview = FALSE, !.steering = m, !.deferred = 0]
    BY <1>4
  <2> HIDE DEF m
  <2>3. LET e == [d EXCEPT !.midReview = FALSE, !.steering = m, !.deferred = 0]
        IN  e \in Dirs /\ e.steering = m /\ e.charged = d.charged
    BY <1>3, <2>1
  <2> QED BY <2>1, <2>2, <2>3
<1>6. ASSUME NEW e \in Dirs, NEW n \in Nat
      PROVE  LET f == [e EXCEPT !.charged = n]
             IN  f \in Dirs /\ f.charged = n /\ f.steering = e.steering
  BY DEF Dirs
<1>7. Charged(d) = [Ended(d) EXCEPT !.charged = d.charged + 1]
  BY <1>5 DEF Charged
<1>8. /\ Charged(d) \in Dirs /\ Charged(d).charged = d.charged + 1
      /\ Charged(d).steering = Ended(d).steering
  BY <1>2, <1>5, <1>6, <1>7
<1>9. ASSUME NEW r \in BOOLEAN
      PROVE  LET e == [d EXCEPT !.reReview = 0, !.midReview = r]
             IN  e \in Dirs /\ e.steering = d.steering
  BY DEF Dirs
<1>10. Started(d, phase) = [d EXCEPT !.reReview = 0, !.midReview = b]
  BY DEF Started
<1> HIDE DEF b
<1> QED BY <1>1, <1>2, <1>5, <1>8, <1>9, <1>10

\* Dispatching an iteration: it is handed no more steering than there is.
LEMMA RunKeeps ==
    ASSUME NEW s \in Steps, NEW d \in Dirs, NEW p \in Processes, Run(s, d, p),
           status' \in Statuses, status'.state # "finishing", Rest'
    PROVE  IInv'
<1>1. dir' \in Dirs /\ dir'.steering = d.steering /\ d.steering \in Nat
  BY DirTypes DEF Run, Dirs
<1>2. step' = s /\ at' = "run"
  BY DEF Run
<1>3. proc' \in Processes
  BY <1>1 DEF Run, Processes
<1>4. s \in {"planning", "steer"} => proc'.carried = dir'.steering
  BY <1>1 DEF Run, Processes
<1>5. TypeOK'
  BY <1>1, <1>2, <1>3 DEF Rest, TypeOK, Places
<1>6. SettledShape'
  BY <1>2 DEF SettledShape
<1>7. SteeringHanded'
  BY <1>1, <1>2, <1>4 DEF SteeringHanded
<1> QED BY <1>5, <1>6, <1>7 DEF IInv

\* Waiting at the gate, or dispatching at once.
LEMMA GateThenRunKeeps ==
    ASSUME NEW s \in Steps, NEW d \in Dirs, NEW p \in Processes,
           GateThenRun(s, d, p), status' \in Statuses,
           status'.state # "finishing", Rest'
    PROVE  IInv'
<1>1. CASE p.gateOpen
  BY <1>1, RunKeeps DEF GateThenRun
<1>2. CASE ~p.gateOpen
  BY <1>2, GoesOnKeeps DEF GateThenRun, GoesOn, Places
<1> QED BY <1>1, <1>2

-----------------------------------------------------------------------------
(* The initial state *)

\* The first conjunct of the argument: the initial state.
LEMMA InitKeeps == Init => IInv
<1> SUFFICES ASSUME Init PROVE IInv
  OBVIOUS
<1>1. 1 \in Approaches /\ MaxApproaches \in Approaches
  BY SupervisorAssumption DEF Approaches
<1>2. status \in Statuses
  BY <1>1, SupervisorAssumption
     DEF Init, Statuses, RunStates, Verdicts, RunTerminalStates, Questions, Answers
<1>3. dir \in Dirs
  BY DEF Init, Dirs, Checkpoints, NoCheckpoint
<1>4. proc \in Processes /\ job \in Approaches
  BY <1>1, IdleType DEF Init
<1> QED
  BY <1>2, <1>3, <1>4
     DEF Init, IInv, TypeOK, SettledShape, SteeringHanded, Steps, Places,
         EntryState

-----------------------------------------------------------------------------
(* Every action preserves the invariant *)

Whys == {"budget", "approaches", "provisional_rejected", "deadline",
         "graph_fault", "unreviewed", "unverified"}

\* The end of a run, from a step that has not gone to its reflection.
LEMMA TailKeeps ==
    ASSUME IInv, NEW st \in Statuses, NEW c \in Nat, NEW why \in Whys,
           Tail(st, why, c), dir' \in Dirs, Rest'
    PROVE  IInv'
BY TailSettles, SettledKeeps DEF IInv, TypeOK, Whys

\* The same, of an outcome named directly.
LEMMA FinishKeeps ==
    ASSUME IInv, NEW st \in Statuses, NEW o \in RunTerminalStates,
           NEW v \in Verdicts, Finish(st, o, v), dir' \in Dirs, Rest'
    PROVE  IInv'
BY FinishSettles, SettledKeeps DEF IInv, TypeOK

\* Starts of the engine, and the end of the reflection.
LEMMA BootKeeps ==
    ASSUME IInv, NEW a \in {0, 1}, NEW i \in {0, 1}, NEW t \in BOOLEAN,
           Boot(a, i, t)
    PROVE  IInv'
<1> USE DEF IInv, TypeOK
<1>1. job' \in Approaches /\ boots' \in Nat
  BY SupervisorAssumption DEF Boot, Approaches
<1>2. Rest' /\ dir' \in Dirs
  BY <1>1 DEF Boot, Rest
<1>3. status' \in Statuses /\ status'.state = "running"
  <2>1. status.budget + i \in Nat
    BY DEF Statuses
  <2>2. ASSUME NEW n \in Nat
        PROVE  OpeningWrite(n) \in Statuses /\ OpeningWrite(n).state = "running"
    BY DEF OpeningWrite, Statuses, RunStates, Verdicts, Questions
  <2> QED BY <2>1, <2>2 DEF Boot
<1>4. /\ ResumePoint.step \in Steps \ {"steer"} /\ ResumePoint.skip \in BOOLEAN
  BY DEF ResumePoint, Steps
<1>5. OpeningQuestion \in Questions
  BY DEF OpeningQuestion, Statuses, Questions
<1>6. proc' \in Processes
  <2>1. (IF dir.planOf = 0 THEN 1 ELSE status.approach) \in Approaches
    BY SupervisorAssumption DEF Statuses, Approaches
  <2>2. ASSUME NEW f \in Approaches, NEW m \in Approaches, NEW g \in BOOLEAN,
               NEW k \in BOOLEAN, NEW q \in Questions
        PROVE  [Fresh(f, m) EXCEPT !.gateOpen = g, !.skip = k, !.parked = q]
                   \in Processes
    BY DEF Fresh, Processes, Guards
  <2>3. (OpeningQuestion.kind = "none") \in BOOLEAN
    OBVIOUS
  <2>4. proc' = [Fresh(IF dir.planOf = 0 THEN 1 ELSE status.approach, job')
                    EXCEPT !.gateOpen = OpeningQuestion.kind = "none",
                           !.skip = ResumePoint.skip, !.parked = OpeningQuestion]
    BY Zenon DEF Boot
  <2> HIDE DEF IInv, TypeOK
  <2> QED BY <1>1, <1>4, <1>5, <2>1, <2>2, <2>3, <2>4, Zenon
<1>7. step' \in Steps /\ at' \in {"opening", "entry"}
  BY <1>4 DEF Boot
<1> QED BY <1>2, <1>3, <1>6, <1>7, GoesOnKeeps DEF GoesOn, Places

\* Every start of the engine, the second opening write, and the reflection.
LEMMA StartsKeep ==
    ASSUME IInv, Repark \/ PromoteRecorded \/ ReflectDone
    PROVE  IInv'
<1> USE DEF IInv, TypeOK
<1>1. CASE Repark
  <2>1. status' \in Statuses /\ status'.state # "finishing"
    BY <1>1 DEF Repark, Statuses, RunStates, Processes
  <2> QED BY <1>1, <2>1, GoesOnKeeps DEF Repark, GoesOn, Rest, Places
<1>2. CASE PromoteRecorded
  <2>1. status' \in Statuses /\ status'.state # "finishing"
    BY <1>2 DEF PromoteRecorded, Statuses, RunStates, RunTerminalStates, Verdicts
  <2> QED BY <1>2, <2>1, GoesOnKeeps DEF PromoteRecorded, GoesOn, Rest, Places
<1>3. CASE ReflectDone
  <2>1. status.pending \in RunTerminalStates
    BY <1>3 DEF ReflectDone, SettledShape
  <2>2. status' \in Statuses /\ status'.state # "finishing"
    BY <1>3, <2>1 DEF ReflectDone, Statuses, RunStates, RunTerminalStates
  <2>3. step' \in Steps /\ at' = "down" /\ proc' \in Processes
    BY <1>3, IdleType DEF ReflectDone, Exit, Steps, EntryState
  <2> QED BY <1>3, <2>2, <2>3, GoesOnKeeps DEF ReflectDone, GoesOn, Rest, Places
<1> QED BY <1>1, <1>2, <1>3

\* What a clean exit consumes was there to consume (SteeringHanded).
LEMMA ConsumedType ==
    ASSUME NEW d \in Dirs, proc.carried <= d.steering, proc \in Processes
    PROVE  Consumed(d) \in Dirs
<1>1. proc.carried \in Nat /\ d.steering \in Nat
  BY DEF Processes, Dirs
<1>2. d.steering - proc.carried \in Nat
  BY <1>1
<1> QED BY <1>2 DEF Consumed, Dirs

\* Planning, and the replan that follows or charges an approach.
LEMMA PlanningKeeps ==
    ASSUME IInv, NEW same \in BOOLEAN,
           \/ PlanningStep \/ PlanningProducesTasks \/ PlanningDies(same)
           \/ ReplanStep
    PROVE  IInv'
<1> USE DEF IInv, TypeOK
<1>1. dir.charged \in Nat /\ proc.approach \in Approaches /\ status \in Statuses
  BY DEF Dirs, Processes
<1>2. CASE PlanningStep
  <2> DEFINE st == [status EXCEPT !.approach = proc.approach]
  <2>1. st \in Statuses /\ st.state # "finishing"
    BY <1>1, <1>2, Unsettled DEF PlanningStep, Statuses
  <2>2. Rest'
    BY <1>2 DEF PlanningStep, Rest
  <2> HIDE DEF st
  <2>3. CASE ~BudgetLeft(dir.charged)
    <3>1. Tail(st, "budget", dir.charged) /\ dir' = dir
      BY <1>2, <2>3 DEF PlanningStep, st
    <3> QED BY <1>1, <2>1, <2>2, <3>1, TailKeeps DEF Whys
  <2>4. CASE BudgetLeft(dir.charged) /\ proc.skip
    <3>1. /\ status' = st /\ dir' = dir /\ step' = "worker" /\ at' = "entry"
          /\ proc' = [proc EXCEPT !.skip = FALSE]
      BY <1>2, <2>4 DEF PlanningStep, Goto, st
    <3>2. proc' \in Processes
      BY <3>1 DEF Processes
    <3> QED BY <2>1, <2>2, <3>1, <3>2, GoesOnKeeps DEF GoesOn, Steps, Places
  <2>5. CASE BudgetLeft(dir.charged) /\ ~proc.skip
    <3>1. status' = st /\ GateThenRun("planning", dir, proc)
      BY <1>2, <2>5 DEF PlanningStep, st
    <3> QED BY <2>1, <2>2, <3>1, GateThenRunKeeps DEF Steps
  <2> QED BY <2>3, <2>4, <2>5
<1>3. ASSUME PlanningProducesTasks \/ PlanningDies(same)
      PROVE  /\ Consumed(Charged(dir)) \in Dirs
             /\ Consumed(Charged(dir)).charged \in Nat
             /\ status.state # "finishing" /\ Rest'
  <2>1. proc.carried <= Charged(dir).steering
    <3>1. /\ proc.carried \in Nat /\ dir.steering \in Nat
          /\ Charged(dir).steering \in Nat
      BY DirTypes DEF Processes, Dirs
    <3>2. proc.carried <= dir.steering
      BY <1>3 DEF SteeringHanded, PlanningProducesTasks, PlanningDies
    <3> QED BY <3>1, <3>2, DirTypes
  <2>2. Consumed(Charged(dir)) \in Dirs
    BY <2>1, DirTypes, ConsumedType
  <2>3. status.state # "finishing" /\ Rest'
    BY <1>3, Unsettled DEF PlanningProducesTasks, PlanningDies, Rest
  <2> QED BY <2>2, <2>3 DEF Dirs
<1>4. CASE PlanningProducesTasks
  <2> DEFINE d == Consumed(Charged(dir))
  <2>1. d \in Dirs /\ d.charged \in Nat /\ status.state # "finishing" /\ Rest'
    BY <1>3, <1>4
  <2> HIDE DEF d
  <2>2. CASE ~BudgetLeft(d.charged)
    <3>1. Tail(status, "budget", d.charged) /\ dir' = d
      BY <1>4, <2>2 DEF PlanningProducesTasks, d
    <3> QED BY <2>1, <3>1, TailKeeps DEF Whys
  <2>3. CASE BudgetLeft(d.charged)
    <3>1. /\ dir' = [d EXCEPT !.planOf = proc.approach, !.work = "plan"]
          /\ status' = [status EXCEPT !.planningDied = FALSE]
          /\ step' = "worker" /\ at' = "entry" /\ proc' = proc
      BY <1>4, <2>3 DEF PlanningProducesTasks, Ingested, Goto, d
    <3>2. dir' \in Dirs
      BY <1>1, <2>1, <3>1 DEF Dirs
    <3>3. status' \in Statuses /\ status'.state # "finishing"
      BY <2>1, <3>1 DEF Statuses
    <3> QED BY <2>1, <3>1, <3>2, <3>3, GoesOnKeeps DEF GoesOn, Steps, Places
  <2> QED BY <2>2, <2>3
<1>5. CASE PlanningDies(same)
  <2> DEFINE d == Consumed(Charged(dir))
  <2>1. d \in Dirs /\ d.charged \in Nat /\ status.state # "finishing" /\ Rest'
    BY <1>3, <1>5
  <2> HIDE DEF d
  <2>2. CASE ~BudgetLeft(d.charged)
    <3>1. Tail(status, "budget", d.charged) /\ dir' = d
      BY <1>5, <2>2 DEF PlanningDies, d
    <3> QED BY <2>1, <3>1, TailKeeps DEF Whys
  <2>3. CASE BudgetLeft(d.charged) /\ same /\ status.planningDied
    <3>1. Tail(status, "unverified", d.charged) /\ dir' = d
      BY <1>5, <2>3 DEF PlanningDies, d
    <3> QED BY <2>1, <3>1, TailKeeps DEF Whys
  <2>4. CASE BudgetLeft(d.charged) /\ ~(same /\ status.planningDied)
    <3>1. /\ dir' = d /\ status' = [status EXCEPT !.planningDied = TRUE]
          /\ proc' = [proc EXCEPT !.guard = "empty_plan"]
          /\ step' = "replan" /\ at' = "entry"
      BY <1>5, <2>4 DEF PlanningDies, Goto, d
    <3>2. status' \in Statuses /\ status'.state # "finishing"
      BY <2>1, <3>1 DEF Statuses
    <3>3. proc' \in Processes
      BY <3>1 DEF Processes, Guards
    <3> QED BY <2>1, <3>1, <3>2, <3>3, GoesOnKeeps DEF GoesOn, Steps, Places
  <2> QED BY <2>2, <2>3, <2>4
<1>6. CASE ReplanStep
  <2>1. Rest' /\ dir' \in Dirs /\ status.state # "finishing"
    BY <1>6, Unsettled DEF ReplanStep, Rest
  <2>2. CASE \E why \in Whys : Tail(status, why, dir.charged)
    BY <1>1, <2>1, <2>2, TailKeeps
  <2>3. CASE Goto("planning") /\ status' = status /\ proc' = proc
    BY <2>1, <2>3, GoesOnKeeps DEF GoesOn, Goto, Steps, Places
  <2>4. CASE /\ proc.approach < proc.max
             /\ proc' = [proc EXCEPT !.approach = proc.approach + 1]
             /\ Goto("planning") /\ status' = status
    <3>1. proc.approach + 1 \in Approaches
      BY <2>4, SupervisorAssumption DEF Processes, Approaches
    <3>2. proc' \in Processes
      BY <2>4, <3>1 DEF Processes
    <3> QED BY <2>1, <2>4, <3>2, GoesOnKeeps DEF GoesOn, Goto, Steps, Places
  <2> QED BY <1>6, <2>2, <2>3, <2>4 DEF ReplanStep, ApproachLeft, Whys
<1> QED BY <1>2, <1>4, <1>5, <1>6

\* The worker's loop up to the start of an iteration.
LEMMA WorkerTurnKeeps ==
    ASSUME IInv,
           \/ WorkerSpent \/ WorkerWaits \/ WorkerSteers \/ WorkerRuns
           \/ WorkerGraphFault \/ WorkerHasNothingToRun
    PROVE  IInv'
<1> USE DEF IInv, TypeOK
<1>1. dir.charged \in Nat /\ proc.approach \in Approaches
  BY DEF Dirs, Processes
<1>2. at \notin {"reflect", "down"}
  BY DEF WorkerSpent, WorkerWaits, WorkerSteers, WorkerRuns, WorkerGraphFault,
         WorkerHasNothingToRun, WorkerTurn
<1>3. status.state # "finishing"
  BY <1>2, Unsettled
<1>4. CASE WorkerSpent
  BY <1>1, <1>4, TailKeeps DEF WorkerSpent, Rest, Whys
<1>5. CASE WorkerWaits
  BY <1>3, <1>5, GoesOnKeeps DEF WorkerWaits, GoesOn, Rest, Places
<1>6. CASE WorkerSteers
  BY <1>3, <1>6, GoesOnKeeps DEF WorkerSteers, Goto, GoesOn, Rest, Places, Steps
<1>7. CASE WorkerRuns
  <2>1. dir' \in Dirs
    BY <1>7, DirTypes DEF WorkerRuns
  <2> QED
    BY <1>3, <1>7, <2>1
       DEF WorkerRuns, WorkerTurn, SettledShape, SteeringHanded, Places
<1>8. CASE WorkerGraphFault
  <2>1. Rest' /\ dir' \in Dirs
    BY <1>8 DEF WorkerGraphFault, Rest
  <2>2. CASE proc.approach \in status.faulted
    BY <1>1, <1>8, <2>1, <2>2, TailKeeps DEF WorkerGraphFault, Whys
  <2>3. CASE proc.approach \notin status.faulted
    <3>1. /\ status' = [status EXCEPT !.faulted = @ \cup {proc.approach}]
          /\ proc' = [proc EXCEPT !.guard = "unschedulable_task_graph"]
          /\ step' = "replan" /\ at' = "entry"
      BY <1>8, <2>3 DEF WorkerGraphFault, Goto
    <3>2. status' \in Statuses /\ status'.state # "finishing"
      BY <1>1, <1>3, <3>1 DEF Statuses
    <3>3. proc' \in Processes
      BY <3>1 DEF Processes, Guards
    <3> QED BY <2>1, <3>1, <3>2, <3>3, GoesOnKeeps DEF GoesOn, Steps, Places
  <2> QED BY <2>2, <2>3
<1>9. CASE WorkerHasNothingToRun
  <2>1. Rest' /\ dir' \in Dirs
    BY <1>9 DEF WorkerHasNothingToRun, Rest
  <2>2. CASE ~BudgetLeft(dir.charged)
    BY <1>1, <1>9, <2>1, <2>2, TailKeeps DEF WorkerHasNothingToRun, Whys
  <2>3. CASE BudgetLeft(dir.charged)
    BY <1>3, <1>9, <2>1, <2>3, GoesOnKeeps
       DEF WorkerHasNothingToRun, Goto, GoesOn, Steps, Places
  <2> QED BY <2>2, <2>3
<1> QED BY <1>4, <1>5, <1>6, <1>7, <1>8, <1>9

\* How a worker iteration ends.
LEMMA WorkerEndKeeps ==
    ASSUME IInv, NEW left \in {"none", "plan", "cure"}, NEW recurs \in BOOLEAN,
           \/ WorkerProgress \/ WorkerReadyForReview(left)
           \/ WorkerStagnates(recurs) \/ WorkerFindsSecret
    PROVE  IInv'
<1> USE DEF IInv, TypeOK
<1>1. /\ at = "run" /\ Rest' /\ proc.approach \in Approaches
      /\ Charged(dir) \in Dirs /\ Charged(dir).charged \in Nat
  BY DirTypes DEF WorkerProgress, WorkerReadyForReview, WorkerStagnates,
                  WorkerFindsSecret, Rest, Processes
<1>2. status.state # "finishing"
  BY <1>1, Unsettled
<1>3. CASE WorkerProgress
  BY <1>1, <1>2, <1>3, GoesOnKeeps
     DEF WorkerProgress, Goto, GoesOn, Steps, Places
<1>4. CASE WorkerReadyForReview(left)
  <2> DEFINE e == [dir EXCEPT !.work = left]
             d == Charged(e)
  <2>1. e \in Dirs
    BY DEF Dirs
  <2> HIDE DEF e
  <2>2. d \in Dirs /\ d.charged \in Nat
    BY <2>1, DirTypes
  <2> HIDE DEF d
  <2>3. CASE ~BudgetLeft(d.charged)
    <3>1. Tail(status, "budget", d.charged) /\ dir' = d
      BY <1>4, <2>3 DEF WorkerReadyForReview, d, e
    <3> QED BY <1>1, <2>2, <3>1, TailKeeps DEF Whys
  <2>4. CASE BudgetLeft(d.charged)
    <3>1. /\ dir' = d /\ step' = "review" /\ at' = "entry"
          /\ status' = status /\ proc' = proc
      BY <1>4, <2>4 DEF WorkerReadyForReview, Goto, d, e
    <3> QED BY <1>1, <1>2, <2>2, <3>1, GoesOnKeeps DEF GoesOn, Steps, Places
  <2> QED BY <2>3, <2>4
<1>5. CASE WorkerStagnates(recurs)
  <2> DEFINE d == Charged(dir)
             st == IF recurs
                   THEN [status EXCEPT !.stalled = @ \cup {proc.approach}]
                   ELSE status
  <2>1. st \in Statuses /\ st.state # "finishing"
    BY <1>1, <1>2 DEF Statuses
  <2>2. d \in Dirs /\ d.charged \in Nat
    BY <1>1
  <2> HIDE DEF d, st
  <2>3. CASE ~BudgetLeft(d.charged)
    <3>1. Tail(st, "budget", d.charged) /\ dir' = d
      BY <1>5, <2>3 DEF WorkerStagnates, d, st
    <3> QED BY <1>1, <2>1, <2>2, <3>1, TailKeeps DEF Whys
  <2>4. CASE BudgetLeft(d.charged)
    <3>1. /\ status' = st /\ dir' = [d EXCEPT !.archived = @ \cup {proc.approach}]
          /\ proc' = [proc EXCEPT !.judge = "worker", !.target = proc.approach]
          /\ at' = "archived" /\ step' = step
      BY <1>5, <2>4 DEF WorkerStagnates, d, st
    <3>2. dir' \in Dirs
      BY <1>1, <2>2, <3>1 DEF Dirs
    <3>3. proc' \in Processes
      BY <3>1 DEF Processes
    <3> QED BY <1>1, <2>1, <3>1, <3>2, <3>3, GoesOnKeeps DEF GoesOn, Places
  <2> QED BY <2>3, <2>4
<1>6. CASE WorkerFindsSecret
  <2>1. SecretQuestion(proc.approach) \in Questions
    BY <1>1 DEF SecretQuestion, NoQuestion, Questions, SecretQuestions
  <2>2. status' \in Statuses /\ status'.state # "finishing"
    BY <1>6, <2>1 DEF WorkerFindsSecret, Parked, Statuses, RunStates
  <2>3. proc' \in Processes
    BY <1>6 DEF WorkerFindsSecret, Processes
  <2> QED BY <1>1, <1>6, <2>2, <2>3, GoesOnKeeps
         DEF WorkerFindsSecret, Goto, GoesOn, Steps, Places
<1> QED BY <1>3, <1>4, <1>5, <1>6

\* The steering iteration: settled, deferred, or failed.
LEMMA SteerKeeps ==
    ASSUME IInv, NEW work \in {"none", "plan", "cure"}, NEW kept \in Nat,
           NEW clean \in BOOLEAN,
           \/ SteerStep \/ SteerSettles(work, kept)
           \/ SteerAnswersInError(work) \/ SteerFails(clean)
    PROVE  IInv'
<1> USE DEF IInv, TypeOK
<1>1. Rest' /\ status.state # "finishing" /\ dir.charged \in Nat
  BY Unsettled DEF SteerStep, SteerSettles, SteerAnswersInError, SteerFails,
                   Rest, Dirs
<1>2. CASE SteerStep
  BY <1>1, <1>2, GateThenRunKeeps DEF SteerStep, Steps
<1>3. CASE SteerSettles(work, kept)
  <2>1. Consumed(dir) \in Dirs
    BY <1>3, ConsumedType DEF SteerSettles, SteeringHanded
  <2>2. dir.deferred + kept \in Nat /\ dir.work \in {"none", "plan", "cure"}
        /\ Consumed(dir).deferred = dir.deferred
    BY DEF Dirs, Consumed
  <2>3. dir' = [Consumed(dir) EXCEPT !.work = work,
                                     !.deferred = dir.deferred + kept]
    BY <1>3, <2>2 DEF SteerSettles
  <2>4. dir' \in Dirs
    BY <2>1, <2>2, <2>3 DEF Dirs
  <2> QED BY <1>1, <1>3, <2>4, GoesOnKeeps
         DEF SteerSettles, Goto, GoesOn, Steps, Places
<1>4. CASE SteerAnswersInError(work)
  <2>1. dir' \in Dirs
    BY <1>4 DEF SteerAnswersInError, Dirs
  <2> QED BY <1>1, <1>4, <2>1, GoesOnKeeps
         DEF SteerAnswersInError, Goto, GoesOn, Steps, Places
<1>5. CASE SteerFails(clean)
  <2> DEFINE d == IF clean THEN Consumed(dir) ELSE dir
  <2>1. d \in Dirs
    BY <1>5, ConsumedType DEF SteerFails, SteeringHanded
  <2>2. CASE BudgetLeft(dir.charged)
    <3>1. GateThenRun("steer", d, proc) /\ status' = status
      BY <1>5, <2>2 DEF SteerFails
    <3> HIDE DEF d
    <3> QED BY <1>1, <2>1, <3>1, GateThenRunKeeps DEF Steps
  <2>3. CASE ~BudgetLeft(dir.charged)
    <3>1. /\ \/ Finish(status, "aborted", "unverified")
             \/ Tail(status, "budget", dir.charged)
          /\ dir' = d
      BY <1>5, <2>3 DEF SteerFails
    <3> HIDE DEF d
    <3>2. CASE Finish(status, "aborted", "unverified")
      BY <1>1, <2>1, <3>1, <3>2, FinishKeeps DEF RunTerminalStates, Verdicts
    <3>3. CASE Tail(status, "budget", dir.charged)
      BY <1>1, <2>1, <3>1, <3>3, TailKeeps DEF Whys
    <3> QED BY <3>1, <3>2, <3>3
  <2> QED BY <2>2, <2>3
<1> QED BY <1>2, <1>3, <1>4, <1>5

-----------------------------------------------------------------------------
(* The ladder's steps *)

\* A verdict changes nothing but the count of faults.
LEMMA JudgedType == ASSUME IInv PROVE Judged \in Processes
BY DEF IInv, TypeOK, Judged, Processes

\* A cure or an archive half done: between its two durable writes.
LEMMA HalfDoneKeeps ==
    ASSUME IInv, NEW judge \in Judges, NEW a \in Approaches, NEW d \in Dirs,
           NEW blocking, NEW p \in Processes,
           TakeCure(judge, a, d, blocking, p) \/ Archive(judge, a, d, p),
           status' \in Statuses, status'.state # "finishing", Rest'
    PROVE  IInv'
<1>1. dir' \in Dirs
  BY DEF TakeCure, Archive, Dirs
<1>2. proc' \in Processes
  BY DEF TakeCure, Archive, Processes
<1>3. step' \in Steps /\ at' \in {"cure_count", "archived"}
  BY DEF TakeCure, Archive, IInv, TypeOK
<1> QED BY <1>1, <1>2, <1>3, GoesOnKeeps DEF GoesOn, Places

\* What nobody's answer leads to is a cure or an archive half done.
LEMMA TimeoutKeeps ==
    ASSUME IInv, NEW judge \in Judges, NEW trigger, NEW blocking,
           NEW a \in Approaches, NEW d \in Dirs, NEW p \in Processes,
           TimeoutOutcome(judge, trigger, blocking, a, d, p),
           status' \in Statuses, status'.state # "finishing", Rest'
    PROVE  IInv'
<1>1. TakeCure(judge, a, d, blocking, p) \/ Archive(judge, a, d, p)
  BY DEF TimeoutOutcome
<1> QED BY <1>1, HalfDoneKeeps

\* A verified edge settles, asks the gate, or returns to the worker.
LEMMA VerifiedEdgeKeeps ==
    ASSUME IInv, NEW judge \in Judges, NEW st \in Statuses, NEW d \in Dirs,
           st.state # "finishing", VerifiedEdge(judge, st, d),
           dir' \in Dirs, Rest'
    PROVE  IInv'
<1>1. CASE Finish(st, "succeeded", "verified")
  BY <1>1, FinishKeeps DEF RunTerminalStates, Verdicts
<1>2. CASE status' = st /\ Goto("worker") /\ proc' = Judged
  BY <1>2, JudgedType, GoesOnKeeps DEF Goto, GoesOn, Steps, Places
<1>3. CASE status' = st /\ Goto("verdict_gate") /\ proc' = Judged
  BY <1>3, JudgedType, GoesOnKeeps DEF Goto, GoesOn, Steps, Places
<1> QED BY <1>1, <1>2, <1>3 DEF VerifiedEdge, ReviewVerifiedEdge

\* A verdict `verified`, with a budget and without.
LEMMA VerifyKeeps ==
    ASSUME IInv, NEW judge \in Judges, NEW d \in Dirs,
           status.state # "finishing", Verify(judge, d),
           job' = job, boots' = boots
    PROVE  IInv'
<1>1. status \in Statuses /\ d.charged \in Nat
  BY DEF IInv, TypeOK, Dirs
<1>2. dir' = d /\ Rest'
  BY DEF Verify, Rest, IInv, TypeOK
<1>3. CASE BudgetLeft(d.charged)
  BY <1>1, <1>2, <1>3, VerifiedEdgeKeeps DEF Verify
<1>4. CASE ~BudgetLeft(d.charged)
  BY <1>1, <1>2, <1>4, TailKeeps DEF Verify, Whys
<1> QED BY <1>3, <1>4

\* A park names one of the three triggers.
LEMMA DecideParks ==
    ASSUME NEW left, NEW blocking, NEW waivers, NEW escalation, NEW spent
    PROVE  LET decision == Decide(left, FALSE, blocking, waivers, escalation,
                                  spent)
           IN  decision.step = "park" => decision.trigger \in Triggers
BY DEF Decide, ParkTrigger, Triggers

\* The five steps of the ladder.
LEMMA RejectKeeps ==
    ASSUME IInv, NEW judge \in Judges, NEW blocking \in SUBSET Findings,
           NEW escalation \in BOOLEAN, NEW d \in Dirs,
           status.state # "finishing", Reject(judge, blocking, escalation, d),
           job' = job, boots' = boots
    PROVE  IInv'
<1> DEFINE a == proc.approach
           decision == Decide(BudgetLeft(d.charged), FALSE, blocking,
                              d.waivers, escalation, RoundsSpent(a))
<1>1. status \in Statuses /\ d.charged \in Nat /\ a \in Approaches
  BY DEF IInv, TypeOK, Dirs, Processes
<1>2. decision.step = "park" => decision.trigger \in Triggers
  BY DecideParks
<1>3. decision.step \in {"exhausted", "waived", "cure", "park"}
  BY DEF Decide
<1>4. ASSUME passed' \in {"no", judge}
      PROVE  Rest'
  BY <1>4 DEF Rest, IInv, TypeOK
<1>5. CASE decision.step = "exhausted"
  <2>1. Tail(status, "budget", d.charged) /\ dir' = d /\ passed' = "no"
    BY <1>5 DEF Reject
  <2> QED BY <1>1, <1>4, <2>1, TailKeeps DEF Whys
<1>6. CASE decision.step = "waived"
  <2>1. VerifiedEdge(judge, status, d) /\ dir' = d /\ passed' = judge
    BY <1>6 DEF Reject
  <2> QED BY <1>1, <1>4, <2>1, VerifiedEdgeKeeps
<1>7. CASE decision.step = "cure"
  <2>1. TakeCure(judge, a, d, blocking, Judged) /\ status' = status
        /\ passed' = "no"
    BY <1>7 DEF Reject
  <2> QED BY <1>1, <1>4, <2>1, JudgedType, HalfDoneKeeps
<1>8. CASE decision.step = "park" /\ InputPause
  <2> DEFINE q == FindingsQuestion(judge, decision.trigger, blocking, a)
  <2>1. q \in Questions
    BY <1>1, <1>2, <1>8 DEF FindingsQuestion, Questions, FindingsQuestions
  <2>2. /\ status' = Parked(status, q)
        /\ dir' = IF judge = "review" THEN [d EXCEPT !.reReview = a] ELSE d
        /\ proc' = [Judged EXCEPT !.gateOpen = FALSE]
        /\ Goto("paused") /\ passed' = "no"
    BY <1>8 DEF Reject
  <2> HIDE DEF q, decision
  <2>3. dir' \in Dirs
    BY <1>1, <2>2 DEF Dirs
  <2>4. status' \in Statuses /\ status'.state # "finishing"
    BY <1>1, <2>1, <2>2 DEF Parked, Statuses, RunStates
  <2>5. proc' \in Processes
    BY <2>2, JudgedType DEF Processes
  <2> QED BY <1>4, <2>2, <2>3, <2>4, <2>5, GoesOnKeeps
         DEF GoesOn, Goto, Steps, Places
<1>9. CASE decision.step = "park" /\ ~InputPause
  <2>1. /\ TimeoutOutcome(judge, decision.trigger, blocking, a, d, Judged)
        /\ status' = status /\ passed' = "no"
    BY <1>9 DEF Reject
  <2> QED BY <1>1, <1>4, <2>1, JudgedType, TimeoutKeeps
<1> QED BY <1>3, <1>5, <1>6, <1>7, <1>8, <1>9

-----------------------------------------------------------------------------
(* The judges *)

\* A review that ends unjudged.
LEMMA UnjudgedKeeps ==
    ASSUME IInv, NEW d \in Dirs, Unjudged(d), Rest'
    PROVE  IInv'
<1>1. /\ status \in Statuses /\ proc.approach \in Approaches
      /\ d.charged \in Nat
  BY DEF IInv, TypeOK, Processes, Dirs
<1>2. dir' \in Dirs
  BY <1>1 DEF Unjudged, Dirs
<1>3. CASE Finish(status, "succeeded", "verified")
  BY <1>1, <1>2, <1>3, FinishKeeps DEF RunTerminalStates, Verdicts
<1>4. CASE \E why \in Whys : Tail(status, why, d.charged)
  BY <1>1, <1>2, <1>4, TailKeeps
<1> QED BY <1>3, <1>4 DEF Unjudged, Whys

\* The review step and the ways its iteration ends.
LEMMA ReviewKeeps ==
    ASSUME IInv, NEW timedOut \in BOOLEAN, NEW blocking \in SUBSET Findings,
           NEW escalation \in BOOLEAN, NEW verdict \in {"verified", "rejected"},
           \/ ReviewStep \/ GateOpens \/ EarlyVerdict(verdict)
           \/ ReviewInterrupted(timedOut) \/ ReviewVerified
           \/ ReviewRejected(blocking, escalation)
    PROVE  IInv'
<1> USE DEF IInv, TypeOK
<1>1. /\ status \in Statuses /\ dir \in Dirs /\ proc \in Processes
      /\ dir.charged \in Nat /\ Charged(dir) \in Dirs
      /\ Charged(dir).charged \in Nat /\ proc.approach \in Approaches
  BY DirTypes DEF Processes
<1>2. status.state # "finishing"
  BY Unsettled DEF ReviewStep, GateOpens, EarlyVerdict, ReviewInterrupted,
                   ReviewVerified, ReviewRejected
<1>3. CASE ReviewStep
  <2>1. Rest'
    BY <1>3 DEF ReviewStep, Rest
  <2>2. CASE BudgetLeft(dir.charged)
    BY <1>1, <1>2, <1>3, <2>1, <2>2, GateThenRunKeeps DEF ReviewStep, Steps
  <2>3. CASE ~BudgetLeft(dir.charged)
    BY <1>1, <1>3, <2>1, <2>3, TailKeeps DEF ReviewStep, Whys
  <2> QED BY <2>2, <2>3
<1>4. CASE GateOpens
  BY <1>1, <1>2, <1>4, RunKeeps DEF GateOpens, Rest
<1>5. CASE EarlyVerdict(verdict)
  <2> DEFINE e == [approach |-> proc.approach, verdict |-> verdict]
  <2>1. e \in Checkpoints
    BY <1>1 DEF Checkpoints
  <2>2. dir' = [dir EXCEPT !.early = e]
    BY <1>5 DEF EarlyVerdict
  <2> HIDE DEF e
  <2>3. dir' \in Dirs
    BY <1>1, <2>1, <2>2 DEF Dirs
  <2> QED BY <1>5, <2>3 DEF EarlyVerdict, SettledShape, SteeringHanded
<1>6. CASE ReviewInterrupted(timedOut)
  <2>1. Rest'
    BY <1>6 DEF ReviewInterrupted, Rest
  <2>2. CASE Unjudged(Charged(dir))
    BY <1>1, <2>1, <2>2, UnjudgedKeeps
  <2>3. CASE GateThenRun("review", Charged(dir), proc) /\ status' = status
    BY <1>1, <1>2, <2>1, <2>3, GateThenRunKeeps DEF Steps
  <2> QED BY <1>6, <2>2, <2>3 DEF ReviewInterrupted
<1>7. CASE ReviewVerified
  BY <1>1, <1>2, <1>7, VerifyKeeps DEF ReviewVerified, Judges
<1>8. CASE ReviewRejected(blocking, escalation)
  BY <1>1, <1>2, <1>8, RejectKeeps DEF ReviewRejected, Judges
<1> QED BY <1>3, <1>4, <1>5, <1>6, <1>7, <1>8

\* The gate's, and what both judges share: a fault and its backoff.
LEMMA JudgesKeep ==
    ASSUME IInv, NEW contract \in BOOLEAN, NEW blocking \in SUBSET Findings,
           \/ JudgeFault(contract) \/ BackoffEnds \/ VerdictGateStep
           \/ GateApproved \/ GateRejected(blocking)
    PROVE  IInv'
<1> USE DEF IInv, TypeOK
<1>1. /\ status \in Statuses /\ dir \in Dirs /\ proc \in Processes
      /\ dir.charged \in Nat /\ dir.charged + 1 \in Nat
      /\ Charged(dir) \in Dirs
  BY DirTypes DEF Dirs
<1>2. status.state # "finishing"
  BY Unsettled DEF JudgeFault, BackoffEnds, VerdictGateStep, GateApproved,
                   GateRejected
<1>3. CASE JudgeFault(contract)
  <2>1. Rest'
    BY <1>3 DEF JudgeFault, Rest
  <2>2. CASE Tail(status, "unreviewed", dir.charged + 1) /\ dir' = Charged(dir)
    BY <1>1, <2>1, <2>2, TailKeeps DEF Whys
  <2>3. CASE /\ dir' = Ended(dir)
             /\ proc' = [proc EXCEPT !.faults = @ + 1, !.guard =
                     IF contract THEN "review_judge_fault_retry" ELSE "none"]
             /\ at' = "backoff" /\ status' = status /\ step' = step
    <3>1. dir' \in Dirs
      BY <1>1, <2>3, DirTypes
    <3>2. proc.faults + 1 \in Nat
      BY DEF Processes
    <3>3. ASSUME NEW n \in Nat, NEW g \in Guards
          PROVE  [proc EXCEPT !.faults = n, !.guard = g] \in Processes
      BY DEF Processes
    <3>4. proc' \in Processes
      BY <2>3, <3>2, <3>3 DEF Guards
    <3> QED BY <1>2, <2>1, <2>3, <3>1, <3>4, GoesOnKeeps DEF GoesOn, Places
  <2> QED BY <1>3, <2>2, <2>3 DEF JudgeFault
<1>4. CASE BackoffEnds
  <2>1. Rest'
    BY <1>4 DEF BackoffEnds, Rest
  <2>2. CASE Tail(status, "unverified", dir.charged) /\ dir' = dir
    BY <1>1, <2>1, <2>2, TailKeeps DEF Whys
  <2>3. CASE Goto("review") /\ status' = status /\ dir' = dir /\ proc' = proc
    BY <1>2, <2>1, <2>3, GoesOnKeeps DEF Goto, GoesOn, Steps, Places
  <2>4. CASE Run(step, dir, proc) /\ status' = status
    BY <1>1, <1>2, <2>1, <2>4, RunKeeps
  <2> QED BY <1>4, <2>2, <2>3, <2>4 DEF BackoffEnds
<1>5. CASE VerdictGateStep
  <2>1. Rest'
    BY <1>5 DEF VerdictGateStep, Rest
  <2>2. CASE BudgetLeft(dir.charged)
    BY <1>1, <1>2, <1>5, <2>1, <2>2, RunKeeps DEF VerdictGateStep
  <2>3. CASE ~BudgetLeft(dir.charged)
    BY <1>1, <1>5, <2>1, <2>3, TailKeeps DEF VerdictGateStep, Whys
  <2> QED BY <2>2, <2>3
<1>6. CASE GateApproved
  BY <1>1, <1>2, <1>6, VerifyKeeps DEF GateApproved, Judges
<1>7. CASE GateRejected(blocking)
  BY <1>1, <1>2, <1>7, RejectKeeps DEF GateRejected, Judges
<1> QED BY <1>3, <1>4, <1>5, <1>6, <1>7

-----------------------------------------------------------------------------
(* Cures, parks and their release *)

\* The second of the two durable writes of a cure, or of an archive.
LEMMA SecondWriteKeeps ==
    ASSUME IInv, CountCure \/ CureStep \/ Archived
    PROVE  IInv'
<1> USE DEF IInv, TypeOK
<1>1. Rest' /\ dir' \in Dirs /\ dir.charged \in Nat
  BY DEF CountCure, CureStep, Archived, Rest, Dirs
<1>2. status.state # "finishing"
  BY Unsettled DEF CountCure, CureStep, Archived
<1>3. CASE CountCure
  <2> DEFINE n == status.cures[proc.target] + 1
             c == [status.cures EXCEPT ![proc.target] = n]
  <2>1. c \in [Approaches -> Nat]
    <3>1. status.cures \in [Approaches -> Nat]
      BY DEF Statuses
    <3>2. proc.target \in Approaches => n \in Nat
      BY <3>1
    <3> QED BY <3>1, <3>2
  <2>2. status' = [status EXCEPT !.cures = c]
    BY <1>3 DEF CountCure
  <2> HIDE DEF c, n
  <2>3. status' \in Statuses /\ status'.state # "finishing"
    BY <1>2, <2>1, <2>2 DEF Statuses
  <2> QED BY <1>1, <1>3, <2>3, GoesOnKeeps
         DEF CountCure, Goto, GoesOn, Steps, Places
<1>4. CASE CureStep
  BY <1>1, <1>2, <1>4, GoesOnKeeps DEF CureStep, Goto, GoesOn, Steps, Places
<1>5. CASE Archived
  <2>1. CASE Tail(status, "approaches", dir.charged)
    BY <1>1, <2>1, TailKeeps DEF Whys
  <2>2. CASE /\ proc' = [proc EXCEPT !.guard = "charged"]
             /\ Goto("replan") /\ status' = status
    <3>1. proc' \in Processes
      BY <2>2 DEF Processes, Guards
    <3> QED BY <1>1, <1>2, <2>2, <3>1, GoesOnKeeps
           DEF Goto, GoesOn, Steps, Places
  <2> QED BY <1>5, <2>1, <2>2 DEF Archived
<1> QED BY <1>3, <1>4, <1>5

\* resume() only ever clears.
LEMMA ReleasedType ==
    ASSUME NEW st \in Statuses
    PROVE  /\ Released(st) \in Statuses
           /\ Released(st).state = "finishing" <=> st.state = "finishing"
           /\ Released(st).pending = st.pending
BY DEF Released, Statuses, RunStates, Questions

\* The park: its wait, its answer carried out, and its timeout.
LEMMA PausedKeeps ==
    ASSUME IInv, PausedStep \/ PausedWakes \/ InputTimesOut
    PROVE  IInv'
<1> USE DEF IInv, TypeOK
<1>1. /\ job' \in Approaches /\ boots' \in Nat /\ dir.charged \in Nat
      /\ status \in Statuses /\ proc \in Processes
  BY DEF PausedStep, PausedWakes, InputTimesOut, Dirs
<1>2. status.state # "finishing"
  BY Unsettled DEF PausedStep, PausedWakes, InputTimesOut
<1>3. CASE PausedStep
  <2>1. Rest' /\ dir' \in Dirs
    BY <1>1, <1>3 DEF PausedStep, Rest
  <2>2. CASE BudgetLeft(dir.charged)
    <3>1. proc' = [proc EXCEPT !.parked = status.question]
          /\ at' = "wait" /\ status' = status /\ step' = step
      BY <1>3, <2>2 DEF PausedStep
    <3>2. proc' \in Processes
      BY <3>1 DEF Statuses, Processes
    <3> QED BY <1>2, <2>1, <3>1, <3>2, GoesOnKeeps DEF GoesOn, Places
  <2>3. CASE ~BudgetLeft(dir.charged)
    BY <1>1, <1>3, <2>1, <2>3, TailKeeps DEF PausedStep, Whys
  <2> QED BY <2>2, <2>3
<1>4. CASE PausedWakes
  <2> DEFINE answer == status.answer
             st == [status EXCEPT !.answer = NoAnswer]
  <2>1. st \in Statuses /\ st.state # "finishing"
    BY <1>1, <1>2 DEF Statuses, Answers
  <2>2. /\ answer.outcome \in {"none", "verified", "cure", "next_approach"}
        /\ answer.outcome # "none" =>
              answer.judge \in Judges /\ answer.approach \in Approaches
    BY <1>1 DEF Statuses, Answers, NoAnswer
  <2>3. CASE answer.outcome = "none"
    <3>1. /\ Goto(AskAgain) /\ status' = status /\ dir' = dir /\ proc' = proc
          /\ passed' = passed
      BY <1>4, <2>3 DEF PausedWakes
    <3>2. AskAgain \in Steps
      BY DEF AskAgain, Steps
    <3> QED BY <1>1, <1>2, <3>1, <3>2, GoesOnKeeps
           DEF Goto, GoesOn, Rest, Steps, Places
  <2>4. CASE answer.outcome = "verified"
    <3>1. /\ VerifiedEdge(answer.judge, st, dir) /\ dir' = dir
          /\ passed' \in {passed, answer.judge}
      BY <1>4, <2>4 DEF PausedWakes
    <3>2. Rest'
      BY <1>1, <2>2, <2>4, <3>1 DEF Rest
    <3> HIDE DEF st, answer
    <3> QED BY <2>1, <2>2, <2>4, <3>1, <3>2, VerifiedEdgeKeeps
  <2>5. CASE answer.outcome = "cure"
    <3>1. /\ TakeCure(answer.judge, answer.approach, dir,
                      proc.parked.findings, proc)
          /\ status' = st /\ passed' = passed
      BY <1>4, <2>5 DEF PausedWakes
    <3> HIDE DEF st, answer
    <3> QED BY <1>1, <2>1, <2>2, <2>5, <3>1, HalfDoneKeeps DEF Rest
  <2>6. CASE answer.outcome = "next_approach"
    <3>1. /\ Archive(answer.judge, answer.approach, dir, proc)
          /\ status' = st /\ passed' = passed
      BY <1>4, <2>6 DEF PausedWakes
    <3> HIDE DEF st, answer
    <3> QED BY <1>1, <2>1, <2>2, <2>6, <3>1, HalfDoneKeeps DEF Rest
  <2> QED BY <2>2, <2>3, <2>4, <2>5, <2>6
<1>5. CASE InputTimesOut
  <2> DEFINE q == status.question
             p == [proc EXCEPT !.gateOpen = TRUE]
  <2>1. q.judge \in Judges /\ q.approach \in Approaches
    BY <1>1, <1>5
       DEF InputTimesOut, Statuses, Questions, FindingsQuestions,
           SecretQuestions, NoQuestion
  <2>2. p \in Processes
    BY <1>1 DEF Processes
  <2>3. TimeoutOutcome(q.judge, q.trigger, q.findings, q.approach, dir, p)
    BY <1>5 DEF InputTimesOut
  <2>4. status' \in Statuses /\ status'.state # "finishing"
    BY <1>1, <1>2, <1>5, ReleasedType DEF InputTimesOut
  <2>5. Rest'
    BY <1>1, <1>5 DEF InputTimesOut, Rest
  <2> HIDE DEF q, p
  <2> QED BY <2>1, <2>2, <2>3, <2>4, <2>5, TimeoutKeeps
<1> QED BY <1>3, <1>4, <1>5

-----------------------------------------------------------------------------
(* The operator and the world *)

\* A request changes neither where the loop stands nor whether an outcome is
\* settled, and takes no steering away.
LEMMA RequestKeeps ==
    ASSUME IInv, status' \in Statuses, dir' \in Dirs, proc' \in Processes,
           status'.state = "finishing" <=> status.state = "finishing",
           status'.pending = status.pending, step' = step,
           at' = at \/ (at = "gate" /\ at' = "woken"),
           dir'.steering >= dir.steering, proc'.carried = proc.carried, Rest'
    PROVE  IInv'
<1> USE DEF IInv, TypeOK
<1>1. TypeOK'
  BY DEF Rest, Places
<1>2. SettledShape'
  BY DEF SettledShape
<1>3. SteeringHanded'
  <2>1. proc.carried \in Nat /\ dir.steering \in Nat /\ dir'.steering \in Nat
    BY DEF Processes, Dirs
  <2> QED BY <2>1 DEF SteeringHanded
<1> QED BY <1>1, <1>2, <1>3

\* The gate, and the flag an abort sets, are switches.
LEMMA SwitchTypes ==
    ASSUME NEW p \in Processes, NEW g \in BOOLEAN, NEW a \in BOOLEAN
    PROVE  LET q == [p EXCEPT !.aborted = a, !.gateOpen = g]
               r == [p EXCEPT !.gateOpen = g]
           IN  /\ q \in Processes /\ q.carried = p.carried
               /\ r \in Processes /\ r.carried = p.carried
BY DEF Processes

\* The requests that touch neither files nor step beyond the park.
LEMMA RequestsKeep ==
    ASSUME IInv, Pause \/ Unpause \/ SecretHandled \/ Abort \/ Steer
    PROVE  IInv'
<1> USE DEF IInv, TypeOK
<1>1. /\ Rest' /\ step' = step /\ status \in Statuses /\ proc \in Processes
      /\ at' = at \/ (at = "gate" /\ at' = "woken")
  BY DEF Pause, Unpause, SecretHandled, Abort, Steer, Woken, Rest
<1>2. dir' \in Dirs /\ dir.steering \in Nat /\ dir'.steering >= dir.steering
  BY DEF Pause, Unpause, SecretHandled, Abort, Steer, Dirs
<1>3. proc' \in Processes /\ proc'.carried = proc.carried
  BY SwitchTypes DEF Pause, Unpause, SecretHandled, Abort, Steer
<1>4. /\ status' \in Statuses /\ status'.pending = status.pending
      /\ status'.state = "finishing" <=> status.state = "finishing"
  <2>1. CASE Pause
    BY <2>1 DEF Pause, Statuses, RunStates
  <2>2. CASE Unpause \/ SecretHandled \/ Abort
    BY <1>1, <2>2, ReleasedType DEF Unpause, SecretHandled, Abort
  <2>3. CASE Steer
    BY <1>1, <2>3 DEF Steer
  <2> QED BY <2>1, <2>2, <2>3
<1> QED BY <1>1, <1>2, <1>3, <1>4, RequestKeeps

\* What plan_answer may return.
LEMMA PlanTypes ==
    ASSUME NEW asked, NEW waivers, NEW waive, NEW accept,
           NEW rounds \in {Unset, 0, 1}, NEW granted \in {0, 1},
           NEW approach, NEW max
    PROVE  LET plan == PlanAnswer(asked, waivers, waive, accept, rounds,
                                  granted, approach, max)
           IN  /\ plan.outcome \in {"refused", "verified", "cure",
                                    "next_approach"}
               /\ plan.rounds \in Nat /\ plan.granted \in Nat
<1>1. Rounds(rounds, granted) \in {0, 1}
  BY DEF Rounds, Unset
<1> QED BY <1>1 DEF PlanAnswer, Refused

\* What an answer writes before it releases the park.
LEMMA AnsweredType ==
    ASSUME IInv, NEW waive \in SUBSET status.question.findings,
           NEW rounds \in {Unset, 0, 1}, NEW granted \in {0, 1},
           Answerable(AnswerPlan(waive, rounds, granted))
    PROVE  LET plan == AnswerPlan(waive, rounds, granted)
           IN  /\ Answered(plan) \in Statuses
               /\ Answered(plan).state = "awaiting_input"
               /\ proc.max + plan.granted \in Approaches
               /\ [dir EXCEPT !.waivers = @ \cup NewWaivers(waive)] \in Dirs
<1> USE DEF IInv, TypeOK
<1> DEFINE plan == AnswerPlan(waive, rounds, granted)
           q == status.question
<1>1. /\ plan.outcome \in {"verified", "cure", "next_approach"}
      /\ plan.rounds \in Nat /\ plan.granted \in Nat
  BY PlanTypes DEF Answerable, AnswerPlan
<1>2. q \in FindingsQuestions
  BY DEF Answerable, Statuses, Questions, SecretQuestions, NoQuestion
<1>3. /\ proc.max \in Approaches /\ proc.approach \in Approaches
      /\ proc.max + plan.granted <= ApproachBound
      /\ status.state = "awaiting_input"
  BY DEF Answerable, Processes
<1>4. NewWaivers(waive) \subseteq Clauses
  BY <1>2, LadderAssumption DEF NewWaivers, FindingsQuestions
<1> HIDE DEF plan
<1>5. proc.max + plan.granted \in Approaches
  BY <1>1, <1>3, SupervisorAssumption DEF Approaches
<1>6. [dir EXCEPT !.waivers = @ \cup NewWaivers(waive)] \in Dirs
  BY <1>4 DEF Dirs
<1>7. Answered(plan) \in Statuses /\ Answered(plan).state = "awaiting_input"
  <2> DEFINE n == status.topUps[proc.approach] + plan.rounds
             c == [status.topUps EXCEPT ![proc.approach] = n]
             r == [outcome |-> plan.outcome, judge |-> q.judge,
                   approach |-> q.approach]
  <2>1. c \in [Approaches -> Int]
    BY <1>1, <1>3 DEF Statuses
  <2>2. r \in Answers
    BY <1>1, <1>2 DEF Answers, FindingsQuestions
  <2>3. Answered(plan) = [status EXCEPT !.topUps = c, !.answer = r]
    BY DEF Answered
  <2> HIDE DEF c, r, n, q
  <2> QED BY <1>3, <2>1, <2>2, <2>3 DEF Statuses
<1> QED BY <1>5, <1>6, <1>7 DEF plan

\* PATCH /config/budget, field by field.
LEMMA PatchesKeep ==
    ASSUME IInv,
           \/ \E budget \in Patches : PatchIterations(budget)
           \/ \E max \in Approaches : PatchMaxApproaches(max)
           \/ PatchDeadline
           \/ \E allowed \in 0 .. CureCeiling + TopUpBound : PatchCureRounds(allowed)
    PROVE  IInv'
<1> USE DEF IInv, TypeOK
<1>1. CASE \E budget \in Patches : PatchIterations(budget)
  <2>1. PICK budget \in Patches : PatchIterations(budget)
    BY <1>1
  <2>2. budget \in Nat
    BY SupervisorAssumption
  <2>3. status' \in Statuses /\ status'.state = status.state /\ status'.pending = status.pending
    BY <2>1, <2>2 DEF PatchIterations, Statuses
  <2> QED BY <2>1, <2>3 DEF PatchIterations, SettledShape, SteeringHanded
<1>2. CASE (\E max \in Approaches : PatchMaxApproaches(max)) \/ PatchDeadline
  <2>1. proc' \in Processes /\ proc'.carried = proc.carried
    BY <1>2 DEF PatchMaxApproaches, PatchDeadline, Processes
  <2> QED BY <1>2, <2>1 DEF PatchMaxApproaches, PatchDeadline, SettledShape, SteeringHanded
<1>3. CASE \E allowed \in 0 .. CureCeiling + TopUpBound : PatchCureRounds(allowed)
  <2>1. PICK allowed \in 0 .. CureCeiling + TopUpBound : PatchCureRounds(allowed)
    BY <1>3
  <2>2. allowed - CureCeiling \in Int /\ proc.approach \in Approaches
    BY SupervisorAssumption DEF Processes
  <2>3. status' \in Statuses /\ status'.state = status.state /\ status'.pending = status.pending
    BY <2>1, <2>2 DEF PatchCureRounds, Statuses
  <2> QED BY <2>1, <2>3 DEF PatchCureRounds, SettledShape, SteeringHanded
<1> QED BY <1>1, <1>2, <1>3

\* An answer, whole or cut by a kill.
LEMMA AnswersKeep ==
    ASSUME IInv, NEW waive \in SUBSET status.question.findings,
           NEW rounds \in {Unset, 0, 1}, NEW granted \in {0, 1},
           Answer(waive, rounds, granted) \/ KilledInAnswer(waive, rounds, granted)
    PROVE  IInv'
<1> USE DEF IInv, TypeOK
<1> DEFINE plan == AnswerPlan(waive, rounds, granted)
<1>1. Answerable(plan) /\ AtAwait /\ status.state = "awaiting_input"
  BY DEF Answer, KilledInAnswer, Answerable
<1>2. /\ Answered(plan) \in Statuses
      /\ Answered(plan).state = "awaiting_input"
      /\ proc.max + plan.granted \in Approaches
      /\ dir' = [dir EXCEPT !.waivers = @ \cup NewWaivers(waive)]
      /\ dir' \in Dirs
  BY <1>1, AnsweredType DEF Answer, KilledInAnswer
<1>3. Rest' /\ dir'.steering = dir.steering /\ dir.steering \in Nat
  BY <1>2 DEF Answer, KilledInAnswer, Rest, Dirs
<1>4. CASE Answer(waive, rounds, granted)
  <2>1. /\ status' = Released(Answered(plan)) /\ step' = step /\ Woken
        /\ proc' = [proc EXCEPT !.max = @ + plan.granted, !.gateOpen = TRUE]
    BY <1>4 DEF Answer
  <2>2. /\ status' \in Statuses /\ status'.state # "finishing"
    BY <1>2, <2>1, ReleasedType
  <2>3. ASSUME NEW n \in Approaches
        PROVE  LET p == [proc EXCEPT !.max = n, !.gateOpen = TRUE]
               IN  p \in Processes /\ p.carried = proc.carried
    BY DEF Processes
  <2>4. proc' \in Processes /\ proc'.carried = proc.carried
    BY <1>2, <2>1, <2>3
  <2>5. status'.pending = status.pending
    BY <1>2, <2>1, ReleasedType DEF Answered, Statuses
  <2> HIDE DEF plan, IInv
  <2> QED BY <1>1, <1>2, <1>3, <2>1, <2>2, <2>4, <2>5, RequestKeeps DEF Woken
<1>5. CASE KilledInAnswer(waive, rounds, granted)
  <2>1. status' = Answered(plan) /\ Exit
    BY <1>5 DEF KilledInAnswer
  <2>2. proc' \in Processes /\ step' \in Steps /\ at' = "down"
    BY <2>1, IdleType DEF Exit, Steps, EntryState
  <2> HIDE DEF plan
  <2> QED BY <1>2, <1>3, <2>1, <2>2, GoesOnKeeps DEF GoesOn, Places
<1> QED BY <1>4, <1>5

\* What the hat, the clock and the host do.
LEMMA WorldKeeps ==
    ASSUME IInv, DeadlinePasses \/ Kill
    PROVE  IInv'
<1> USE DEF IInv, TypeOK
<1>1. Rest' /\ status' = status /\ dir' = dir
  BY DEF DeadlinePasses, Kill, Rest
<1>2. CASE DeadlinePasses
  <2>1. proc' \in Processes /\ proc'.carried = proc.carried
    BY <1>2 DEF DeadlinePasses, Processes
  <2>2. dir.steering \in Nat /\ step' = step /\ at' = at
    BY <1>2 DEF DeadlinePasses, Dirs
  <2> QED BY <1>1, <2>1, <2>2, RequestKeeps
<1>3. CASE Kill
  <2>1. proc' \in Processes /\ step' \in Steps /\ at' = "down"
    BY <1>3, IdleType DEF Kill, Exit, Steps, EntryState
  <2> QED BY <1>1, <2>1, SettledKeeps DEF Settled, SettledShape
<1> QED BY <1>2, <1>3

-----------------------------------------------------------------------------
(* The theorems *)

\* Every step of the engine's own loop.
LEMMA EngineKeeps == IInv /\ EngineStep => IInv'
<1> SUFFICES ASSUME IInv, EngineStep PROVE IInv'
  OBVIOUS
<1>1. CASE Repark \/ ReflectDone
  BY <1>1, StartsKeep
<1>2. CASE \/ PlanningStep \/ PlanningProducesTasks
           \/ \E same \in BOOLEAN : PlanningDies(same)
           \/ ReplanStep
  BY <1>2, PlanningKeeps
<1>3. CASE \/ WorkerSpent \/ WorkerWaits \/ WorkerSteers \/ WorkerRuns
           \/ WorkerGraphFault \/ WorkerHasNothingToRun
  BY <1>3, WorkerTurnKeeps
<1>4. CASE \/ WorkerProgress
           \/ \E left \in {"none", "plan", "cure"} : WorkerReadyForReview(left)
           \/ \E recurs \in BOOLEAN : WorkerStagnates(recurs)
           \/ WorkerFindsSecret
  BY <1>4, WorkerEndKeeps
<1>5. CASE \/ SteerStep
           \/ \E work \in {"none", "plan", "cure"}, kept \in 0 .. SteerBound :
                 SteerSettles(work, kept)
           \/ \E work \in {"none", "plan", "cure"} : SteerAnswersInError(work)
           \/ \E clean \in BOOLEAN : SteerFails(clean)
  <2>1. ASSUME NEW kept \in 0 .. SteerBound PROVE kept \in Nat
    BY SupervisorAssumption
  <2> QED BY <1>5, <2>1, SteerKeeps
<1>6. CASE \/ ReviewStep \/ GateOpens
           \/ \E timedOut \in BOOLEAN : ReviewInterrupted(timedOut)
           \/ ReviewVerified
           \/ \E blocking \in Rejections, escalation \in BOOLEAN :
                 ReviewRejected(blocking, escalation)
  BY <1>6, ReviewKeeps, SupervisorAssumption
<1>7. CASE \/ \E contract \in BOOLEAN : JudgeFault(contract)
           \/ BackoffEnds \/ VerdictGateStep \/ GateApproved
           \/ \E blocking \in Rejections : GateRejected(blocking)
  BY <1>7, JudgesKeep, SupervisorAssumption
<1>8. CASE CountCure \/ CureStep \/ Archived
  BY <1>8, SecondWriteKeeps
<1>9. CASE PausedStep \/ PausedWakes \/ InputTimesOut
  BY <1>9, PausedKeeps
<1> QED
  BY <1>1, <1>2, <1>3, <1>4, <1>5, <1>6, <1>7, <1>8, <1>9 DEF EngineStep

\* IInv is inductive.
LEMMA NextKeeps == IInv /\ [Next]_vars => IInv'
<1> SUFFICES ASSUME IInv, [Next]_vars PROVE IInv'
  OBVIOUS
<1>1. CASE EngineStep
  BY <1>1, EngineKeeps
<1>2. CASE OperatorStep
  <2>1. CASE Pause \/ Unpause \/ SecretHandled \/ Abort \/ Steer
    BY <2>1, RequestsKeep
  <2>2. CASE \E waive \in SUBSET status.question.findings,
                rounds \in {Unset, 0, 1}, granted \in {0, 1} :
                Answer(waive, rounds, granted)
    BY <2>2, AnswersKeep
  <2>3. CASE \E moreApproaches, moreIterations \in {0, 1},
                moreTime \in BOOLEAN :
                Boot(moreApproaches, moreIterations, moreTime)
    BY <2>3, BootKeeps
  <2>4. CASE PromoteRecorded
    BY <2>4, StartsKeep
  <2>5. CASE \/ \E budget \in Patches : PatchIterations(budget)
             \/ \E max \in Approaches : PatchMaxApproaches(max)
             \/ PatchDeadline
             \/ \E allowed \in 0 .. CureCeiling + TopUpBound : PatchCureRounds(allowed)
    BY <2>5, PatchesKeep
  <2> QED BY <1>2, <2>1, <2>2, <2>3, <2>4, <2>5 DEF OperatorStep
<1>3. CASE WorldStep
  <2>1. CASE \E verdict \in {"verified", "rejected"} : EarlyVerdict(verdict)
    <3>1. PICK verdict \in {"verified", "rejected"} : EarlyVerdict(verdict)
      BY <2>1
    <3>2. TRUE \in BOOLEAN /\ {} \in SUBSET Findings
      OBVIOUS
    <3> QED BY <3>1, <3>2, ReviewKeeps
  <2>2. CASE DeadlinePasses \/ Kill
    BY <2>2, WorldKeeps
  <2>3. CASE \E waive \in SUBSET status.question.findings,
                rounds \in {Unset, 0, 1}, granted \in {0, 1} :
                KilledInAnswer(waive, rounds, granted)
    BY <2>3, AnswersKeep
  <2> QED BY <1>3, <2>1, <2>2, <2>3 DEF WorldStep
<1>4. CASE AtRest \/ UNCHANGED vars
  BY <1>4 DEF AtRest, vars, IInv, TypeOK, SettledShape, SteeringHanded
<1> QED BY <1>1, <1>2, <1>3, <1>4 DEF Next

\* In every state the run can reach, for every number of approaches,
\* iterations, cure rounds, findings and restarts: the types hold, a settled
\* outcome waits for its reflection, and no iteration consumes steering it was
\* not handed.
THEOREM Inductive == Spec => []IInv
<1>1. Init => IInv
  BY InitKeeps
<1>2. IInv /\ [Next]_vars => IInv'
  BY NextKeeps
<1> QED BY <1>1, <1>2, PTL DEF Spec

\* status.json, the run directory and the engine's memory only ever hold values
\* of their types.
THEOREM TypeCorrect == Spec => []TypeOK
<1>1. IInv => TypeOK
  BY DEF IInv
<1> QED BY <1>1, Inductive, PTL

\* No step of the dispatch loop runs beside a reflection or without a process.
LEMMA EngineAtWork == EngineStep => at \notin {"reflect", "down"} \/ ReflectDone
<1> SUFFICES ASSUME EngineStep, ~ReflectDone PROVE at \notin {"reflect", "down"}
  OBVIOUS
<1>1. CASE \/ Repark \/ PlanningStep \/ PlanningProducesTasks
           \/ \E same \in BOOLEAN : PlanningDies(same)
           \/ ReplanStep
  BY <1>1 DEF Repark, PlanningStep, PlanningProducesTasks, PlanningDies,
              ReplanStep
<1>2. CASE \/ WorkerSpent \/ WorkerWaits \/ WorkerSteers \/ WorkerRuns
           \/ WorkerGraphFault \/ WorkerHasNothingToRun \/ WorkerProgress
           \/ \E left \in {"none", "plan", "cure"} : WorkerReadyForReview(left)
           \/ \E recurs \in BOOLEAN : WorkerStagnates(recurs)
           \/ WorkerFindsSecret
  BY <1>2 DEF WorkerSpent, WorkerWaits, WorkerSteers, WorkerRuns,
              WorkerGraphFault, WorkerHasNothingToRun, WorkerProgress,
              WorkerReadyForReview, WorkerStagnates, WorkerFindsSecret,
              WorkerTurn
<1>3. CASE \/ SteerStep
           \/ \E work \in {"none", "plan", "cure"}, kept \in 0 .. SteerBound :
                 SteerSettles(work, kept)
           \/ \E work \in {"none", "plan", "cure"} : SteerAnswersInError(work)
           \/ \E clean \in BOOLEAN : SteerFails(clean)
           \/ CountCure \/ CureStep \/ Archived
           \/ PausedStep \/ PausedWakes \/ InputTimesOut
  BY <1>3 DEF SteerStep, SteerFails, SteerSettles, SteerAnswersInError,
              CountCure, CureStep, Archived, PausedStep, PausedWakes, InputTimesOut
<1>4. CASE \/ ReviewStep \/ GateOpens
           \/ \E timedOut \in BOOLEAN : ReviewInterrupted(timedOut)
           \/ ReviewVerified
           \/ \E blocking \in Rejections, escalation \in BOOLEAN :
                 ReviewRejected(blocking, escalation)
           \/ \E contract \in BOOLEAN : JudgeFault(contract)
           \/ BackoffEnds \/ VerdictGateStep \/ GateApproved
           \/ \E blocking \in Rejections : GateRejected(blocking)
  BY <1>4 DEF ReviewStep, GateOpens, ReviewInterrupted, ReviewVerified,
              ReviewRejected, JudgeFault, BackoffEnds, VerdictGateStep,
              GateApproved, GateRejected
<1> QED BY <1>1, <1>2, <1>3, <1>4 DEF EngineStep

\* The step form of SettledOutcomeSurvives.
LEMMA SettledStep ==
    ASSUME IInv, [Next]_vars, status.state = "finishing"
    PROVE  /\ status'.verdict = status.verdict
           /\ \/ status'.state = "finishing" /\ status'.pending = status.pending
              \/ status'.state = status.pending
<1> USE DEF IInv, TypeOK
<1>1. at \in {"reflect", "down"} /\ status.pending \in RunTerminalStates
  BY DEF SettledShape
<1>2. CASE ReflectDone \/ PromoteRecorded
  BY <1>1, <1>2 DEF ReflectDone, PromoteRecorded, Statuses
<1>3. CASE EngineStep /\ ~ReflectDone
  BY <1>1, <1>3, EngineAtWork
<1>4. CASE Pause \/ Unpause \/ Abort \/ Steer
  <2>1. status' = status
    BY <1>4 DEF Pause, Unpause, Abort, Steer, Released
  <2> QED BY <2>1
<1>5. CASE /\ OperatorStep
           /\ ~(PromoteRecorded \/ Pause \/ Unpause \/ Abort \/ Steer)
  <2>1. CASE SecretHandled
             \/ (\E waive \in SUBSET status.question.findings,
                    rounds \in {Unset, 0, 1}, granted \in {0, 1} :
                    Answer(waive, rounds, granted))
             \/ (\E moreApproaches, moreIterations \in {0, 1}, moreTime \in BOOLEAN :
                    Boot(moreApproaches, moreIterations, moreTime))
    BY <2>1 DEF SecretHandled, Answer, Answerable, Boot
  <2>2. CASE \/ \E budget \in Patches : PatchIterations(budget)
             \/ \E max \in Approaches : PatchMaxApproaches(max)
             \/ PatchDeadline
             \/ \E allowed \in 0 .. CureCeiling + TopUpBound : PatchCureRounds(allowed)
    BY <2>2 DEF PatchIterations, PatchMaxApproaches, PatchDeadline, PatchCureRounds, Statuses
  <2> QED BY <1>5, <2>1, <2>2 DEF OperatorStep
<1>6. CASE WorldStep
  <2>1. status' = status
    BY <1>1, <1>6 DEF WorldStep, EarlyVerdict, DeadlinePasses, Kill,
                      KilledInAnswer, Answerable
  <2> QED BY <2>1
<1>7. CASE AtRest \/ UNCHANGED vars
  BY <1>7 DEF AtRest, vars
<1> QED BY <1>2, <1>3, <1>4, <1>5, <1>6, <1>7 DEF Next

\* Once an outcome is settled, neither a request, nor the clock, nor a kill in
\* the reflection, nor the next start of the engine changes it: the run becomes
\* what it settled on.
THEOREM SettledOutcome == Spec => SettledOutcomeSurvives
<1>1. IInv /\ [Next]_vars =>
        [status.state = "finishing" =>
          /\ status'.verdict = status.verdict
          /\ \/ status'.state = "finishing" /\ status'.pending = status.pending
             \/ status'.state = status.pending]_vars
  BY SettledStep
<1> QED BY <1>1, Inductive, PTL DEF Spec, SettledOutcomeSurvives

=============================================================================
