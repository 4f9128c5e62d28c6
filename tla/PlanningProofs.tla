--------------------------- MODULE PlanningProofs ---------------------------
(***************************************************************************)
(* Planning's and the retry's promises, for every value of the constants.  *)
(***************************************************************************)
EXTENDS PlanningProperties, FiniteSetTheorems, TLAPS

(***************************************************************************)
(* The clock.  A wait begins only where none is under way, so that what it *)
(* takes from the deadline is exactly what it gives back.                  *)
(***************************************************************************)
ClockInv ==
    /\ clock \in [left : Int, worked : Int, ran : BOOLEAN, allowance : Int]
    /\ wait = [planned |-> wait.planned, elapsed |-> wait.elapsed] /\ wait.elapsed \in Int
    /\ ~Waiting => wait.elapsed = 0
    /\ DeadlineCountsOnlyWork

\* Whatever does not touch the clock, the wait and where the retry stands.
LEMMA ClockUntouched ==
    ASSUME ClockInv, UNCHANGED <<clock, wait>>, Waiting' = Waiting
    PROVE  ClockInv'
  BY DEF ClockInv, DeadlineCountsOnlyWork

\* Leaving a wait gives back what it took.
LEMMA WaitGivenBack ==
    ASSUME ClockInv, clock' = Extended, wait' = NoWait
    PROVE  ClockInv'
  BY DEF ClockInv, DeadlineCountsOnlyWork, Extended, NoWait

\* Entering one takes nothing yet.
LEMMA WaitStarted ==
    ASSUME ClockInv, ~Waiting, NEW planned, StartWait(planned), UNCHANGED clock
    PROVE  ClockInv'
  BY DEF ClockInv, DeadlineCountsOnlyWork, StartWait

LEMMA LimitStarted ==
    ASSUME ClockInv, ~Waiting, WaitOutRateLimit, UNCHANGED clock
    PROVE  ClockInv'
  <1>. PICK planned \in RateWaits :
        \/ at' = "left" /\ UNCHANGED wait
        \/ StartWait(planned)
    BY DEF WaitOutRateLimit
  <1>1. CASE at' = "left" /\ UNCHANGED wait
    BY <1>1 DEF ClockInv, DeadlineCountsOnlyWork, Waiting
  <1>2. CASE StartWait(planned)
    BY <1>2, WaitStarted
  <1>. QED  BY <1>1, <1>2

LEMMA ClockOfProceed == ASSUME ClockInv, Proceed PROVE ClockInv'
  <1>1. CASE Preempt
    BY <1>1, LimitStarted DEF Preempt, Waiting
  <1>2. CASE Begin
    BY <1>2 DEF Begin, ClockInv, DeadlineCountsOnlyWork, Waiting
  <1>3. CASE Work
    <2>1. clock' = [left |-> clock.left - 1, worked |-> clock.worked + 1, ran |-> TRUE,
                    allowance |-> clock.allowance]
      BY <1>3 DEF Work, ClockInv
    <2>2. UNCHANGED <<at, wait>>
      BY <1>3 DEF Work
    <2>3. /\ wait.elapsed \in Int /\ clock.left \in Int /\ clock.worked \in Int
          /\ clock.allowance \in Int
      BY DEF ClockInv
    <2>4. DeadlineCountsOnlyWork'
      BY <2>1, <2>2, <2>3 DEF ClockInv, DeadlineCountsOnlyWork
    <2>. QED  BY <2>1, <2>2, <2>3, <2>4 DEF ClockInv, Waiting
  <1>4. CASE AttemptEnds
    <2>. PICK e \in Endings :
            EndLimited(e) \/ EndRefused(e) \/ EndAnswered(e) \/ EndAtOnce(e) \/ EndOutage(e)
      BY <1>4 DEF AttemptEnds
    <2>1. CASE EndLimited(e)
      BY <2>1, LimitStarted DEF EndLimited, Ends, Waiting
    <2>2. CASE EndRefused(e) \/ EndAnswered(e) \/ EndAtOnce(e)
      BY <2>2, ClockUntouched DEF EndRefused, EndAnswered, EndAtOnce, Ends, Waiting
    <2>3. CASE EndOutage(e)
      <3>1. ~Waiting /\ UNCHANGED clock
        BY <2>3 DEF EndOutage, Ends, Waiting
      <3>2. (at' = "left" /\ UNCHANGED wait) \/ (\E b : StartWait(b))
        BY <2>3 DEF EndOutage
      <3>3. CASE at' = "left" /\ UNCHANGED wait
        BY <3>1, <3>3, ClockUntouched DEF Waiting
      <3>4. CASE \E b : StartWait(b)
        BY <3>1, <3>4, WaitStarted
      <3>. QED  BY <3>2, <3>3, <3>4
    <2>. QED  BY <2>1, <2>2, <2>3
  <1>5. CASE Tick
    BY <1>5 DEF Tick, ClockInv, DeadlineCountsOnlyWork, Waiting
  <1>6. CASE WaitOver
    BY <1>6, WaitGivenBack DEF WaitOver, Accounted
  <1>. QED  BY <1>1, <1>2, <1>3, <1>4, <1>5, <1>6 DEF Proceed

LEMMA ClockOfBell == ASSUME ClockInv, Bell PROVE ClockInv'
  <1>1. CASE RetryNow
    BY <1>1, WaitGivenBack DEF RetryNow, Accounted
  <1>2. CASE Steered
    BY <1>2, WaitGivenBack DEF Steered, Accounted
  <1>3. CASE Abort
    <2>1. CASE Wakeable /\ Accounted(FALSE)
      BY <2>1, WaitGivenBack DEF Accounted
    <2>2. CASE UNCHANGED <<at, clock, wait, episode, rateWaited>>
      BY <2>2, ClockUntouched DEF Waiting
    <2>. QED  BY <1>3, <2>1, <2>2 DEF Abort
  <1>4. CASE SetDeadline
    <2>1. clock' = [left |-> clock.left + 1, worked |-> clock.worked, ran |-> clock.ran,
                    allowance |-> clock.allowance + 1]
      BY <1>4 DEF SetDeadline, ClockInv
    <2>2. UNCHANGED <<at, wait>>
      BY <1>4 DEF SetDeadline
    <2>3. /\ wait.elapsed \in Int /\ clock.left \in Int /\ clock.worked \in Int
          /\ clock.allowance \in Int
      BY DEF ClockInv
    <2>4. DeadlineCountsOnlyWork'
      BY <2>1, <2>2, <2>3 DEF ClockInv, DeadlineCountsOnlyWork
    <2>. QED  BY <2>1, <2>2, <2>3, <2>4 DEF ClockInv, Waiting
  <1>. QED  BY <1>1, <1>2, <1>3, <1>4 DEF Bell

\* A step that leaves the retry alone, or only asks and takes.
LEMMA ClockOfAsking ==
    ASSUME ClockInv,
           UNCHANGED <<clock, wait>>,
           at' = at \/ (~Waiting /\ at' \in {"idle", "asked"})
    PROVE  ClockInv'
  BY ClockUntouched DEF Waiting

LEMMA ClockOfSteps ==
    ASSUME ClockInv, PlanningStep \/ ReviewStep \/ WorkerStep \/ ReplanStep
    PROVE  ClockInv'
  <1>1. CASE PlanningStep
    BY <1>1, ClockOfAsking
    DEF PlanningStep, PlanningUnaffordable, PlanningBegins, PlanningSkipped, PlanningAsks,
        PlanningAsksAgain, PlanningReads, PlanningGivesUp, PlanningOutlived, PlanningDies,
        PlanningLands, RetryUntouched, retryVars, AskedFor, Answer, OnlyAt, Waiting
  <1>2. CASE ReviewStep
    BY <1>2, ClockOfAsking
    DEF ReviewStep, ReviewUnaffordable, ReviewAsks, ReviewAsksAgain, ReviewReads,
        RetryUntouched, retryVars, AskedFor, Answer, OnlyAt, Waiting
  <1>3. CASE WorkerStep
    BY <1>3, ClockOfAsking
    DEF WorkerStep, WorkerUnaffordable, WorkerWorks, WorkerRejected, SelfHealGraphFault,
        WorkerDone, RetryUntouched, retryVars
  <1>4. CASE ReplanStep
    BY <1>4, ClockOfAsking
    DEF ReplanStep, ReplanUncharged, Replan, RetryUntouched, retryVars
  <1>. QED  BY <1>1, <1>2, <1>3, <1>4

LEMMA ClockOfTail == ASSUME ClockInv, TailStep PROVE ClockInv'
  <1>1. CASE ReflectionSkipped
    BY <1>1, ClockOfAsking DEF ReflectionSkipped, RetryUntouched, retryVars
  <1>2. CASE BeginReflection
    <2>1. ~Waiting /\ UNCHANGED clock
      BY <1>2 DEF BeginReflection, Waiting
    <2>2. StartWait(ReflectDelay) \/ (at' = "asked" /\ UNCHANGED wait)
      BY <1>2 DEF BeginReflection
    <2>. QED  BY <2>1, <2>2, WaitStarted, ClockOfAsking
  <1>3. CASE ReflectionEnds
    BY <1>3, ClockOfAsking DEF ReflectionEnds, Waiting
  <1>. QED  BY <1>1, <1>2, <1>3 DEF TailStep

LEMMA ClockOfKill == ASSUME ClockInv, Kill PROVE ClockInv'
  BY RetryAssumption DEF Kill, ClockInv, DeadlineCountsOnlyWork, FreshClock, NoWait, Waiting

\* Waiting is never work (_extend_deadline_by): for any schedule, any budgets,
\* any endings and bells, the time left is the allowance less what was worked and
\* the wait under way.
THEOREM WaitingIsNoWork == Spec => []DeadlineCountsOnlyWork
  <1>1. Init => ClockInv
    BY RetryAssumption
    DEF Init, RetryInit, ClockInv, DeadlineCountsOnlyWork, FreshClock, NoWait, Waiting
  <1>2. ASSUME ClockInv, [Next]_vars PROVE ClockInv'
    <2>1. CASE PlanningStep \/ ReviewStep \/ WorkerStep \/ ReplanStep
      BY <1>2, <2>1, ClockOfSteps
    <2>2. CASE TailStep
      BY <1>2, <2>2, ClockOfTail
    <2>3. CASE Proceed
      BY <1>2, <2>3, ClockOfProceed
    <2>4. CASE Bell
      BY <1>2, <2>4, ClockOfBell
    <2>5. CASE Kill
      BY <1>2, <2>5, ClockOfKill
    <2>6. CASE Over \/ UNCHANGED vars
      BY <1>2, <2>6, ClockOfAsking DEF Over, vars, retryVars
    <2>. QED  BY <1>2, <2>1, <2>2, <2>3, <2>4, <2>5, <2>6 DEF Next, Engine
  <1>3. ClockInv => DeadlineCountsOnlyWork
    BY DEF ClockInv
  <1>. QED  BY <1>1, <1>2, <1>3, PTL DEF Spec

(***************************************************************************)
(* The work.  What the current approach recorded is on the plan only while *)
(* nothing is about to write another one, unless its graph was at fault.   *)
(***************************************************************************)
Safe == disk.worked = memory.approach => memory.approach \in record.faulted

Shapes ==
    /\ memory = [approach |-> memory.approach, skip |-> memory.skip, guard |-> memory.guard,
                 objection |-> memory.objection, fault |-> memory.fault,
                 attempt |-> memory.attempt, errors |-> memory.errors, reply |-> memory.reply]
    /\ disk = [plan |-> disk.plan, proposed |-> disk.proposed, worked |-> disk.worked]
    /\ record = [approach |-> record.approach, revisions |-> record.revisions,
                 settled |-> record.settled, death |-> record.death,
                 faulted |-> record.faulted, blockers |-> record.blockers,
                 archived |-> record.archived, reflect |-> record.reflect]

\* The work on the plan is that of an approach the run has reached.
Reached ==
    /\ memory.approach \in Nat \ {0} /\ record.approach \in Nat \ {0} /\ disk.worked \in Nat
    /\ disk.worked <= memory.approach /\ disk.worked <= record.approach
    /\ disk.plan = <<>> => disk.worked = 0

\* On record from the moment planning begins.
OnRecord ==
    step \in {"plan_review", "worker"} \/ (step = "planning" /\ phase # "enter")
        => record.approach = memory.approach

\* Where another plan may be written next.
Guarded ==
    /\ step = "planning" /\ phase # "enter" => ~memory.skip
    /\ step = "planning" /\ ~memory.skip => Safe
    /\ step = "replan" /\ memory.guard \in {"empty_plan", "graph"} => Safe

WorkInv == Shapes /\ Reached /\ OnRecord /\ Guarded

USE DEF Advance

LEMMA WorkOfPlanning == ASSUME WorkInv, PlanningStep PROVE WorkInv'
  <1>1. CASE PlanningUnaffordable
    BY <1>1 DEF PlanningUnaffordable, WorkInv, Shapes, Reached, OnRecord, Guarded
  <1>2. CASE PlanningBegins
    BY <1>2 DEF PlanningBegins, WorkInv, Shapes, Reached, OnRecord, Guarded, Safe
  <1>3. CASE PlanningSkipped
    BY <1>3 DEF PlanningSkipped, WorkInv, Shapes, Reached, OnRecord, Guarded
  <1>4. CASE PlanningAsks \/ PlanningAsksAgain
    BY <1>4 DEF PlanningAsks, PlanningAsksAgain, WorkInv, Shapes, Reached, OnRecord, Guarded, Safe
  <1>5. CASE PlanningReads \/ PlanningGivesUp
    <2>1. /\ step = "planning" /\ phase # "enter" /\ step' = step /\ phase' # "enter"
          /\ UNCHANGED <<disk, record>>
      BY <1>5 DEF PlanningReads, PlanningGivesUp, AttemptFails
    <2>2. /\ memory'.approach = memory.approach /\ memory'.skip = memory.skip
          /\ Shapes'
      BY <1>5, <2>1 DEF PlanningReads, PlanningGivesUp, AttemptFails, WorkInv, Shapes
    <2>. QED  BY <2>1, <2>2 DEF WorkInv, Reached, OnRecord, Guarded, Safe
  <1>6. CASE PlanningOutlived
    BY <1>6 DEF PlanningOutlived, WorkInv, Shapes, Reached, OnRecord, Guarded
  <1>7. CASE PlanningDies
    BY <1>7 DEF PlanningDies, WorkInv, Shapes, Reached, OnRecord, Guarded, Safe
  <1>8. CASE PlanningLands
    <2>1. /\ step = "planning" /\ phase # "enter" /\ step' \in {"plan_review", "worker"}
          /\ disk' = [plan |-> disk'.plan, proposed |-> disk'.proposed, worked |-> 0]
          /\ disk'.worked = 0
      BY <1>8 DEF PlanningLands
    <2>2. /\ memory' = [memory EXCEPT !.reply = <<>>]
          /\ record' = [record EXCEPT !.death = {}]
      BY <1>8 DEF PlanningLands
    <2>3. /\ memory'.approach = memory.approach /\ record'.approach = record.approach
          /\ Shapes'
      BY <2>1, <2>2 DEF WorkInv, Shapes
    <2>. QED  BY <2>1, <2>3 DEF WorkInv, Reached, OnRecord, Guarded
  <1>. QED  BY <1>1, <1>2, <1>3, <1>4, <1>5, <1>6, <1>7, <1>8 DEF PlanningStep

LEMMA WorkOfReview == ASSUME WorkInv, ReviewStep PROVE WorkInv'
  <1>1. CASE ReviewUnaffordable \/ ReviewAsks \/ ReviewAsksAgain
    BY <1>1 DEF ReviewUnaffordable, ReviewAsks, ReviewAsksAgain, WorkInv, Shapes, Reached,
                OnRecord, Guarded
  <1>2. CASE ReviewReads
    <2>1. step = "plan_review" /\ UNCHANGED disk
      BY <1>2 DEF ReviewReads
    <2>2. CASE ReviewApproves \/ ReviewOverruled
      BY <2>1, <2>2 DEF ReviewApproves, ReviewOverruled, PlanIsSettled, WorkInv, Shapes,
                        Reached, OnRecord, Guarded
    <2>3. CASE ReviewObjects
      BY <2>1, <2>3 DEF ReviewObjects, RecordedWork, WorkInv, Shapes, Reached, OnRecord,
                        Guarded, Safe
    <2>. QED  BY <1>2, <2>2, <2>3 DEF ReviewReads
  <1>. QED  BY <1>1, <1>2 DEF ReviewStep

LEMMA WorkOfWorker == ASSUME WorkInv, WorkerStep PROVE WorkInv'
  <1>1. CASE WorkerUnaffordable \/ WorkerDone
    BY <1>1 DEF WorkerUnaffordable, WorkerDone, WorkInv, Shapes, Reached, OnRecord, Guarded
  <1>2. CASE WorkerWorks
    BY <1>2 DEF WorkerWorks, WorkInv, Shapes, Reached, OnRecord, Guarded
  <1>3. CASE WorkerRejected
    BY <1>3 DEF WorkerRejected, WorkInv, Shapes, Reached, OnRecord, Guarded
  <1>4. CASE SelfHealGraphFault
    BY <1>4 DEF SelfHealGraphFault, WorkInv, Shapes, Reached, OnRecord, Guarded, Safe
  <1>. QED  BY <1>1, <1>2, <1>3, <1>4 DEF WorkerStep

LEMMA WorkOfReplan == ASSUME WorkInv, ReplanStep PROVE WorkInv'
  <1>1. CASE ReplanUncharged
    BY <1>1 DEF ReplanUncharged, WorkInv, Shapes, Reached, OnRecord, Guarded, Safe
  <1>2. CASE Replan
    BY <1>2 DEF Replan, WorkInv, Shapes, Reached, OnRecord, Guarded, Safe
  <1>. QED  BY <1>1, <1>2 DEF ReplanStep

LEMMA WorkOfRest ==
    ASSUME WorkInv, TailStep \/ Kill \/ Over \/ UNCHANGED planningVars
    PROVE  WorkInv'
  <1>1. CASE TailStep
    BY <1>1 DEF TailStep, ReflectionSkipped, BeginReflection, ReflectionEnds, WorkInv, Shapes,
                Reached, OnRecord, Guarded
  <1>2. CASE Kill
    <2>1. UNCHANGED <<disk, record>>
      BY <1>2 DEF Kill
    <2>2. /\ step' \in {"planning", "replan"} /\ phase' = "enter"
          /\ step' = "planning" => memory'.skip = (disk.plan # <<>>)
          /\ memory'.guard = "none"
          /\ memory'.approach = IF disk.plan = <<>> THEN 1 ELSE record.approach
          /\ memory' = [approach |-> memory'.approach, skip |-> memory'.skip, guard |-> memory'.guard,
                        objection |-> memory'.objection, fault |-> memory'.fault,
                        attempt |-> memory'.attempt, errors |-> memory'.errors,
                        reply |-> memory'.reply]
      BY <1>2 DEF Kill, Resumed, FreshMemory
    <2>3. Shapes' /\ OnRecord'
      BY <2>1, <2>2 DEF WorkInv, Shapes, OnRecord
    <2>4. Reached'
      BY <2>1, <2>2 DEF WorkInv, Reached
    <2>5. step' = "planning" /\ ~memory'.skip => memory'.approach # disk'.worked
      <3>. SUFFICES ASSUME step' = "planning", ~memory'.skip PROVE memory'.approach # disk'.worked
        OBVIOUS
      <3>1. disk.plan = <<>>
        BY <2>2
      <3>. QED  BY <2>1, <2>2, <3>1 DEF WorkInv, Reached
    <2>6. Guarded'
      BY <2>1, <2>2, <2>5 DEF Guarded, Safe
    <2>. QED  BY <2>3, <2>4, <2>6 DEF WorkInv
  <1>3. CASE Over \/ UNCHANGED planningVars
    BY <1>3 DEF Over, vars, planningVars, WorkInv, Shapes, Reached, OnRecord, Guarded, Safe
  <1>. QED  BY <1>1, <1>2, <1>3

LEMMA WorkIsInductive == ASSUME WorkInv, [Next]_vars PROVE WorkInv'
  BY WorkOfPlanning, WorkOfReview, WorkOfWorker, WorkOfReplan, WorkOfRest
  DEF Next, Engine, vars

LEMMA OnlyGraphFaultsReplace ==
    ASSUME WorkInv, [Next]_vars, disk.worked = memory.approach, memory'.approach = memory.approach
    PROVE  disk'.worked = disk.worked \/ memory.approach \in record.faulted
  <1>1. CASE PlanningLands
    BY <1>1 DEF PlanningLands, WorkInv, Guarded, Safe
  <1>2. CASE WorkerWorks
    BY <1>2 DEF WorkerWorks, WorkInv, Shapes
  <1>3. CASE ~PlanningLands /\ ~WorkerWorks
    <2>. UNCHANGED disk
      BY <1>3
      DEF Next, Engine, vars, planningVars, PlanningStep, PlanningUnaffordable, PlanningBegins,
          PlanningSkipped, PlanningAsks, PlanningAsksAgain, PlanningReads, PlanningGivesUp,
          PlanningOutlived, PlanningDies, ReviewStep, ReviewUnaffordable, ReviewAsks,
          ReviewAsksAgain, ReviewReads, WorkerStep, WorkerUnaffordable, WorkerRejected,
          SelfHealGraphFault, WorkerDone, ReplanStep, ReplanUncharged, Replan, TailStep,
          ReflectionSkipped, BeginReflection, ReflectionEnds, Kill, Over
    <2>. QED  OBVIOUS
  <1>. QED  BY <1>1, <1>2, <1>3

\* No objection, resume or dead planning writes a plan over recorded work of the
\* approach in hand: for any proposals, any number of approaches and kills, with
\* the peer's review of plans or without.
THEOREM WorkSurvives == Spec => RecordedWorkSurvives
  <1>1. Init => WorkInv
    BY DEF Init, WorkInv, Shapes, Reached, OnRecord, Guarded, Safe, FreshMemory, NoPlan
  <1>2. WorkInv /\ [Next]_vars => WorkInv'
    BY WorkIsInductive
  <1>3. WorkInv /\ [Next]_vars =>
            [disk.worked = memory.approach /\ memory'.approach = memory.approach =>
                disk'.worked = disk.worked \/ memory.approach \in record.faulted]_vars
    BY OnlyGraphFaultsReplace
  <1>. QED  BY <1>1, <1>2, <1>3, PTL DEF Spec, RecordedWorkSurvives

(***************************************************************************)
(* The repair.  A pass of it changes one clause or folds the last ones;    *)
(* there are as many passes as clauses, so what they leave is shown by     *)
(* induction on their number.                                              *)
(***************************************************************************)
\* Induction, over a set: what holds of 0 and passes on to the next number holds
\* of every number.
LEMMA SetInduction ==
    ASSUME NEW S, 0 \in S, \A n \in Nat : n \in S => n + 1 \in S
    PROVE  Nat \subseteq S
  <1>. SUFFICES ASSUME Nat \ S # {} PROVE FALSE
    OBVIOUS
  <1>. DEFINE R == OpToRel(<, Nat)
  <1>1. \A m, n \in Nat : m < n => <<m, n>> \in R
    BY DEF OpToRel
  <1>2. IsWellFoundedOn(R, Nat)
    BY NatLessThanWellFounded, Zenon
  <1>. HIDE DEF R
  <1>3. PICK x \in Nat \ S : \A y \in Nat \ S : <<y, x>> \notin R
    <2>1. Nat \ S \subseteq Nat
      OBVIOUS
    <2>. QED  BY <1>2, <2>1, WFMin, Zenon
  <1>4. x # 0 /\ x - 1 \in Nat /\ x - 1 + 1 = x /\ x - 1 < x
    BY <1>3
  <1>. QED  BY <1>1, <1>3, <1>4, Zenon

\* The passes of the repair, one after the other.
Passes(criteria, n, f) ==
    f = [m \in 0 .. n |-> IF m = 0 THEN criteria ELSE RepairPass(f[m - 1])]

LEMMA PassesExist ==
    ASSUME NEW criteria, NEW n \in Nat
    PROVE  \E f : Passes(criteria, n, f)
  <1>. DEFINE S == {m \in Nat : \E f : Passes(criteria, m, f)}
  <1>1. 0 \in S
    <2>1. Passes(criteria, 0, [m \in 0 .. 0 |-> criteria])
      BY DEF Passes
    <2>. QED  BY <2>1
  <1>2. ASSUME NEW m \in Nat, m \in S PROVE m + 1 \in S
    <2>. PICK f : Passes(criteria, m, f)
      BY <1>2
    <2>. DEFINE g == [k \in 0 .. m + 1 |-> IF k = m + 1 THEN RepairPass(f[m]) ELSE f[k]]
    <2>1. \A k \in 0 .. m : f[k] = IF k = 0 THEN criteria ELSE RepairPass(f[k - 1])
      BY DEF Passes
    <2>2. ASSUME NEW k \in 0 .. m + 1
          PROVE  g[k] = IF k = 0 THEN criteria ELSE RepairPass(g[k - 1])
      <3>1. CASE k = m + 1
        BY <2>2, <3>1
      <3>2. CASE k # m + 1
        <4>1. k \in 0 .. m /\ (k # 0 => k - 1 \in 0 .. m + 1 /\ k - 1 # m + 1)
          BY <2>2, <3>2
        <4>. QED  BY <2>1, <4>1
      <3>. QED  BY <3>1, <3>2
    <2>3. g = [k \in 0 .. m + 1 |-> g[k]]
      OBVIOUS
    <2>. HIDE DEF g
    <2>4. Passes(criteria, m + 1, g)
      BY <2>2, <2>3 DEF Passes
    <2>. QED  BY <2>4
  <1>. HIDE DEF S
  <1>3. Nat \subseteq S
    BY <1>1, <1>2, SetInduction
  <1>. QED  BY <1>3 DEF S

\* What the repair of some criteria may have become on the way: dropped, or
\* criteria that still demand everything.
Bears(d, criteria) ==
    IsSequence(d) /\ (d = NoRewrite \/ Demands(criteria) \subseteq Demands(d))

LEMMA BoundBears ==
    ASSUME NEW criteria, NEW d, Bears(d, criteria), d # NoRewrite
    PROVE  Bears(BoundQuantifier(d), criteria)
  <1>. DEFINE i == Min(Unenumerated(d))
              e == [d EXCEPT ![i] = BoundedClause(d[i])]
  <1>1. BoundQuantifier(d) \in {e, NoRewrite}
    BY DEF BoundQuantifier
  <1>2. /\ d \in Seq({d[k] : k \in DOMAIN d})
        /\ d = [k \in 1 .. Len(d) |-> d[k]] /\ DOMAIN d = 1 .. Len(d) /\ Len(d) \in Nat
    BY DEF Bears, IsSequence
  <1>3. /\ e = [k \in 1 .. Len(d) |-> e[k]] /\ DOMAIN e = 1 .. Len(d)
        /\ \A k \in DOMAIN d : d[k] \subseteq e[k]
    <2>. HIDE DEF i
    <2>. QED  BY <1>2 DEF BoundedClause
  <1>. HIDE DEF e
  <1>4. e \in Seq({e[k] : k \in DOMAIN e})
    BY <1>2, <1>3
  <1>5. Demands(d) \subseteq Demands(e)
    BY <1>2, <1>3 DEF Demands
  <1>6. Bears(e, criteria)
    BY <1>4, <1>5 DEF Bears, IsSequence
  <1>7. Bears(NoRewrite, criteria)
    BY DEF Bears, NoRewrite, IsSequence
  <1>. QED  BY <1>1, <1>6, <1>7

LEMMA FoldBears ==
    ASSUME NEW criteria, NEW d, Bears(d, criteria), d # NoRewrite, Overrun(d)
    PROVE  Bears(FoldOverrun(d), criteria)
  <1>. DEFINE legal == {kept \in 0 .. MaxCheckableClauses - 1 : Legal(Folded(d, kept))}
  <1>1. CASE legal = {}
    BY <1>1 DEF FoldOverrun, Bears, NoRewrite, IsSequence
  <1>2. CASE legal # {}
    <2>1. FoldOverrun(d) = Folded(d, Max(legal))
      BY <1>2 DEF FoldOverrun
    <2>2. legal \subseteq 0 .. 4
      BY DEF MaxCheckableClauses
    <2>. HIDE DEF legal
    <2>3. \E x \in legal : \A y \in legal : x >= y
      <3>1. CASE 4 \in legal
        BY <2>2, <3>1
      <3>2. CASE 4 \notin legal /\ 3 \in legal
        BY <2>2, <3>2
      <3>3. CASE {3, 4} \cap legal = {} /\ 2 \in legal
        BY <2>2, <3>3
      <3>4. CASE {2, 3, 4} \cap legal = {} /\ 1 \in legal
        BY <2>2, <3>4
      <3>5. CASE {1, 2, 3, 4} \cap legal = {}
        <4>1. \A y \in legal : y \in 0 .. 4 /\ y \notin {1, 2, 3, 4}
          BY <2>2, <3>5
        <4>2. \A y \in legal : y = 0
          BY <4>1
        <4>. QED  BY <1>2, <4>2
      <3>. QED  BY <3>1, <3>2, <3>3, <3>4, <3>5
    <2>4. Max(legal) \in 0 .. 4
      BY <2>2, <2>3 DEF Max
    <2>. DEFINE kept == Max(legal)
                head == SubSeq(d, 1, kept)
                rest == UNION {d[i] : i \in kept + 1 .. Len(d)}
                e == Folded(d, kept)
    <2>5. /\ d \in Seq({d[k] : k \in DOMAIN d})
          /\ DOMAIN d = 1 .. Len(d) /\ Len(d) \in Nat /\ Len(d) > 5
      BY DEF Bears, IsSequence, Overrun, MaxCheckableClauses
    <2>. HIDE DEF kept
    <2>6. kept \in 0 .. 4
      BY <2>4 DEF kept
    <2>7. /\ head \in Seq({d[k] : k \in DOMAIN d}) /\ Len(head) = kept
          /\ \A k \in 1 .. kept : head[k] = d[k]
      BY <2>5, <2>6
    <2>8. e = head \o <<rest>>
      BY DEF Folded
    <2>. HIDE DEF head, rest, e
    <2>9. /\ e \in Seq({d[k] : k \in DOMAIN d} \cup {rest})
          /\ DOMAIN e = 1 .. kept + 1
          /\ \A k \in 1 .. kept : e[k] = d[k]
          /\ e[kept + 1] = rest
      BY <2>6, <2>7, <2>8
    <2>10. e \in Seq({e[k] : k \in DOMAIN e})
      <3>1. Len(e) = kept + 1 /\ e = [k \in 1 .. Len(e) |-> e[k]] /\ Len(e) \in Nat
        BY <2>6, <2>9
      <3>. QED  BY <2>9, <3>1
    <2>11. Demands(d) \subseteq Demands(e)
      <3>. SUFFICES ASSUME NEW i \in DOMAIN d, NEW x \in d[i] PROVE x \in Demands(e)
        BY DEF Demands
      <3>1. CASE i <= kept
        BY <2>5, <2>6, <2>9, <3>1 DEF Demands
      <3>2. CASE i > kept
        <4>1. x \in rest
          BY <2>5, <2>6, <3>2 DEF rest
        <4>. QED  BY <2>6, <2>9, <4>1 DEF Demands
      <3>. QED  BY <2>5, <2>6, <3>1, <3>2
    <2>. QED  BY <2>1, <2>10, <2>11 DEF Bears, IsSequence, kept, e
  <1>. QED  BY <1>1, <1>2

LEMMA PassBears ==
    ASSUME NEW criteria, NEW d, Bears(d, criteria)
    PROVE  Bears(RepairPass(d), criteria)
  <1>1. CASE d = NoRewrite
    <2>1. Unenumerated(d) = {} /\ ~Overrun(d)
      BY <1>1 DEF NoRewrite, Unenumerated, Overrun, MaxCheckableClauses
    <2>. QED  BY <2>1 DEF RepairPass
  <1>2. CASE d # NoRewrite
    BY <1>2, BoundBears, FoldBears DEF RepairPass
  <1>. QED  BY <1>1, <1>2

LEMMA RepairBears ==
    ASSUME NEW criteria, IsSequence(criteria)
    PROVE  Bears(RepairOf(criteria), criteria)
  <1>. DEFINE N == Len(criteria) + 1
              f == CHOOSE g : Passes(criteria, N, g)
              S == {n \in Nat : n <= N => Bears(f[n], criteria)}
  <1>1. N \in Nat
    BY DEF IsSequence
  <1>2. Passes(criteria, N, f)
    BY <1>1, PassesExist
  <1>3. RepairOf(criteria) = f[N]
    BY DEF RepairOf, Passes
  <1>. HIDE DEF N, f
  <1>4. \A m \in 0 .. N : f[m] = IF m = 0 THEN criteria ELSE RepairPass(f[m - 1])
    BY <1>2 DEF Passes
  <1>5. 0 \in S
    BY <1>1, <1>4 DEF Bears
  <1>6. ASSUME NEW n \in Nat, n \in S PROVE n + 1 \in S
    <2>. SUFFICES ASSUME n + 1 <= N PROVE Bears(f[n + 1], criteria)
      OBVIOUS
    <2>1. f[n + 1] = RepairPass(f[n]) /\ Bears(f[n], criteria)
      BY <1>1, <1>4, <1>6
    <2>. QED  BY <2>1, PassBears
  <1>. HIDE DEF S
  <1>7. N \in S
    BY <1>1, <1>5, <1>6, SetInduction
  <1>. QED  BY <1>1, <1>3, <1>7 DEF S

\* The repair may add to what criteria demand, and may be dropped; it never drops
\* a demand (repair_criteria), however many clauses there are.
LEMMA RepairDemands ==
    ASSUME NEW criteria, IsSequence(criteria)
    PROVE  Demands(criteria) \subseteq Demands(Repaired(criteria))
  BY RepairBears DEF Repaired, Bears

(***************************************************************************)
(* What planning hands over.                                               *)
(***************************************************************************)
\* The proposals that pass.
Accepted(p) == p \in Proposals /\ ErrorsOf[p] = {}

\* What an accepted proposal becomes can be worked and is what was proposed.
LEMMA AcceptedCanBeWorked ==
    ASSUME NEW p, Accepted(p), disk.plan = PlanOf[p], disk.proposed = p
    PROVE  HandedOver
  <1>. DEFINE r == RepairedProposal(p)
              d == Ingested(p)
  <1>1. IsProposal(p) /\ Shaped(p) /\ LintErrors(r) = {}
    BY PlanningAssumption DEF Accepted, ErrorsOf, ProposalErrors
  <1>2. disk.plan = d
    BY DEF Accepted, PlanOf
  <1>3. /\ DOMAIN r = DOMAIN p /\ DOMAIN d = DOMAIN p
        /\ \A i \in DOMAIN p : /\ r[i].id = p[i].id /\ d[i].id = p[i].id
                               /\ r[i].deps = p[i].deps /\ d[i].deps = p[i].deps
                               /\ r[i].criteria = Repaired(p[i].criteria)
                               /\ d[i].criteria = Repaired(p[i].criteria)
                               /\ IsSequence(p[i].criteria)
    <2>1. \A i \in DOMAIN p : DOMAIN p[i] = TaskFields /\ IsSequence(p[i].criteria)
      BY <1>1 DEF IsProposal, Shaped
    <2>. QED  BY <2>1 DEF RepairedProposal, Ingested, TaskFields
  <1>4. DOMAIN p = 1 .. Len(p) /\ Len(p) \in Nat
    BY <1>1 DEF IsProposal, IsSequence
  <1>. HIDE DEF r, d
  <1>5. Acyclic(EdgesOf(r))
    <2>. DEFINE cycle == IF Acyclic(EdgesOf(r)) THEN {} ELSE {<<"cycle", "plan">>}
    <2>1. cycle \subseteq LintErrors(r)
      BY DEF LintErrors
    <2>. QED  BY <1>1, <2>1
  <1>6. Edges(disk.plan) = EdgesOf(r)
    <2>1. IdsOf(d) = IdsOf(r)
      BY <1>3 DEF IdsOf
    <2>2. ASSUME NEW t PROVE {j \in DOMAIN d : d[j].id = t} = {j \in DOMAIN r : r[j].id = t}
      BY <1>3
    <2>3. ASSUME NEW t
          PROVE  {d[i].deps : i \in {j \in DOMAIN d : d[j].id = t}}
                    = {r[i].deps : i \in {j \in DOMAIN r : r[j].id = t}}
      BY <1>3
    <2>. QED  BY <1>2, <2>1, <2>3 DEF Edges, EdgesOf
  <1>7. ASSUME NEW i \in DOMAIN p
        PROVE  TaskLints(r, i) = {}
    <2>. SUFFICES ASSUME NEW l \in TaskLints(r, i) PROVE FALSE
      OBVIOUS
    <2>. DEFINE of(j) == {<<k, r[j].id>> : k \in TaskLints(r, j) \cup EdgeLints(r, j) \cup TerminalLints(r, j)}
                all == {of(j) : j \in DOMAIN r}
    <2>1. <<l, r[i].id>> \in of(i)
      OBVIOUS
    <2>2. UNION all \subseteq LintErrors(r)
      BY Zenon DEF LintErrors
    <2>. HIDE DEF of
    <2>3. <<l, r[i].id>> \in LintErrors(r)
      BY <1>3, <1>7, <2>1, <2>2
    <2>. QED  BY <1>1, <2>3
  <1>8. ASSUME NEW i \in DOMAIN p
        PROVE  /\ d[i].criteria # <<>> /\ CriteriaLints(d[i].criteria) = {}
               /\ \A j \in 1 .. i - 1 : d[j].id # d[i].id
    <2>1. CriteriaLints(r[i].criteria) = {}
      BY <1>7 DEF TaskLints
    <2>2. "boilerplate" \notin TaskLints(r, i) /\ "duplicate" \notin TaskLints(r, i)
      BY <1>7
    <2>3. r[i].criteria # <<>> /\ ~\E j \in 1 .. i - 1 : r[j].id = r[i].id
      BY <2>2 DEF TaskLints
    <2>4. 1 .. i - 1 \subseteq DOMAIN p
      BY <1>4
    <2>. QED  BY <1>3, <2>1, <2>3, <2>4
  <1>9. ASSUME NEW i \in DOMAIN d, NEW j \in DOMAIN d, d[j].id = d[i].id PROVE j = i
    <2>1. i \in 1 .. Len(p) /\ j \in 1 .. Len(p)
      BY <1>3, <1>4
    <2>. QED  BY <1>3, <1>8, <1>9, <2>1
  <1>10. ASSUME NEW i \in DOMAIN d
         PROVE  Demands(disk.proposed[i].criteria) \subseteq Demands(d[i].criteria)
    BY <1>3, RepairDemands
  <1>. QED  BY <1>2, <1>3, <1>5, <1>6, <1>8, <1>9, <1>10 DEF HandedOver

\* What is on disk came from a proposal that was accepted, and so will what a reply
\* without errors is about to become.
AcceptedInv ==
    /\ disk.plan = <<>> \/ (Accepted(disk.proposed) /\ disk.plan = PlanOf[disk.proposed])
    /\ memory.errors = {} /\ step = "planning" /\ phase = "ingested" => Accepted(memory.reply)

LEMMA AcceptedInit == Init => AcceptedInv
  BY DEF Init, AcceptedInv, NoPlan

LEMMA EmptyHandedOver == ASSUME disk.plan = <<>> PROVE HandedOver
  <1>1. Edges(disk.plan) = [t \in {} |-> {}]
    BY DEF Edges, IdsOf
  <1>2. Acyclic(Edges(disk.plan))
    BY <1>1 DEF Acyclic
  <1>. QED  BY <1>2 DEF HandedOver

LEMMA AcceptedHandsOver == ASSUME AcceptedInv PROVE HandedOver
  BY AcceptedCanBeWorked, EmptyHandedOver DEF AcceptedInv
\* Only an accepted proposal lands; work leaves what landed as it is.
LEMMA AcceptedStep == ASSUME WorkInv, AcceptedInv, [Next]_vars PROVE AcceptedInv'
  <1>1. CASE PlanningReads
    <2>1. UNCHANGED <<disk, step>> /\ step = "planning"
      BY <1>1 DEF PlanningReads
    <2>2. CASE AttemptFails(Unanswered)
      <3>1. memory'.errors # {}
        BY <2>2 DEF AttemptFails, Unanswered, WorkInv, Shapes
      <3>. QED  BY <2>1, <3>1 DEF AcceptedInv, Accepted
    <2>3. ASSUME NEW p \in Proposals, ErrorsOf[p] # {}, AttemptFails(ErrorsOf[p])
          PROVE  AcceptedInv'
      <3>1. memory'.errors # {}
        BY <2>3 DEF AttemptFails, WorkInv, Shapes
      <3>. QED  BY <2>1, <3>1 DEF AcceptedInv, Accepted
    <2>4. ASSUME NEW p \in Proposals, ErrorsOf[p] = {},
                 memory' = [memory EXCEPT !.errors = {}, !.reply = p]
          PROVE  AcceptedInv'
      <3>1. memory'.reply = p
        BY <2>4 DEF WorkInv, Shapes
      <3>. QED  BY <2>1, <2>4, <3>1 DEF AcceptedInv, Accepted
    <2>. QED  BY <1>1, <2>2, <2>3, <2>4 DEF PlanningReads
  <1>2. CASE PlanningGivesUp
    <2>1. memory'.errors # {}
      BY <1>2 DEF PlanningGivesUp, AttemptFails, Unanswered, WorkInv, Shapes
    <2>. QED  BY <1>2, <2>1 DEF PlanningGivesUp, AcceptedInv, Accepted
  <1>3. CASE PlanningLands
    <2>1. Accepted(memory.reply)
      BY <1>3 DEF PlanningLands, AcceptedInv
    <2>2. /\ disk'.plan = PlanOf[memory.reply] /\ disk'.proposed = memory.reply
          /\ phase' = "enter"
      BY <1>3 DEF PlanningLands, Advance
    <2>. QED  BY <2>1, <2>2 DEF AcceptedInv, Accepted
  <1>4. CASE WorkerWorks
    <2>1. /\ disk'.plan = disk.plan /\ disk'.proposed = disk.proposed
          /\ UNCHANGED <<step, phase, memory>>
      BY <1>4 DEF WorkerWorks, WorkInv, Shapes
    <2>. QED  BY <2>1 DEF AcceptedInv, Accepted
  <1>5. CASE ~PlanningReads /\ ~PlanningGivesUp /\ ~PlanningLands /\ ~WorkerWorks
    <2>1. UNCHANGED disk /\ (phase' # "ingested" \/ UNCHANGED <<step, phase, memory>>)
      BY <1>5
      DEF Next, Engine, vars, planningVars, PlanningStep, PlanningUnaffordable, PlanningBegins,
          PlanningSkipped, PlanningAsks, PlanningAsksAgain, PlanningOutlived, PlanningDies,
          ReviewStep, ReviewUnaffordable, ReviewAsks, ReviewAsksAgain, ReviewReads, ReviewApproves,
          ReviewOverruled, ReviewObjects, WorkerStep, WorkerUnaffordable, WorkerRejected,
          SelfHealGraphFault, WorkerDone, ReplanStep, ReplanUncharged, Replan, TailStep,
          ReflectionSkipped, BeginReflection, ReflectionEnds, Kill, Over, Advance
    <2>. QED  BY <2>1 DEF AcceptedInv, Accepted
  <1>. QED  BY <1>1, <1>2, <1>3, <1>4, <1>5

\* Whatever the hats propose, in however many attempts, over outages, objections
\* and kills: the plan on disk is one an accepted proposal becomes, its criteria
\* pass every lint, none of what was demanded is lost in a repair, no id is taken
\* twice and the graph can be scheduled (plan_ingestion.py).
THEOREM PlansAreWorkable == Spec => []HandedOver
  <1>1. Init => WorkInv
    BY DEF Init, WorkInv, Shapes, Reached, OnRecord, Guarded, Safe, FreshMemory, NoPlan
  <1>2. WorkInv /\ [Next]_vars => WorkInv'
    BY WorkIsInductive
  <1>3. WorkInv /\ AcceptedInv /\ [Next]_vars => AcceptedInv'
    BY AcceptedStep
  <1>. QED  BY <1>1, <1>2, <1>3, AcceptedInit, AcceptedHandsOver, PTL DEF Spec

=============================================================================
