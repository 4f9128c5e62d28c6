---------------------------- MODULE TasksSafetyProofs ----------------------------
(***************************************************************************)
(* What a task's record and its forced split say of its past: the          *)
(* invariants behind them and the proofs that every step keeps them.       *)
(*                                                                         *)
(*   Attempts       an attempt is spent by a verdict (RoundsAreRejections) *)
(*   BudgetInv      a progress budget by claims of its own task            *)
(*                  (ForcedSplitIsEarned)                                  *)
(*   SplitInv       a split parent stays superseded (SplitParentRests)     *)
(*   VoidInv        nothing waits on what is skipped (NoEdgeToVoided)      *)
(*   AwaitInv       what a cure re-opened stands behind it in the graph    *)
(*                  (CuresComeFirst)                                       *)
(*   PassInv, HandInv, ListedInv   what the pass in hand holds at each     *)
(*                  point of the loop, which the others rest on            *)
(***************************************************************************)
EXTENDS TasksProofs

(***************************************************************************)
(* What a cure pass does to a plan.                                        *)
(***************************************************************************)
\* A task keeps its status and attempts or starts over with none; no task waits
\* for more than it did but for c, and a new one waits for nothing else.
Wrought(p, q, c) ==
    /\ DOMAIN p \subseteq DOMAIN q
    /\ \A t \in DOMAIN p :
          /\ \/ q[t].status = p[t].status /\ q[t].tries = p[t].tries
             \/ q[t].status = "pending" /\ q[t].tries = 0
          /\ q[t].deps \subseteq p[t].deps \cup {c}
    /\ \A t \in DOMAIN q \ DOMAIN p :
          q[t].status = "pending" /\ q[t].tries = 0 /\ q[t].deps \subseteq {c}

\* No status but that of what was done changes.
Redoes(p, q) ==
    \A t \in DOMAIN p :
        p[t].status \notin {"validated", "completed"} => q[t].status = p[t].status

LEMMA WroughtOn ==
    ASSUME NEW p, NEW q, NEW r, NEW c, Wrought(p, q, c), Wrought(q, r, c)
    PROVE  /\ Wrought(p, r, c)
           /\ Redoes(p, q) /\ Redoes(q, r) => Redoes(p, r)
  BY DEF Wrought, Redoes

LEMMA WroughtByItself == ASSUME NEW p, NEW c PROVE Wrought(p, p, c) /\ Redoes(p, p)
  BY DEF Wrought, Redoes

LEMMA AddedWrought ==
    ASSUME NEW p, NEW i, i \notin DOMAIN p, NEW kind, NEW deps, NEW c, deps \subseteq {c}
    PROVE  /\ Wrought(p, Added(p, i, NewTask(kind, deps, NoTask)), c)
           /\ Redoes(p, Added(p, i, NewTask(kind, deps, NoTask)))
  BY DEF Wrought, Redoes, Added, NewTask

LEMMA EdgeAppendedWrought ==
    ASSUME NEW p, IsPlan(p), NEW t, NEW c
    PROVE  Wrought(p, EdgeAppended(p, t, c), c) /\ Redoes(p, EdgeAppended(p, t, c))
  <1>. DEFINE D == ValidEdges(DepsOf(p), t, p[t].deps \cup {c})
              q == EdgeAppended(p, t, c)
  <1>1. D \subseteq p[t].deps \cup {c}
    BY DEF ValidEdges
  <1>2. q = IF t \notin DOMAIN p THEN p ELSE [p EXCEPT ![t].deps = D]
    BY DEF EdgeAppended
  <1>. HIDE DEF D, q
  <1>3. DOMAIN q = DOMAIN p
    BY <1>2
  <1>4. ASSUME NEW x \in DOMAIN p
        PROVE  /\ q[x].status = p[x].status /\ q[x].tries = p[x].tries
               /\ q[x].deps \subseteq p[x].deps \cup {c}
    <2>1. p[x] \in TaskRecord
      BY <1>4 DEF IsPlan
    <2>. QED  BY <1>1, <1>2, <2>1 DEF TaskRecord
  <1>5. Wrought(p, q, c) /\ Redoes(p, q)
    BY <1>3, <1>4 DEF Wrought, Redoes
  <1>. QED  BY <1>5 DEF q

LEMMA RepointedWrought ==
    ASSUME NEW p, IsPlan(p), NEW F, NEW c
    PROVE  Wrought(p, Repointed(p, F, c), c) /\ Redoes(p, Repointed(p, F, c))
  <1>. DEFINE q == Repointed(p, F, c)
  <1>1. DOMAIN q = DOMAIN p
    BY DEF Repointed
  <1>2. ASSUME NEW t \in DOMAIN p
        PROVE  /\ q[t].status = p[t].status /\ q[t].tries = p[t].tries
               /\ q[t].deps \subseteq p[t].deps \cup {c}
    <2>. DEFINE D == ValidEdges(DepsOf(p), t, (p[t].deps \ F) \cup {c})
    <2>1. p[t] \in TaskRecord
      BY <1>2 DEF IsPlan
    <2>2. D \subseteq p[t].deps \cup {c}
      BY DEF ValidEdges
    <2>3. q[t] = IF p[t].deps \cap F = {} THEN p[t] ELSE [p[t] EXCEPT !.deps = D]
      BY <1>2 DEF Repointed
    <2>. HIDE DEF D, q
    <2>. QED  BY <2>1, <2>2, <2>3 DEF TaskRecord
  <1>. HIDE DEF q
  <1>3. Wrought(p, q, c) /\ Redoes(p, q)
    BY <1>1, <1>2 DEF Wrought, Redoes
  <1>. QED  BY <1>3 DEF q

LEMMA ReopenedWrought ==
    ASSUME NEW p, IsPlan(p), NEW S, NEW c
    PROVE  /\ Wrought(p, Reopened(p, S), c)
           /\ (\A t \in S \cap DOMAIN p : p[t].status \in {"validated", "completed"}) =>
                 Redoes(p, Reopened(p, S))
  <1>. DEFINE q == Reopened(p, S)
  <1>1. DOMAIN q = DOMAIN p
    BY DEF Reopened
  <1>2. ASSUME NEW t \in DOMAIN p
        PROVE  /\ \/ q[t].status = p[t].status /\ q[t].tries = p[t].tries /\ t \notin S
                  \/ q[t].status = "pending" /\ q[t].tries = 0 /\ t \in S
                  \/ q[t] = p[t] /\ t \notin S
               /\ q[t].deps = p[t].deps
    <2>1. p[t] \in TaskRecord
      BY <1>2 DEF IsPlan
    <2>. QED  BY <2>1, <1>2 DEF Reopened, TaskRecord
  <1>. HIDE DEF q
  <1>3. /\ Wrought(p, q, c)
        /\ (\A t \in S \cap DOMAIN p : p[t].status \in {"validated", "completed"}) => Redoes(p, q)
    BY <1>1, <1>2 DEF Wrought, Redoes
  <1>. QED  BY <1>3 DEF q

LEMMA ChainReopenedWrought ==
    ASSUME NEW p, IsPlan(p), NEW c
    PROVE  Wrought(p, ChainReopened(p, c), c)
  <1>. DEFINE q == ChainReopened(p, c)
              steps == VerificationTasks(p)
              behind == IF steps = {} THEN {Record} ELSE steps
              m == Reopened(p, {Record} \cup steps)
  <1>1. IsPlan(m) /\ DOMAIN m = DOMAIN p /\ Wrought(p, m, c)
    BY ReopenedLeads, ReopenedWrought DEF Leads
  <1>2. q = [t \in DOMAIN m |->
                IF t \in behind
                THEN [m[t] EXCEPT !.deps = ValidEdges(DepsOf(m), t, m[t].deps \cup {c})]
                ELSE m[t]]
    BY DEF ChainReopened
  <1>. HIDE DEF q, m, behind
  <1>3. ASSUME NEW t \in DOMAIN m
        PROVE  /\ q[t].status = m[t].status /\ q[t].tries = m[t].tries
               /\ q[t].deps \subseteq m[t].deps \cup {c}
    <2>. DEFINE D == ValidEdges(DepsOf(m), t, m[t].deps \cup {c})
    <2>1. m[t] \in TaskRecord
      BY <1>1, <1>3 DEF IsPlan
    <2>2. D \subseteq m[t].deps \cup {c}
      BY DEF ValidEdges
    <2>3. q[t] = IF t \in behind THEN [m[t] EXCEPT !.deps = D] ELSE m[t]
      BY <1>2, <1>3
    <2>. HIDE DEF D
    <2>. QED  BY <2>1, <2>2, <2>3 DEF TaskRecord
  <1>4. DOMAIN q = DOMAIN m
    BY <1>2
  <1>5. Wrought(m, q, c)
    BY <1>3, <1>4 DEF Wrought
  <1>6. Wrought(p, q, c)
    BY <1>1, <1>5, WroughtOn
  <1>. QED  BY <1>6 DEF q

LEMMA RetakenWrought ==
    ASSUME NEW p, IsPlan(p), NEW c, ExistingRetakes(p) = {} => Room(p, 1)
    PROVE  Wrought(p, Retaken(p, c), c)
  <1>1. CASE ExistingRetakes(p) # {}
    <2>. DEFINE r == CHOOSE x \in ExistingRetakes(p) : \A y \in ExistingRetakes(p) : x <= y
                m == Reopened(p, {r})
    <2>1. IsPlan(m) /\ Wrought(p, m, c)
      BY ReopenedLeads, ReopenedWrought DEF Leads
    <2>2. Retaken(p, c) = EdgeAppended(m, r, c)
      BY <1>1 DEF Retaken
    <2>. HIDE DEF r, m
    <2>3. Wrought(m, EdgeAppended(m, r, c), c)
      BY <2>1, EdgeAppendedWrought
    <2>. QED  BY <2>1, <2>2, <2>3, WroughtOn
  <1>2. CASE ExistingRetakes(p) = {}
    <2>. DEFINE i == FreshId(p)
    <2>1. i \notin DOMAIN p
      BY <1>2, FreshIdIsFree DEF IsPlan
    <2>2. Retaken(p, c) = Added(p, i, NewTask("retake", {c}, NoTask))
      BY <1>2 DEF Retaken
    <2>. HIDE DEF i
    <2>. QED  BY <2>1, <2>2, AddedWrought
  <1>. QED  BY <1>1, <1>2

LEMMA CuredWrought ==
    ASSUME NEW p, IsPlan(p), NEW finding \in Findings, Room(p, IdsTaken(finding))
    PROVE  /\ Wrought(p, Cured(p, finding), FreshId(p))
           /\ finding.paths = {} => Redoes(p, Cured(p, finding))
  <1>. DEFINE c == FreshId(p)
              p0 == WithCure(p)
              p1 == Ordered(p)
              p2 == Handed(p, finding)
              p3 == Laned(p, finding)
  <1>1. /\ c \notin DOMAIN p
        /\ IsPlan(p0) /\ IsPlan(p1) /\ IsPlan(p2) /\ IsPlan(p3)
        /\ "lane" \in finding.paths => Room(p2, 1)
        /\ "other" \in finding.paths /\ ExistingRetakes(p3) = {} => Room(p3, 1)
    BY CureStages DEF Leads
  <1>2. Cured(p, finding) = IF "other" \in finding.paths THEN Retaken(p3, c) ELSE p3
    BY CuredInStages
  <1>3. /\ p3 = IF "lane" \in finding.paths
                THEN IF ChainRecognised(p2) THEN ChainReopened(p2, c) ELSE Retaken(p2, c)
                ELSE p2
        /\ p2 = Repointed(p1, finding.named \cap Having(p1, {"failed"}), c)
        /\ p1 = EdgeAppended(p0, Freeze, c)
        /\ p0 = Added(p, c, NewTask("cure", {}, NoTask))
    BY DEF WithCure, Ordered, Handed, Laned
  <1>. HIDE DEF c, p0, p1, p2, p3
  <1>4. Wrought(p, p0, c) /\ Redoes(p, p0)
    BY <1>1, <1>3, AddedWrought
  <1>5. Wrought(p, p1, c) /\ Redoes(p, p1)
    BY <1>1, <1>3, <1>4, EdgeAppendedWrought, WroughtOn
  <1>6. Wrought(p, p2, c) /\ Redoes(p, p2)
    BY <1>1, <1>3, <1>5, RepointedWrought, WroughtOn
  <1>7. Wrought(p2, p3, c)
    BY <1>1, <1>3, WroughtByItself, ChainReopenedWrought, RetakenWrought
  <1>8. Wrought(p, p3, c)
    BY <1>6, <1>7, WroughtOn
  <1>9. "other" \in finding.paths => Wrought(p3, Retaken(p3, c), c)
    BY <1>1, RetakenWrought
  <1>10. Wrought(p, Cured(p, finding), c)
    BY <1>2, <1>8, <1>9, WroughtOn
  <1>11. finding.paths = {} => Cured(p, finding) = p2
    BY <1>2, <1>3
  <1>. QED  BY <1>6, <1>10, <1>11 DEF c

LEMMA SweptWrought ==
    ASSUME NEW p, IsPlan(p), NEW c \in Ids
    PROVE  Wrought(p, Swept(p, c), c) /\ Redoes(p, Swept(p, c))
  <1>. DEFINE m == EdgeAppended(p, Sweep, c)
  <1>1. IsPlan(m) /\ Wrought(p, m, c) /\ Redoes(p, m)
    BY EdgeAppendedLeads, EdgeAppendedWrought DEF Leads
  <1>2. Swept(p, c) = IF Sweep \in DOMAIN m /\ m[Sweep].status \in {"validated", "completed"}
                      THEN Reopened(m, {Sweep}) ELSE m
    BY DEF Swept
  <1>. HIDE DEF m
  <1>3. /\ Wrought(m, Reopened(m, {Sweep}), c)
        /\ m[Sweep].status \in {"validated", "completed"} => Redoes(m, Reopened(m, {Sweep}))
    BY <1>1, ReopenedWrought
  <1>. QED  BY <1>1, <1>2, <1>3, WroughtOn

\* A cure pass in full.  One over a failed task alone re-opens nothing but the
\* sweep.
LEMMA CurePassWrought ==
    ASSUME NEW p, IsPlan(p), NEW finding \in Findings, Room(p, IdsTaken(finding))
    PROVE  /\ FreshId(p) \in Ids \ DOMAIN p
           /\ Wrought(p, CurePass(p, finding), FreshId(p))
           /\ finding.paths = {} => Redoes(p, CurePass(p, finding))
  <1>1. FreshId(p) \in Ids \ DOMAIN p
    BY CureStages
  <1>2. IsPlan(Cured(p, finding))
    BY CuredLeads DEF Leads
  <1>3. CurePass(p, finding) = Swept(Cured(p, finding), FreshId(p))
    BY DEF CurePass
  <1>. QED  BY <1>1, <1>2, <1>3, CuredWrought, SweptWrought, WroughtOn

(***************************************************************************)
(* What may be claimed of a task.                                          *)
(***************************************************************************)
\* The statuses from which a task may still come to be worked on or verified.
Working == ActionableStatuses \cup {"awaiting-validation", "completed"}

\* A claim another status accepts: never of what is superseded, never to make it
\* so, never back to work from where work is over.
LEMMA AcceptedMoves ==
    ASSUME NEW now \in Statuses, NEW s, s # now, NEW justified,
           ReportAccepted(now, s, TRUE, FALSE, justified)
    PROVE  /\ now # "superseded" /\ s # "superseded" /\ s \in Statuses
           /\ s \in Working => now \in Working
           /\ now = "in-progress" => s # "pending"
  BY DEF ReportAccepted, IsLegalMove, TaskStatusTable, IsUnReopen, UnReopenTargets, Statuses,
         Working, ActionableStatuses

\* From p to q nothing changes but that tasks which were pending stand again as
\* they did before r re-opened them.
Restores(p, q, r) ==
    /\ DOMAIN q = DOMAIN p
    /\ \A t \in DOMAIN p :
          /\ q[t].deps = p[t].deps /\ q[t].tries = p[t].tries /\ q[t].kind = p[t].kind
          /\ \/ q[t].status = p[t].status
             \/ p[t].status = "pending" /\ t \in DOMAIN r /\ q[t].status = r[t].prior

LEMMA ReconciledRestores ==
    ASSUME NEW p, IsPlan(p), NEW r, NEW cure, NEW touched
    PROVE  Restores(p, Reconciled(p, r, cure, TRUE, touched), r)
  <1>. DEFINE q == Reconciled(p, r, cure, TRUE, touched)
              back == IF touched THEN {} ELSE PendingReconciliation(p, r, cure)
  <1>1. q = [t \in DOMAIN p |-> IF t \in back THEN Moved(p, t, r[t].prior, TRUE, TRUE, FALSE)[t]
                                ELSE p[t]]
    BY DEF Reconciled
  <1>2. back \subseteq {t \in DOMAIN r \cap DOMAIN p : p[t].status = "pending"}
    BY DEF PendingReconciliation
  <1>. HIDE DEF q, back
  <1>3. ASSUME NEW t \in DOMAIN p
        PROVE  /\ q[t].deps = p[t].deps /\ q[t].tries = p[t].tries /\ q[t].kind = p[t].kind
               /\ \/ q[t].status = p[t].status
                  \/ p[t].status = "pending" /\ t \in DOMAIN r /\ q[t].status = r[t].prior
    <2>. DEFINE s == r[t].prior
                m == Moved(p, t, s, TRUE, TRUE, FALSE)
    <2>1. m = p \/ m = [p EXCEPT ![t].status = s]
      BY DEF Moved
    <2>2. q[t] = IF t \in back THEN m[t] ELSE p[t]
      BY <1>1, <1>3
    <2>3. p[t] \in TaskRecord
      BY <1>3 DEF IsPlan
    <2>. HIDE DEF m, s
    <2>. QED  BY <1>2, <1>3, <2>1, <2>2, <2>3 DEF TaskRecord, s
  <1>4. DOMAIN q = DOMAIN p
    BY <1>1
  <1>5. Restores(p, q, r)
    BY <1>3, <1>4 DEF Restores
  <1>. QED  BY <1>5 DEF q

LEMMA LandsRestores ==
    ASSUME NEW p, IsPlan(p), NEW t, NEW s, NEW touched
    PROVE  Restores(p, Lands(p, t, s, touched), reopened)
  <1>1. Restores(p, p, reopened)
    BY DEF Restores
  <1>. QED  BY <1>1, ReconciledRestores DEF Lands

(***************************************************************************)
(* The pass.                                                               *)
(***************************************************************************)
\* No task is claimed, and nothing of an earlier pass is left over.
HasNone ==
    /\ pass.cur = NoTask /\ pass.from = "none" /\ ~pass.forced
    /\ pass.claim = "none" /\ pass.toVerify = {}

\* What the local variables of a pass hold where: a pass that has selected
\* nothing, or that an adjudication holds, has no task; the report is read with
\* nothing listed for verification; answers are held while they are applied.
PassInv ==
    /\ at \in {"rulings", "steer", "select", "sleep"} => HasNone /\ pass.then # "held"
    /\ at = "held" \/ pass.then = "held" => HasNone
    /\ at = "run" => pass.claim = "none"
    /\ at \in {"run", "report", "splitting"} => pass.toVerify = {}
    /\ pass.from \in {"none", "pending", "validation-failed"}
    /\ at \notin {"refute", "remedy", "void"} => pass.answers = NoAnswers

LEMMA InitPass == ASSUME Init PROVE PassInv
  BY DEF Init, NewPass, PassInv

LEMMA OperatorPass == ASSUME TypeOK, PassInv, Operator PROVE PassInv'
  <1>1. UNCHANGED <<at, pass>>
    BY DEF Operator, SteeringArrives, TimeRunsOut, UndeferRequested, RulingGiven
  <1>. QED  BY <1>1 DEF PassInv, HasNone

LEMMA BoundaryPass == ASSUME TypeOK, PassInv, Boundary PROVE PassInv'
  <1>. USE DEF PassInv, HasNone
  <1>1. CASE PassBegins
    BY <1>1 DEF PassBegins, NewPass
  <1>2. CASE BudgetGone \/ Resteered
    BY <1>2 DEF BudgetGone, Resteered
  <1>3. ASSUME at \in {"rulings", "steer"}, at' \in {"rulings", "steer", "select"},
               NEW n, pass' = [pass EXCEPT !.k = n]
        PROVE  PassInv'
    BY <1>3 DEF TypeOK, PassRecord
  <1>4. CASE RulingReapplied
    <2>1. pass' = [pass EXCEPT !.k = pass.k + 1] /\ at = "rulings" /\ at' = at
      BY <1>4 DEF RulingReapplied
    <2>. QED  BY <1>3, <2>1
  <1>5. CASE BoundaryPassed
    <2>1. pass' = [pass EXCEPT !.k = 0] /\ at = "rulings" /\ at' \in {"steer", "select"}
      BY <1>5 DEF BoundaryPassed
    <2>. QED  BY <1>3, <2>1
  <1>6. CASE SteerCall /\ at' = at
    <2>1. pass' = [pass EXCEPT !.k = pass.k + 1] /\ at = "steer" /\ at' = at
      BY <1>6 DEF SteerCall
    <2>. QED  BY <1>3, <2>1
  <1>7. ASSUME \/ \E deps \in SUBSET Ids : SteerInsert(deps)
               \/ \E t \in Ids : SteerDelete(t)
               \/ \E t \in Ids, deps \in SUBSET Ids : SteerRepoint(t, deps)
               \/ \E t \in Ids, s \in Statuses : SteerMoves(t, s)
        PROVE  SteerCall /\ at' = at
    BY <1>7 DEF SteerInsert, SteerDelete, SteerRepoint, SteerMoves
  <1>. QED  BY <1>1, <1>2, <1>4, <1>5, <1>6, <1>7 DEF Boundary

LEMMA OfferedIsActionable ==
    ASSUME NEW p, NEW t \in Selectable(p)
    PROVE  t \in DOMAIN p /\ p[t].status \in ActionableStatuses
  BY DEF Selectable, Having, PendingCandidates, ActionableStatuses

LEMMA SelectionPass == ASSUME TypeOK, PassInv, Selection PROVE PassInv'
  <1>. USE DEF PassInv, HasNone
  <1>1. ASSUME NEW t \in Ids, Claim(t) PROVE PassInv'
    <2>1. plan[t].status \in ActionableStatuses
      BY <1>1, OfferedIsActionable DEF Claim
    <2>2. /\ pass'.from \in {"none", "pending", "validation-failed"}
          /\ pass'.claim = pass.claim /\ pass'.toVerify = pass.toVerify
          /\ pass'.then = pass.then /\ pass'.answers = pass.answers
      BY <1>1, <2>1 DEF Claim, TypeOK, PassRecord, ActionableStatuses
    <2>3. at = "select" /\ at' \in {"run", "replan"}
      BY <1>1 DEF Claim
    <2>. QED  BY <2>2, <2>3
  <1>2. CASE DoomedPlan \/ GraphFault \/ GoesToSleep \/ WokenEarly \/ SleepsOut
    BY <1>2 DEF DoomedPlan, GraphFault, GoesToSleep, WokenEarly, SleepsOut, NothingToDo,
                GraphIsSound
  <1>3. CASE Held
    BY <1>3 DEF TypeOK, PassRecord, Held, GraphIsSound, NothingToDo
  <1>4. CASE NoTaskToRun \/ DeadlineWakes \/ HoldsOn
    BY <1>4 DEF NoTaskToRun, DeadlineWakes, HoldsOn, GraphIsSound, NothingToDo
  <1>. QED  BY <1>1, <1>2, <1>3, <1>4 DEF Selection

LEMMA IterationPass == ASSUME TypeOK, PassInv, Iteration PROVE PassInv'
  <1>. USE DEF PassInv, HasNone, TypeOK, PassRecord
  <1>1. CASE Iterates \/ SecretFound \/ PlanComplete \/ Deferred \/ NoVerdict \/ Complete
    BY <1>1 DEF Iterates, SecretFound, PlanComplete, Deferred, NoVerdict, Complete, AtVerdict
  <1>2. ASSUME NEW givesBack \in BOOLEAN, IterationFaulted(givesBack) PROVE PassInv'
    BY <1>2 DEF IterationFaulted
  <1>3. ASSUME NEW t \in Ids, NEW s \in Statuses, NEW justified, NEW touched,
               StatusReported(t, s, justified, touched)
        PROVE  PassInv'
    BY <1>3 DEF StatusReported, Telling, ToldAndStirred
  <1>4. ASSUME NEW claim \in {"corroborated", "idle"}, ProgressReported(claim) PROVE PassInv'
    <2>1. pass.cur # NoTask
      BY <1>4, CurePassAssumption DEF ProgressReported, IsPlan
    <2>. QED  BY <1>4, <2>1 DEF ProgressReported, Telling, Told
  <1>5. ASSUME NEW n \in 1 .. 2, ForcedSplit(n) \/ VoluntarySplit(n) PROVE PassInv'
    BY <1>5 DEF ForcedSplit, VoluntarySplit, Telling, Told
  <1>6. CASE SplitDone
    BY <1>6 DEF SplitDone, ToldAndStirred
  <1>7. ASSUME NEW t \in Ids, NEW deps \in SUBSET Ids, WorkerRepoints(t, deps) PROVE PassInv'
    BY <1>7 DEF WorkerRepoints, Telling, ToldAndStirred
  <1>8. ASSUME NEW t \in Ids, Unsatisfiable(t) PROVE PassInv'
    BY <1>8 DEF Unsatisfiable, AtVerdict
  <1>. QED  BY <1>1, <1>2, <1>3, <1>4, <1>5, <1>6, <1>7, <1>8 DEF Iteration

LEMMA VerificationPass == ASSUME TypeOK, PassInv, Verification PROVE PassInv'
  <1>. USE DEF PassInv, HasNone, TypeOK, PassRecord
  <1>1. CASE VerificationListed \/ AdjudicationSkipped \/ RefutedApplied \/ VerificationOver
    BY <1>1 DEF VerificationListed, AdjudicationSkipped, RefutedApplied, VerificationOver
  <1>2. CASE Adjudicated
    BY <1>2 DEF Adjudicated, AdjudicationRecorded
  <1>3. ASSUME NEW moved, RemedyInserted(moved) PROVE PassInv'
    BY <1>3 DEF RemedyInserted
  <1>4. ASSUME NEW by, ConfirmedApplied(by) PROVE PassInv'
    BY <1>4 DEF ConfirmedApplied
  <1>5. CASE MidPlanSkipped \/ MidPlanReviewed \/ CurePassCounted
    BY <1>5 DEF MidPlanSkipped, MidPlanReviewed, CurePassCounted, CuresInserted
  <1>6. ASSUME NEW t \in Ids, NEW touched, VerifyPasses(t, touched) PROVE PassInv'
    BY <1>6 DEF VerifyPasses, Listed
  <1>7. ASSUME NEW t \in Ids, VerifyRejects(t) \/ VerifyMute(t) PROVE PassInv'
    BY <1>7 DEF VerifyRejects, VerifyMute, Listed
  <1>. QED  BY <1>1, <1>2, <1>3, <1>4, <1>5, <1>6, <1>7 DEF Verification

LEMMA JudgementPass == ASSUME TypeOK, PassInv, Judgement \/ Killed PROVE PassInv'
  <1>. USE DEF PassInv, HasNone, TypeOK, PassRecord
  <1>1. CASE TallyApplied \/ BreakerTrips \/ TallyPassedOver \/ BacksOff
    BY <1>1 DEF TallyApplied, BreakerTrips, TallyPassedOver, BacksOff, Tallied
  <1>2. ASSUME NEW activity, Tally(activity) PROVE PassInv'
    BY <1>2 DEF Tally, Tallied
  <1>3. CASE ReviewAnswers
    BY <1>3 DEF ReviewAnswers, NewPass
  <1>4. CASE ReviewUnaffordable \/ ReviewRejects \/ ReviewEnds \/ OutOfApproaches
    BY <1>4 DEF ReviewUnaffordable, ReviewRejects, ReviewEnds, OutOfApproaches
  <1>5. CASE ReviewCured
    BY <1>5 DEF ReviewCured, CuresInserted
  <1>6. ASSUME NEW worded, Replanned(worded) PROVE PassInv'
    BY <1>6 DEF Replanned
  <1>7. CASE Killed
    BY <1>7 DEF Killed, ResumesAt, NewPass
  <1>. QED  BY <1>1, <1>2, <1>3, <1>4, <1>5, <1>6, <1>7 DEF Judgement

LEMMA PassStep == ASSUME TypeOK, PassInv, [Next]_vars PROVE PassInv'
  <1>1. CASE UNCHANGED vars \/ Over
    BY <1>1 DEF vars, Over, PassInv, HasNone
  <1>. QED  BY <1>1, OperatorPass, BoundaryPass, SelectionPass, IterationPass,
               VerificationPass, JudgementPass
            DEF Next, Engine

(***************************************************************************)
(* One round: one approach, and no steer hat, no unvalidated edge.         *)
(***************************************************************************)
OneRound == MaxApproaches = 1 /\ ~On("steering") /\ ~On("replacement")

RoundInv ==
    /\ TypeOK /\ Sound(plan)
    /\ status.approach >= 1 /\ world.steering = 0 /\ at # "steer"

\* A graph in which every set of tasks has one that waits on none of the others
\* has no task that waits on itself.
LEMMA NoneBeforeItself ==
    ASSUME NEW deps, Acyclic(deps), NEW t \in DOMAIN deps
    PROVE  t \notin Ancestors(deps, t)
  <1>. DEFINE C == {x \in DOMAIN deps : t \in Ancestors(deps, x)}
  <1>1. SUFFICES ASSUME t \in Ancestors(deps, t) PROVE FALSE
    OBVIOUS
  <1>2. PICK x \in C : deps[x] \cap C = {}
    BY <1>1 DEF Acyclic
  <1>. DEFINE Direct == deps[x] \cap DOMAIN deps
              S == Direct \cup {y \in DOMAIN deps : \E d \in Direct : y \in Ancestors(deps, d)}
  <1>3. \A d \in Direct : t # d /\ t \notin Ancestors(deps, d)
    BY <1>1, <1>2
  <1>4. \A y \in S : deps[y] \cap DOMAIN deps \subseteq S
    <2>. SUFFICES ASSUME NEW y \in S, NEW z \in deps[y] \cap DOMAIN deps PROVE z \in S
      OBVIOUS
    <2>1. CASE y \in Direct
      <3>1. z \in Ancestors(deps, y)
        BY <2>1 DEF Ancestors
      <3>. QED  BY <2>1, <3>1
    <2>2. ASSUME NEW d \in Direct, y \in Ancestors(deps, d) PROVE z \in S
      <3>1. z \in Ancestors(deps, d)
        BY <2>2 DEF Ancestors
      <3>. QED  BY <3>1
    <2>. QED  BY <2>1, <2>2
  <1>5. S \in SUBSET DOMAIN deps /\ Direct \subseteq S
    OBVIOUS
  <1>6. Ancestors(deps, x) \subseteq S
    BY <1>4, <1>5 DEF Ancestors
  <1>. QED  BY <1>2, <1>3, <1>6

LEMMA SoundHasNoFault ==
    ASSUME NEW p, Sound(p)
    PROVE  ~UnschedulableCycleFault(p) /\ ~UnresolvableEdgeFault(p)
  <1>1. OnCycle(p) = {}
    BY NoneBeforeItself DEF Sound, OnCycle, DepsOf
  <1>2. \A t \in DOMAIN p : p[t].deps \subseteq DOMAIN p
    BY DEF Sound, Resolved
  <1>. QED  BY <1>1, <1>2 DEF UnschedulableCycleFault, UnresolvableEdgeFault, Actionable, Having

\* So in one round the plan is never replaced, nor is a task deleted.
LEMMA RoundHasOnePlan ==
    ASSUME OneRound, RoundInv
    PROVE  /\ ~GraphFault /\ ~Resteered /\ ~SteerCall
           /\ \A worded : ~Replanned(worded)
  <1>1. ~GraphFault
    BY SoundHasNoFault DEF RoundInv, GraphFault
  <1>2. ~Resteered /\ ~SteerCall
    BY DEF RoundInv, Resteered, SteerCall
  <1>3. status.approach \in Nat /\ ~(status.approach < MaxApproaches)
    BY DEF RoundInv, OneRound, TypeOK, StatusRecord
  <1>. QED  BY <1>1, <1>2, <1>3 DEF Replanned

LEMMA RoundInit == ASSUME Init PROVE RoundInv
  BY InitType, FreshPlansSound DEF Init, RoundInv, NewStatus

\* What is noted of a task is never taken back.
Grows ==
    \A t \in Ids : /\ past'[t].rejected >= past[t].rejected
                  /\ past'[t].corroborated >= past[t].corroborated

Steady ==
    /\ status'.approach = status.approach /\ world'.steering = world.steering
    /\ at' = "steer" => at = "steer" \/ world.steering > 0
    /\ Grows

LEMMA SamePastGrows == ASSUME TypeOK, UNCHANGED past PROVE Grows
  BY DEF TypeOK, Past, Grows

LEMMA RejectedGrows ==
    ASSUME TypeOK, NEW t, NEW n \in Nat, past' = [past EXCEPT ![t].rejected = @ + n]
    PROVE  Grows
  <1>1. ASSUME NEW x \in Ids
        PROVE  /\ past'[x].rejected >= past[x].rejected
               /\ past'[x].corroborated >= past[x].corroborated
    BY <1>1 DEF TypeOK, Past
  <1>. QED  BY <1>1 DEF Grows

LEMMA BoundarySteady ==
    ASSUME TypeOK, Boundary, ~Resteered, \A t \in Ids : ~SteerDelete(t)
    PROVE  Steady
  <1>. USE SamePastGrows DEF Steady, TypeOK, WorldRecord
  <1>1. CASE PassBegins \/ BudgetGone
    BY <1>1 DEF PassBegins, BudgetGone
  <1>2. CASE RulingReapplied
    <2>. DEFINE r == world.rulings[pass.k + 1]
                n == IF r.status = "validation-failed" THEN 1 ELSE 0
    <2>1. past' = past \/ past' = [past EXCEPT ![r.task].rejected = @ + n]
      BY <1>2 DEF RulingReapplied
    <2>2. n \in Nat
      OBVIOUS
    <2>. HIDE DEF r, n
    <2>3. Grows
      BY <2>1, <2>2, RejectedGrows
    <2>. QED  BY <1>2, <2>3 DEF RulingReapplied
  <1>3. CASE BoundaryPassed
    BY <1>3 DEF BoundaryPassed
  <1>4. ASSUME NEW deps \in SUBSET Ids, NEW t \in Ids,
               SteerInsert(deps) \/ SteerRepoint(t, deps)
        PROVE  Steady
    BY <1>4 DEF SteerInsert, SteerRepoint
  <1>5. ASSUME NEW t \in Ids, NEW s \in Statuses, SteerMoves(t, s) PROVE Steady
    <2>. DEFINE n == IF s = "validation-failed" /\ plan[t].status # s THEN 1 ELSE 0
    <2>1. n \in Nat /\ past' = [past EXCEPT ![t].rejected = @ + n]
      BY <1>5 DEF SteerMoves
    <2>. HIDE DEF n
    <2>2. Grows
      BY <2>1, RejectedGrows
    <2>. QED  BY <1>5, <2>2 DEF SteerMoves
  <1>6. ASSUME NEW deps \in SUBSET Ids, SteerInsert(deps) PROVE Steady
    BY <1>6 DEF SteerInsert
  <1>. QED  BY <1>1, <1>2, <1>3, <1>4, <1>5, <1>6 DEF Boundary

LEMMA SelectionSteady == ASSUME TypeOK, Selection, ~GraphFault PROVE Steady
  <1>. USE SamePastGrows DEF Steady
  <1>1. ASSUME NEW t \in Ids, Claim(t) PROVE Steady
    BY <1>1 DEF Claim
  <1>2. CASE DoomedPlan \/ Held \/ GoesToSleep \/ NoTaskToRun \/ WokenEarly \/ SleepsOut
             \/ DeadlineWakes \/ HoldsOn
    BY <1>2 DEF DoomedPlan, Held, GoesToSleep, NoTaskToRun, WokenEarly, SleepsOut,
                DeadlineWakes, HoldsOn
  <1>. QED  BY <1>1, <1>2 DEF Selection

LEMMA IterationSteady == ASSUME TypeOK, Iteration PROVE Steady
  <1>. USE SamePastGrows
       DEF Steady, TypeOK, StatusRecord, WorldRecord, Spent, Telling, AtVerdict
  <1>1. CASE Iterates \/ SecretFound \/ Complete \/ PlanComplete \/ Deferred \/ NoVerdict
    BY <1>1 DEF Iterates, SecretFound, Complete, PlanComplete, Deferred, NoVerdict
  <1>2. ASSUME NEW givesBack \in BOOLEAN, IterationFaulted(givesBack) PROVE Steady
    BY <1>2 DEF IterationFaulted
  <1>3. ASSUME NEW t \in Ids, NEW s \in Statuses, NEW justified, NEW touched,
               StatusReported(t, s, justified, touched)
        PROVE  Steady
    <2>. DEFINE n == IF s = "validation-failed" THEN 1 ELSE 0
    <2>1. n \in Nat /\ past' = [past EXCEPT ![t].rejected = @ + n]
      BY <1>3 DEF StatusReported
    <2>. HIDE DEF n
    <2>2. Grows
      BY <2>1, RejectedGrows
    <2>. QED  BY <1>3, <2>2 DEF StatusReported
  <1>4. ASSUME NEW claim \in {"corroborated", "idle"}, ProgressReported(claim) PROVE Steady
    <2>1. ASSUME NEW x \in Ids
          PROVE  /\ past'[x].rejected >= past[x].rejected
                 /\ past'[x].corroborated >= past[x].corroborated
      BY <1>4, <2>1 DEF ProgressReported, Past
    <2>2. Grows
      BY <2>1 DEF Grows
    <2>. QED  BY <1>4, <2>2 DEF ProgressReported
  <1>5. ASSUME NEW n \in 1 .. 2, ForcedSplit(n) PROVE Steady
    <2>1. ASSUME NEW x \in Ids
          PROVE  /\ past'[x].rejected >= past[x].rejected
                 /\ past'[x].corroborated >= past[x].corroborated
      BY <1>5, <2>1 DEF ForcedSplit, Past
    <2>2. Grows
      BY <2>1 DEF Grows
    <2>. QED  BY <1>5, <2>2 DEF ForcedSplit
  <1>6. ASSUME NEW n \in 1 .. 2, VoluntarySplit(n) PROVE Steady
    BY <1>6 DEF VoluntarySplit
  <1>7. CASE SplitDone
    BY <1>7 DEF SplitDone
  <1>8. ASSUME NEW t \in Ids, NEW deps \in SUBSET Ids, WorkerRepoints(t, deps) PROVE Steady
    BY <1>8 DEF WorkerRepoints
  <1>9. ASSUME NEW t \in Ids, Unsatisfiable(t) PROVE Steady
    BY <1>9 DEF Unsatisfiable
  <1>. QED  BY <1>1, <1>2, <1>3, <1>4, <1>5, <1>6, <1>7, <1>8, <1>9 DEF Iteration

LEMMA VerificationSteady == ASSUME TypeOK, Verification PROVE Steady
  <1>. USE SamePastGrows
       DEF Steady, TypeOK, StatusRecord, WorldRecord, PassRecord, Spent
  <1>1. CASE VerificationListed \/ AdjudicationSkipped \/ RefutedApplied \/ MidPlanSkipped
             \/ CurePassCounted \/ VerificationOver
    BY <1>1 DEF VerificationListed, AdjudicationSkipped, RefutedApplied, MidPlanSkipped,
                CurePassCounted, VerificationOver
  <1>2. CASE Adjudicated
    BY <1>2 DEF Adjudicated, AdjudicationRecorded, RulingsRecorded
  <1>3. ASSUME NEW moved, RemedyInserted(moved) PROVE Steady
    BY <1>3 DEF RemedyInserted
  <1>4. ASSUME NEW by, ConfirmedApplied(by) PROVE Steady
    BY <1>4 DEF ConfirmedApplied
  <1>5. CASE MidPlanReviewed
    BY <1>5 DEF MidPlanReviewed, CuresInserted
  <1>6. ASSUME NEW t \in Ids, NEW touched, VerifyPasses(t, touched) PROVE Steady
    BY <1>6 DEF VerifyPasses, Listed
  <1>7. ASSUME NEW t \in Ids, VerifyRejects(t) PROVE Steady
    <2>1. past' = [past EXCEPT ![t].rejected = @ + 1]
      BY <1>7 DEF VerifyRejects
    <2>2. Grows
      BY <2>1, RejectedGrows
    <2>3. status'.approach = status.approach
      BY <1>7 DEF VerifyRejects
    <2>. QED  BY <1>7, <2>2, <2>3 DEF VerifyRejects
  <1>8. ASSUME NEW t \in Ids, VerifyMute(t) PROVE Steady
    BY <1>8 DEF VerifyMute, Listed
  <1>. QED  BY <1>1, <1>2, <1>3, <1>4, <1>5, <1>6, <1>7, <1>8 DEF Verification

LEMMA JudgementSteady ==
    ASSUME TypeOK, Judgement \/ Killed, \A worded \in BOOLEAN : ~Replanned(worded)
    PROVE  Steady
  <1>. USE SamePastGrows DEF Steady, TypeOK, StatusRecord, WorldRecord, Spent
  <1>1. CASE TallyApplied \/ BreakerTrips \/ TallyPassedOver \/ BacksOff
             \/ ReviewUnaffordable \/ ReviewRejects \/ ReviewEnds \/ OutOfApproaches
    BY <1>1 DEF TallyApplied, BreakerTrips, TallyPassedOver, BacksOff, ReviewUnaffordable,
                ReviewRejects, ReviewEnds, OutOfApproaches
  <1>2. ASSUME NEW activity, Tally(activity) PROVE Steady
    BY <1>2 DEF Tally
  <1>3. CASE ReviewAnswers
    BY <1>3 DEF ReviewAnswers, RulingsRecorded
  <1>4. CASE ReviewCured
    BY <1>4 DEF ReviewCured, CuresInserted
  <1>5. CASE Killed
    BY <1>5 DEF Killed, ResumesAt
  <1>. QED  BY <1>1, <1>2, <1>3, <1>4, <1>5 DEF Judgement

LEMMA GrowsStep ==
    ASSUME TypeOK, [Next]_vars, ~GraphFault, \A worded \in BOOLEAN : ~Replanned(worded),
           \A t \in Ids : ~SteerDelete(t)
    PROVE  Grows
  <1>1. CASE Operator \/ Over \/ Resteered \/ UNCHANGED vars
    BY <1>1, SamePastGrows
       DEF Operator, SteeringArrives, TimeRunsOut, UndeferRequested, RulingGiven, Over, Resteered,
           vars
  <1>. QED  BY <1>1, BoundarySteady, SelectionSteady, IterationSteady, VerificationSteady,
               JudgementSteady
            DEF Next, Engine, Steady

LEMMA RoundSteady == ASSUME OneRound, RoundInv, [Next]_vars PROVE Steady
  <1>1. CASE Operator
    <2>1. ~SteeringArrives
      BY DEF OneRound, SteeringArrives
    <2>. QED  BY <1>1, <2>1, SamePastGrows
              DEF Operator, TimeRunsOut, UndeferRequested, RulingGiven, Steady, RoundInv, TypeOK,
                  WorldRecord
  <1>2. CASE Over \/ UNCHANGED vars
    BY <1>2, SamePastGrows DEF Over, vars, Steady, RoundInv
  <1>3. TypeOK /\ \A t \in Ids : ~SteerDelete(t)
    BY RoundHasOnePlan DEF RoundInv, SteerDelete
  <1>. QED  BY <1>1, <1>2, <1>3, RoundHasOnePlan, BoundarySteady, SelectionSteady, IterationSteady,
               VerificationSteady, JudgementSteady
            DEF Next, Engine

LEMMA RoundStep == ASSUME OneRound, RoundInv, [Next]_vars PROVE RoundInv'
  <1>1. TypeOK' /\ Sound(plan')
    BY TypeStep, SoundStep DEF OneRound, RoundInv
  <1>2. status'.approach = status.approach /\ world'.steering = 0 /\ at' # "steer"
    BY RoundSteady DEF RoundInv, Steady
  <1>. QED  BY <1>1, <1>2 DEF RoundInv

(***************************************************************************)
(* Forced splits.                                                          *)
(***************************************************************************)
\* What the progress record counts was believed of the task it names, and only a
\* task whose budget is used up is claimed for a split.
BudgetInv ==
    /\ status.task # NoTask => status.used <= past[status.task].corroborated
    /\ pass.forced => pass.cur # NoTask /\ past[pass.cur].corroborated >= ProgressMax

\* Every step but a claim and a progress report leaves both alone, or drops the
\* task.
Spares ==
    /\ status'.task = status.task /\ status'.used = status.used
    /\ pass'.forced => pass.forced /\ pass'.cur = pass.cur

LEMMA BoundarySpares == ASSUME TypeOK, Boundary PROVE Spares
  <1>. USE DEF Spares, TypeOK, PassRecord
  <1>1. CASE PassBegins
    BY <1>1 DEF PassBegins, NewPass
  <1>2. CASE BudgetGone \/ Resteered \/ RulingReapplied \/ BoundaryPassed
    BY <1>2 DEF BudgetGone, Resteered, RulingReapplied, BoundaryPassed
  <1>3. ASSUME \/ \E deps \in SUBSET Ids : SteerInsert(deps)
               \/ \E t \in Ids : SteerDelete(t)
               \/ \E t \in Ids, deps \in SUBSET Ids : SteerRepoint(t, deps)
               \/ \E t \in Ids, s \in Statuses : SteerMoves(t, s)
        PROVE  Spares
    <2>1. UNCHANGED status /\ pass' = [pass EXCEPT !.k = pass.k + 1]
      BY <1>3 DEF SteerInsert, SteerDelete, SteerRepoint, SteerMoves, SteerCall
    <2>. QED  BY <2>1
  <1>. QED  BY <1>1, <1>2, <1>3 DEF Boundary

LEMMA SelectionSpares ==
    ASSUME TypeOK, Selection, \A t \in Ids : ~Claim(t)
    PROVE  Spares
  <1>. USE DEF Spares, TypeOK, PassRecord
  <1>1. CASE GraphFault
    BY <1>1 DEF GraphFault, StatusRecord
  <1>2. CASE DoomedPlan \/ Held \/ GoesToSleep \/ NoTaskToRun \/ WokenEarly \/ SleepsOut
             \/ DeadlineWakes \/ HoldsOn
    BY <1>2 DEF DoomedPlan, Held, GoesToSleep, NoTaskToRun, WokenEarly, SleepsOut,
                DeadlineWakes, HoldsOn
  <1>. QED  BY <1>1, <1>2 DEF Selection

LEMMA IterationSpares ==
    ASSUME TypeOK, Iteration, ~ProgressReported("corroborated")
    PROVE  Spares
  <1>. USE DEF Spares, TypeOK, PassRecord, StatusRecord, Told, ToldAndStirred
  <1>1. CASE Iterates \/ SecretFound \/ Complete \/ PlanComplete \/ Deferred \/ NoVerdict
    BY <1>1 DEF Iterates, SecretFound, Complete, PlanComplete, Deferred, NoVerdict
  <1>2. ASSUME NEW givesBack \in BOOLEAN, IterationFaulted(givesBack) PROVE Spares
    BY <1>2 DEF IterationFaulted
  <1>3. ASSUME NEW t \in Ids, NEW s \in Statuses, NEW justified, NEW touched,
               StatusReported(t, s, justified, touched)
        PROVE  Spares
    BY <1>3 DEF StatusReported
  <1>4. CASE ProgressReported("idle")
    BY <1>4 DEF ProgressReported, ProgressCharged
  <1>5. ASSUME NEW n \in 1 .. 2, ForcedSplit(n) \/ VoluntarySplit(n) PROVE Spares
    BY <1>5 DEF ForcedSplit, VoluntarySplit
  <1>6. CASE SplitDone
    BY <1>6 DEF SplitDone
  <1>7. ASSUME NEW t \in Ids, NEW deps \in SUBSET Ids, WorkerRepoints(t, deps) PROVE Spares
    BY <1>7 DEF WorkerRepoints
  <1>8. ASSUME NEW t \in Ids, Unsatisfiable(t) PROVE Spares
    BY <1>8 DEF Unsatisfiable
  <1>. QED  BY <1>1, <1>2, <1>3, <1>4, <1>5, <1>6, <1>7, <1>8 DEF Iteration

LEMMA VerificationSpares == ASSUME TypeOK, Verification PROVE Spares
  <1>. USE DEF Spares, TypeOK, PassRecord, StatusRecord
  <1>1. CASE VerificationListed \/ AdjudicationSkipped \/ RefutedApplied \/ MidPlanSkipped
             \/ CurePassCounted \/ VerificationOver
    BY <1>1 DEF VerificationListed, AdjudicationSkipped, RefutedApplied, MidPlanSkipped,
                CurePassCounted, VerificationOver
  <1>2. CASE Adjudicated
    BY <1>2 DEF Adjudicated, AdjudicationRecorded, RulingsRecorded
  <1>3. ASSUME NEW moved, RemedyInserted(moved) PROVE Spares
    BY <1>3 DEF RemedyInserted
  <1>4. ASSUME NEW by, ConfirmedApplied(by) PROVE Spares
    BY <1>4 DEF ConfirmedApplied
  <1>5. CASE MidPlanReviewed
    BY <1>5 DEF MidPlanReviewed
  <1>6. ASSUME NEW t \in Ids, NEW touched, VerifyPasses(t, touched) PROVE Spares
    BY <1>6 DEF VerifyPasses
  <1>7. ASSUME NEW t \in Ids, VerifyRejects(t) PROVE Spares
    BY <1>7 DEF VerifyRejects
  <1>8. ASSUME NEW t \in Ids, VerifyMute(t) PROVE Spares
    BY <1>8 DEF VerifyMute
  <1>. QED  BY <1>1, <1>2, <1>3, <1>4, <1>5, <1>6, <1>7, <1>8 DEF Verification

LEMMA JudgementSpares == ASSUME TypeOK, Judgement \/ Killed PROVE Spares
  <1>. USE DEF Spares, TypeOK, PassRecord, StatusRecord
  <1>1. CASE TallyApplied \/ BreakerTrips \/ TallyPassedOver \/ BacksOff
             \/ ReviewUnaffordable \/ ReviewRejects \/ ReviewEnds \/ OutOfApproaches
    BY <1>1 DEF TallyApplied, BreakerTrips, TallyPassedOver, BacksOff, ReviewUnaffordable,
                ReviewRejects, ReviewEnds, OutOfApproaches
  <1>2. ASSUME NEW activity, Tally(activity) PROVE Spares
    BY <1>2 DEF Tally
  <1>3. CASE ReviewAnswers
    BY <1>3 DEF ReviewAnswers, NewPass, RulingsRecorded
  <1>4. CASE ReviewCured
    BY <1>4 DEF ReviewCured
  <1>5. ASSUME NEW worded, Replanned(worded) PROVE Spares
    BY <1>5 DEF Replanned
  <1>6. CASE Killed
    BY <1>6 DEF Killed, NewPass
  <1>. QED  BY <1>1, <1>2, <1>3, <1>4, <1>5, <1>6 DEF Judgement

LEMMA SparedStep ==
    ASSUME TypeOK, [Next]_vars, \A t \in Ids : ~Claim(t), ~ProgressReported("corroborated")
    PROVE  Spares
  <1>1. CASE Operator \/ Over \/ UNCHANGED vars
    BY <1>1 DEF Operator, SteeringArrives, TimeRunsOut, UndeferRequested, RulingGiven, Over,
                vars, Spares
  <1>. QED  BY <1>1, BoundarySpares, SelectionSpares, IterationSpares, VerificationSpares,
               JudgementSpares
            DEF Next, Engine

LEMMA BudgetStep ==
    ASSUME OneRound, RoundInv, BudgetInv, [Next]_vars
    PROVE  BudgetInv'
  <1>. USE DEF RoundInv, TypeOK, StatusRecord, PassRecord, Past
  <1>1. Grows
    BY RoundSteady DEF Steady
  <1>2. TypeOK'
    BY TypeStep
  <1>3. CASE Spares
    <2>1. status.task \in Ids \cup {NoTask} /\ pass.cur \in Ids \cup {NoTask}
      OBVIOUS
    <2>2. \A t \in Ids : past'[t].corroborated >= past[t].corroborated
      BY <1>1 DEF Grows
    <2>3. \A t \in Ids : past'[t].corroborated \in Nat /\ past[t].corroborated \in Nat
      BY <1>2
    <2>4. status.used \in Nat /\ ProgressMax \in Nat
      BY TasksAssumption
    <2>. QED  BY <1>3, <2>1, <2>2, <2>3, <2>4 DEF Spares, BudgetInv
  <1>4. ASSUME NEW t \in Ids, Claim(t) PROVE BudgetInv'
    <2>1. UNCHANGED <<status, past>>
      BY <1>4 DEF Claim
    <2>2. pass'.cur = t /\ pass'.forced = SpentItsBudget(t)
      BY <1>4 DEF Claim
    <2>3. t # NoTask /\ past[t].corroborated \in Nat /\ status.used \in Nat
          /\ ProgressMax \in Nat
      BY TasksAssumption, CurePassAssumption
    <2>4. status'.task # NoTask => status'.used <= past'[status'.task].corroborated
      BY <2>1 DEF BudgetInv
    <2>5. ASSUME pass'.forced PROVE past'[t].corroborated >= ProgressMax
      <3>1. status.task = t /\ status.used >= ProgressMax
        BY <2>2, <2>5 DEF SpentItsBudget
      <3>2. status.used <= past[t].corroborated
        BY <2>3, <3>1 DEF BudgetInv
      <3>. QED  BY <2>1, <2>3, <3>1, <3>2
    <2>. QED  BY <2>2, <2>3, <2>4, <2>5 DEF BudgetInv
  <1>5. CASE ProgressReported("corroborated")
    <2>1. pass.cur \in Ids
      BY <1>5 DEF ProgressReported, IsPlan
    <2>2. /\ status'.task = pass.cur
          /\ status'.used = IF status.task = pass.cur THEN status.used + 1 ELSE 1
      BY <1>5 DEF ProgressReported, ProgressCharged
    <2>3. past'[pass.cur].corroborated = past[pass.cur].corroborated + 1
      BY <1>5, <2>1 DEF ProgressReported
    <2>4. pass'.forced = pass.forced /\ pass'.cur = pass.cur
      BY <1>5 DEF ProgressReported, Told
    <2>5. past[pass.cur].corroborated \in Nat /\ status.used \in Nat /\ ProgressMax \in Nat
          /\ pass.cur # NoTask
      BY <2>1, TasksAssumption, CurePassAssumption
    <2>. QED  BY <2>2, <2>3, <2>4, <2>5 DEF BudgetInv
  <1>. QED  BY <1>3, <1>4, <1>5, SparedStep

\* In one round a task is made to split only after its own believed progress
\* claims have used its budget up: nothing charges a task with another's claims
\* (_record_progress_budget_usage), nor with one that was not believed, and the
\* record is read before the iteration, never after it.
THEOREM SplitsAreEarned ==
    ASSUME OneRound
    PROVE  Spec => []ForcedSplitIsEarned
  <1>1. Init => RoundInv /\ BudgetInv
    BY RoundInit DEF Init, NewStatus, NewPass, BudgetInv
  <1>2. RoundInv /\ BudgetInv /\ [Next]_vars => (RoundInv /\ BudgetInv)'
    BY RoundStep, BudgetStep
  <1>3. BudgetInv => ForcedSplitIsEarned
    BY DEF BudgetInv, ForcedSplitIsEarned
  <1>. QED  BY <1>1, <1>2, <1>3, PTL DEF Spec

(***************************************************************************)
(* The parent of a forced split.                                           *)
(***************************************************************************)
Unbroken == ~On("killed") /\ ~On("twofold") /\ ~On("cures") /\ ~On("midplan")

\* A parent whose children are in the plan is superseded at the next write, and
\* nobody is about to verify it, to answer its petition or to put it off.
SplitInv ==
    \A t \in Ids : past[t].split =>
        /\ t \in DOMAIN plan
        /\ plan[t].status = "superseded" \/ (at = "splitting" /\ t = pass.cur)
        /\ t \notin pass.toVerify /\ t \notin DOMAIN pass.answers
        /\ t = pass.cur => /\ at # "run" /\ pass.claim # "idle"
                           /\ at = "report" => pass.told >= 4

\* A step that splits nothing and lets what is superseded rest.
LetsRest ==
    /\ at # "splitting"
    /\ \A t \in Ids : past'[t].split => past[t].split
    /\ \A t \in DOMAIN plan :
          past'[t].split /\ plan[t].status = "superseded" =>
              t \in DOMAIN plan' /\ plan'[t].status = "superseded"
    /\ \A t \in Ids : past[t].split =>
          /\ t \in pass'.toVerify => t \in pass.toVerify
          /\ t \in DOMAIN pass'.answers => t \in DOMAIN pass.answers
          /\ t = pass'.cur => /\ at' # "run" /\ pass'.claim # "idle"
                              /\ at' = "report" => pass'.told >= 4

LEMMA LetRest == ASSUME SplitInv, LetsRest PROVE SplitInv'
  BY DEF SplitInv, LetsRest

\* What is superseded stays so.
Restful(p, q) == \A t \in DOMAIN p : p[t].status = "superseded" => q[t].status = "superseded"

LEMMA StatusRests ==
    ASSUME NEW p, IsPlan(p), NEW t, NEW s, t \in DOMAIN p => p[t].status # "superseded"
    PROVE  DOMAIN [p EXCEPT ![t].status = s] = DOMAIN p /\ Restful(p, [p EXCEPT ![t].status = s])
  BY DEF IsPlan, TaskRecord, Restful

LEMMA MovedRests ==
    ASSUME NEW p, IsPlan(p), NEW t, NEW s, NEW justified
    PROVE  /\ DOMAIN Moved(p, t, s, TRUE, FALSE, justified) = DOMAIN p
           /\ Restful(p, Moved(p, t, s, TRUE, FALSE, justified))
  <1>1. CASE t \in DOMAIN p /\ s = p[t].status
    BY <1>1 DEF Moved, IsPlan, TaskRecord, Restful
  <1>2. CASE t \in DOMAIN p /\ s # p[t].status
             /\ ReportAccepted(p[t].status, s, TRUE, FALSE, justified)
    <2>1. p[t].status # "superseded"
      BY <1>2, AcceptedMoves DEF IsPlan, TaskRecord
    <2>. QED  BY <1>2, <2>1, StatusRests DEF Moved
  <1>3. CASE ~(t \in DOMAIN p /\ ReportAccepted(p[t].status, s, TRUE, FALSE, justified))
    BY <1>3 DEF Moved, Restful
  <1>. QED  BY <1>1, <1>2, <1>3

LEMMA NoteSplitsNothing ==
    ASSUME TypeOK, NEW t, NEW n, past' = [past EXCEPT ![t].rejected = @ + n] \/ UNCHANGED past
    PROVE  \A x \in Ids : past'[x].split = past[x].split
  BY DEF TypeOK, Past

LEMMA BoundaryRests == ASSUME TypeOK, PassInv, SplitInv, Boundary PROVE LetsRest
  <1>. USE DEF LetsRest, TypeOK, PassRecord
  <1>1. CASE PassBegins
    BY <1>1, CurePassAssumption DEF PassBegins, NewPass, NoAnswers
  <1>2. CASE BudgetGone \/ Resteered
    BY <1>2 DEF BudgetGone, Resteered, SplitInv
  <1>3. CASE RulingReapplied
    <2>. DEFINE r == world.rulings[pass.k + 1]
                n == IF r.status = "validation-failed" THEN 1 ELSE 0
    <2>1. past' = past \/ past' = [past EXCEPT ![r.task].rejected = @ + n]
      BY <1>3 DEF RulingReapplied
    <2>2. plan' = Moved(plan, r.task, r.status, TRUE, FALSE, TRUE)
      BY <1>3 DEF RulingReapplied
    <2>. HIDE DEF r, n
    <2>3. \A x \in Ids : past'[x].split = past[x].split
      BY <2>1, NoteSplitsNothing
    <2>4. DOMAIN plan' = DOMAIN plan /\ Restful(plan, plan')
      <3>1. IsPlan(plan)
        BY DEF TypeOK
      <3>. QED  BY ONLY <2>2, <3>1, MovedRests
    <2>. QED  BY <1>3, <2>3, <2>4 DEF RulingReapplied, Restful, SplitInv
  <1>4. CASE BoundaryPassed
    <2>1. DOMAIN plan' = DOMAIN plan /\ \A t \in DOMAIN plan : plan'[t].status = plan[t].status
      BY <1>4 DEF BoundaryPassed, IsPlan, TaskRecord
    <2>. QED  BY <1>4, <2>1 DEF BoundaryPassed, SplitInv
  <1>5. ASSUME SteerCall, UNCHANGED at,
               \A x \in Ids : past'[x].split => past[x].split,
               \A t \in DOMAIN plan : past'[t].split /\ plan[t].status = "superseded" =>
                   t \in DOMAIN plan' /\ plan'[t].status = "superseded"
        PROVE  LetsRest
    BY <1>5 DEF SteerCall, SplitInv
  <1>6. ASSUME NEW deps \in SUBSET Ids, SteerInsert(deps) PROVE LetsRest
    <2>1. FreshId(plan) \notin DOMAIN plan
      BY <1>6, FreshIdIsFree DEF SteerInsert, IsPlan
    <2>2. \A t \in DOMAIN plan : t \in DOMAIN plan' /\ plan'[t] = plan[t]
      BY <1>6, <2>1 DEF SteerInsert, Added
    <2>. QED  BY <1>5, <1>6, <2>2 DEF SteerInsert
  <1>7. ASSUME NEW t \in Ids, SteerDelete(t) PROVE LetsRest
    <2>1. \A x \in Ids : past'[x].split => past[x].split /\ x # t
      BY <1>7 DEF SteerDelete, Past, Fresh
    <2>2. \A x \in DOMAIN plan : x # t => x \in DOMAIN plan' /\ plan'[x] = plan[x]
      BY <1>7 DEF SteerDelete
    <2>3. DOMAIN plan \subseteq Ids
      BY DEF IsPlan
    <2>. QED  BY <1>5, <1>7, <2>1, <2>2, <2>3 DEF SteerDelete
  <1>8. ASSUME NEW t \in Ids, NEW deps \in SUBSET Ids, SteerRepoint(t, deps) PROVE LetsRest
    <2>1. \A x \in DOMAIN plan : x \in DOMAIN plan' /\ plan'[x].status = plan[x].status
      BY <1>8 DEF SteerRepoint, IsPlan, TaskRecord
    <2>. QED  BY <1>5, <1>8, <2>1 DEF SteerRepoint
  <1>9. ASSUME NEW t \in Ids, NEW s \in Statuses, SteerMoves(t, s) PROVE LetsRest
    <2>. DEFINE n == IF s = "validation-failed" /\ plan[t].status # s THEN 1 ELSE 0
    <2>1. past' = [past EXCEPT ![t].rejected = @ + n]
      BY <1>9 DEF SteerMoves
    <2>2. plan' = Moved(plan, t, s, TRUE, FALSE, TRUE)
      BY <1>9 DEF SteerMoves, Moved
    <2>. HIDE DEF n
    <2>3. \A x \in Ids : past'[x].split = past[x].split
      BY <2>1, NoteSplitsNothing
    <2>4. DOMAIN plan' = DOMAIN plan /\ Restful(plan, plan')
      <3>1. IsPlan(plan)
        BY DEF TypeOK
      <3>. QED  BY ONLY <2>2, <3>1, MovedRests
    <2>. QED  BY <1>5, <1>9, <2>3, <2>4 DEF SteerMoves, Restful
  <1>. QED  BY <1>1, <1>2, <1>3, <1>4, <1>6, <1>7, <1>8, <1>9 DEF Boundary

LEMMA SelectionRests == ASSUME TypeOK, PassInv, SplitInv, Selection PROVE LetsRest
  <1>. USE DEF LetsRest, TypeOK, PassRecord
  <1>1. ASSUME NEW t \in Ids, Claim(t) PROVE LetsRest
    <2>1. t \in DOMAIN plan /\ plan[t].status # "superseded"
      BY <1>1, OfferedIsActionable DEF Claim, ActionableStatuses
    <2>2. at = "select" /\ UNCHANGED past /\ DOMAIN plan' = DOMAIN plan
      BY <1>1 DEF Claim
    <2>3. ~past[t].split
      BY <2>1, <2>2 DEF SplitInv
    <2>4. \A x \in DOMAIN plan : x # t => plan'[x] = plan[x]
      BY <1>1 DEF Claim
    <2>5. pass'.cur = t /\ pass'.toVerify = pass.toVerify /\ pass'.answers = pass.answers
      BY <1>1 DEF Claim
    <2>. QED  BY <2>1, <2>2, <2>3, <2>4, <2>5
  <1>2. CASE DoomedPlan \/ GoesToSleep \/ WokenEarly
    BY <1>2 DEF DoomedPlan, GoesToSleep, WokenEarly, NothingToDo, GraphIsSound, SplitInv
  <1>3. CASE GraphFault
    <2>1. at = "select" /\ at' \in {"done", "top"} /\ UNCHANGED pass
      BY <1>3 DEF GraphFault, NothingToDo
    <2>2. UNCHANGED <<plan, past>> \/ past' = Untouched
      BY <1>3 DEF GraphFault
    <2>3. \A t \in DOMAIN plan : t \in Ids
      BY DEF IsPlan
    <2>. QED  BY <2>1, <2>2, <2>3 DEF SplitInv, Untouched, Fresh
  <1>4. CASE SleepsOut
    <2>1. DOMAIN plan' = DOMAIN plan /\ \A t \in DOMAIN plan : plan'[t].status = plan[t].status
      BY <1>4 DEF SleepsOut, TimerElapsed, IsPlan, TaskRecord
    <2>. QED  BY <1>4, <2>1 DEF SleepsOut, SplitInv
  <1>5. CASE Held
    BY <1>5 DEF Held, GraphIsSound, NothingToDo, SplitInv
  <1>6. CASE NoTaskToRun \/ DeadlineWakes \/ HoldsOn
    <2>1. pass.cur \notin Ids /\ UNCHANGED pass /\ at # "splitting"
      BY <1>6, CurePassAssumption
         DEF NoTaskToRun, DeadlineWakes, HoldsOn, GraphIsSound, NothingToDo, PassInv, HasNone
    <2>. QED  BY <1>6, <2>1 DEF NoTaskToRun, DeadlineWakes, HoldsOn
  <1>. QED  BY <1>1, <1>2, <1>3, <1>4, <1>5, <1>6 DEF Selection

LEMMA LandsRests ==
    ASSUME NEW p, IsPlan(p), NEW t, NEW s, NEW touched
    PROVE  Restful(p, Lands(p, t, s, touched))
  BY LandsRestores DEF Restores, Restful

\* Children leave the tasks of the plan as they are.
LEMMA KidsRest ==
    ASSUME TypeOK, NEW n \in 1 .. 2, SplitFits(n), NEW deps \in SplitsInto(n), NEW inherited
    PROVE  LET q == WithKids(deps, inherited)
           IN  \A t \in DOMAIN plan : t \in DOMAIN q /\ q[t] = plan[t]
  <1>1. DOMAIN deps = Kids(n) /\ Kids(n) \cap DOMAIN plan = {}
    BY KidsAreFree DEF TypeOK, SplitFits, SplitsInto
  <1>. QED  BY <1>1 DEF WithKids

LEMMA IterationRests ==
    ASSUME Unbroken, TypeOK, PassInv, SplitInv, Iteration
    PROVE  SplitInv'
  <1>. USE DEF LetsRest, TypeOK, PassRecord
  <1>1. CASE Iterates \/ PlanComplete \/ NoVerdict
    <2>1. LetsRest
      BY <1>1 DEF Iterates, PlanComplete, NoVerdict, AtVerdict, SplitInv
    <2>. QED  BY <2>1, LetRest
  <1>2. CASE SecretFound
    <2>1. at = "run" /\ at' = "top" /\ UNCHANGED <<pass, past>>
      BY <1>2 DEF SecretFound
    <2>2. \A x \in DOMAIN plan : x # pass.cur => x \in DOMAIN plan' /\ plan'[x] = plan[x]
      BY <1>2 DEF SecretFound
    <2>3. \A x \in Ids : past[x].split => x # pass.cur
      BY <2>1 DEF SplitInv
    <2>4. DOMAIN plan \subseteq Ids
      BY DEF IsPlan
    <2>5. LetsRest
      BY <2>1, <2>2, <2>3, <2>4
    <2>. QED  BY <2>5, LetRest
  <1>3. ASSUME NEW givesBack \in BOOLEAN, IterationFaulted(givesBack) PROVE SplitInv'
    <2>1. /\ at = "run" /\ at' = "vigilant" /\ UNCHANGED past
          /\ pass'.cur = pass.cur /\ pass'.claim = pass.claim
          /\ pass'.toVerify = pass.toVerify /\ pass'.answers = pass.answers
      BY <1>3 DEF IterationFaulted
    <2>2. \A x \in DOMAIN plan : x # pass.cur => x \in DOMAIN plan' /\ plan'[x] = plan[x]
      BY <1>3 DEF IterationFaulted, GivenBack
    <2>3. \A x \in Ids : past[x].split => x # pass.cur
      BY <2>1 DEF SplitInv
    <2>4. DOMAIN plan \subseteq Ids
      BY DEF IsPlan
    <2>5. LetsRest
      BY <2>1, <2>2, <2>3, <2>4
    <2>. QED  BY <2>5, LetRest
  <1>4. ASSUME NEW t \in Ids, NEW s \in Statuses, NEW justified, NEW touched,
               StatusReported(t, s, justified, touched)
        PROVE  SplitInv'
    <2>. DEFINE n == IF s = "validation-failed" THEN 1 ELSE 0
                p == [plan EXCEPT ![t].status = s]
    <2>1. past' = [past EXCEPT ![t].rejected = @ + n]
      BY <1>4 DEF StatusReported
    <2>. HIDE DEF n
    <2>2. \A x \in Ids : past'[x].split = past[x].split
      BY <2>1, NoteSplitsNothing
    <2>3. plan[t].status # "superseded" /\ IsPlan(p) /\ DOMAIN p = DOMAIN plan
      BY <1>4, AcceptedMoves, StatusWritten DEF StatusReported, IsPlan, TaskRecord
    <2>4. Restful(plan, p)
      BY <2>3, StatusRests
    <2>5. plan' = Lands(p, t, s, touched)
      BY <1>4 DEF StatusReported
    <2>. HIDE DEF p
    <2>6. Restful(p, plan') /\ DOMAIN plan' = DOMAIN p
      BY <2>3, <2>5, LandsRests, LandsRestores DEF Restores
    <2>7. \A x \in DOMAIN plan : plan[x].status = "superseded" =>
              x \in DOMAIN plan' /\ plan'[x].status = "superseded"
      BY <2>3, <2>4, <2>6 DEF Restful
    <2>8. /\ at = "report" /\ at' = at /\ pass.told < 1
          /\ pass'.cur = pass.cur /\ pass'.claim = pass.claim
          /\ pass'.toVerify = pass.toVerify /\ pass'.answers = pass.answers
      BY <1>4 DEF StatusReported, Telling, Part, ToldAndStirred
    <2>9. \A x \in Ids : past[x].split => x # pass.cur
      BY <2>8 DEF SplitInv
    <2>10. LetsRest
      BY <2>2, <2>7, <2>8, <2>9
    <2>. QED  BY <2>10, LetRest
  <1>5. ASSUME NEW claim \in {"corroborated", "idle"}, ProgressReported(claim) PROVE SplitInv'
    <2>1. /\ at = "report" /\ at' = at /\ pass.told < 2 /\ UNCHANGED plan
          /\ pass'.cur = pass.cur
          /\ pass'.toVerify = pass.toVerify /\ pass'.answers = pass.answers
      BY <1>5 DEF ProgressReported, Telling, Part, Told
    <2>2. \A x \in Ids : past'[x].split = past[x].split
      BY <1>5 DEF ProgressReported, Past
    <2>3. \A x \in Ids : past[x].split => x # pass.cur
      BY <2>1 DEF SplitInv
    <2>4. DOMAIN plan \subseteq Ids
      BY DEF IsPlan
    <2>5. LetsRest
      BY <2>1, <2>2, <2>3, <2>4
    <2>. QED  BY <2>5, LetRest
  <1>6. ASSUME NEW n \in 1 .. 2, ForcedSplit(n) PROVE SplitInv'
    <2>1. /\ at = "report" /\ pass.claim # "idle" /\ pass.cur \in DOMAIN plan
          /\ at' = "splitting" /\ SplitFits(n)
          /\ pass'.cur = pass.cur /\ pass'.claim = pass.claim
          /\ pass'.toVerify = pass.toVerify /\ pass'.answers = pass.answers
      BY <1>6 DEF ForcedSplit, Telling, SplitFits, Unbroken
    <2>2. \A x \in DOMAIN plan : x \in DOMAIN plan' /\ plan'[x] = plan[x]
      BY <1>6, <2>1, KidsRest DEF ForcedSplit
    <2>3. \A x \in Ids : past'[x].split => past[x].split \/ x = pass.cur
      BY <1>6 DEF ForcedSplit, Past
    <2>4. pass.toVerify = {} /\ DOMAIN pass.answers = {}
      BY <2>1 DEF PassInv, NoAnswers
    <2>. QED  BY <2>1, <2>2, <2>3, <2>4 DEF SplitInv
  <1>7. ASSUME NEW n \in 1 .. 2, VoluntarySplit(n) PROVE SplitInv'
    <2>1. /\ at = "report" /\ at' = at /\ pass.told < 4 /\ UNCHANGED past /\ SplitFits(n)
          /\ pass'.cur = pass.cur /\ pass'.claim = pass.claim
          /\ pass'.toVerify = pass.toVerify /\ pass'.answers = pass.answers
      BY <1>7 DEF VoluntarySplit, Telling, Part, Told
    <2>2. \A x \in DOMAIN plan : x \in DOMAIN plan' /\ plan'[x] = plan[x]
      BY <1>7, <2>1, KidsRest DEF VoluntarySplit
    <2>3. \A x \in Ids : past[x].split => x # pass.cur
      BY <2>1 DEF SplitInv
    <2>4. LetsRest
      BY <2>1, <2>2, <2>3
    <2>. QED  BY <2>4, LetRest
  <1>8. CASE SplitDone
    <2>1. /\ at = "splitting" /\ at' = "report" /\ UNCHANGED past
          /\ pass'.cur = pass.cur /\ pass'.claim = pass.claim /\ pass'.told = 4
          /\ pass'.toVerify = pass.toVerify /\ pass'.answers = pass.answers
      BY <1>8 DEF SplitDone, ToldAndStirred, Part
    <2>2. DOMAIN plan' = DOMAIN plan
      BY <1>8 DEF SplitDone, ParentSuperseded
    <2>3. \A x \in DOMAIN plan : plan'[x].status = IF x = pass.cur THEN "superseded"
                                                  ELSE plan[x].status
      BY <1>8 DEF SplitDone, ParentSuperseded, IsPlan, TaskRecord
    <2>. QED  BY <2>1, <2>2, <2>3 DEF SplitInv
  <1>9. ASSUME NEW t \in Ids, NEW deps \in SUBSET Ids, WorkerRepoints(t, deps) PROVE SplitInv'
    <2>1. /\ at = "report" /\ at' = at /\ UNCHANGED past /\ pass'.told = 5
          /\ pass'.cur = pass.cur /\ pass'.claim = pass.claim
          /\ pass'.toVerify = pass.toVerify /\ pass'.answers = pass.answers
      BY <1>9 DEF WorkerRepoints, Telling, Part, ToldAndStirred
    <2>2. \A x \in DOMAIN plan : x \in DOMAIN plan' /\ plan'[x].status = plan[x].status
      BY <1>9 DEF WorkerRepoints, IsPlan, TaskRecord
    <2>3. LetsRest
      BY <2>1, <2>2 DEF SplitInv
    <2>. QED  BY <2>3, LetRest
  <1>10. ASSUME NEW t, NEW s, plan' = [plan EXCEPT ![t].status = s], plan[t].status # "superseded",
                UNCHANGED past, at = "report", at' \in {"top", "vigilant", "review"},
                pass'.cur = pass.cur, pass'.claim = pass.claim,
                pass'.toVerify = pass.toVerify, pass'.answers = pass.answers
         PROVE  SplitInv'
    <2>1. DOMAIN plan' = DOMAIN plan /\ Restful(plan, plan')
      BY <1>10, StatusRests
    <2>2. LetsRest
      BY <1>10, <2>1 DEF SplitInv, Restful
    <2>. QED  BY <2>2, LetRest
  <1>11. CASE Complete
    <2>1. plan[pass.cur].status # "superseded"
      BY <1>11, AcceptedMoves DEF Complete, ReportAccepted, IsLegalMove, TaskStatusTable, Statuses
    <2>2. /\ plan' = [plan EXCEPT ![pass.cur].status = "awaiting-validation"]
          /\ UNCHANGED past /\ at = "report" /\ at' = "vigilant"
          /\ pass'.cur = pass.cur /\ pass'.claim = pass.claim
          /\ pass'.toVerify = pass.toVerify /\ pass'.answers = pass.answers
      BY <1>11 DEF Complete, AtVerdict
    <2>. QED  BY <1>10, <2>1, <2>2
  <1>12. ASSUME NEW t \in Ids, Unsatisfiable(t) PROVE SplitInv'
    <2>1. plan[t].status # "superseded"
      BY <1>12 DEF Unsatisfiable, ReportAccepted, IsLegalMove, TaskStatusTable, Statuses
    <2>2. /\ plan' = [plan EXCEPT ![t].status = "skipped"]
          /\ UNCHANGED <<pass, past>> /\ at = "report" /\ at' \in {"top", "review"}
      BY <1>12 DEF Unsatisfiable, AtVerdict
    <2>. QED  BY <1>10, <2>1, <2>2
  <1>13. CASE Deferred
    <2>1. /\ plan[pass.cur].status # "superseded" /\ UNCHANGED <<pass, past>>
          /\ at = "report" /\ at' = "top"
      BY <1>13 DEF Deferred, Unbroken, AtVerdict
    <2>2. /\ DOMAIN plan' = DOMAIN plan
          /\ \A x \in DOMAIN plan : x # pass.cur => plan'[x] = plan[x]
      BY <1>13 DEF Deferred
    <2>3. LetsRest
      BY <2>1, <2>2 DEF SplitInv
    <2>. QED  BY <2>3, LetRest
  <1>. QED  BY <1>1, <1>2, <1>3, <1>4, <1>5, <1>6, <1>7, <1>8, <1>9, <1>11, <1>12, <1>13
            DEF Iteration

LEMMA VerificationRests ==
    ASSUME Unbroken, TypeOK, PassInv, SplitInv, Verification
    PROVE  LetsRest
  <1>. USE DEF LetsRest, TypeOK, PassRecord
  <1>1. CASE AdjudicationSkipped \/ MidPlanSkipped \/ CurePassCounted \/ VerificationOver
    BY <1>1 DEF AdjudicationSkipped, MidPlanSkipped, CurePassCounted, VerificationOver, SplitInv
  <1>2. CASE VerificationListed
    <2>1. /\ at = "vigilant" /\ at' \in {"tally", "adjudicate"} /\ UNCHANGED past
          /\ pass'.cur = pass.cur /\ pass'.claim = pass.claim /\ pass'.answers = pass.answers
          /\ pass'.toVerify = Having(plan', {"awaiting-validation"})
      BY <1>2 DEF VerificationListed
    <2>2. /\ DOMAIN plan' = DOMAIN plan
          /\ \A x \in DOMAIN plan : plan[x].status = "superseded" => plan'[x].status = "superseded"
      BY <1>2 DEF VerificationListed, Relabelled, IsPlan, TaskRecord
    <2>3. \A x \in Ids : past[x].split => x \notin pass'.toVerify
      BY <2>1, <2>2 DEF SplitInv, Having
    <2>. QED  BY <2>1, <2>2, <2>3 DEF SplitInv
  <1>3. CASE Adjudicated
    <2>1. PICK f \in Adjudications : AdjudicationRecorded(f)
      BY <1>3 DEF Adjudicated
    <2>2. DOMAIN f \subseteq Having(plan, {"petitioned"})
      BY DEF Adjudications, OpenPetitions
    <2>3. /\ at = "adjudicate" /\ at' = "refute" /\ UNCHANGED <<plan, past>>
          /\ pass'.cur = pass.cur /\ pass'.claim = pass.claim /\ pass'.answers = f
          /\ pass'.toVerify = pass.toVerify
      BY <1>3, <2>1 DEF Adjudicated, AdjudicationRecorded
    <2>4. \A x \in Ids : past[x].split => x \notin DOMAIN f
      BY <2>2, <2>3 DEF SplitInv, Having
    <2>. QED  BY <2>3, <2>4 DEF SplitInv
  <1>4. CASE RefutedApplied
    <2>1. at = "refute" /\ at' \in {"remedy", "void"} /\ UNCHANGED <<pass, past>>
      BY <1>4 DEF RefutedApplied
    <2>2. DOMAIN plan' = DOMAIN plan /\ \A x \in DOMAIN plan : x \notin DOMAIN pass.answers =>
              plan'[x] = plan[x]
      BY <1>4 DEF RefutedApplied, Answered
    <2>3. DOMAIN plan \subseteq Ids
      BY DEF IsPlan
    <2>. QED  BY <2>1, <2>2, <2>3 DEF SplitInv
  <1>5. ASSUME NEW moved \in BOOLEAN, RemedyInserted(moved) PROVE LetsRest
    <2>. DEFINE finding == [named |-> Answered(pass.answers, "substance"), paths |-> {}]
    <2>1. at = "remedy" /\ at' = "void" /\ UNCHANGED <<pass, past>>
      BY <1>5 DEF RemedyInserted
    <2>2. finding \in Findings /\ Room(plan, IdsTaken(finding)) /\ finding.paths = {}
      <3>1. Answered(pass.answers, "substance") \in SUBSET Ids
        BY AnsweredIsKnown
      <3>. QED  BY <1>5, <3>1, PathsOfFinding DEF RemedyInserted, Findings, IdsTaken
    <2>3. plan' = CurePass(plan, finding)
      BY <1>5 DEF RemedyInserted
    <2>. HIDE DEF finding
    <2>4. Wrought(plan, plan', FreshId(plan)) /\ Redoes(plan, plan')
      BY <2>2, <2>3, CurePassWrought
    <2>. QED  BY <2>1, <2>4 DEF Wrought, Redoes, SplitInv
  <1>6. ASSUME NEW by, ConfirmedApplied(by) PROVE LetsRest
    <2>1. /\ at = "void" /\ at' = pass.then /\ UNCHANGED past
          /\ pass'.cur = pass.cur /\ pass'.claim = pass.claim
          /\ pass'.toVerify = pass.toVerify /\ DOMAIN pass'.answers = {}
      <3>. DEFINE none == NoAnswers
      <3>1. DOMAIN none = {}
        BY DEF NoAnswers
      <3>2. pass' = [pass EXCEPT !.answers = none]
        BY <1>6 DEF ConfirmedApplied
      <3>. HIDE DEF none
      <3>. QED  BY <1>6, <3>1, <3>2 DEF ConfirmedApplied
    <2>2. DOMAIN plan' = DOMAIN plan /\ \A x \in DOMAIN plan : x \notin DOMAIN pass.answers =>
              plan'[x].status = plan[x].status
      <3>1. DOMAIN plan' = DOMAIN plan
        BY <1>6 DEF ConfirmedApplied
      <3>2. ASSUME NEW x \in DOMAIN plan, x \notin DOMAIN pass.answers
            PROVE  plan'[x].status = plan[x].status
        <4>1. plan[x] \in TaskRecord /\ x \notin Answered(pass.answers, "confirmed")
          BY <3>2 DEF IsPlan, Answered
        <4>2. plan'[x] = [plan[x] EXCEPT !.status = plan[x].status,
                                         !.deps = EdgeOfVoided(plan, x, by)]
          BY <1>6, <3>2, <4>1 DEF ConfirmedApplied
        <4>. QED  BY <4>1, <4>2 DEF TaskRecord
      <3>. QED  BY <3>1, <3>2
    <2>3. DOMAIN plan \subseteq Ids
      BY DEF IsPlan
    <2>. QED  BY <2>1, <2>2, <2>3 DEF SplitInv
  <1>7. CASE MidPlanReviewed
    BY <1>7 DEF MidPlanReviewed, MidPlanReviewDue, Unbroken
  <1>8. ASSUME NEW t \in Ids, t \in pass.toVerify, at = "verify", at' \in {"verify", "adjudicate"},
               pass'.cur = pass.cur, pass'.claim = pass.claim, pass'.answers = pass.answers,
               pass'.toVerify = pass.toVerify \ {t},
               \A x \in Ids : past'[x].split = past[x].split,
               \A x \in DOMAIN plan \ {t} : plan[x].status = "superseded" =>
                   x \in DOMAIN plan' /\ plan'[x].status = "superseded"
        PROVE  LetsRest
    <2>1. \A x \in Ids : past[x].split => x # t
      BY <1>8 DEF SplitInv
    <2>2. DOMAIN plan \subseteq Ids
      BY DEF IsPlan
    <2>. QED  BY <1>8, <2>1, <2>2 DEF SplitInv
  <1>9. ASSUME NEW t \in Ids, NEW touched \in BOOLEAN, VerifyPasses(t, touched) PROVE LetsRest
    <2>. DEFINE p == [plan EXCEPT ![t].status = "validated"]
    <2>1. /\ t \in pass.toVerify /\ at = "verify" /\ UNCHANGED <<at, past>>
          /\ pass'.cur = pass.cur /\ pass'.claim = pass.claim /\ pass'.answers = pass.answers
          /\ pass'.toVerify = pass.toVerify \ {t}
      BY <1>9 DEF VerifyPasses, Listed
    <2>2. plan' = Lands(p, t, "validated", touched) /\ IsPlan(p) /\ DOMAIN p = DOMAIN plan
      BY <1>9, StatusWritten DEF VerifyPasses, Statuses
    <2>3. \A x \in DOMAIN plan \ {t} : p[x] = plan[x]
      OBVIOUS
    <2>. HIDE DEF p
    <2>4. Restful(p, plan') /\ DOMAIN plan' = DOMAIN p
      BY <2>2, LandsRests, LandsRestores DEF Restores
    <2>. QED  BY <1>8, <2>1, <2>2, <2>3, <2>4 DEF Restful
  <1>10. ASSUME NEW t \in Ids, VerifyRejects(t) PROVE LetsRest
    <2>1. /\ t \in pass.toVerify /\ at = "verify" /\ at' \in {"verify", "adjudicate"}
          /\ pass'.cur = pass.cur /\ pass'.claim = pass.claim /\ pass'.answers = pass.answers
          /\ pass'.toVerify = pass.toVerify \ {t}
      BY <1>10 DEF VerifyRejects, Listed
    <2>2. past' = [past EXCEPT ![t].rejected = @ + 1]
      BY <1>10 DEF VerifyRejects
    <2>3. \A x \in Ids : past'[x].split = past[x].split
      BY <2>2, NoteSplitsNothing
    <2>4. DOMAIN plan' = DOMAIN plan /\ \A x \in DOMAIN plan \ {t} : plan'[x] = plan[x]
      BY <1>10 DEF VerifyRejects
    <2>. QED  BY <1>8, <2>1, <2>3, <2>4
  <1>11. ASSUME NEW t \in Ids, VerifyMute(t) PROVE LetsRest
    BY <1>8, <1>11 DEF VerifyMute, Listed
  <1>. QED  BY <1>1, <1>2, <1>3, <1>4, <1>5, <1>6, <1>7, <1>9, <1>10, <1>11 DEF Verification

LEMMA JudgementRests ==
    ASSUME Unbroken, TypeOK, PassInv, SplitInv, Judgement
    PROVE  LetsRest
  <1>. USE DEF LetsRest, TypeOK, PassRecord
  <1>1. CASE TallyApplied \/ BreakerTrips \/ TallyPassedOver
             \/ ReviewUnaffordable \/ ReviewRejects \/ ReviewEnds \/ OutOfApproaches
    BY <1>1 DEF TallyApplied, BreakerTrips, TallyPassedOver, ReviewUnaffordable, ReviewRejects,
                ReviewEnds, OutOfApproaches, SplitInv
  <1>2. CASE BacksOff
    <2>1. pass.claim = "idle"
      BY <1>2, TasksAssumption DEF BacksOff, Repolls
    <2>2. at = "tally" /\ at' = "top" /\ UNCHANGED <<pass, past>>
      BY <1>2 DEF BacksOff, Tallied
    <2>3. DOMAIN plan' = DOMAIN plan /\ \A x \in DOMAIN plan \ {pass.cur} : plan'[x] = plan[x]
      BY <1>2 DEF BacksOff
    <2>4. \A x \in Ids : past[x].split => x # pass.cur
      BY <2>1 DEF SplitInv
    <2>5. DOMAIN plan \subseteq Ids
      BY DEF IsPlan
    <2>. QED  BY <2>2, <2>3, <2>4, <2>5
  <1>3. ASSUME NEW activity, Tally(activity) PROVE LetsRest
    BY <1>3 DEF Tally, Tallied, SplitInv
  <1>4. CASE ReviewAnswers
    <2>1. PICK f \in Adjudications : pass' = [NewPass EXCEPT !.answers = f, !.then = "reviewed"]
      BY <1>4 DEF ReviewAnswers
    <2>2. DOMAIN f \subseteq Having(plan, {"petitioned"})
      BY DEF Adjudications, OpenPetitions
    <2>3. /\ at = "review" /\ at' = "refute" /\ UNCHANGED <<plan, past>>
          /\ pass'.claim = "none" /\ pass'.answers = f /\ pass'.toVerify = {}
      BY <1>4, <2>1 DEF ReviewAnswers, NewPass
    <2>4. \A x \in Ids : past[x].split => x \notin DOMAIN f
      BY <2>2, <2>3 DEF SplitInv, Having
    <2>. QED  BY <2>3, <2>4 DEF SplitInv
  <1>5. CASE ReviewCured
    BY <1>5 DEF ReviewCured, Unbroken
  <1>6. ASSUME NEW worded, Replanned(worded) PROVE LetsRest
    <2>1. at = "replan" /\ at' = "top" /\ UNCHANGED pass /\ past' = Untouched
      BY <1>6 DEF Replanned
    <2>2. DOMAIN plan \subseteq Ids
      BY DEF IsPlan
    <2>. QED  BY <2>1, <2>2 DEF Untouched, Fresh, SplitInv
  <1>. QED  BY <1>1, <1>2, <1>3, <1>4, <1>5, <1>6 DEF Judgement

LEMMA SplitStep ==
    ASSUME Unbroken, TypeOK, PassInv, SplitInv, [Next]_vars
    PROVE  SplitInv'
  <1>1. CASE Over \/ UNCHANGED vars
    BY <1>1 DEF Over, vars, SplitInv
  <1>2. CASE Operator
    BY <1>2 DEF Operator, SteeringArrives, TimeRunsOut, UndeferRequested, RulingGiven, SplitInv
  <1>3. ~Killed
    BY DEF Unbroken, Killed
  <1>. QED  BY <1>1, <1>2, <1>3, LetRest, BoundaryRests, SelectionRests, IterationRests,
               VerificationRests, JudgementRests
            DEF Next, Engine

\* Nobody kills the engine, no report both splits its task and puts it off, and
\* no cure pass re-opens records: then a task whose forced split has put its
\* children in the plan is not worked on again.  It stays superseded through every
\* report, ruling, steer call, verdict, petition and back-off (_apply_forced_split,
\* apply_task_status_change), from the write after the children's on.
THEOREM ParentsRest ==
    ASSUME Unbroken
    PROVE  Spec => []SplitParentRests
  <1>1. Init => TypeOK /\ PassInv /\ SplitInv
    BY InitType, InitPass DEF Init, Untouched, Fresh, SplitInv
  <1>2. TypeOK /\ PassInv /\ SplitInv /\ [Next]_vars => (TypeOK /\ PassInv /\ SplitInv)'
    BY TypeStep, PassStep, SplitStep
  <1>3. TypeOK /\ SplitInv => SplitParentRests
    BY DEF TypeOK, PassRecord, SplitInv, SplitParentRests
  <1>. QED  BY <1>1, <1>2, <1>3, PTL DEF Spec

(***************************************************************************)
(* Attempts.                                                               *)
(***************************************************************************)
\* From p to q a task keeps its attempts or starts over with none, and comes
\* back to work only from work or with attempts left.
SameTries(p, q) ==
    \A t \in DOMAIN q :
        \/ q[t].tries = 0
        \/ /\ t \in DOMAIN p /\ q[t].tries = p[t].tries
           /\ q[t].status \in Working => p[t].status \in Working \/ p[t].tries < AttemptLimit

LEMMA SameTriesOn ==
    ASSUME NEW p, NEW q, NEW r, SameTries(p, q), SameTries(q, r), AttemptLimit > 0
    PROVE  SameTries(p, r)
  BY DEF SameTries

LEMMA SamePlanTries == ASSUME UNCHANGED plan PROVE SameTries(plan, plan')
  BY DEF SameTries

LEMMA FreshTries == ASSUME NEW p, NEW q \in FreshPlans PROVE SameTries(p, q)
  BY DEF SameTries, FreshPlans, NewTask

LEMMA WroughtTries == ASSUME NEW p, NEW q, NEW c, Wrought(p, q, c) PROVE SameTries(p, q)
  BY DEF SameTries, Wrought

LEMMA RestoredTries == ASSUME NEW p, NEW q, NEW r, Restores(p, q, r) PROVE SameTries(p, q)
  BY DEF SameTries, Restores, Working, ActionableStatuses

LEMMA StatusTries ==
    ASSUME NEW p, IsPlan(p), NEW t, NEW s,
           t \in DOMAIN p /\ s \in Working => p[t].status \in Working
    PROVE  SameTries(p, [p EXCEPT ![t].status = s])
  <1>. DEFINE q == [p EXCEPT ![t].status = s]
  <1>1. ASSUME NEW x \in DOMAIN p
        PROVE  /\ q[x].tries = p[x].tries
               /\ q[x].status = IF x = t THEN s ELSE p[x].status
    BY <1>1 DEF IsPlan, TaskRecord
  <1>2. DOMAIN q = DOMAIN p
    OBVIOUS
  <1>. HIDE DEF q
  <1>3. SameTries(p, q)
    BY <1>1, <1>2 DEF SameTries
  <1>. QED  BY <1>3 DEF q

LEMMA AcceptedTries ==
    ASSUME NEW p, IsPlan(p), NEW t \in DOMAIN p, NEW s, NEW justified,
           ReportAccepted(p[t].status, s, TRUE, FALSE, justified)
    PROVE  SameTries(p, [p EXCEPT ![t].status = s])
  <1>1. p[t].status \in Statuses
    BY DEF IsPlan, TaskRecord
  <1>2. s \in Working => p[t].status \in Working
    BY <1>1, AcceptedMoves
  <1>. QED  BY <1>2, StatusTries

LEMMA MovedTries ==
    ASSUME NEW p, IsPlan(p), NEW t, NEW s, NEW justified
    PROVE  SameTries(p, Moved(p, t, s, TRUE, FALSE, justified))
  <1>1. SameTries(p, p)
    BY DEF SameTries
  <1>. QED  BY <1>1, AcceptedTries DEF Moved

LEMMA CureTries ==
    ASSUME TypeOK, NEW finding \in Findings, Room(plan, IdsTaken(finding)),
           plan' = CurePass(plan, finding)
    PROVE  SameTries(plan, plan')
  BY CurePassWrought, WroughtTries DEF TypeOK

LEMMA BoundaryTries == ASSUME TypeOK, Boundary PROVE SameTries(plan, plan')
  <1>. USE SamePlanTries DEF TypeOK
  <1>1. CASE PassBegins \/ BudgetGone \/ Resteered
    BY <1>1 DEF PassBegins, BudgetGone, Resteered
  <1>2. CASE RulingReapplied
    <2>. DEFINE r == world.rulings[pass.k + 1]
    <2>1. plan' = Moved(plan, r.task, r.status, TRUE, FALSE, TRUE)
      BY <1>2 DEF RulingReapplied
    <2>. HIDE DEF r
    <2>. QED  BY <2>1, MovedTries
  <1>3. ASSUME DOMAIN plan' = DOMAIN plan,
               \A x \in DOMAIN plan : plan'[x].status = plan[x].status
                                      /\ plan'[x].tries = plan[x].tries
        PROVE  SameTries(plan, plan')
    BY <1>3 DEF SameTries
  <1>4. CASE BoundaryPassed
    BY <1>3, <1>4 DEF BoundaryPassed, IsPlan, TaskRecord
  <1>5. ASSUME NEW deps \in SUBSET Ids, SteerInsert(deps) PROVE SameTries(plan, plan')
    BY <1>5 DEF SteerInsert, Added, NewTask, SameTries
  <1>6. ASSUME NEW t \in Ids, SteerDelete(t) PROVE SameTries(plan, plan')
    BY <1>6 DEF SteerDelete, SameTries
  <1>7. ASSUME NEW t \in Ids, NEW deps \in SUBSET Ids, SteerRepoint(t, deps)
        PROVE  SameTries(plan, plan')
    BY <1>3, <1>7 DEF SteerRepoint, IsPlan, TaskRecord
  <1>8. ASSUME NEW t \in Ids, NEW s \in Statuses, SteerMoves(t, s) PROVE SameTries(plan, plan')
    BY <1>8, AcceptedTries DEF SteerMoves
  <1>. QED  BY <1>1, <1>2, <1>4, <1>5, <1>6, <1>7, <1>8 DEF Boundary

LEMMA SelectionTries == ASSUME TypeOK, Selection PROVE SameTries(plan, plan')
  <1>. USE SamePlanTries DEF TypeOK
  <1>1. ASSUME NEW t \in Ids, Claim(t) PROVE SameTries(plan, plan')
    <2>1. t \in DOMAIN plan /\ plan[t].status \in Working
      BY <1>1, OfferedIsActionable DEF Claim, Working
    <2>2. /\ DOMAIN plan' = DOMAIN plan
          /\ \A x \in DOMAIN plan : plan'[x].tries = plan[x].tries
          /\ \A x \in DOMAIN plan \ {t} : plan'[x] = plan[x]
      BY <1>1 DEF Claim, IsPlan, TaskRecord
    <2>. QED  BY <2>1, <2>2 DEF SameTries
  <1>2. CASE DoomedPlan \/ Held \/ GoesToSleep \/ NoTaskToRun \/ WokenEarly \/ DeadlineWakes
             \/ HoldsOn
    BY <1>2 DEF DoomedPlan, Held, GoesToSleep, NoTaskToRun, WokenEarly, DeadlineWakes, HoldsOn
  <1>3. CASE GraphFault
    BY <1>3, FreshTries DEF GraphFault
  <1>4. CASE SleepsOut
    BY <1>4 DEF SleepsOut, TimerElapsed, IsPlan, TaskRecord, SameTries
  <1>. QED  BY <1>1, <1>2, <1>3, <1>4 DEF Selection

\* The claimed task has attempts left for as long as it is worked on, and no
\* verdict is asked for it once its report said it has none.
InHand == at \in {"run", "report", "splitting"} \/ (at = "vigilant" /\ pass.claim = "idle")

HandInv ==
    /\ InHand /\ pass.cur \in DOMAIN plan =>
          /\ plan[pass.cur].status \in {"in-progress", "superseded"}
          /\ plan[pass.cur].tries < AttemptLimit
    /\ pass.claim = "idle" =>
          /\ pass.cur \notin pass.toVerify
          /\ pass.cur \in DOMAIN plan => plan[pass.cur].tries < AttemptLimit

LEMMA IterationTries == ASSUME TypeOK, HandInv, Iteration PROVE SameTries(plan, plan')
  <1>. USE SamePlanTries DEF TypeOK
  <1>1. CASE Iterates \/ PlanComplete \/ NoVerdict
    BY <1>1 DEF Iterates, PlanComplete, NoVerdict
  <1>2. CASE SecretFound
    BY <1>2, StatusTries DEF SecretFound, Working, ActionableStatuses
  <1>3. ASSUME NEW givesBack \in BOOLEAN, IterationFaulted(givesBack)
        PROVE  SameTries(plan, plan')
    <2>1. CASE plan' # plan
      <3>1. /\ DOMAIN plan' = DOMAIN plan /\ plan[pass.cur].status = "in-progress"
            /\ \A x \in DOMAIN plan \ {pass.cur} : plan'[x] = plan[x]
        BY <1>3, <2>1 DEF IterationFaulted, GivenBack
      <3>2. \A x \in DOMAIN plan : plan'[x].tries = plan[x].tries
        BY <1>3, <2>1 DEF IterationFaulted, GivenBack, IsPlan, TaskRecord
      <3>. QED  BY <3>1, <3>2 DEF SameTries, Working, ActionableStatuses
    <2>. QED  BY <2>1
  <1>4. ASSUME NEW t \in Ids, NEW s \in Statuses, NEW justified, NEW touched,
               StatusReported(t, s, justified, touched)
        PROVE  SameTries(plan, plan')
    <2>. DEFINE p == [plan EXCEPT ![t].status = s]
    <2>1. SameTries(plan, p) /\ IsPlan(p)
      BY <1>4, AcceptedTries, StatusWritten DEF StatusReported
    <2>2. plan' = Lands(p, t, s, touched)
      BY <1>4 DEF StatusReported
    <2>. HIDE DEF p
    <2>3. SameTries(p, plan')
      BY <2>1, <2>2, LandsRestores, RestoredTries
    <2>. QED  BY <2>1, <2>3, SameTriesOn, TasksAssumption
  <1>5. ASSUME NEW claim \in {"corroborated", "idle"}, ProgressReported(claim)
        PROVE  SameTries(plan, plan')
    BY <1>5 DEF ProgressReported
  <1>6. ASSUME NEW n \in 1 .. 2, NEW deps \in SplitsInto(n), NEW inherited,
               plan' = WithKids(deps, inherited)
        PROVE  SameTries(plan, plan')
    BY <1>6 DEF WithKids, NewTask, SameTries
  <1>7. ASSUME NEW n \in 1 .. 2, ForcedSplit(n) \/ VoluntarySplit(n) PROVE SameTries(plan, plan')
    BY <1>6, <1>7 DEF ForcedSplit, VoluntarySplit
  <1>8. CASE SplitDone
    BY <1>8, StatusTries DEF SplitDone, ParentSuperseded, Working, ActionableStatuses
  <1>9. ASSUME NEW t \in Ids, NEW deps \in SUBSET Ids, WorkerRepoints(t, deps)
        PROVE  SameTries(plan, plan')
    BY <1>9 DEF WorkerRepoints, IsPlan, TaskRecord, SameTries
  <1>10. CASE Complete
    BY <1>10, AcceptedTries DEF Complete
  <1>11. ASSUME NEW t \in Ids, Unsatisfiable(t) PROVE SameTries(plan, plan')
    BY <1>11, AcceptedTries DEF Unsatisfiable
  <1>12. CASE Deferred
    <2>1. plan[pass.cur].tries < AttemptLimit
      BY <1>12 DEF Deferred, AtVerdict, HandInv, InHand
    <2>2. /\ DOMAIN plan' = DOMAIN plan
          /\ \A x \in DOMAIN plan : plan'[x].tries = plan[x].tries
          /\ \A x \in DOMAIN plan \ {pass.cur} : plan'[x] = plan[x]
      BY <1>12 DEF Deferred, IsPlan, TaskRecord
    <2>. QED  BY <2>1, <2>2 DEF SameTries
  <1>. QED  BY <1>1, <1>2, <1>3, <1>4, <1>5, <1>7, <1>8, <1>9, <1>10, <1>11, <1>12 DEF Iteration

\* A verdict against the work is the one step that takes an attempt.
LEMMA VerificationTries ==
    ASSUME TypeOK, PassInv, Verification, \A t \in Ids : ~VerifyRejects(t)
    PROVE  SameTries(plan, plan')
  <1>. USE SamePlanTries DEF TypeOK
  <1>1. CASE AdjudicationSkipped \/ Adjudicated \/ MidPlanSkipped \/ CurePassCounted
             \/ VerificationOver
    BY <1>1 DEF AdjudicationSkipped, Adjudicated, MidPlanSkipped, CurePassCounted,
                VerificationOver
  <1>2. ASSUME DOMAIN plan' = DOMAIN plan,
               \A x \in DOMAIN plan :
                   /\ plan'[x].tries = plan[x].tries
                   /\ plan'[x].status \in Working => plan[x].status \in Working
        PROVE  SameTries(plan, plan')
    BY <1>2 DEF SameTries
  <1>3. CASE VerificationListed
    BY <1>2, <1>3 DEF VerificationListed, Relabelled, IsPlan, TaskRecord, Working
  <1>4. CASE RefutedApplied
    <2>1. ASSUME NEW x \in DOMAIN plan
          PROVE  /\ plan'[x].tries = plan[x].tries
                 /\ plan'[x].status \in {plan[x].status, "validated", "failed"}
      <3>1. plan[x] \in TaskRecord
        BY <2>1 DEF IsPlan
      <3>2. plan'[x] = CASE x \in Answered(pass.answers, "form") ->
                                [plan[x] EXCEPT !.status = "validated"]
                         [] x \in Answered(pass.answers, "substance") ->
                                [plan[x] EXCEPT !.status = "failed"]
                         [] OTHER -> plan[x]
        BY <1>4, <2>1 DEF RefutedApplied
      <3>3. ~(x \in Answered(pass.answers, "form") /\ x \in Answered(pass.answers, "substance"))
        BY DEF Answered
      <3>4. CASE x \in Answered(pass.answers, "form")
        <4>1. plan'[x] = [plan[x] EXCEPT !.status = "validated"]
          BY <3>2, <3>3, <3>4
        <4>. QED  BY <3>1, <4>1 DEF TaskRecord
      <3>5. CASE x \in Answered(pass.answers, "substance")
        <4>1. plan'[x] = [plan[x] EXCEPT !.status = "failed"]
          BY <3>2, <3>3, <3>5
        <4>. QED  BY <3>1, <4>1 DEF TaskRecord
      <3>6. CASE x \notin Answered(pass.answers, "form") \cup Answered(pass.answers, "substance")
        <4>1. plan'[x] = plan[x]
          BY <3>2, <3>6
        <4>. QED  BY <4>1
      <3>. QED  BY <3>4, <3>5, <3>6
    <2>2. DOMAIN plan' = DOMAIN plan
      BY <1>4 DEF RefutedApplied
    <2>. QED  BY <1>2, <2>1, <2>2 DEF Working, ActionableStatuses
  <1>5. ASSUME NEW moved \in BOOLEAN, RemedyInserted(moved) PROVE SameTries(plan, plan')
    <2>. DEFINE finding == [named |-> Answered(pass.answers, "substance"), paths |-> {}]
    <2>1. Answered(pass.answers, "substance") \in SUBSET Ids
      BY AnsweredIsKnown DEF PassRecord
    <2>2. finding \in Findings /\ Room(plan, IdsTaken(finding))
      BY <1>5, <2>1, PathsOfFinding DEF RemedyInserted, Findings, IdsTaken
    <2>3. plan' = CurePass(plan, finding)
      BY <1>5 DEF RemedyInserted
    <2>. HIDE DEF finding
    <2>. QED  BY <2>2, <2>3, CureTries
  <1>6. ASSUME NEW by, ConfirmedApplied(by) PROVE SameTries(plan, plan')
    <2>1. ASSUME NEW x \in DOMAIN plan
          PROVE  /\ plan'[x].tries = plan[x].tries
                 /\ plan'[x].status \in {plan[x].status, "skipped"}
      <3>. DEFINE s == IF x \in Answered(pass.answers, "confirmed") THEN "skipped"
                       ELSE plan[x].status
                  D == EdgeOfVoided(plan, x, by)
      <3>1. plan[x] \in TaskRecord
        BY <2>1 DEF IsPlan
      <3>2. plan'[x] = [plan[x] EXCEPT !.status = s, !.deps = D]
        BY <1>6, <2>1 DEF ConfirmedApplied
      <3>3. s \in {plan[x].status, "skipped"}
        OBVIOUS
      <3>. HIDE DEF s, D
      <3>. QED  BY <3>1, <3>2, <3>3 DEF TaskRecord
    <2>2. DOMAIN plan' = DOMAIN plan
      BY <1>6 DEF ConfirmedApplied
    <2>. QED  BY <1>2, <2>1, <2>2 DEF Working, ActionableStatuses
  <1>7. CASE MidPlanReviewed
    <2>1. ASSUME NEW finding \in ReviewFindings, NEW moved, Curable(finding),
                 CuresInserted(finding, moved)
          PROVE  SameTries(plan, plan')
      BY <2>1, FindingsType, CureTries DEF Curable, CuresInserted
    <2>. QED  BY <1>7, <2>1 DEF MidPlanReviewed
  <1>8. ASSUME NEW t \in Ids, NEW touched \in BOOLEAN, VerifyPasses(t, touched)
        PROVE  SameTries(plan, plan')
    <2>. DEFINE p == [plan EXCEPT ![t].status = "validated"]
    <2>1. SameTries(plan, p) /\ IsPlan(p)
      BY StatusTries, StatusWritten DEF Working, ActionableStatuses, Statuses
    <2>2. plan' = Lands(p, t, "validated", touched)
      BY <1>8 DEF VerifyPasses
    <2>. HIDE DEF p
    <2>3. SameTries(p, plan')
      BY <2>1, <2>2, LandsRestores, RestoredTries
    <2>. QED  BY <2>1, <2>3, SameTriesOn, TasksAssumption
  <1>9. ASSUME NEW t \in Ids, VerifyMute(t) PROVE SameTries(plan, plan')
    BY <1>9 DEF VerifyMute
  <1>. QED  BY <1>1, <1>3, <1>4, <1>5, <1>6, <1>7, <1>8, <1>9 DEF Verification

LEMMA JudgementTries ==
    ASSUME TypeOK, HandInv, Judgement \/ Killed
    PROVE  SameTries(plan, plan')
  <1>. USE SamePlanTries DEF TypeOK
  <1>1. CASE TallyApplied \/ BreakerTrips \/ TallyPassedOver \/ ReviewAnswers
             \/ ReviewUnaffordable \/ ReviewRejects \/ ReviewEnds \/ OutOfApproaches \/ Killed
    BY <1>1 DEF TallyApplied, BreakerTrips, TallyPassedOver, ReviewAnswers, ReviewUnaffordable,
                ReviewRejects, ReviewEnds, OutOfApproaches, Killed
  <1>2. ASSUME NEW activity, Tally(activity) PROVE SameTries(plan, plan')
    BY <1>2 DEF Tally
  <1>3. CASE BacksOff
    <2>1. pass.claim = "idle"
      BY <1>3, TasksAssumption DEF BacksOff, Repolls
    <2>2. pass.cur \in DOMAIN plan => plan[pass.cur].tries < AttemptLimit
      BY <2>1 DEF HandInv
    <2>3. /\ DOMAIN plan' = DOMAIN plan
          /\ \A x \in DOMAIN plan : plan'[x].tries = plan[x].tries
          /\ \A x \in DOMAIN plan \ {pass.cur} : plan'[x] = plan[x]
      BY <1>3 DEF BacksOff, IsPlan, TaskRecord
    <2>. QED  BY <2>2, <2>3 DEF SameTries
  <1>4. CASE ReviewCured
    <2>1. ASSUME NEW finding \in ReviewFindings, NEW moved, Curable(finding),
                 CuresInserted(finding, moved)
          PROVE  SameTries(plan, plan')
      BY <2>1, FindingsType, CureTries DEF Curable, CuresInserted
    <2>. QED  BY <1>4, <2>1 DEF ReviewCured
  <1>5. ASSUME NEW worded, Replanned(worded) PROVE SameTries(plan, plan')
    BY <1>5, FreshTries DEF Replanned
  <1>. QED  BY <1>1, <1>2, <1>3, <1>4, <1>5 DEF Judgement

LEMMA OperatorTries == ASSUME Operator \/ Over \/ UNCHANGED vars PROVE SameTries(plan, plan')
  BY SamePlanTries
     DEF Operator, SteeringArrives, TimeRunsOut, UndeferRequested, RulingGiven, Over, vars

LEMMA TriesStep ==
    ASSUME TypeOK, PassInv, HandInv, [Next]_vars, \A t \in Ids : ~VerifyRejects(t)
    PROVE  SameTries(plan, plan')
  BY OperatorTries, BoundaryTries, SelectionTries, IterationTries, VerificationTries,
     JudgementTries
     DEF Next, Engine

\* No task has more attempts behind it than verdicts against it, and none that
\* may still be worked on or verified is out of them.
Attempts ==
    \A t \in DOMAIN plan :
        /\ plan[t].tries <= past[t].rejected
        /\ plan[t].status \in Working => plan[t].tries < AttemptLimit

LEMMA AttemptsKept ==
    ASSUME TypeOK, TypeOK', Attempts, SameTries(plan, plan'),
           \A t \in DOMAIN plan' : plan'[t].tries = 0 \/ past'[t].rejected >= past[t].rejected
    PROVE  Attempts'
  <1>. SUFFICES ASSUME NEW t \in DOMAIN plan'
                PROVE  /\ plan'[t].tries <= past'[t].rejected
                       /\ plan'[t].status \in Working => plan'[t].tries < AttemptLimit
    BY DEF Attempts
  <1>1. t \in Ids /\ past[t].rejected \in Nat /\ past'[t].rejected \in Nat
        /\ AttemptLimit \in Nat \ {0}
    BY TasksAssumption DEF TypeOK, IsPlan, Past
  <1>2. CASE plan'[t].tries = 0
    BY <1>1, <1>2
  <1>3. CASE plan'[t].tries # 0
    <2>1. /\ t \in DOMAIN plan /\ plan'[t].tries = plan[t].tries
          /\ plan'[t].status \in Working =>
                plan[t].status \in Working \/ plan[t].tries < AttemptLimit
      BY <1>3 DEF SameTries
    <2>2. plan[t].tries \in Nat /\ past'[t].rejected >= past[t].rejected
      BY <1>3, <2>1 DEF TypeOK, IsPlan, TaskRecord
    <2>. QED  BY <1>1, <2>1, <2>2 DEF Attempts
  <1>. QED  BY <1>2, <1>3

LEMMA FreshHasNoTries == ASSUME NEW p \in FreshPlans PROVE \A t \in DOMAIN p : p[t].tries = 0
  BY DEF FreshPlans, NewTask

LEMMA RejectionCounts == ASSUME TypeOK, TypeOK', Attempts, NEW t, VerifyRejects(t) PROVE Attempts'
  <1>. DEFINE n == plan[t].tries + 1
              out == OutOfAttempts(n)
  <1>1. PICK s : /\ plan' = [plan EXCEPT ![t].tries = @ + 1, ![t].status = s]
                 /\ out => s \in {"petitioned", "failed"}
    BY DEF VerifyRejects
  <1>2. past' = [past EXCEPT ![t].rejected = @ + 1] /\ DOMAIN plan' = DOMAIN plan
    BY <1>1 DEF VerifyRejects
  <1>3. out <=> n >= AttemptLimit
    BY DEF OutOfAttempts
  <1>. HIDE DEF out
  <1>. SUFFICES ASSUME NEW x \in DOMAIN plan
                PROVE  /\ plan'[x].tries <= past'[x].rejected
                       /\ plan'[x].status \in Working => plan'[x].tries < AttemptLimit
    BY <1>2 DEF Attempts
  <1>4. /\ x \in Ids /\ plan[x] \in TaskRecord /\ plan[x].tries \in Nat
        /\ past[x] \in [rejected : Nat, corroborated : Nat, split : BOOLEAN]
        /\ AttemptLimit \in Nat /\ plan[x].tries <= past[x].rejected
    BY TasksAssumption DEF TypeOK, IsPlan, TaskRecord, Past, Attempts
  <1>5. CASE x # t
    <2>1. plan'[x] = plan[x] /\ past'[x] = past[x]
      BY <1>1, <1>2, <1>4, <1>5 DEF TypeOK, Past
    <2>. QED  BY <2>1 DEF Attempts
  <1>6. CASE x = t
    <2>1. plan'[x].tries = n /\ plan'[x].status = s
      BY <1>1, <1>4, <1>6 DEF TaskRecord
    <2>2. past'[x].rejected = past[x].rejected + 1
      BY <1>2, <1>4, <1>6 DEF TypeOK, Past
    <2>3. n <= past'[x].rejected
      BY <1>4, <1>6, <2>2
    <2>4. s \in Working => n < AttemptLimit
      BY <1>1, <1>3, <1>4, <1>6 DEF Working, ActionableStatuses
    <2>. QED  BY <2>1, <2>3, <2>4
  <1>. QED  BY <1>5, <1>6

LEMMA AttemptsStep ==
    ASSUME TypeOK, PassInv, HandInv, Attempts, [Next]_vars
    PROVE  Attempts'
  <1>1. TypeOK' /\ DOMAIN plan' \subseteq Ids
    BY TypeStep DEF TypeOK, IsPlan
  <1>2. ASSUME NEW t, VerifyRejects(t) PROVE Attempts'
    BY <1>1, <1>2, RejectionCounts
  <1>. SUFFICES ASSUME \A t : ~VerifyRejects(t) PROVE Attempts'
    BY <1>2
  <1>3. SameTries(plan, plan')
    BY TriesStep
  <1>4. CASE GraphFault \/ \E worded \in BOOLEAN : Replanned(worded)
    <2>1. UNCHANGED <<plan, past>> \/ plan' \in FreshPlans
      BY <1>4 DEF GraphFault, Replanned
    <2>2. plan' \in FreshPlans => \A t \in DOMAIN plan' : plan'[t].tries = 0
      BY FreshHasNoTries
    <2>3. \A t \in Ids : past[t].rejected >= past[t].rejected
      BY DEF TypeOK, Past
    <2>. QED  BY <1>1, <1>3, <2>1, <2>2, <2>3, AttemptsKept
  <1>5. ASSUME NEW t \in Ids, SteerDelete(t) PROVE Attempts'
    <2>1. \A x \in DOMAIN plan' : past'[x] = past[x]
      BY <1>1, <1>5 DEF SteerDelete, TypeOK, Past
    <2>2. \A x \in Ids : past[x].rejected >= past[x].rejected
      BY DEF TypeOK, Past
    <2>. QED  BY <1>1, <1>3, <2>1, <2>2, AttemptsKept
  <1>6. CASE Grows
    BY <1>1, <1>3, <1>6, AttemptsKept DEF Grows
  <1>. QED  BY <1>4, <1>5, <1>6, GrowsStep

LEMMA HandKept ==
    ASSUME HandInv, TypeOK', SameTries(plan, plan'), ~InHand' \/ pass'.cur \notin DOMAIN plan',
           pass'.claim = "idle" => /\ pass.claim = "idle" /\ pass'.cur = pass.cur
                                   /\ pass'.toVerify \subseteq pass.toVerify
    PROVE  HandInv'
  <1>1. AttemptLimit \in Nat \ {0}
    BY TasksAssumption
  <1>2. ASSUME pass'.claim = "idle", pass'.cur \in DOMAIN plan'
        PROVE  plan'[pass'.cur].tries < AttemptLimit
    BY <1>1, <1>2 DEF HandInv, SameTries
  <1>. QED  BY <1>2 DEF HandInv

LEMMA HandStays ==
    ASSUME HandInv, InHand, pass'.cur = pass.cur, pass.cur \notin pass'.toVerify,
           pass.cur \in DOMAIN plan' =>
               /\ pass.cur \in DOMAIN plan /\ plan'[pass.cur].tries = plan[pass.cur].tries
               /\ plan'[pass.cur].status \in {plan[pass.cur].status, "superseded"}
    PROVE  HandInv'
  BY DEF HandInv

LEMMA NoTaskIsNoTask == ASSUME TypeOK' PROVE NoTask \notin DOMAIN plan'
  BY CurePassAssumption DEF TypeOK, IsPlan

LEMMA BoundaryHand == ASSUME TypeOK, TypeOK', PassInv, HandInv, Boundary PROVE HandInv'
  <1>1. SameTries(plan, plan') /\ NoTask \notin DOMAIN plan'
    BY BoundaryTries, NoTaskIsNoTask
  <1>2. CASE PassBegins
    BY <1>1, <1>2, HandKept DEF PassBegins, NewPass
  <1>3. CASE BudgetGone \/ Resteered
    BY <1>1, <1>3, HandKept DEF BudgetGone, Resteered, InHand
  <1>4. ASSUME ~(PassBegins \/ BudgetGone \/ Resteered) PROVE HandInv'
    <2>1. at \in {"rulings", "steer"} /\ \E n : pass' = [pass EXCEPT !.k = n]
      BY <1>4 DEF Boundary, RulingReapplied, BoundaryPassed, SteerInsert, SteerDelete,
                  SteerRepoint, SteerMoves, SteerCall
    <2>2. pass'.cur = NoTask /\ pass'.claim = "none"
      BY <2>1 DEF PassInv, HasNone, TypeOK, PassRecord
    <2>. QED  BY <1>1, <2>2, HandKept
  <1>. QED  BY <1>2, <1>3, <1>4

LEMMA SelectionHand ==
    ASSUME TypeOK, TypeOK', PassInv, HandInv, Attempts, Selection
    PROVE  HandInv'
  <1>1. SameTries(plan, plan') /\ NoTask \notin DOMAIN plan'
    BY SelectionTries, NoTaskIsNoTask
  <1>2. ASSUME NEW t \in Ids, Claim(t) PROVE HandInv'
    <2>1. t \in DOMAIN plan /\ plan[t].tries < AttemptLimit
      BY <1>2, OfferedIsActionable DEF Claim, Working, Attempts
    <2>2. pass'.cur = t /\ pass'.claim = "none"
      BY <1>2 DEF Claim, PassInv, HasNone, TypeOK, PassRecord
    <2>3. plan'[t].status = "in-progress" /\ plan'[t].tries = plan[t].tries
      BY <1>2, <2>1 DEF Claim, TypeOK, IsPlan, TaskRecord
    <2>. QED  BY <2>1, <2>2, <2>3 DEF HandInv
  <1>3. ASSUME \A t \in Ids : ~Claim(t) PROVE HandInv'
    <2>1. at \in {"select", "sleep", "held"} /\ pass'.cur = pass.cur /\ pass'.claim = pass.claim
      BY <1>3 DEF Selection, DoomedPlan, GraphFault, Held, GoesToSleep, NoTaskToRun, WokenEarly,
                  SleepsOut, DeadlineWakes, HoldsOn, NothingToDo, GraphIsSound, TypeOK, PassRecord
    <2>2. pass'.cur = NoTask /\ pass'.claim = "none"
      BY <2>1 DEF PassInv, HasNone
    <2>. QED  BY <1>1, <2>2, HandKept
  <1>. QED  BY <1>2, <1>3

LEMMA IterationHand == ASSUME TypeOK, TypeOK', PassInv, HandInv, Iteration PROVE HandInv'
  <1>0. SameTries(plan, plan')
    BY IterationTries
  <1>1. CASE SecretFound \/ PlanComplete \/ Complete \/ Deferred \/ \E t \in Ids : Unsatisfiable(t)
    <2>1. pass'.claim = "none" /\ at' \in {"top", "review", "vigilant"}
      BY <1>1 DEF SecretFound, PlanComplete, Complete, Deferred, Unsatisfiable, AtVerdict, PassInv,
                  TypeOK, PassRecord
    <2>. QED  BY <1>0, <2>1, HandKept DEF InHand
  <1>2. ASSUME NEW givesBack \in BOOLEAN, IterationFaulted(givesBack) PROVE HandInv'
    <2>1. pass'.claim = "none" /\ at' = "vigilant"
      BY <1>2 DEF IterationFaulted, PassInv, TypeOK, PassRecord
    <2>. QED  BY <1>0, <2>1, HandKept DEF InHand
  <1>3. CASE Iterates \/ NoVerdict
    <2>1. InHand /\ UNCHANGED <<plan, pass>> /\ pass.toVerify = {}
      BY <1>3 DEF Iterates, NoVerdict, InHand, PassInv
    <2>. QED  BY <2>1, HandStays
  <1>4. ASSUME at \in {"report", "splitting"},
               pass'.cur = pass.cur, pass'.toVerify = pass.toVerify,
               pass.cur \in DOMAIN plan' =>
                   /\ pass.cur \in DOMAIN plan /\ plan'[pass.cur].tries = plan[pass.cur].tries
                   /\ plan'[pass.cur].status \in {plan[pass.cur].status, "superseded"}
        PROVE  HandInv'
    <2>1. InHand /\ pass'.toVerify = {}
      BY <1>4 DEF InHand, PassInv
    <2>. QED  BY <1>4, <2>1, HandStays
  <1>5. ASSUME NEW t \in Ids, NEW s \in Statuses, NEW justified, NEW touched,
               StatusReported(t, s, justified, touched)
        PROVE  HandInv'
    <2>. DEFINE p == [plan EXCEPT ![t].status = s]
    <2>1. at = "report" /\ pass'.cur = pass.cur /\ pass'.toVerify = pass.toVerify
      BY <1>5 DEF StatusReported, Telling, ToldAndStirred, TypeOK, PassRecord
    <2>2. IsPlan(p) /\ DOMAIN p = DOMAIN plan /\ \A x \in DOMAIN plan \ {t} : p[x] = plan[x]
      BY StatusWritten DEF TypeOK
    <2>3. plan' = Lands(p, t, s, touched)
      BY <1>5 DEF StatusReported
    <2>. HIDE DEF p
    <2>4. Restores(p, plan', reopened)
      BY <2>2, <2>3, LandsRestores
    <2>5. pass.cur # t
      BY <1>5 DEF StatusReported
    <2>6. pass.cur \in DOMAIN plan => plan[pass.cur].status # "pending"
      BY <2>1 DEF HandInv, InHand
    <2>. QED  BY <1>4, <2>1, <2>2, <2>4, <2>5, <2>6 DEF Restores
  <1>6. ASSUME NEW claim \in {"corroborated", "idle"}, ProgressReported(claim) PROVE HandInv'
    BY <1>4, <1>6 DEF ProgressReported, Telling, Told, TypeOK, PassRecord
  <1>7. ASSUME NEW n \in 1 .. 2, ForcedSplit(n) \/ VoluntarySplit(n) PROVE HandInv'
    <2>1. at = "report" /\ SplitFits(n) /\ pass'.cur = pass.cur /\ pass'.toVerify = pass.toVerify
      BY <1>7 DEF ForcedSplit, VoluntarySplit, Telling, Told, TypeOK, PassRecord
    <2>2. pass.cur \in DOMAIN plan /\ plan'[pass.cur] = plan[pass.cur]
      BY <1>7, <2>1, KidsRest DEF ForcedSplit, VoluntarySplit, SplitFits
    <2>. QED  BY <1>4, <2>1, <2>2
  <1>8. CASE SplitDone
    <2>1. at = "splitting" /\ pass'.cur = pass.cur /\ pass'.toVerify = pass.toVerify
      BY <1>8 DEF SplitDone, ToldAndStirred, TypeOK, PassRecord
    <2>2. /\ DOMAIN plan' = DOMAIN plan
          /\ pass.cur \in DOMAIN plan =>
                /\ plan'[pass.cur].tries = plan[pass.cur].tries
                /\ plan'[pass.cur].status = "superseded"
      BY <1>8 DEF SplitDone, ParentSuperseded, TypeOK, IsPlan, TaskRecord
    <2>. QED  BY <1>4, <2>1, <2>2
  <1>9. ASSUME NEW t \in Ids, NEW deps \in SUBSET Ids, WorkerRepoints(t, deps) PROVE HandInv'
    <2>1. at = "report" /\ pass'.cur = pass.cur /\ pass'.toVerify = pass.toVerify
      BY <1>9 DEF WorkerRepoints, Telling, ToldAndStirred, TypeOK, PassRecord
    <2>2. /\ DOMAIN plan' = DOMAIN plan
          /\ \A x \in DOMAIN plan : plan'[x].tries = plan[x].tries
                                    /\ plan'[x].status = plan[x].status
      BY <1>9 DEF WorkerRepoints, TypeOK, IsPlan, TaskRecord
    <2>. QED  BY <1>4, <2>1, <2>2
  <1>. QED  BY <1>1, <1>2, <1>3, <1>5, <1>6, <1>7, <1>8, <1>9 DEF Iteration

LEMMA VerificationHand ==
    ASSUME TypeOK, TypeOK', PassInv, HandInv, Verification
    PROVE  HandInv'
  <1>. USE DEF TypeOK, PassRecord
  <1>1. CASE VerificationListed
    <2>1. /\ at = "vigilant" /\ at' \in {"tally", "adjudicate"}
          /\ pass'.cur = pass.cur /\ pass'.claim = pass.claim
          /\ pass'.toVerify = Having(plan', {"awaiting-validation"})
      BY <1>1 DEF VerificationListed
    <2>2. /\ DOMAIN plan' = DOMAIN plan
          /\ \A x \in DOMAIN plan :
                /\ plan'[x].tries = plan[x].tries
                /\ plan'[x].status # plan[x].status => plan[x].status = "completed"
      <3>1. plan' = Relabelled(plan)
        BY <1>1 DEF VerificationListed
      <3>2. ASSUME NEW x \in DOMAIN plan
            PROVE  /\ plan'[x].tries = plan[x].tries
                   /\ plan'[x].status # plan[x].status => plan[x].status = "completed"
        <4>1. plan[x] \in TaskRecord
          BY <3>2 DEF IsPlan
        <4>2. plan'[x] = IF plan[x].status = "completed"
                         THEN [plan[x] EXCEPT !.status = "awaiting-validation"] ELSE plan[x]
          BY <3>1, <3>2 DEF Relabelled
        <4>. QED  BY <4>1, <4>2 DEF TaskRecord
      <3>. QED  BY <3>1, <3>2 DEF Relabelled
    <2>3. pass.claim = "idle" /\ pass.cur \in DOMAIN plan =>
              /\ plan[pass.cur].status \in {"in-progress", "superseded"}
              /\ plan[pass.cur].tries < AttemptLimit
      BY <2>1 DEF HandInv, InHand
    <2>4. pass'.claim = "idle" => pass.cur \notin pass'.toVerify
      BY <2>1, <2>2, <2>3 DEF Having
    <2>5. ~InHand'
      BY <2>1 DEF InHand
    <2>. QED  BY <2>1, <2>2, <2>3, <2>4, <2>5 DEF HandInv
  <1>2. ASSUME NEW t \in Ids, VerifyRejects(t) PROVE HandInv'
    <2>1. /\ t \in pass.toVerify /\ at' \in {"verify", "adjudicate"}
          /\ pass'.cur = pass.cur /\ pass'.claim = pass.claim
          /\ pass'.toVerify = pass.toVerify \ {t}
      BY <1>2 DEF VerifyRejects, Listed
    <2>2. DOMAIN plan' = DOMAIN plan /\ \A x \in DOMAIN plan \ {t} : plan'[x] = plan[x]
      BY <1>2 DEF VerifyRejects
    <2>. QED  BY <2>1, <2>2 DEF HandInv, InHand
  <1>3. ASSUME \A t \in Ids : ~VerifyRejects(t), ~VerificationListed PROVE HandInv'
    <2>1. at' \notin {"run", "report", "splitting", "vigilant"}
      BY <1>3 DEF Verification, AdjudicationSkipped, Adjudicated, AdjudicationRecorded,
                  RefutedApplied, RemedyInserted, ConfirmedApplied, MidPlanSkipped,
                  MidPlanReviewed, CuresInserted, CurePassCounted, VerifyPasses, VerifyMute,
                  Listed, VerificationOver
    <2>2. pass'.cur = pass.cur /\ pass'.claim = pass.claim /\ pass'.toVerify \subseteq pass.toVerify
      <3>. DEFINE Same == /\ pass'.cur = pass.cur /\ pass'.claim = pass.claim
                          /\ pass'.toVerify \subseteq pass.toVerify
      <3>1. CASE AdjudicationSkipped \/ MidPlanSkipped \/ VerificationOver
        BY <3>1 DEF AdjudicationSkipped, MidPlanSkipped, VerificationOver
      <3>2. CASE Adjudicated \/ RefutedApplied \/ MidPlanReviewed \/ CurePassCounted
        BY <3>2 DEF Adjudicated, AdjudicationRecorded, RefutedApplied, MidPlanReviewed,
                    CuresInserted, CurePassCounted
      <3>3. ASSUME NEW moved, RemedyInserted(moved) PROVE Same
        BY <3>3 DEF RemedyInserted
      <3>4. ASSUME NEW by, ConfirmedApplied(by) PROVE Same
        BY <3>4 DEF ConfirmedApplied
      <3>5. ASSUME NEW t, NEW touched, VerifyPasses(t, touched) \/ VerifyMute(t) PROVE Same
        BY <3>5 DEF VerifyPasses, VerifyMute
      <3>. QED  BY <1>3, <3>1, <3>2, <3>3, <3>4, <3>5 DEF Verification
    <2>3. SameTries(plan, plan')
      BY <1>3, VerificationTries
    <2>. QED  BY <2>1, <2>2, <2>3, HandKept DEF InHand
  <1>. QED  BY <1>1, <1>2, <1>3

LEMMA JudgementHand ==
    ASSUME TypeOK, TypeOK', PassInv, HandInv, Judgement \/ Killed
    PROVE  HandInv'
  <1>1. at' \notin {"run", "report", "splitting", "vigilant"}
    BY DEF Judgement, TallyApplied, BreakerTrips, TallyPassedOver, BacksOff, Tally, ReviewAnswers,
           ReviewUnaffordable, ReviewCured, CuresInserted, ReviewRejects, ReviewEnds, Replanned,
           OutOfApproaches, Killed, ResumesAt
  <1>2. \/ pass'.claim = "none"
        \/ pass'.cur = pass.cur /\ pass'.claim = pass.claim /\ pass'.toVerify = pass.toVerify
    <2>. USE DEF TypeOK, PassRecord
    <2>. DEFINE Same == \/ pass'.claim = "none"
                        \/ /\ pass'.cur = pass.cur /\ pass'.claim = pass.claim
                           /\ pass'.toVerify = pass.toVerify
    <2>0. CASE ReviewAnswers
      BY <2>0 DEF ReviewAnswers, NewPass
    <2>1. CASE TallyApplied \/ BreakerTrips \/ TallyPassedOver \/ BacksOff \/ ReviewUnaffordable
               \/ ReviewRejects \/ ReviewEnds \/ OutOfApproaches
      BY <2>1 DEF TallyApplied, BreakerTrips, TallyPassedOver, BacksOff, ReviewUnaffordable,
                  ReviewRejects, ReviewEnds, OutOfApproaches
    <2>2. CASE Killed
      BY <2>2 DEF Killed, NewPass
    <2>3. ASSUME NEW activity, Tally(activity) PROVE Same
      BY <2>3 DEF Tally
    <2>4. CASE ReviewCured
      BY <2>4 DEF ReviewCured, CuresInserted
    <2>5. ASSUME NEW worded, Replanned(worded) PROVE Same
      BY <2>5 DEF Replanned, NewPass
    <2>. QED  BY <2>0, <2>1, <2>2, <2>3, <2>4, <2>5 DEF Judgement
  <1>. QED  BY <1>1, <1>2, JudgementTries, HandKept DEF InHand

LEMMA HandStep ==
    ASSUME TypeOK, PassInv, HandInv, Attempts, [Next]_vars
    PROVE  HandInv'
  <1>1. TypeOK'
    BY TypeStep
  <1>2. CASE Over \/ UNCHANGED vars
    BY <1>2 DEF Over, vars, HandInv, InHand
  <1>3. CASE Operator
    BY <1>3 DEF Operator, SteeringArrives, TimeRunsOut, UndeferRequested, RulingGiven, HandInv,
                InHand
  <1>. QED  BY <1>1, <1>2, <1>3, BoundaryHand, SelectionHand, IterationHand, VerificationHand,
               JudgementHand
            DEF Next, Engine

LEMMA InitAttempts == ASSUME Init PROVE HandInv /\ Attempts
  <1>1. \A t \in DOMAIN plan : t \in Ids /\ plan[t].tries = 0 /\ past[t].rejected = 0
    BY FreshHasNoTries, FreshPlansArePlans DEF Init, Untouched, Fresh, IsPlan
  <1>2. HandInv
    BY DEF Init, NewPass, HandInv, InHand
  <1>. QED  BY <1>1, <1>2, TasksAssumption DEF Attempts

\* Whatever happens to a run -- faults, kills, rulings, steering, cures, replans --
\* an attempt of a task is spent by a verdict against it and by nothing else
\* (_verify_task), and a task that may still be worked on or verified has one left.
THEOREM AttemptsAreRejections == Spec => []Attempts
  <1>1. Init => TypeOK /\ PassInv /\ HandInv /\ Attempts
    BY InitType, InitPass, InitAttempts
  <1>2. TypeOK /\ PassInv /\ HandInv /\ Attempts /\ [Next]_vars =>
            (TypeOK /\ PassInv /\ HandInv /\ Attempts)'
    BY TypeStep, PassStep, HandStep, AttemptsStep
  <1>. QED  BY <1>1, <1>2, PTL DEF Spec

(***************************************************************************)
(* Obligations on file, and the list of the verification.                  *)
(***************************************************************************)
Verifying == {"adjudicate", "refute", "remedy", "void", "midplan", "counted", "verify"}

\* What is to be verified is of the plan, and is worked off before anything else.
ListedInv ==
    /\ pass.toVerify # {} => at \in Verifying /\ pass.then \in {"midplan", "verify"}
    /\ pass.toVerify \subseteq DOMAIN plan

FiledInv == \A t \in status.filed : past[t].rejected >= AttemptLimit

Idles == status'.filed = status.filed /\ pass'.toVerify \subseteq pass.toVerify

LEMMA BoundaryIdles == ASSUME TypeOK, Boundary PROVE Idles /\ at \notin Verifying
  <1>. USE DEF Idles, Verifying, TypeOK, PassRecord
  <1>1. CASE PassBegins
    BY <1>1 DEF PassBegins, NewPass
  <1>2. CASE BudgetGone \/ Resteered \/ RulingReapplied \/ BoundaryPassed
    BY <1>2 DEF BudgetGone, Resteered, RulingReapplied, BoundaryPassed
  <1>3. ASSUME NEW deps, SteerInsert(deps) PROVE Idles /\ at \notin Verifying
    BY <1>3 DEF SteerInsert, SteerCall
  <1>4. ASSUME NEW t, SteerDelete(t) PROVE Idles /\ at \notin Verifying
    BY <1>4 DEF SteerDelete, SteerCall
  <1>5. ASSUME NEW t, NEW deps, SteerRepoint(t, deps) PROVE Idles /\ at \notin Verifying
    BY <1>5 DEF SteerRepoint, SteerCall
  <1>6. ASSUME NEW t, NEW s, SteerMoves(t, s) PROVE Idles /\ at \notin Verifying
    BY <1>6 DEF SteerMoves, SteerCall
  <1>. QED  BY <1>1, <1>2, <1>3, <1>4, <1>5, <1>6 DEF Boundary

LEMMA SelectionIdles == ASSUME TypeOK, Selection PROVE Idles /\ at \notin Verifying
  <1>. USE DEF Idles, Verifying, TypeOK, PassRecord
  <1>1. ASSUME NEW t, Claim(t) PROVE Idles /\ at \notin Verifying
    BY <1>1 DEF Claim
  <1>2. CASE DoomedPlan \/ GoesToSleep \/ WokenEarly \/ SleepsOut
    BY <1>2 DEF DoomedPlan, GoesToSleep, WokenEarly, SleepsOut, NothingToDo, GraphIsSound
  <1>3. CASE NoTaskToRun \/ DeadlineWakes \/ HoldsOn \/ Held
    BY <1>3 DEF NoTaskToRun, DeadlineWakes, HoldsOn, Held, NothingToDo, GraphIsSound
  <1>4. CASE GraphFault
    BY <1>4 DEF GraphFault, NothingToDo, StatusRecord
  <1>. QED  BY <1>1, <1>2, <1>3, <1>4 DEF Selection

LEMMA IterationIdles == ASSUME TypeOK, Iteration PROVE Idles /\ at \notin Verifying
  <1>. USE DEF Idles, Verifying, TypeOK, PassRecord, StatusRecord
  <1>1. CASE Iterates \/ SecretFound \/ PlanComplete \/ Deferred \/ NoVerdict \/ Complete
    BY <1>1 DEF Iterates, SecretFound, PlanComplete, Deferred, NoVerdict, Complete, AtVerdict
  <1>2. ASSUME NEW givesBack, IterationFaulted(givesBack) PROVE Idles /\ at \notin Verifying
    BY <1>2 DEF IterationFaulted
  <1>3. ASSUME NEW t, NEW s, NEW justified, NEW touched, StatusReported(t, s, justified, touched)
        PROVE  Idles /\ at \notin Verifying
    BY <1>3 DEF StatusReported, Telling, ToldAndStirred
  <1>4. ASSUME NEW claim, ProgressReported(claim) PROVE Idles /\ at \notin Verifying
    BY <1>4 DEF ProgressReported, Telling, Told
  <1>5. ASSUME NEW n, ForcedSplit(n) \/ VoluntarySplit(n) PROVE Idles /\ at \notin Verifying
    BY <1>5 DEF ForcedSplit, VoluntarySplit, Telling, Told
  <1>6. CASE SplitDone
    BY <1>6 DEF SplitDone, ToldAndStirred
  <1>7. ASSUME NEW t, NEW deps, WorkerRepoints(t, deps) PROVE Idles /\ at \notin Verifying
    BY <1>7 DEF WorkerRepoints, Telling, ToldAndStirred
  <1>8. ASSUME NEW t, Unsatisfiable(t) PROVE Idles /\ at \notin Verifying
    BY <1>8 DEF Unsatisfiable, AtVerdict
  <1>. QED  BY <1>1, <1>2, <1>3, <1>4, <1>5, <1>6, <1>7, <1>8 DEF Iteration

LEMMA JudgementIdles ==
    ASSUME TypeOK, Judgement, \A worded : ~Replanned(worded)
    PROVE  Idles /\ at \notin Verifying
  <1>. USE DEF Idles, Verifying, TypeOK, PassRecord, StatusRecord
  <1>1. CASE TallyApplied \/ BreakerTrips \/ TallyPassedOver \/ BacksOff
    BY <1>1 DEF TallyApplied, BreakerTrips, TallyPassedOver, BacksOff, Tallied
  <1>2. ASSUME NEW activity, Tally(activity) PROVE Idles /\ at \notin Verifying
    BY <1>2 DEF Tally, Tallied
  <1>3. CASE ReviewAnswers
    BY <1>3 DEF ReviewAnswers, NewPass, RulingsRecorded
  <1>4. CASE ReviewUnaffordable \/ ReviewRejects \/ ReviewEnds \/ OutOfApproaches
    BY <1>4 DEF ReviewUnaffordable, ReviewRejects, ReviewEnds, OutOfApproaches
  <1>5. CASE ReviewCured
    BY <1>5 DEF ReviewCured, CuresInserted
  <1>. QED  BY <1>1, <1>2, <1>3, <1>4, <1>5 DEF Judgement

\* The verification takes no task out of the plan.
LEMMA VerificationGrows ==
    ASSUME TypeOK, Verification
    PROVE  DOMAIN plan \subseteq DOMAIN plan'
  <1>. USE DEF Leads, TypeOK
  <1>1. CASE VerificationListed
    BY <1>1, RelabelledLeads DEF VerificationListed
  <1>2. CASE AdjudicationSkipped \/ Adjudicated \/ MidPlanSkipped \/ CurePassCounted
             \/ VerificationOver
    BY <1>2 DEF AdjudicationSkipped, Adjudicated, MidPlanSkipped, CurePassCounted,
                VerificationOver
  <1>3. CASE RefutedApplied
    BY <1>3, RefutedLeads
  <1>4. ASSUME NEW moved, RemedyInserted(moved) PROVE DOMAIN plan \subseteq DOMAIN plan'
    BY <1>4, RemedyType
  <1>5. ASSUME NEW by \in Ids \cup {NoTask}, ConfirmedApplied(by)
        PROVE  DOMAIN plan \subseteq DOMAIN plan'
    BY <1>5, ConfirmedLeads
  <1>6. CASE MidPlanReviewed
    <2>1. ASSUME NEW finding \in ReviewFindings, NEW moved, Curable(finding),
                 CuresInserted(finding, moved)
          PROVE  DOMAIN plan \subseteq DOMAIN plan'
      BY <2>1, FindingsType, CuresType DEF Curable, CuresInserted
    <2>. QED  BY <1>6, <2>1 DEF MidPlanReviewed
  <1>7. ASSUME NEW t, NEW touched, VerifyPasses(t, touched)
        PROVE  DOMAIN plan \subseteq DOMAIN plan'
    <2>. DEFINE p == [plan EXCEPT ![t].status = "validated"]
    <2>1. IsPlan(p) /\ DOMAIN p = DOMAIN plan
      BY StatusWritten DEF Statuses
    <2>2. plan' = Lands(p, t, "validated", touched)
      BY <1>7 DEF VerifyPasses
    <2>. HIDE DEF p
    <2>. QED  BY <2>1, <2>2, LandsLeads
  <1>8. ASSUME NEW t, VerifyRejects(t) \/ VerifyMute(t) PROVE DOMAIN plan \subseteq DOMAIN plan'
    BY <1>8 DEF VerifyRejects, VerifyMute
  <1>. QED  BY <1>1, <1>2, <1>3, <1>4, <1>5, <1>6, <1>7, <1>8 DEF Verification

LEMMA VerificationListInv ==
    ASSUME TypeOK, ListedInv, Verification
    PROVE  ListedInv'
  <1>. USE DEF ListedInv, Verifying, TypeOK, PassRecord
  <1>1. DOMAIN plan \subseteq DOMAIN plan'
    BY VerificationGrows
  <1>2. CASE VerificationListed
    BY <1>2 DEF VerificationListed, Having
  <1>3. CASE AdjudicationSkipped \/ RefutedApplied \/ MidPlanSkipped \/ VerificationOver
    BY <1>1, <1>3 DEF AdjudicationSkipped, RefutedApplied, MidPlanSkipped, VerificationOver
  <1>4. CASE Adjudicated \/ MidPlanReviewed \/ CurePassCounted
    BY <1>1, <1>4 DEF Adjudicated, AdjudicationRecorded, MidPlanReviewed, CuresInserted,
                      CurePassCounted
  <1>5. ASSUME NEW moved, RemedyInserted(moved) PROVE ListedInv'
    BY <1>1, <1>5 DEF RemedyInserted
  <1>6. ASSUME NEW by, ConfirmedApplied(by) PROVE ListedInv'
    BY <1>1, <1>6 DEF ConfirmedApplied
  <1>7. ASSUME NEW t, NEW touched, VerifyPasses(t, touched) PROVE ListedInv'
    BY <1>1, <1>7 DEF VerifyPasses, Listed
  <1>8. ASSUME NEW t, VerifyRejects(t) PROVE ListedInv'
    <2>1. /\ pass'.toVerify \subseteq pass.toVerify /\ pass'.then = "verify"
          /\ at' \in {"verify", "adjudicate"}
      BY <1>8 DEF VerifyRejects
    <2>. QED  BY <1>1, <2>1
  <1>9. ASSUME NEW t, VerifyMute(t) PROVE ListedInv'
    BY <1>1, <1>9 DEF VerifyMute, Listed
  <1>. QED  BY <1>2, <1>3, <1>4, <1>5, <1>6, <1>7, <1>8, <1>9 DEF Verification

LEMMA KilledLists == ASSUME Killed PROVE status' = status /\ pass'.toVerify = {}
  BY DEF Killed, NewPass

LEMMA ListedStep == ASSUME TypeOK, ListedInv, [Next]_vars PROVE ListedInv'
  <1>1. CASE Verification
    BY <1>1, VerificationListInv
  <1>2. CASE Operator \/ Over \/ UNCHANGED vars
    BY <1>2 DEF Operator, SteeringArrives, TimeRunsOut, UndeferRequested, RulingGiven, Over, vars,
                ListedInv
  <1>3. CASE Killed
    BY <1>3, KilledLists DEF ListedInv
  <1>4. ASSUME NEW worded, Replanned(worded) PROVE ListedInv'
    BY <1>4 DEF Replanned, ListedInv, Verifying
  <1>5. ASSUME Boundary \/ Selection \/ Iteration \/ Judgement, \A worded : ~Replanned(worded)
        PROVE  ListedInv'
    BY <1>5, BoundaryIdles, SelectionIdles, IterationIdles, JudgementIdles DEF Idles, ListedInv
  <1>. QED  BY <1>1, <1>2, <1>3, <1>4, <1>5 DEF Next, Engine

\* Only a verdict that leaves no attempt files an obligation.
LEMMA VerificationFiles ==
    ASSUME TypeOK, Verification, \A t \in Ids : ~VerifyRejects(t)
    PROVE  status'.filed = status.filed
  <1>. USE DEF TypeOK, StatusRecord
  <1>1. CASE VerificationListed \/ AdjudicationSkipped \/ RefutedApplied \/ MidPlanSkipped
             \/ VerificationOver
    BY <1>1 DEF VerificationListed, AdjudicationSkipped, RefutedApplied, MidPlanSkipped,
                VerificationOver
  <1>2. CASE Adjudicated \/ MidPlanReviewed \/ CurePassCounted
    BY <1>2 DEF Adjudicated, AdjudicationRecorded, RulingsRecorded, MidPlanReviewed, CurePassCounted
  <1>3. ASSUME NEW moved, RemedyInserted(moved) PROVE status'.filed = status.filed
    BY <1>3 DEF RemedyInserted
  <1>4. ASSUME NEW by, ConfirmedApplied(by) PROVE status'.filed = status.filed
    BY <1>4 DEF ConfirmedApplied
  <1>5. ASSUME NEW t, NEW touched, VerifyPasses(t, touched) \/ VerifyMute(t)
        PROVE  status'.filed = status.filed
    BY <1>5 DEF VerifyPasses, VerifyMute
  <1>. QED  BY <1>1, <1>2, <1>3, <1>4, <1>5 DEF Verification

LEMMA RejectionFiles ==
    ASSUME TypeOK, ListedInv, Attempts, FiledInv, Grows, NEW t \in Ids, VerifyRejects(t)
    PROVE  FiledInv'
  <1>. DEFINE n == plan[t].tries + 1
              out == OutOfAttempts(n)
  <1>1. t \in DOMAIN plan
    BY DEF VerifyRejects, Listed, ListedInv
  <1>2. /\ plan[t].tries \in Nat /\ past[t].rejected \in Nat /\ plan[t].tries <= past[t].rejected
        /\ AttemptLimit \in Nat
    BY <1>1, TasksAssumption DEF TypeOK, IsPlan, TaskRecord, Past, Attempts
  <1>3. past'[t].rejected = past[t].rejected + 1
    BY DEF VerifyRejects, TypeOK, Past
  <1>4. out <=> n >= AttemptLimit
    BY DEF OutOfAttempts
  <1>5. status' = status \/ (out /\ status' = [status EXCEPT !.filed = @ \cup {t}])
    BY DEF VerifyRejects
  <1>. HIDE DEF out
  <1>6. status'.filed = status.filed \/ (out /\ status'.filed = status.filed \cup {t})
    BY <1>5 DEF TypeOK, StatusRecord
  <1>7. out => past'[t].rejected >= AttemptLimit
    BY <1>2, <1>3, <1>4
  <1>8. ASSUME NEW x \in status.filed PROVE past'[x].rejected >= AttemptLimit
    <2>1. /\ x \in Ids /\ past[x].rejected \in Nat /\ past'[x].rejected \in Nat
          /\ past'[x].rejected >= past[x].rejected /\ past[x].rejected >= AttemptLimit
      BY <1>8 DEF TypeOK, StatusRecord, Past, VerifyRejects, Grows, FiledInv
    <2>. QED  BY <1>2, <2>1
  <1>. QED  BY <1>6, <1>7, <1>8 DEF FiledInv

LEMMA FiledStep ==
    ASSUME OneRound, RoundInv, ListedInv, Attempts, FiledInv, [Next]_vars
    PROVE  FiledInv'
  <1>1. TypeOK /\ TypeOK' /\ Grows
    BY RoundSteady, TypeStep DEF RoundInv, Steady
  <1>2. ASSUME NEW t \in Ids, VerifyRejects(t) PROVE FiledInv'
    BY <1>1, <1>2, RejectionFiles
  <1>3. ASSUME status'.filed = status.filed PROVE FiledInv'
    <2>1. ASSUME NEW x \in status.filed PROVE past'[x].rejected >= AttemptLimit
      <3>1. /\ x \in Ids /\ past[x].rejected \in Nat /\ past'[x].rejected \in Nat
            /\ past'[x].rejected >= past[x].rejected /\ past[x].rejected >= AttemptLimit
            /\ AttemptLimit \in Nat
        BY <1>1, <2>1, TasksAssumption DEF TypeOK, StatusRecord, Past, Grows, FiledInv
      <3>. QED  BY <3>1
    <2>. QED  BY <1>3, <2>1 DEF FiledInv
  <1>4. CASE Operator \/ Over \/ UNCHANGED vars
    BY <1>3, <1>4 DEF Operator, SteeringArrives, TimeRunsOut, UndeferRequested, RulingGiven, Over,
                      vars
  <1>5. CASE Killed
    BY <1>3, <1>5, KilledLists
  <1>6. CASE Boundary \/ Selection \/ Iteration \/ Judgement
    BY <1>1, <1>3, <1>6, RoundHasOnePlan, BoundaryIdles, SelectionIdles, IterationIdles,
       JudgementIdles
       DEF Idles
  <1>7. CASE Verification
    BY <1>1, <1>2, <1>3, <1>7, VerificationFiles
  <1>. QED  BY <1>4, <1>5, <1>6, <1>7 DEF Next, Engine

\* Within one approach that nobody steers, a task is petitioned only after verdicts
\* against it used its attempts up, and none that is out of attempts is offered again
\* (_verify_task, file_petition): no kill, fault or missing verdict is a rejection.
THEOREM RoundsAreEarned ==
    ASSUME OneRound
    PROVE  Spec => []RoundsAreRejections
  <1>. DEFINE Inv == RoundInv /\ PassInv /\ HandInv /\ Attempts /\ ListedInv /\ FiledInv
  <1>1. Init => Inv
    <2>1. Init => ListedInv /\ FiledInv
      BY DEF Init, NewPass, NewStatus, ListedInv, FiledInv
    <2>. QED  BY <2>1, RoundInit, InitPass, InitAttempts
  <1>2. Inv /\ [Next]_vars => Inv'
    BY RoundStep, PassStep, HandStep, AttemptsStep, ListedStep, FiledStep DEF RoundInv
  <1>3. Inv => RoundsAreRejections
    BY DEF Attempts, FiledInv, RoundsAreRejections, Working
  <1>. QED  BY <1>1, <1>2, <1>3, PTL DEF Spec

(***************************************************************************)
(* Voided tasks.                                                           *)
(***************************************************************************)
Quiet == OneRound /\ ~On("splits") /\ ~On("reports") /\ ~On("rulings")

\* A task is skipped, or was when a cure pass re-opened it, or its failure has its
\* remedy in the plan.
Dropped(t) ==
    \/ plan[t].status = "skipped"
    \/ t \in DOMAIN reopened /\ reopened[t].prior = "skipped"
    \/ t \in status.remedied

\* Nothing waits on a task that is skipped or may be again, or that is remedied.
VoidInv ==
    /\ world.rulings = <<>>
    /\ DOMAIN reopened \subseteq DOMAIN plan /\ status.remedied \subseteq DOMAIN plan
    /\ \A t, x \in DOMAIN plan : Dropped(t) => t \notin plan[x].deps

\* The answers in hand are about tasks of the plan, and when a remedy is due the
\* task it is for has failed.
AnswerInv ==
    /\ DOMAIN pass.answers \subseteq DOMAIN plan
    /\ at = "remedy" => Answered(pass.answers, "substance") \subseteq Having(plan, {"failed"})

\* A step that adds no task and no edge, and skips nothing anew.
Drops ==
    /\ reopened' = reopened /\ world'.rulings = world.rulings
    /\ status'.remedied = status.remedied
    /\ DOMAIN plan' = DOMAIN plan
    /\ \A x \in DOMAIN plan :
          /\ plan'[x].deps \subseteq plan[x].deps
          /\ plan'[x].status = "skipped" => Dropped(x)

LEMMA DropsNothingNew == ASSUME VoidInv, Drops PROVE VoidInv'
  <1>1. \A t \in DOMAIN plan : Dropped(t)' => Dropped(t)
    BY DEF Drops, Dropped
  <1>. QED  BY <1>1 DEF VoidInv, Drops

LEMMA SamePlanDrops ==
    ASSUME UNCHANGED <<plan, reopened>>, world'.rulings = world.rulings,
           status'.remedied = status.remedied
    PROVE  Drops
  BY DEF Drops, Dropped

LEMMA RewrittenDrops ==
    ASSUME TypeOK, UNCHANGED reopened, world'.rulings = world.rulings,
           status'.remedied = status.remedied, DOMAIN plan' = DOMAIN plan,
           \A x \in DOMAIN plan :
               /\ plan'[x].deps = plan[x].deps
               /\ plan'[x].status \in {plan[x].status} \cup (Statuses \ {"skipped"})
    PROVE  Drops
  BY DEF Drops, Dropped

LEMMA StatusDrops ==
    ASSUME TypeOK, NEW t, NEW s \in Statuses \ {"skipped"}, plan' = [plan EXCEPT ![t].status = s],
           UNCHANGED reopened, world'.rulings = world.rulings,
           status'.remedied = status.remedied
    PROVE  Drops
  <1>1. ASSUME NEW x \in DOMAIN plan
        PROVE  /\ plan'[x].deps = plan[x].deps
               /\ plan'[x].status \in {plan[x].status} \cup (Statuses \ {"skipped"})
    <2>1. plan[x] \in TaskRecord
      BY <1>1 DEF TypeOK, IsPlan
    <2>2. plan'[x] = IF x = t THEN [plan[x] EXCEPT !.status = s] ELSE plan[x]
      BY <1>1
    <2>. QED  BY <2>1, <2>2 DEF TaskRecord
  <1>. QED  BY <1>1, RewrittenDrops

LEMMA RestoredDrops ==
    ASSUME TypeOK, NEW p, DOMAIN p = DOMAIN plan, Restores(p, plan', reopened),
           \A x \in DOMAIN plan : /\ p[x].deps = plan[x].deps
                                  /\ p[x].status = "skipped" => plan[x].status = "skipped",
           UNCHANGED reopened, world'.rulings = world.rulings,
           status'.remedied = status.remedied
    PROVE  Drops
  BY DEF Drops, Dropped, Restores

\* A cure pass hands the dependents of a failed task that it names to its own cure.
LEMMA NamedIsLeft ==
    ASSUME NEW p, IsPlan(p), NEW finding \in Findings, Room(p, IdsTaken(finding)),
           NEW t \in finding.named \cap Having(p, {"failed"}), NEW x \in DOMAIN p
    PROVE  t \notin CurePass(p, finding)[x].deps
  <1>. DEFINE c == FreshId(p)
              p0 == WithCure(p)
              p1 == Ordered(p)
              p2 == Handed(p, finding)
              p3 == Laned(p, finding)
              F == finding.named \cap Having(p1, {"failed"})
  <1>1. /\ c \notin DOMAIN p
        /\ IsPlan(p0) /\ IsPlan(p1) /\ IsPlan(p2) /\ IsPlan(p3)
        /\ "lane" \in finding.paths => Room(p2, 1)
        /\ "other" \in finding.paths /\ ExistingRetakes(p3) = {} => Room(p3, 1)
    BY CureStages DEF Leads
  <1>2. Cured(p, finding) = IF "other" \in finding.paths THEN Retaken(p3, c) ELSE p3
    BY CuredInStages
  <1>3. /\ p3 = IF "lane" \in finding.paths
                THEN IF ChainRecognised(p2) THEN ChainReopened(p2, c) ELSE Retaken(p2, c)
                ELSE p2
        /\ p2 = Repointed(p1, F, c)
        /\ p1 = EdgeAppended(p0, Freeze, c)
        /\ p0 = Added(p, c, NewTask("cure", {}, NoTask))
    BY DEF WithCure, Ordered, Handed, Laned
  <1>4. CurePass(p, finding) = Swept(Cured(p, finding), c) /\ IsPlan(Cured(p, finding)) /\ c \in Ids
    BY CuredLeads, CureStages DEF CurePass, Leads
  <1>5. t \in DOMAIN p /\ p[t].status = "failed" /\ t # c /\ t \in finding.named
    BY <1>1 DEF Having
  <1>. HIDE DEF c, p0, p1, p2, p3
  <1>6. Wrought(p, p1, c) /\ Redoes(p, p1)
    <2>1. Wrought(p, p0, c) /\ Redoes(p, p0)
      BY <1>1, <1>3, AddedWrought
    <2>. QED  BY <1>1, <1>3, <2>1, EdgeAppendedWrought, WroughtOn
  <1>7. t \in F /\ x \in DOMAIN p1
    BY <1>5, <1>6 DEF Wrought, Redoes, Having
  <1>8. x \in DOMAIN p2 /\ t \notin p2[x].deps
    <2>. DEFINE D == ValidEdges(DepsOf(p1), x, (p1[x].deps \ F) \cup {c})
    <2>1. p1[x] \in TaskRecord
      BY <1>1, <1>7 DEF IsPlan
    <2>2. t \notin D
      BY <1>5, <1>7 DEF ValidEdges
    <2>. HIDE DEF D, F
    <2>3. DOMAIN p2 = DOMAIN p1
      BY <1>3 DEF Repointed
    <2>4. p2[x] = IF p1[x].deps \cap F = {} THEN p1[x] ELSE [p1[x] EXCEPT !.deps = D]
      BY <1>3, <1>7 DEF Repointed, D
    <2>. QED  BY <1>7, <2>1, <2>2, <2>3, <2>4 DEF TaskRecord
  <1>. HIDE DEF F
  <1>9. Wrought(p2, p3, c)
    BY <1>1, <1>3, WroughtByItself, ChainReopenedWrought, RetakenWrought
  <1>10. Wrought(p3, Cured(p, finding), c)
    BY <1>1, <1>2, WroughtByItself, RetakenWrought
  <1>11. Wrought(p2, CurePass(p, finding), c)
    BY <1>4, <1>9, <1>10, SweptWrought, WroughtOn
  <1>. QED  BY <1>5, <1>8, <1>11 DEF Wrought

\* It notes what it re-opens, and, if it is a remedy, the failed tasks F it is for.
LEMMA CuredDrops ==
    ASSUME TypeOK, VoidInv, NEW finding \in Findings, NEW moved, Room(plan, IdsTaken(finding)),
           plan' = CurePass(plan, finding),
           reopened' = ReopenedAfter(plan, reopened, finding, moved),
           world'.rulings = world.rulings,
           NEW F \in SUBSET (finding.named \cap Having(plan, {"failed"})),
           status'.remedied = status.remedied \cup F
    PROVE  VoidInv'
  <1>. DEFINE c == FreshId(plan)
              S == RecordsReopened(plan, finding)
  <1>1. c \notin DOMAIN plan /\ Wrought(plan, plan', c)
    BY CurePassWrought DEF TypeOK
  <1>2. S \subseteq DOMAIN plan
    BY RecordsAreHeld
  <1>3. /\ DOMAIN reopened' = DOMAIN reopened \cup S
        /\ \A t \in DOMAIN reopened' :
              reopened'[t].prior = IF t \notin S THEN reopened[t].prior
                                   ELSE PriorStatus(plan, reopened, t)
    BY DEF ReopenedAfter
  <1>. HIDE DEF c, S
  <1>4. /\ DOMAIN reopened' \subseteq DOMAIN plan /\ DOMAIN plan \subseteq DOMAIN plan'
        /\ status'.remedied \subseteq DOMAIN plan
    BY <1>1, <1>2, <1>3 DEF VoidInv, Wrought, Having
  <1>5. ASSUME NEW t \in DOMAIN plan', Dropped(t)'
        PROVE  t \in DOMAIN plan /\ (Dropped(t) \/ t \in F)
    <2>1. CASE plan'[t].status = "skipped"
      BY <1>1, <1>5, <2>1 DEF Wrought, Dropped
    <2>2. CASE t \in DOMAIN reopened' /\ reopened'[t].prior = "skipped"
      BY <1>3, <1>4, <2>2 DEF Dropped, PriorStatus
    <2>3. CASE t \in status'.remedied
      BY <1>4, <2>3 DEF Dropped
    <2>. QED  BY <1>5, <2>1, <2>2, <2>3 DEF Dropped
  <1>6. ASSUME NEW t \in DOMAIN plan', NEW x \in DOMAIN plan', Dropped(t)'
        PROVE  t \notin plan'[x].deps
    <2>1. t \in DOMAIN plan /\ (Dropped(t) \/ t \in F) /\ t # c
      BY <1>1, <1>5, <1>6
    <2>2. CASE x \in DOMAIN plan
      <3>1. plan'[x].deps \subseteq plan[x].deps \cup {c}
        BY <1>1, <2>2 DEF Wrought
      <3>2. t \in F => t \notin plan'[x].deps
        BY <2>2, NamedIsLeft DEF TypeOK
      <3>. QED  BY <2>1, <2>2, <3>1, <3>2 DEF VoidInv
    <2>3. CASE x \notin DOMAIN plan
      BY <1>1, <1>6, <2>1, <2>3 DEF Wrought
    <2>. QED  BY <2>2, <2>3
  <1>. QED  BY <1>4, <1>6 DEF VoidInv

LEMMA CuresVoid ==
    ASSUME TypeOK, VoidInv, NEW finding \in Findings, NEW moved, Room(plan, IdsTaken(finding)),
           plan' = CurePass(plan, finding),
           reopened' = ReopenedAfter(plan, reopened, finding, moved),
           world'.rulings = world.rulings, status'.remedied = status.remedied
    PROVE  VoidInv'
  <1>. DEFINE F == {}
  <1>1. /\ F \in SUBSET (finding.named \cap Having(plan, {"failed"}))
        /\ status'.remedied = status.remedied \cup F
    OBVIOUS
  <1>. HIDE DEF F
  <1>. QED  BY <1>1, CuredDrops

\* What is remedied is noted by the remedy alone, and forgotten with the plan.
Remembers == status'.remedied = status.remedied

LEMMA IterationRemembers == ASSUME TypeOK, Iteration PROVE Remembers
  <1>. USE DEF TypeOK, StatusRecord, Remembers
  <1>1. CASE Iterates \/ SecretFound \/ PlanComplete \/ NoVerdict \/ Complete \/ Deferred \/ SplitDone
    BY <1>1 DEF Iterates, SecretFound, PlanComplete, NoVerdict, Complete, Deferred, SplitDone
  <1>2. ASSUME NEW g, IterationFaulted(g) PROVE Remembers
    BY <1>2 DEF IterationFaulted
  <1>3. ASSUME NEW t, NEW s, NEW j, NEW touched, StatusReported(t, s, j, touched) PROVE Remembers
    BY <1>3 DEF StatusReported
  <1>4. ASSUME NEW claim, ProgressReported(claim) PROVE Remembers
    BY <1>4 DEF ProgressReported
  <1>5. ASSUME NEW n, ForcedSplit(n) \/ VoluntarySplit(n) PROVE Remembers
    BY <1>5 DEF ForcedSplit, VoluntarySplit
  <1>6. ASSUME NEW t, NEW deps, WorkerRepoints(t, deps) PROVE Remembers
    BY <1>6 DEF WorkerRepoints
  <1>7. ASSUME NEW t, Unsatisfiable(t) PROVE Remembers
    BY <1>7 DEF Unsatisfiable
  <1>. QED  BY <1>1, <1>2, <1>3, <1>4, <1>5, <1>6, <1>7 DEF Iteration

LEMMA VerificationRemembers ==
    ASSUME TypeOK, Verification, \A moved \in BOOLEAN : ~RemedyInserted(moved)
    PROVE  Remembers
  <1>. USE DEF TypeOK, StatusRecord, Remembers
  <1>1. CASE VerificationListed \/ AdjudicationSkipped \/ RefutedApplied \/ MidPlanSkipped
             \/ MidPlanReviewed \/ CurePassCounted \/ VerificationOver
    BY <1>1 DEF VerificationListed, AdjudicationSkipped, RefutedApplied, MidPlanSkipped,
                MidPlanReviewed, CurePassCounted, VerificationOver
  <1>2. CASE Adjudicated
    BY <1>2 DEF Adjudicated, AdjudicationRecorded, RulingsRecorded
  <1>3. ASSUME NEW by, ConfirmedApplied(by) PROVE Remembers
    BY <1>3 DEF ConfirmedApplied
  <1>4. ASSUME NEW t, NEW touched, VerifyPasses(t, touched) PROVE Remembers
    BY <1>4 DEF VerifyPasses
  <1>5. ASSUME NEW t, VerifyRejects(t) \/ VerifyMute(t) PROVE Remembers
    BY <1>5 DEF VerifyRejects, VerifyMute
  <1>. QED  BY <1>1, <1>2, <1>3, <1>4, <1>5 DEF Verification

LEMMA JudgementRemembers ==
    ASSUME TypeOK, Judgement \/ Killed, \A worded : ~Replanned(worded)
    PROVE  Remembers
  <1>. USE DEF TypeOK, StatusRecord, Remembers
  <1>1. CASE TallyApplied \/ BreakerTrips \/ TallyPassedOver \/ BacksOff \/ ReviewUnaffordable
             \/ ReviewCured \/ ReviewRejects \/ ReviewEnds \/ OutOfApproaches \/ Killed
    BY <1>1 DEF TallyApplied, BreakerTrips, TallyPassedOver, BacksOff, ReviewUnaffordable,
                ReviewCured, ReviewRejects, ReviewEnds, OutOfApproaches, Killed
  <1>2. ASSUME NEW activity, Tally(activity) PROVE Remembers
    BY <1>2 DEF Tally
  <1>3. CASE ReviewAnswers
    BY <1>3 DEF ReviewAnswers, RulingsRecorded
  <1>. QED  BY <1>1, <1>2, <1>3 DEF Judgement

LEMMA BoundaryNotesNothing == ASSUME Boundary PROVE status' = status
  BY DEF Boundary, PassBegins, BudgetGone, RulingReapplied, BoundaryPassed, Resteered,
         SteerInsert, SteerDelete, SteerRepoint, SteerMoves

LEMMA SelectionNotesFaults == ASSUME Selection, ~GraphFault PROVE status' = status
  BY DEF Selection, Claim, DoomedPlan, Held, GoesToSleep, NoTaskToRun, WokenEarly, SleepsOut,
         DeadlineWakes, HoldsOn

LEMMA BoundaryVoids == ASSUME Quiet, RoundInv, VoidInv, Boundary PROVE VoidInv'
  <1>0. status' = status
    BY BoundaryNotesNothing
  <1>. USE <1>0, DropsNothingNew, SamePlanDrops DEF RoundInv, TypeOK, WorldRecord
  <1>1. CASE PassBegins \/ BudgetGone
    BY <1>1 DEF PassBegins, BudgetGone
  <1>2. ~RulingReapplied
    <2>1. pass.k \in Nat
      BY DEF PassRecord
    <2>2. Len(world.rulings) = 0
      BY DEF VoidInv
    <2>3. RulingReapplied => pass.k < Len(world.rulings)
      BY ONLY DEF RulingReapplied
    <2>. QED  BY ONLY <2>1, <2>2, <2>3
  <1>3. CASE BoundaryPassed
    <2>1. ASSUME NEW x \in DOMAIN plan
          PROVE  plan'[x].deps = plan[x].deps /\ plan'[x].status = plan[x].status
      <3>1. plan[x] \in TaskRecord
        BY <2>1 DEF IsPlan
      <3>2. plan'[x] = IF x \in world.undefer THEN [plan[x] EXCEPT !.waits = FALSE] ELSE plan[x]
        BY <1>3, <2>1 DEF BoundaryPassed
      <3>. QED  BY <3>1, <3>2 DEF TaskRecord
    <2>2. UNCHANGED reopened /\ DOMAIN plan' = DOMAIN plan /\ world'.rulings = world.rulings
      BY <1>3 DEF BoundaryPassed
    <2>. QED  BY <2>1, <2>2, RewrittenDrops
  <1>4. /\ ~Resteered
        /\ \A deps : ~SteerInsert(deps)
        /\ \A t : ~SteerDelete(t)
        /\ \A t, deps : ~SteerRepoint(t, deps)
        /\ \A t, s : ~SteerMoves(t, s)
    BY RoundHasOnePlan DEF Quiet, SteerInsert, SteerDelete, SteerRepoint, SteerMoves
  <1>. QED  BY <1>1, <1>2, <1>3, <1>4 DEF Boundary

LEMMA SelectionVoids == ASSUME Quiet, RoundInv, VoidInv, Selection PROVE VoidInv'
  <1>0. status' = status
    BY RoundHasOnePlan, SelectionNotesFaults DEF Quiet
  <1>. USE <1>0, DropsNothingNew, SamePlanDrops DEF RoundInv
  <1>1. ASSUME NEW t \in Ids, Claim(t) PROVE VoidInv'
    <2>1. ASSUME NEW x \in DOMAIN plan
          PROVE  /\ plan'[x].deps = plan[x].deps
                 /\ plan'[x].status \in {plan[x].status, "in-progress"}
      <3>1. plan[x] \in TaskRecord
        BY <2>1 DEF TypeOK, IsPlan
      <3>2. PICK tier : plan' = [plan EXCEPT ![t].status = "in-progress", ![t].tier = tier]
        BY <1>1 DEF Claim
      <3>3. plan'[x] = IF x = t THEN [plan[x] EXCEPT !.status = "in-progress", !.tier = tier]
                       ELSE plan[x]
        BY <2>1, <3>2
      <3>. QED  BY <3>1, <3>3 DEF TaskRecord
    <2>2. UNCHANGED <<reopened, world>> /\ DOMAIN plan' = DOMAIN plan
      BY <1>1 DEF Claim
    <2>. QED  BY <2>1, <2>2, RewrittenDrops DEF Statuses
  <1>2. CASE DoomedPlan \/ Held \/ GoesToSleep \/ NoTaskToRun \/ WokenEarly \/ DeadlineWakes
             \/ HoldsOn
    BY <1>2 DEF DoomedPlan, Held, GoesToSleep, NoTaskToRun, WokenEarly, DeadlineWakes, HoldsOn
  <1>3. CASE SleepsOut
    <2>1. PICK t : plan' = [plan EXCEPT ![t].waits = FALSE]
      BY <1>3 DEF SleepsOut, TimerElapsed
    <2>2. ASSUME NEW x \in DOMAIN plan
          PROVE  plan'[x].deps = plan[x].deps /\ plan'[x].status = plan[x].status
      BY <2>1, <2>2 DEF TypeOK, IsPlan, TaskRecord
    <2>3. UNCHANGED <<reopened, world>> /\ DOMAIN plan' = DOMAIN plan
      BY <1>3, <2>1 DEF SleepsOut
    <2>. QED  BY <2>2, <2>3, RewrittenDrops
  <1>. QED  BY <1>1, <1>2, <1>3, RoundHasOnePlan DEF Selection, Quiet

LEMMA IterationVoids == ASSUME Quiet, RoundInv, PassInv, VoidInv, Iteration PROVE VoidInv'
  <1>00. status'.remedied = status.remedied
    BY IterationRemembers DEF RoundInv, Remembers
  <1>. USE <1>00, DropsNothingNew, SamePlanDrops DEF RoundInv
  <1>0. world' = Spent => world'.rulings = world.rulings
    BY DEF Spent, TypeOK, WorldRecord
  <1>1. CASE Iterates \/ PlanComplete \/ NoVerdict
    BY <1>0, <1>1 DEF Iterates, PlanComplete, NoVerdict
  <1>2. CASE SecretFound
    BY <1>0, <1>2, StatusDrops DEF SecretFound, Statuses
  <1>3. ASSUME NEW givesBack \in BOOLEAN, IterationFaulted(givesBack) PROVE VoidInv'
    <2>1. CASE plan' = plan
      BY <1>0, <1>3, <2>1 DEF IterationFaulted
    <2>2. CASE plan' # plan
      <3>1. PICK tier : plan' = [plan EXCEPT ![pass.cur].status = pass.from,
                                             ![pass.cur].tier = tier]
        BY <1>3, <2>2 DEF IterationFaulted, GivenBack
      <3>2. pass.from \in {"none", "pending", "validation-failed"} /\ pass.from # "none"
        BY <1>3, <2>2 DEF IterationFaulted, GivenBack, PassInv
      <3>3. ASSUME NEW x \in DOMAIN plan
            PROVE  /\ plan'[x].deps = plan[x].deps
                   /\ plan'[x].status \in {plan[x].status} \cup (Statuses \ {"skipped"})
        <4>1. plan[x] \in TaskRecord
          BY <3>3 DEF TypeOK, IsPlan
        <4>2. plan'[x] = IF x = pass.cur
                         THEN [plan[x] EXCEPT !.status = pass.from, !.tier = tier] ELSE plan[x]
          BY <3>1, <3>3
        <4>. QED  BY <3>2, <4>1, <4>2 DEF TaskRecord, Statuses
      <3>4. UNCHANGED reopened /\ DOMAIN plan' = DOMAIN plan /\ world' = Spent
        BY <1>3, <3>1 DEF IterationFaulted
      <3>. QED  BY <1>0, <3>3, <3>4, RewrittenDrops
    <2>. QED  BY <2>1, <2>2
  <1>4. /\ \A t, s, justified, touched : ~StatusReported(t, s, justified, touched)
        /\ \A claim : ~ProgressReported(claim)
        /\ \A n : ~ForcedSplit(n) /\ ~VoluntarySplit(n)
        /\ \A t, deps : ~WorkerRepoints(t, deps)
        /\ \A t : ~Unsatisfiable(t)
    BY DEF Quiet, StatusReported, ProgressReported, ForcedSplit, VoluntarySplit, WorkerRepoints,
           Unsatisfiable
  <1>5. CASE SplitDone
    BY <1>5, StatusDrops DEF SplitDone, ParentSuperseded, Statuses
  <1>6. CASE Complete
    BY <1>6, StatusDrops DEF Complete, Statuses
  <1>7. CASE Deferred
    <2>1. ASSUME NEW x \in DOMAIN plan
          PROVE  /\ plan'[x].deps = plan[x].deps
                 /\ plan'[x].status \in {plan[x].status, "pending"}
      BY <1>7, <2>1 DEF Deferred, TypeOK, IsPlan, TaskRecord
    <2>2. UNCHANGED <<reopened, world>> /\ DOMAIN plan' = DOMAIN plan
      BY <1>7 DEF Deferred
    <2>. QED  BY <2>1, <2>2, RewrittenDrops DEF Statuses
  <1>. QED  BY <1>1, <1>2, <1>3, <1>4, <1>5, <1>6, <1>7 DEF Iteration

\* A confirmed petition's task is skipped in the write that takes the edges off it.
LEMMA ConfirmedVoids ==
    ASSUME Quiet, TypeOK, VoidInv, NEW by \in Ids \cup {NoTask}, ConfirmedApplied(by)
    PROVE  VoidInv'
  <1>. DEFINE voided == Answered(pass.answers, "confirmed")
  <1>1. by = NoTask
    BY DEF ConfirmedApplied, Quiet, OneRound
  <1>2. NoTask \notin DOMAIN plan
    BY CurePassAssumption DEF TypeOK, IsPlan
  <1>3. DOMAIN plan' = DOMAIN plan /\ UNCHANGED <<reopened, world, status>>
    BY DEF ConfirmedApplied
  <1>4. ASSUME NEW x \in DOMAIN plan
        PROVE  /\ plan'[x].deps \subseteq plan[x].deps \ voided
               /\ plan'[x].status = IF x \in voided THEN "skipped" ELSE plan[x].status
    <2>1. plan[x] \in TaskRecord
      BY <1>4 DEF TypeOK, IsPlan
    <2>2. plan'[x] = [plan[x] EXCEPT !.status = IF x \in voided THEN "skipped" ELSE @,
                                     !.deps = EdgeOfVoided(plan, x, by)]
      BY <1>4 DEF ConfirmedApplied
    <2>3. EdgeOfVoided(plan, x, by) \subseteq plan[x].deps \ voided
      BY <1>1, <1>2 DEF EdgeOfVoided
    <2>. HIDE DEF voided
    <2>. QED  BY <2>1, <2>2, <2>3 DEF TaskRecord
  <1>. HIDE DEF voided
  <1>5. ASSUME NEW t \in DOMAIN plan, Dropped(t)' PROVE t \in voided \/ Dropped(t)
    BY <1>3, <1>4, <1>5 DEF Dropped
  <1>. QED  BY <1>3, <1>4, <1>5 DEF VoidInv

\* The remedy of a refuted petition: its task has failed, and is left.
LEMMA RemedyVoids ==
    ASSUME TypeOK, VoidInv, AnswerInv, NEW moved, RemedyInserted(moved)
    PROVE  VoidInv'
  <1>. DEFINE finding == [named |-> Answered(pass.answers, "substance"), paths |-> {}]
  <1>1. finding \in Findings /\ Room(plan, IdsTaken(finding))
    <2>1. Answered(pass.answers, "substance") \in SUBSET Ids
      BY AnsweredIsKnown DEF TypeOK, PassRecord
    <2>2. Room(plan, 1)
      BY DEF RemedyInserted
    <2>. QED  BY <2>1, <2>2, FS_EmptySet DEF Findings, IdsTaken
  <1>2. /\ plan' = CurePass(plan, finding) /\ UNCHANGED world
        /\ reopened' = ReopenedAfter(plan, reopened, finding, moved)
    BY DEF RemedyInserted
  <1>3. status'.remedied = status.remedied \cup finding.named
    BY DEF RemedyInserted, TypeOK, StatusRecord
  <1>4. finding.named \subseteq finding.named \cap Having(plan, {"failed"})
    BY DEF RemedyInserted, AnswerInv
  <1>. HIDE DEF finding
  <1>. QED  BY <1>1, <1>2, <1>3, <1>4, CuredDrops

LEMMA VerificationVoids ==
    ASSUME Quiet, RoundInv, VoidInv, Verification, \A moved \in BOOLEAN : ~RemedyInserted(moved)
    PROVE  VoidInv'
  <1>00. status'.remedied = status.remedied
    BY VerificationRemembers DEF RoundInv, Remembers
  <1>. USE <1>00, DropsNothingNew, SamePlanDrops DEF RoundInv
  <1>0. world' = Spent => world'.rulings = world.rulings
    BY DEF Spent, TypeOK, WorldRecord
  <1>1. CASE VerificationListed
    <2>1. ASSUME NEW x \in DOMAIN plan
          PROVE  /\ plan'[x].deps = plan[x].deps
                 /\ plan'[x].status \in {plan[x].status, "awaiting-validation"}
      <3>1. plan[x] \in TaskRecord
        BY <2>1 DEF TypeOK, IsPlan
      <3>2. plan'[x] = IF plan[x].status = "completed"
                       THEN [plan[x] EXCEPT !.status = "awaiting-validation"] ELSE plan[x]
        BY <1>1, <2>1 DEF VerificationListed, Relabelled
      <3>. QED  BY <3>1, <3>2 DEF TaskRecord
    <2>2. UNCHANGED <<reopened, world>> /\ DOMAIN plan' = DOMAIN plan
      BY <1>1 DEF VerificationListed, Relabelled
    <2>. QED  BY <2>1, <2>2, RewrittenDrops DEF Statuses
  <1>2. CASE AdjudicationSkipped \/ Adjudicated \/ MidPlanSkipped \/ CurePassCounted
             \/ VerificationOver
    BY <1>2 DEF AdjudicationSkipped, Adjudicated, MidPlanSkipped, CurePassCounted,
                VerificationOver
  <1>3. CASE RefutedApplied
    <2>. DEFINE form == Answered(pass.answers, "form")
                substance == Answered(pass.answers, "substance")
    <2>1. ASSUME NEW x \in DOMAIN plan
          PROVE  /\ plan'[x].deps = plan[x].deps
                 /\ plan'[x].status \in {plan[x].status, "validated", "failed"}
      <3>1. plan[x] \in TaskRecord
        BY <2>1 DEF TypeOK, IsPlan
      <3>2. plan'[x] = CASE x \in form -> [plan[x] EXCEPT !.status = "validated"]
                         [] x \in substance -> [plan[x] EXCEPT !.status = "failed"]
                         [] OTHER -> plan[x]
        BY <1>3, <2>1 DEF RefutedApplied
      <3>3. ~(x \in form /\ x \in substance)
        BY DEF Answered
      <3>. HIDE DEF form, substance
      <3>4. \/ plan'[x] = [plan[x] EXCEPT !.status = "validated"]
            \/ plan'[x] = [plan[x] EXCEPT !.status = "failed"]
            \/ plan'[x] = plan[x]
        BY <3>2, <3>3
      <3>. QED  BY <3>1, <3>4 DEF TaskRecord
    <2>2. UNCHANGED <<reopened, world>> /\ DOMAIN plan' = DOMAIN plan
      BY <1>3 DEF RefutedApplied
    <2>. QED  BY <2>1, <2>2, RewrittenDrops DEF Statuses
  <1>5. ASSUME NEW by \in Ids \cup {NoTask}, ConfirmedApplied(by) PROVE VoidInv'
    BY <1>5, ConfirmedVoids
  <1>6. CASE MidPlanReviewed
    <2>1. ASSUME NEW finding \in ReviewFindings, NEW moved, Curable(finding),
                 CuresInserted(finding, moved)
          PROVE  VoidInv'
      BY <1>0, <1>6, <2>1, FindingsType, CuresVoid DEF MidPlanReviewed, Curable, CuresInserted
    <2>2. CASE UNCHANGED <<plan, reopened>>
      BY <1>0, <1>6, <2>2 DEF MidPlanReviewed
    <2>. QED  BY <1>6, <2>1, <2>2 DEF MidPlanReviewed
  <1>7. ASSUME NEW t, NEW touched, VerifyPasses(t, touched) PROVE VoidInv'
    <2>. DEFINE p == [plan EXCEPT ![t].status = "validated"]
    <2>1. IsPlan(p) /\ DOMAIN p = DOMAIN plan
      BY StatusWritten DEF Statuses, TypeOK
    <2>2. \A x \in DOMAIN plan : /\ p[x].deps = plan[x].deps
                                 /\ p[x].status = "skipped" => plan[x].status = "skipped"
      BY DEF TypeOK, IsPlan, TaskRecord
    <2>3. plan' = Lands(p, t, "validated", touched) /\ UNCHANGED reopened /\ world' = Spent
      BY <1>7 DEF VerifyPasses
    <2>. HIDE DEF p
    <2>4. Restores(p, plan', reopened)
      BY <2>1, <2>3, LandsRestores
    <2>. QED  BY <1>0, <2>1, <2>2, <2>3, <2>4, RestoredDrops
  <1>8. ASSUME NEW t, VerifyRejects(t) PROVE VoidInv'
    <2>1. PICK s \in {"validation-failed", "petitioned", "failed"} :
              plan' = [plan EXCEPT ![t].tries = @ + 1, ![t].status = s]
      BY <1>8 DEF VerifyRejects
    <2>2. ASSUME NEW x \in DOMAIN plan
          PROVE  plan'[x].deps = plan[x].deps /\ plan'[x].status \in {plan[x].status, s}
      <3>1. plan[x] \in TaskRecord
        BY <2>2 DEF TypeOK, IsPlan
      <3>2. plan'[x] = IF x = t THEN [plan[x] EXCEPT !.tries = @ + 1, !.status = s] ELSE plan[x]
        BY <2>1, <2>2
      <3>. QED  BY <3>1, <3>2 DEF TaskRecord
    <2>3. UNCHANGED reopened /\ world' = Spent /\ DOMAIN plan' = DOMAIN plan
      BY <1>8 DEF VerifyRejects
    <2>. QED  BY <1>0, <2>1, <2>2, <2>3, RewrittenDrops DEF Statuses
  <1>9. ASSUME NEW t, VerifyMute(t) PROVE VoidInv'
    BY <1>0, <1>9 DEF VerifyMute
  <1>. QED  BY <1>1, <1>2, <1>3, <1>5, <1>6, <1>7, <1>8, <1>9 DEF Verification

LEMMA JudgementVoids == ASSUME Quiet, RoundInv, VoidInv, Judgement \/ Killed PROVE VoidInv'
  <1>00. status'.remedied = status.remedied
    BY RoundHasOnePlan, JudgementRemembers DEF Quiet, RoundInv, Remembers
  <1>. USE <1>00, DropsNothingNew, SamePlanDrops DEF RoundInv
  <1>0. world' = Spent => world'.rulings = world.rulings
    BY DEF Spent, TypeOK, WorldRecord
  <1>1. CASE TallyApplied \/ BreakerTrips \/ TallyPassedOver \/ ReviewAnswers \/ ReviewUnaffordable
             \/ ReviewRejects \/ ReviewEnds \/ OutOfApproaches \/ Killed
    BY <1>0, <1>1
       DEF TallyApplied, BreakerTrips, TallyPassedOver, ReviewAnswers, ReviewUnaffordable,
           ReviewRejects, ReviewEnds, OutOfApproaches, Killed, TypeOK, WorldRecord
  <1>2. ASSUME NEW activity, Tally(activity) PROVE VoidInv'
    BY <1>2 DEF Tally
  <1>3. CASE BacksOff
    <2>1. ASSUME NEW x \in DOMAIN plan
          PROVE  /\ plan'[x].deps = plan[x].deps
                 /\ plan'[x].status \in {plan[x].status, "pending"}
      BY <1>3, <2>1 DEF BacksOff, TypeOK, IsPlan, TaskRecord
    <2>2. UNCHANGED <<reopened, world>> /\ DOMAIN plan' = DOMAIN plan
      BY <1>3 DEF BacksOff
    <2>. QED  BY <2>1, <2>2, RewrittenDrops DEF Statuses
  <1>4. CASE ReviewCured
    <2>1. ASSUME NEW finding \in ReviewFindings, NEW moved, Curable(finding),
                 CuresInserted(finding, moved)
          PROVE  VoidInv'
      BY <1>4, <2>1, FindingsType, CuresVoid DEF ReviewCured, Curable, CuresInserted
    <2>. QED  BY <1>4, <2>1 DEF ReviewCured
  <1>5. \A worded : ~Replanned(worded)
    BY RoundHasOnePlan DEF Quiet
  <1>. QED  BY <1>1, <1>2, <1>3, <1>4, <1>5 DEF Judgement

LEMMA VoidStep ==
    ASSUME Quiet, RoundInv, PassInv, AnswerInv, VoidInv, [Next]_vars
    PROVE  VoidInv'
  <1>1. CASE Over \/ UNCHANGED vars
    BY <1>1, DropsNothingNew, SamePlanDrops DEF Over, vars
  <1>2. CASE Operator
    <2>1. \A t, s : ~RulingGiven(t, s)
      BY DEF Quiet, RulingGiven
    <2>2. UNCHANGED <<plan, reopened, status>> /\ world'.rulings = world.rulings
      BY <1>2, <2>1 DEF Operator, SteeringArrives, TimeRunsOut, UndeferRequested, RoundInv, TypeOK,
                        WorldRecord
    <2>. QED  BY <2>2, DropsNothingNew, SamePlanDrops
  <1>3. ASSUME NEW moved, RemedyInserted(moved) PROVE VoidInv'
    BY <1>3, RemedyVoids DEF RoundInv
  <1>. QED  BY <1>1, <1>2, <1>3, BoundaryVoids, SelectionVoids, IterationVoids, VerificationVoids,
               JudgementVoids
            DEF Next, Engine

Adjudging == {"refute", "remedy", "void"}

\* Nothing else leads to where answers are applied.
LEMMA OthersAdjudgeNothing ==
    ASSUME TypeOK, Boundary \/ Selection \/ Iteration \/ Operator \/ Killed
    PROVE  at' \notin Adjudging
  <1>. USE DEF Adjudging
  <1>1. CASE Boundary
    BY <1>1 DEF Boundary, PassBegins, BudgetGone, RulingReapplied, BoundaryPassed, Resteered,
                SteerCall, SteerInsert, SteerDelete, SteerRepoint, SteerMoves
  <1>2. CASE Selection
    BY <1>2 DEF Selection, Claim, NothingToDo, GraphIsSound, DoomedPlan, GraphFault, Held,
                GoesToSleep, NoTaskToRun, WokenEarly, SleepsOut, DeadlineWakes, HoldsOn
  <1>3. CASE Iteration
    BY <1>3 DEF Iteration, Iterates, SecretFound, IterationFaulted, Telling, StatusReported,
                ProgressReported, ForcedSplit, VoluntarySplit, SplitDone, WorkerRepoints, AtVerdict,
                Complete, PlanComplete, Deferred, NoVerdict, Unsatisfiable
  <1>4. CASE Operator
    BY <1>4 DEF Operator, Asked, SteeringArrives, TimeRunsOut, UndeferRequested, RulingGiven
  <1>5. CASE Killed
    BY <1>5 DEF Killed, ResumesAt
  <1>. QED  BY <1>1, <1>2, <1>3, <1>4, <1>5

LEMMA AdjudgingSteps ==
    ASSUME TypeOK, Verification \/ Judgement, at' \in Adjudging
    PROVE  \/ Adjudicated \/ ReviewAnswers \/ RefutedApplied
           \/ \E moved \in BOOLEAN : RemedyInserted(moved)
  <1>0. pass.then \notin Adjudging
    BY DEF TypeOK, PassRecord, Adjudging
  <1>. USE <1>0 DEF Adjudging
  <1>1. CASE Verification
    BY <1>1 DEF Verification, VerificationListed, AdjudicationSkipped, ConfirmedApplied,
                MidPlanSkipped, MidPlanReviewed, CuresInserted, CurePassCounted, Listed,
                VerifyPasses, VerifyRejects, VerifyMute, VerificationOver
  <1>2. CASE Judgement
    BY <1>2 DEF Judgement, TallyApplied, BreakerTrips, TallyPassedOver, Tallied, BacksOff, Tally,
                ReviewUnaffordable, ReviewCured, CuresInserted, ReviewRejects, ReviewEnds,
                Replanned, OutOfApproaches
  <1>. QED  BY <1>1, <1>2

LEMMA OpenIsHeld ==
    ASSUME NEW f \in Adjudications PROVE DOMAIN f \subseteq DOMAIN plan
  BY DEF Adjudications, OpenPetitions, Having

LEMMA InitAnswers == ASSUME Init PROVE AnswerInv
  BY DEF Init, NewPass, NoAnswers, AnswerInv

LEMMA AnswerStep ==
    ASSUME RoundInv, PassInv', AnswerInv, [Next]_vars
    PROVE  AnswerInv'
  <1>. USE DEF RoundInv
  <1>1. CASE at' \notin Adjudging
    <2>1. pass'.answers = NoAnswers /\ at' # "remedy"
      BY <1>1 DEF PassInv, Adjudging
    <2>2. DOMAIN NoAnswers = {}
      BY DEF NoAnswers
    <2>. QED  BY <2>1, <2>2 DEF AnswerInv
  <1>2. CASE Over \/ UNCHANGED vars
    BY <1>2 DEF Over, vars, AnswerInv, Having, Answered
  <1>3. CASE Adjudicated \/ ReviewAnswers
    <2>1. PICK f \in Adjudications : pass'.answers = f
      BY <1>3 DEF Adjudicated, AdjudicationRecorded, ReviewAnswers, NewPass, TypeOK, PassRecord
    <2>2. plan' = plan /\ at' = "refute"
      BY <1>3 DEF Adjudicated, AdjudicationRecorded, ReviewAnswers
    <2>. QED  BY <2>1, <2>2, OpenIsHeld DEF AnswerInv
  <1>4. CASE RefutedApplied
    <2>. DEFINE form == Answered(pass.answers, "form")
                substance == Answered(pass.answers, "substance")
    <2>1. DOMAIN plan' = DOMAIN plan /\ pass' = pass
      BY <1>4 DEF RefutedApplied
    <2>2. ASSUME NEW t \in substance PROVE t \in DOMAIN plan /\ plan'[t].status = "failed"
      <3>1. t \in DOMAIN plan /\ t \notin form
        BY <2>2 DEF Answered, AnswerInv
      <3>2. plan'[t] = CASE t \in form -> [plan[t] EXCEPT !.status = "validated"]
                         [] t \in substance -> [plan[t] EXCEPT !.status = "failed"]
                         [] OTHER -> plan[t]
        BY <1>4, <3>1 DEF RefutedApplied
      <3>3. plan[t] \in TaskRecord
        BY <3>1 DEF TypeOK, IsPlan
      <3>. HIDE DEF form, substance
      <3>. QED  BY <2>2, <3>1, <3>2, <3>3 DEF TaskRecord
    <2>3. substance \subseteq Having(plan', {"failed"})
      BY <2>1, <2>2 DEF Having
    <2>. QED  BY <2>1, <2>3 DEF AnswerInv
  <1>5. ASSUME NEW moved, RemedyInserted(moved) PROVE AnswerInv'
    <2>1. Leads(plan, plan')
      BY <1>5, RemedyType
    <2>2. pass' = pass /\ at' = "void"
      BY <1>5 DEF RemedyInserted
    <2>. QED  BY <2>1, <2>2 DEF Leads, AnswerInv
  <1>. QED  BY <1>1, <1>2, <1>3, <1>4, <1>5, OthersAdjudgeNothing, AdjudgingSteps DEF Next, Engine

\* Where nothing but the engine's own adjudications and cure passes edits the plan, no
\* task is left waiting on one that a confirmed petition voided
\* (apply_confirmed_petition_adjudications) or that a refuted one failed, from its remedy
\* on (insert_cure_tasks), whatever is re-opened and restored afterwards, by whichever
\* kills it is cut off.
THEOREM VoidedIsLeft ==
    ASSUME Quiet
    PROVE  Spec => []NoEdgeToVoided
  <1>. DEFINE Inv == RoundInv /\ PassInv /\ AnswerInv /\ VoidInv
  <1>1. Init => Inv
    <2>1. Init => \A t \in DOMAIN plan : plan[t].status = "pending"
      BY DEF Init, FreshPlans, NewTask
    <2>2. Init => VoidInv
      BY <2>1 DEF Init, NoReopen, NewStatus, VoidInv, Dropped
    <2>. QED  BY <2>2, RoundInit, InitPass, InitAnswers DEF Quiet
  <1>2. Inv /\ [Next]_vars => Inv'
    <2>1. ASSUME Inv, [Next]_vars PROVE Inv'
      <3>1. RoundInv' /\ PassInv'
        BY <2>1, RoundStep, PassStep DEF Quiet, RoundInv
      <3>. QED  BY <2>1, <3>1, AnswerStep, VoidStep
    <2>. QED  BY <2>1
  <1>3. Inv => NoEdgeToVoided
    BY DEF VoidInv, Dropped, NoEdgeToVoided, NobodyWaitsOn
  <1>. QED  BY <1>1, <1>2, <1>3, PTL DEF Spec

(***************************************************************************)
(* Cures first.                                                            *)
(***************************************************************************)
\* Still to be worked on or verified.
Live == ActionableStatuses \cup {"awaiting-validation"}

\* Nothing is completed but by a verdict, and nothing is split.
Settled == {"completed", "superseded"}

\* The re-opened record t stands behind the cure o: it waits on it itself, or,
\* if it is the lane's, on a verification step that does.
Stands(p, t, o) ==
    /\ p[t].status = "pending"
    /\ \E v \in DOMAIN p : /\ p[v].status = "pending" /\ o \in p[v].deps
                           /\ v = t \/ (t = Record /\ v \in p[t].deps)

\* What the records r re-opened in plan p wait for.
Await(p, r) ==
    /\ \A t \in Initial : t \in DOMAIN p /\ p[t].kind = "plan"
    /\ \A t \in DOMAIN p : p[t].status \notin Settled
    /\ DOMAIN r \subseteq DOMAIN p \cap {Record, Sweep}
    /\ \A t \in DOMAIN r :
          /\ r[t].prior \notin Settled
          /\ \A o \in r[t].owners : /\ o \in DOMAIN p /\ p[o].kind = "cure"
                                    /\ p[o].status \in Live => Stands(p, t, o)

\* What is listed stands as it was listed, what is adjudicated as petitioned,
\* until the answer is applied.
EpisodeInv ==
    /\ at # "splitting" /\ pass.claim = "none"
    /\ pass.toVerify \subseteq Having(plan, {"awaiting-validation"})
    /\ at = "refute" => DOMAIN pass.answers \subseteq Having(plan, {"petitioned"})
    /\ at \in {"refute", "remedy", "void"} =>
          Answered(pass.answers, "confirmed") \subseteq Having(plan, {"petitioned"})

(* Cure passes. *)

\* From p to q a status is kept, but where a task that is no cure starts over; an
\* edge is kept, but one to a failed task.
Waits(p, q) ==
    \A t \in DOMAIN p :
        /\ t \in DOMAIN q /\ q[t].kind = p[t].kind
        /\ q[t].status = p[t].status \/ (q[t].status = "pending" /\ p[t].kind # "cure")
        /\ \A d \in p[t].deps \cap DOMAIN p : d \in q[t].deps \/ p[d].status = "failed"

LEMMA WaitsOn == ASSUME NEW p, NEW q, NEW r, Waits(p, q), Waits(q, r) PROVE Waits(p, r)
  <1>1. ASSUME NEW t \in DOMAIN p
        PROVE  /\ t \in DOMAIN r /\ r[t].kind = p[t].kind
               /\ r[t].status = p[t].status \/ (r[t].status = "pending" /\ p[t].kind # "cure")
    BY <1>1 DEF Waits
  <1>2. ASSUME NEW t \in DOMAIN p, NEW d \in p[t].deps \cap DOMAIN p
        PROVE  d \in r[t].deps \/ p[d].status = "failed"
    BY <1>2 DEF Waits
  <1>. QED  BY <1>1, <1>2 DEF Waits

LEMMA WaitsByItself == ASSUME NEW p PROVE Waits(p, p)
  BY DEF Waits

LEMMA CureStays ==
    ASSUME NEW p, NEW q, Waits(p, q), NEW c \in DOMAIN p, p[c].kind = "cure"
    PROVE  c \in DOMAIN q /\ q[c].kind = "cure" /\ q[c].status = p[c].status
  BY DEF Waits

LEMMA StandsOn ==
    ASSUME NEW p, NEW q, NEW t \in DOMAIN p, NEW o \in DOMAIN p, Waits(p, q), Stands(p, t, o),
           p[o].status # "failed"
    PROVE  Stands(q, t, o)
  BY DEF Waits, Stands

\* Edges that stand in a sound plan are never refused.
LEMMA EdgesKept ==
    ASSUME NEW p, Sound(p), NEW t \in DOMAIN p, NEW C
    PROVE  p[t].deps \cap C \subseteq ValidEdges(DepsOf(p), t, C)
  <1>. DEFINE D == DepsOf(p)
  <1>1. t \notin Ancestors(D, t)
    BY NoneBeforeItself DEF Sound, DepsOf
  <1>2. DOMAIN D = DOMAIN p /\ \A x \in DOMAIN p : D[x] = p[x].deps
    BY DEF DepsOf
  <1>. HIDE DEF D
  <1>3. ASSUME NEW d \in p[t].deps PROVE d \in DOMAIN p /\ d # t /\ t \notin Ancestors(D, d)
    <2>1. d \in DOMAIN D /\ d \in D[t]
      BY <1>2, <1>3 DEF Sound, Resolved
    <2>2. d \in Ancestors(D, t) /\ Ancestors(D, d) \subseteq Ancestors(D, t)
      BY <1>2, <2>1 DEF Ancestors
    <2>. QED  BY <1>1, <1>2, <2>1, <2>2
  <1>. QED  BY <1>2, <1>3 DEF ValidEdges, EdgeRefused, D

\* Nor is an edge onto a task that waits on nothing.
LEMMA SinkEdge ==
    ASSUME NEW p, NEW c, Sink(p, c), NEW t \in DOMAIN p, t # c, NEW C, c \in C
    PROVE  c \in ValidEdges(DepsOf(p), t, C)
  <1>1. Ancestors(DepsOf(p), c) = {}
    <2>. DEFINE D == DepsOf(p)
    <2>1. D[c] = {}
      BY DEF Sink, DepsOf
    <2>. QED  BY <2>1 DEF Ancestors
  <1>. QED  BY <1>1 DEF ValidEdges, EdgeRefused, Sink, DepsOf

LEMMA AddedWaits ==
    ASSUME NEW p, NEW i, i \notin DOMAIN p, NEW task
    PROVE  Waits(p, Added(p, i, task))
  BY DEF Waits, Added

LEMMA EdgeAppendedWaits ==
    ASSUME NEW p, IsPlan(p), Sound(p), NEW t, NEW c
    PROVE  /\ Waits(p, EdgeAppended(p, t, c)) /\ DOMAIN EdgeAppended(p, t, c) = DOMAIN p
           /\ \A x \in DOMAIN p : /\ EdgeAppended(p, t, c)[x].status = p[x].status
                                  /\ EdgeAppended(p, t, c)[x].kind = p[x].kind
           /\ Sink(p, c) /\ t \in DOMAIN p /\ t # c => c \in EdgeAppended(p, t, c)[t].deps
  <1>. DEFINE D == ValidEdges(DepsOf(p), t, p[t].deps \cup {c})
              q == EdgeAppended(p, t, c)
  <1>1. q = IF t \notin DOMAIN p THEN p ELSE [p EXCEPT ![t].deps = D]
    BY DEF EdgeAppended
  <1>2. t \in DOMAIN p => p[t].deps \subseteq D /\ (Sink(p, c) /\ t # c => c \in D)
    <2>1. ASSUME t \in DOMAIN p PROVE p[t].deps \cap (p[t].deps \cup {c}) \subseteq D
      BY <2>1, EdgesKept
    <2>2. ASSUME t \in DOMAIN p, Sink(p, c), t # c PROVE c \in D
      BY <2>2, SinkEdge
    <2>. QED  BY <2>1, <2>2
  <1>. HIDE DEF D, q
  <1>3. DOMAIN q = DOMAIN p
    BY <1>1
  <1>4. ASSUME NEW x \in DOMAIN p
        PROVE  /\ q[x].status = p[x].status /\ q[x].kind = p[x].kind
               /\ q[x].deps = IF x = t THEN D ELSE p[x].deps
    <2>1. p[x] \in TaskRecord
      BY <1>4 DEF IsPlan
    <2>. QED  BY <1>1, <1>4, <2>1 DEF TaskRecord
  <1>5. Waits(p, q)
    BY <1>2, <1>3, <1>4 DEF Waits
  <1>. QED  BY <1>2, <1>3, <1>4, <1>5 DEF q

LEMMA RepointedWaits ==
    ASSUME NEW p, IsPlan(p), Sound(p), NEW F, F \subseteq Having(p, {"failed"}), NEW c
    PROVE  /\ Waits(p, Repointed(p, F, c)) /\ DOMAIN Repointed(p, F, c) = DOMAIN p
           /\ \A x \in DOMAIN p : Repointed(p, F, c)[x].kind = p[x].kind
  <1>. DEFINE q == Repointed(p, F, c)
  <1>1. DOMAIN q = DOMAIN p
    BY DEF Repointed
  <1>2. ASSUME NEW t \in DOMAIN p
        PROVE  /\ q[t].status = p[t].status /\ q[t].kind = p[t].kind
               /\ p[t].deps \ F \subseteq q[t].deps
    <2>. DEFINE C == (p[t].deps \ F) \cup {c}
                D == ValidEdges(DepsOf(p), t, C)
    <2>1. p[t] \in TaskRecord
      BY <1>2 DEF IsPlan
    <2>2. p[t].deps \cap C \subseteq D
      BY <1>2, EdgesKept
    <2>3. p[t].deps \ F \subseteq D
      BY <2>2
    <2>4. q[t] = IF p[t].deps \cap F = {} THEN p[t] ELSE [p[t] EXCEPT !.deps = D]
      BY <1>2 DEF Repointed
    <2>. HIDE DEF D, C, q
    <2>. QED  BY <2>1, <2>3, <2>4 DEF TaskRecord
  <1>. HIDE DEF q
  <1>3. Waits(p, q)
    BY <1>1, <1>2 DEF Waits, Having
  <1>. QED  BY <1>1, <1>2, <1>3 DEF q

LEMMA ReopenedWaits ==
    ASSUME NEW p, IsPlan(p), NEW S, \A t \in S \cap DOMAIN p : p[t].kind # "cure"
    PROVE  /\ Waits(p, Reopened(p, S)) /\ DOMAIN Reopened(p, S) = DOMAIN p
           /\ \A t \in DOMAIN p : /\ Reopened(p, S)[t].kind = p[t].kind
                                  /\ Reopened(p, S)[t].deps = p[t].deps
           /\ \A t \in S \cap DOMAIN p : Reopened(p, S)[t].status = "pending"
  <1>. DEFINE q == Reopened(p, S)
  <1>1. DOMAIN q = DOMAIN p
    BY DEF Reopened
  <1>2. ASSUME NEW t \in DOMAIN p
        PROVE  /\ q[t].status = IF t \in S THEN "pending" ELSE p[t].status
               /\ q[t].kind = p[t].kind /\ q[t].deps = p[t].deps
    <2>1. p[t] \in TaskRecord
      BY <1>2 DEF IsPlan
    <2>. QED  BY <1>2, <2>1 DEF Reopened, TaskRecord
  <1>. HIDE DEF q
  <1>3. Waits(p, q)
    BY <1>1, <1>2 DEF Waits
  <1>. QED  BY <1>1, <1>2, <1>3 DEF q

\* The record is re-opened behind the cure, by itself or through its verification
\* steps.
LEMMA ChainReopenedWaits ==
    ASSUME NEW p, IsPlan(p), Sound(p), NEW c, Sink(p, c), p[c].kind = "cure", ChainRecognised(p)
    PROVE  /\ Waits(p, ChainReopened(p, c)) /\ Stands(ChainReopened(p, c), Record, c)
           /\ Sink(ChainReopened(p, c), c)
  <1>. DEFINE q == ChainReopened(p, c)
              steps == VerificationTasks(p)
              behind == IF steps = {} THEN {Record} ELSE steps
              m == Reopened(p, {Record} \cup steps)
  <1>0. /\ steps \subseteq p[Record].deps \cap DOMAIN p
        /\ \A t \in {Record} \cup steps : t \in DOMAIN p /\ p[t].kind # "cure"
    BY DEF ChainRecognised, VerificationTasks, EngineAuthored
  <1>1. /\ IsPlan(m) /\ Sound(m) /\ DOMAIN m = DOMAIN p /\ Waits(p, m)
        /\ \A t \in DOMAIN p : m[t].deps = p[t].deps
        /\ \A t \in {Record} \cup steps : m[t].status = "pending"
    BY <1>0, ReopenedLeads, ReopenedSound, ReopenedWaits DEF Leads
  <1>2. q = [t \in DOMAIN m |->
                IF t \in behind
                THEN [m[t] EXCEPT !.deps = ValidEdges(DepsOf(m), t, m[t].deps \cup {c})]
                ELSE m[t]]
    BY DEF ChainReopened
  <1>3. behind \subseteq {Record} \cup steps /\ behind # {} /\ (Record \in behind \/ behind = steps)
    OBVIOUS
  <1>4. Sink(m, c) /\ c \notin behind
    BY <1>0, <1>1 DEF Sink
  <1>. HIDE DEF q, m, behind, steps
  <1>5. ASSUME NEW t \in DOMAIN m
        PROVE  /\ q[t].status = m[t].status /\ q[t].kind = m[t].kind
               /\ m[t].deps \subseteq q[t].deps
               /\ IF t \in behind THEN c \in q[t].deps ELSE q[t] = m[t]
    <2>. DEFINE C == m[t].deps \cup {c}
                D == ValidEdges(DepsOf(m), t, C)
    <2>1. m[t] \in TaskRecord
      BY <1>1, <1>5 DEF IsPlan
    <2>2. m[t].deps \cap C \subseteq D
      BY <1>1, <1>5, EdgesKept
    <2>3. t # c => c \in D
      BY <1>4, <1>5, SinkEdge
    <2>4. m[t].deps \subseteq D
      BY <2>2
    <2>5. q[t] = IF t \in behind THEN [m[t] EXCEPT !.deps = D] ELSE m[t]
      BY <1>2, <1>5
    <2>. HIDE DEF C, D
    <2>. QED  BY <1>4, <2>1, <2>3, <2>4, <2>5 DEF TaskRecord
  <1>6. DOMAIN q = DOMAIN m
    BY <1>2
  <1>7. Waits(m, q)
    BY <1>5, <1>6 DEF Waits
  <1>8. Waits(p, q)
    BY <1>1, <1>7, WaitsOn
  <1>9. Sink(q, c)
    BY <1>4, <1>5, <1>6 DEF Sink
  <1>10. PICK v \in behind : v = Record \/ v \in p[Record].deps
    BY <1>0, <1>3
  <1>11. Stands(q, Record, c)
    BY <1>0, <1>1, <1>3, <1>5, <1>6, <1>10 DEF Stands
  <1>. QED  BY <1>8, <1>9, <1>11 DEF q

LEMMA RetakenWaits ==
    ASSUME NEW p, IsPlan(p), Sound(p), NEW c, Sink(p, c), p[c].kind = "cure",
           ExistingRetakes(p) = {} => Room(p, 1)
    PROVE  Waits(p, Retaken(p, c)) /\ Sink(Retaken(p, c), c)
  <1>1. CASE ExistingRetakes(p) # {}
    <2>. DEFINE r == CHOOSE x \in ExistingRetakes(p) : \A y \in ExistingRetakes(p) : x <= y
                m == Reopened(p, {r})
    <2>1. r \in ExistingRetakes(p)
      <3>1. ExistingRetakes(p) \subseteq Nat
        BY CurePassAssumption DEF ExistingRetakes, IsPlan
      <3>2. \E x \in ExistingRetakes(p) : \A y \in ExistingRetakes(p) : x <= y
        BY <1>1, <3>1, LeastExists
      <3>. QED  BY <3>2
    <2>2. IsPlan(m) /\ Sound(m)
      BY ReopenedLeads, ReopenedSound DEF Leads
    <2>3. Retaken(p, c) = EdgeAppended(m, r, c)
      BY <1>1 DEF Retaken
    <2>. HIDE DEF r
    <2>4. /\ Waits(p, m) /\ DOMAIN m = DOMAIN p
          /\ \A t \in DOMAIN p : m[t].deps = p[t].deps
      BY <2>1, ReopenedWaits DEF ExistingRetakes
    <2>5. Sink(m, c)
      BY <2>4 DEF Sink
    <2>. HIDE DEF m
    <2>6. Waits(m, EdgeAppended(m, r, c)) /\ Sink(EdgeAppended(m, r, c), c)
      BY <2>2, <2>5, EdgeAppendedWaits, EdgeAppendedSink
    <2>. QED  BY <2>3, <2>4, <2>6, WaitsOn
  <1>2. CASE ExistingRetakes(p) = {}
    <2>. DEFINE i == FreshId(p)
    <2>1. i \notin DOMAIN p
      BY <1>2, FreshIdIsFree DEF IsPlan
    <2>2. Retaken(p, c) = Added(p, i, NewTask("retake", {c}, NoTask))
      BY <1>2 DEF Retaken
    <2>. HIDE DEF i
    <2>. QED  BY <2>1, <2>2, AddedWaits DEF Sink, Added
  <1>. QED  BY <1>1, <1>2

\* The pass but for the sweep.
LEMMA CuredWaits ==
    ASSUME NEW p, IsPlan(p), Sound(p), NEW finding \in Findings, Room(p, IdsTaken(finding))
    PROVE  /\ Waits(p, Cured(p, finding)) /\ Sink(Cured(p, finding), FreshId(p))
           /\ Cured(p, finding)[FreshId(p)].kind = "cure"
           /\ "lane" \in finding.paths /\ ChainRecognised(Handed(p, finding)) =>
                 Stands(Cured(p, finding), Record, FreshId(p))
  <1>. DEFINE c == FreshId(p)
              p0 == WithCure(p)
              p1 == Ordered(p)
              p2 == Handed(p, finding)
              p3 == Laned(p, finding)
              F == finding.named \cap Having(p1, {"failed"})
              chained == "lane" \in finding.paths /\ ChainRecognised(p2)
  <1>1. /\ c \notin DOMAIN p
        /\ IsPlan(p0) /\ IsPlan(p1) /\ IsPlan(p2) /\ IsPlan(p3)
        /\ "lane" \in finding.paths => Room(p2, 1)
        /\ "other" \in finding.paths /\ ExistingRetakes(p3) = {} => Room(p3, 1)
    BY CureStages DEF Leads
  <1>2. Cured(p, finding) = IF "other" \in finding.paths THEN Retaken(p3, c) ELSE p3
    BY CuredInStages
  <1>3. /\ p3 = IF "lane" \in finding.paths
                THEN IF ChainRecognised(p2) THEN ChainReopened(p2, c) ELSE Retaken(p2, c)
                ELSE p2
        /\ p2 = Repointed(p1, F, c)
        /\ p1 = EdgeAppended(p0, Freeze, c)
        /\ p0 = Added(p, c, NewTask("cure", {}, NoTask))
        /\ F \subseteq Having(p1, {"failed"})
    BY DEF WithCure, Ordered, Handed, Laned
  <1>. HIDE DEF c, p0, p1, p2, p3, F
  <1>4. /\ Waits(p, p0) /\ Sound(p0) /\ Sink(p0, c) /\ p0[c].kind = "cure"
    <2>1. NewTask("cure", {}, NoTask).deps = {}
      BY DEF NewTask
    <2>2. Sound(p0) /\ Waits(p, p0)
      BY <1>1, <1>3, <2>1, AddedSound, AddedWaits
    <2>. QED  BY <1>3, <2>2 DEF Added, Sink, NewTask
  <1>5. /\ Waits(p, p1) /\ Sound(p1) /\ Sink(p1, c) /\ p1[c].kind = "cure"
    <2>1. Waits(p0, p1) /\ Sound(p1) /\ Sink(p1, c)
      BY <1>1, <1>3, <1>4, EdgeAppendedWaits, EdgeAppendedSound, EdgeAppendedSink
    <2>. QED  BY <1>4, <2>1, WaitsOn, CureStays DEF Sink
  <1>6. /\ Waits(p, p2) /\ Sound(p2) /\ Sink(p2, c) /\ p2[c].kind = "cure"
    <2>1. Waits(p1, p2) /\ Sound(p2) /\ Sink(p2, c)
      BY <1>1, <1>3, <1>5, RepointedWaits, RepointedSound
    <2>. QED  BY <1>5, <2>1, WaitsOn, CureStays DEF Sink
  <1>7. /\ Waits(p2, p3) /\ Sound(p3) /\ Sink(p3, c)
        /\ chained => Stands(p3, Record, c)
    <2>1. CASE "lane" \notin finding.paths
      BY <1>3, <1>6, <2>1, WaitsByItself
    <2>2. CASE chained
      BY <1>1, <1>3, <1>6, <2>2, ChainReopenedWaits, ChainReopenedSound
    <2>3. CASE "lane" \in finding.paths /\ ~ChainRecognised(p2)
      BY <1>1, <1>3, <1>6, <2>3, RetakenWaits, RetakenSound DEF Sink
    <2>. QED  BY <2>1, <2>2, <2>3
  <1>8. Waits(p, p3) /\ p3[c].kind = "cure"
    BY <1>6, <1>7, WaitsOn, CureStays DEF Sink
  <1>9. "other" \in finding.paths => Waits(p3, Retaken(p3, c)) /\ Sink(Retaken(p3, c), c)
    BY <1>1, <1>7, <1>8, RetakenWaits
  <1>10. /\ Waits(p3, Cured(p, finding)) /\ Sink(Cured(p, finding), c)
    BY <1>2, <1>7, <1>9, WaitsByItself
  <1>11. chained => Stands(Cured(p, finding), Record, c)
    <2>1. ASSUME chained PROVE Record \in DOMAIN p3 /\ c \in DOMAIN p3 /\ p3[c].status # "failed"
      <3>1. Record \in DOMAIN p2 /\ c \in DOMAIN p2 /\ p2[c].status = "pending"
        <4>1. p0[c].status = "pending" /\ c \in DOMAIN p0
          BY <1>3 DEF Added, NewTask
        <4>2. Waits(p0, p1) /\ Waits(p1, p2)
          BY <1>1, <1>3, <1>4, <1>5, EdgeAppendedWaits, RepointedWaits
        <4>. QED  BY <1>4, <2>1, <4>1, <4>2, WaitsOn, CureStays DEF ChainRecognised
      <3>. QED  BY <1>6, <1>7, <2>1, <3>1, CureStays DEF Waits
    <2>. QED  BY <1>7, <1>10, <2>1, StandsOn
  <1>12. Cured(p, finding)[c].kind = "cure"
    BY <1>7, <1>8, <1>10, CureStays DEF Sink
  <1>13. Waits(p, Cured(p, finding))
    BY <1>8, <1>10, WaitsOn
  <1>. QED  BY <1>10, <1>11, <1>12, <1>13 DEF c, p2

\* The sweep waits on the cure, and again if it had run.
LEMMA SweptWaits ==
    ASSUME NEW p, IsPlan(p), Sound(p), NEW c, Sink(p, c), Sweep # c,
           Sweep \in DOMAIN p => p[Sweep].kind # "cure"
    PROVE  /\ Waits(p, Swept(p, c)) /\ Sink(Swept(p, c), c)
           /\ Sweep \in DOMAIN p /\ p[Sweep].status \in {"validated", "completed"} =>
                 Stands(Swept(p, c), Sweep, c)
  <1>. DEFINE m == EdgeAppended(p, Sweep, c)
              ran == Sweep \in DOMAIN m /\ m[Sweep].status \in {"validated", "completed"}
  <1>1. /\ IsPlan(m) \/ c \notin Ids
        /\ Waits(p, m) /\ DOMAIN m = DOMAIN p /\ Sink(m, c)
        /\ \A t \in DOMAIN p : m[t].status = p[t].status /\ m[t].kind = p[t].kind
        /\ Sweep \in DOMAIN p => c \in m[Sweep].deps
    BY EdgeAppendedLeads, EdgeAppendedWaits, EdgeAppendedSink DEF Leads
  <1>2. Swept(p, c) = IF ran THEN Reopened(m, {Sweep}) ELSE m
    BY DEF Swept
  <1>3. c \in Ids
    BY DEF Sink, IsPlan
  <1>. HIDE DEF m
  <1>4. CASE ran
    <2>. DEFINE q == Reopened(m, {Sweep})
    <2>1. /\ Waits(m, q) /\ DOMAIN q = DOMAIN m /\ q[Sweep].status = "pending"
          /\ \A t \in DOMAIN m : q[t].deps = m[t].deps
      BY <1>1, <1>3, <1>4, ReopenedWaits
    <2>. HIDE DEF q
    <2>2. Waits(p, q)
      BY <1>1, <2>1, WaitsOn
    <2>3. Sink(q, c) /\ Stands(q, Sweep, c)
      BY <1>1, <1>4, <2>1 DEF Sink, Stands
    <2>. QED  BY <1>2, <1>4, <2>2, <2>3 DEF q
  <1>5. CASE ~ran
    BY <1>1, <1>2, <1>5
  <1>. QED  BY <1>4, <1>5

\* A cure pass in full: whatever it re-opens stands behind its cure.
LEMMA CurePassWaits ==
    ASSUME NEW p, IsPlan(p), Sound(p), NEW finding \in Findings, Room(p, IdsTaken(finding)),
           \A t \in Initial : t \in DOMAIN p /\ p[t].kind = "plan"
    PROVE  LET q == CurePass(p, finding)
               c == FreshId(p)
           IN  /\ Waits(p, q) /\ c \in DOMAIN q /\ q[c].kind = "cure"
               /\ \A t \in RecordsReopened(p, finding) : Stands(q, t, c)
  <1>. DEFINE c == FreshId(p)
              m == Cured(p, finding)
              q == CurePass(p, finding)
  <1>1. q = Swept(m, c)
    BY DEF CurePass
  <1>2. c \in Ids \ DOMAIN p /\ IsPlan(m) /\ Sound(m)
    BY CureStages, CuredLeads DEF Leads
  <1>3. /\ Waits(p, m) /\ Sink(m, c) /\ m[c].kind = "cure"
        /\ "lane" \in finding.paths /\ ChainRecognised(Handed(p, finding)) => Stands(m, Record, c)
    BY CuredWaits
  <1>4. m[c].status = "pending"
    BY <1>2, <1>3, CuredWrought DEF Wrought, Sink
  <1>5. \A t \in RecordsReopened(p, finding) :
            \/ t = Record /\ Record \in DOMAIN p /\ Stands(m, Record, c)
            \/ /\ t = Sweep /\ Sweep \in DOMAIN p
               /\ p[Sweep].status \in {"validated", "completed"} /\ m[Sweep].status # "pending"
    BY <1>3, RecordsAreHeld DEF RecordsReopened
  <1>. HIDE DEF m, c, q
  <1>6. Sweep # c /\ (Sweep \in DOMAIN m => m[Sweep].kind # "cure")
    <2>1. Sweep \in Initial \/ Sweep = NoTask
      BY TasksAssumption
    <2>2. NoTask \notin Ids
      BY CurePassAssumption
    <2>. QED  BY <1>2, <1>3, <2>1, <2>2 DEF Waits, IsPlan
  <1>7. /\ Waits(m, q) /\ Sink(q, c)
        /\ Sweep \in DOMAIN m /\ m[Sweep].status \in {"validated", "completed"} =>
              Stands(q, Sweep, c)
    BY <1>1, <1>2, <1>3, <1>6, SweptWaits
  <1>8. Waits(p, q) /\ c \in DOMAIN q /\ q[c].kind = "cure"
    BY <1>3, <1>7, WaitsOn, CureStays DEF Sink
  <1>9. Stands(m, Record, c) /\ Record \in DOMAIN p => Stands(q, Record, c)
    BY <1>3, <1>4, <1>7, StandsOn DEF Sink, Waits
  <1>10. ASSUME Sweep \in DOMAIN p, p[Sweep].status \in {"validated", "completed"},
                m[Sweep].status # "pending"
         PROVE  Stands(q, Sweep, c)
    BY <1>3, <1>7, <1>10 DEF Waits
  <1>. QED  BY <1>5, <1>8, <1>9, <1>10 DEF c, q

\* What was re-opened before stands behind its cures as it did, what is re-opened
\* now behind the new one.
LEMMA CuresAwait ==
    ASSUME TypeOK, Sound(plan), Await(plan, reopened), NEW finding \in Findings, NEW moved,
           Room(plan, IdsTaken(finding)), plan' = CurePass(plan, finding),
           reopened' = ReopenedAfter(plan, reopened, finding, moved)
    PROVE  Await(plan', reopened')
  <1>. DEFINE c == FreshId(plan)
              S == RecordsReopened(plan, finding)
  <1>1. /\ Waits(plan, plan') /\ c \in DOMAIN plan' /\ plan'[c].kind = "cure"
        /\ \A t \in S : Stands(plan', t, c)
    BY CurePassWaits DEF TypeOK, Await
  <1>2. c \notin DOMAIN plan /\ Wrought(plan, plan', c)
    BY CurePassWrought DEF TypeOK
  <1>3. S \subseteq DOMAIN plan \cap {Record, Sweep}
    BY RecordsAreHeld DEF RecordsReopened
  <1>4. /\ DOMAIN reopened' = DOMAIN reopened \cup S
        /\ \A t \in DOMAIN reopened' :
              /\ reopened'[t].prior = IF t \notin S THEN reopened[t].prior
                                      ELSE PriorStatus(plan, reopened, t)
              /\ reopened'[t].owners \subseteq
                    (IF t \in DOMAIN reopened THEN reopened[t].owners ELSE {})
                    \cup (IF t \in S THEN {c} ELSE {})
    BY DEF ReopenedAfter
  <1>. HIDE DEF c, S
  <1>5. \A t \in Initial : t \in DOMAIN plan' /\ plan'[t].kind = "plan"
    BY <1>1 DEF Await, Waits
  <1>6. \A t \in DOMAIN plan' : plan'[t].status \notin Settled
    <2>1. ASSUME NEW t \in DOMAIN plan' PROVE plan'[t].status \notin Settled
      BY <1>2, <2>1 DEF Await, Wrought, Settled
    <2>. QED  BY <2>1
  <1>7. DOMAIN reopened' \subseteq DOMAIN plan' \cap {Record, Sweep}
    BY <1>1, <1>3, <1>4 DEF Await, Waits
  <1>8. ASSUME NEW t \in DOMAIN reopened' PROVE reopened'[t].prior \notin Settled
    BY <1>3, <1>4 DEF Await, PriorStatus
  <1>9. ASSUME NEW t \in DOMAIN reopened', NEW o \in reopened'[t].owners
        PROVE  /\ o \in DOMAIN plan' /\ plan'[o].kind = "cure"
               /\ plan'[o].status \in Live => Stands(plan', t, o)
    <2>1. CASE o = c /\ t \in S
      BY <1>1, <2>1
    <2>2. CASE t \in DOMAIN reopened /\ o \in reopened[t].owners
      <3>1. /\ t \in DOMAIN plan /\ o \in DOMAIN plan /\ plan[o].kind = "cure"
            /\ plan[o].status \in Live => Stands(plan, t, o)
        BY <2>2 DEF Await
      <3>2. o \in DOMAIN plan' /\ plan'[o].kind = "cure" /\ plan'[o].status = plan[o].status
        BY <1>1, <3>1, CureStays
      <3>3. plan[o].status \in Live => plan[o].status # "failed"
        BY DEF Live, ActionableStatuses
      <3>. QED  BY <1>1, <3>1, <3>2, <3>3, StandsOn
    <2>. QED  BY <1>4, <1>9, <2>1, <2>2
  <1>. QED  BY <1>5, <1>6, <1>7, <1>8, <1>9 DEF Await

(* The other steps. *)

\* From p to q no edge to a live task is dropped, no task comes to life, and a
\* pending task leaves that status only once it waits on nothing.
Onward(p, q) ==
    /\ DOMAIN q = DOMAIN p
    /\ \A x \in DOMAIN p :
          /\ q[x].kind = p[x].kind
          /\ q[x].status \notin Settled
          /\ q[x].status \in Live => p[x].status \in Live
          /\ p[x].status = "pending" =>
                q[x].status = "pending" \/ p[x].deps \subseteq Having(p, SatisfiedStatuses)
          /\ \A o \in p[x].deps \cap DOMAIN p : q[o].status \in Live => o \in q[x].deps

LEMMA OnwardAwaits ==
    ASSUME NEW p, NEW q, NEW r, Await(p, r), Onward(p, q)
    PROVE  Await(q, r)
  <1>1. ASSUME NEW t \in DOMAIN p, NEW o \in DOMAIN p, Stands(p, t, o), q[o].status \in Live
        PROVE  Stands(q, t, o)
    <2>1. p[o].status \in Live /\ o \notin Having(p, SatisfiedStatuses)
      BY <1>1 DEF Onward, Live, ActionableStatuses, SatisfiedStatuses, Having
    <2>2. PICK v \in DOMAIN p : /\ p[v].status = "pending" /\ o \in p[v].deps
                                /\ v = t \/ (t = Record /\ v \in p[t].deps)
      BY <1>1 DEF Stands
    <2>3. q[v].status = "pending" /\ o \in q[v].deps
      BY <1>1, <2>1, <2>2 DEF Onward
    <2>4. CASE v = t
      BY <2>2, <2>3, <2>4 DEF Stands, Onward
    <2>5. CASE t = Record /\ v \in p[t].deps
      <3>1. v \notin Having(p, SatisfiedStatuses) /\ p[t].status = "pending"
        BY <1>1, <2>2 DEF Having, SatisfiedStatuses, Stands
      <3>2. "pending" \in Live
        BY DEF Live, ActionableStatuses
      <3>3. q[t].status = "pending" /\ v \in q[t].deps
        BY <2>3, <2>5, <3>1, <3>2 DEF Onward
      <3>. QED  BY <2>3, <2>5, <3>3 DEF Stands, Onward
    <2>. QED  BY <2>2, <2>4, <2>5
  <1>2. ASSUME NEW t \in DOMAIN r, NEW o \in r[t].owners
        PROVE  /\ o \in DOMAIN q /\ q[o].kind = "cure"
               /\ q[o].status \in Live => Stands(q, t, o)
    BY <1>1, <1>2 DEF Await, Onward
  <1>. QED  BY <1>2 DEF Await, Onward

LEMMA SamePlanOnward ==
    ASSUME Await(plan, reopened), UNCHANGED plan
    PROVE  Onward(plan, plan')
  BY DEF Await, Onward

\* New statuses alone.
LEMMA StatusesOnward ==
    ASSUME Await(plan, reopened), DOMAIN plan' = DOMAIN plan,
           \A x \in DOMAIN plan :
               /\ plan'[x].deps = plan[x].deps /\ plan'[x].kind = plan[x].kind
               /\ \/ plan'[x].status = plan[x].status
                  \/ /\ plan'[x].status \notin Settled
                     /\ plan'[x].status \in Live => plan[x].status \in Live
                     /\ \/ plan[x].status # "pending"
                        \/ plan[x].deps \subseteq Having(plan, SatisfiedStatuses)
    PROVE  Onward(plan, plan')
  BY DEF Await, Onward

\* One task rewritten.
LEMMA StatusOnward ==
    ASSUME TypeOK, Await(plan, reopened), NEW t, NEW s, s \notin Settled,
           plan' = [plan EXCEPT ![t].status = s],
           t \in DOMAIN plan => /\ plan[t].status # "pending"
                                /\ s \in Live => plan[t].status \in Live
    PROVE  Onward(plan, plan')
  <1>1. ASSUME NEW x \in DOMAIN plan
        PROVE  /\ plan'[x].deps = plan[x].deps /\ plan'[x].kind = plan[x].kind
               /\ plan'[x].status = IF x = t THEN s ELSE plan[x].status
    <2>1. plan[x] \in TaskRecord
      BY <1>1 DEF TypeOK, IsPlan
    <2>2. plan'[x] = IF x = t THEN [plan[x] EXCEPT !.status = s] ELSE plan[x]
      BY <1>1
    <2>. QED  BY <2>1, <2>2 DEF TaskRecord
  <1>2. DOMAIN plan' = DOMAIN plan
    OBVIOUS
  <1>. QED  BY <1>1, <1>2, StatusesOnward

AwaitInv == Await(plan, reopened) /\ EpisodeInv

\* A step outside the verification, and into none of its episodes.
Passes ==
    /\ Onward(plan, plan') /\ UNCHANGED reopened
    /\ pass.toVerify = {} /\ pass'.toVerify \subseteq pass.toVerify
    /\ pass'.claim = "none" /\ at' \notin {"splitting", "refute", "remedy", "void"}

LEMMA PassingAwaits == ASSUME AwaitInv, Passes PROVE AwaitInv'
  <1>1. Await(plan, reopened)'
    BY OnwardAwaits DEF AwaitInv, Passes
  <1>2. EpisodeInv'
    BY DEF EpisodeInv, Passes
  <1>. QED  BY <1>1, <1>2 DEF AwaitInv

LEMMA BoundaryAwaits ==
    ASSUME Quiet, RoundInv, ListedInv, VoidInv, AwaitInv, Boundary
    PROVE  AwaitInv'
  <1>. DEFINE Leaves == /\ pass'.claim = "none" /\ UNCHANGED reopened
                        /\ at' \notin {"splitting", "refute", "remedy", "void"}
  <1>1. pass.toVerify = {} /\ pass'.toVerify \subseteq pass.toVerify
    BY BoundaryIdles DEF RoundInv, ListedInv, Idles
  <1>2. ~RulingReapplied
    <2>1. pass.k \in Nat
      BY DEF RoundInv, TypeOK, PassRecord
    <2>2. Len(world.rulings) = 0
      BY DEF VoidInv
    <2>3. RulingReapplied => pass.k < Len(world.rulings)
      BY ONLY DEF RulingReapplied
    <2>. QED  BY ONLY <2>1, <2>2, <2>3
  <1>3. CASE PassBegins \/ BudgetGone
    <2>1. Leaves /\ UNCHANGED plan
      BY <1>3 DEF PassBegins, BudgetGone, NewPass, AwaitInv, EpisodeInv
    <2>. QED  BY <1>1, <2>1, SamePlanOnward, PassingAwaits DEF Passes, AwaitInv
  <1>4. CASE BoundaryPassed
    <2>1. ASSUME NEW x \in DOMAIN plan
          PROVE  /\ plan'[x].deps = plan[x].deps /\ plan'[x].kind = plan[x].kind
                 /\ plan'[x].status = plan[x].status
      <3>1. plan[x] \in TaskRecord
        BY <2>1 DEF RoundInv, TypeOK, IsPlan
      <3>2. plan'[x] = IF x \in world.undefer THEN [plan[x] EXCEPT !.waits = FALSE] ELSE plan[x]
        BY <1>4, <2>1 DEF BoundaryPassed
      <3>. QED  BY <3>1, <3>2 DEF TaskRecord
    <2>2. DOMAIN plan' = DOMAIN plan
      BY <1>4 DEF BoundaryPassed
    <2>3. Onward(plan, plan')
      BY <2>1, <2>2, StatusesOnward DEF AwaitInv
    <2>4. Leaves
      BY <1>4 DEF BoundaryPassed, RoundInv, TypeOK, PassRecord, AwaitInv, EpisodeInv
    <2>. QED  BY <1>1, <2>3, <2>4, PassingAwaits DEF Passes
  <1>5. /\ ~Resteered
        /\ \A deps : ~SteerInsert(deps)
        /\ \A t : ~SteerDelete(t)
        /\ \A t, deps : ~SteerRepoint(t, deps)
        /\ \A t, s : ~SteerMoves(t, s)
    BY RoundHasOnePlan DEF Quiet, SteerInsert, SteerDelete, SteerRepoint, SteerMoves
  <1>. QED  BY <1>2, <1>3, <1>4, <1>5 DEF Boundary

LEMMA SelectionAwaits ==
    ASSUME Quiet, RoundInv, ListedInv, AwaitInv, Selection
    PROVE  AwaitInv'
  <1>. DEFINE Leaves == /\ pass'.claim = "none" /\ UNCHANGED reopened
                        /\ at' \notin {"splitting", "refute", "remedy", "void"}
  <1>1. pass.toVerify = {} /\ pass'.toVerify \subseteq pass.toVerify
    BY SelectionIdles DEF RoundInv, ListedInv, Idles
  <1>2. SUFFICES Onward(plan, plan') /\ Leaves
    BY <1>1, PassingAwaits DEF Passes
  <1>3. ASSUME NEW t \in Ids, Claim(t) PROVE Onward(plan, plan') /\ Leaves
    <2>1. PICK tier : plan' = [plan EXCEPT ![t].status = "in-progress", ![t].tier = tier]
      BY <1>3 DEF Claim
    <2>2. t \in Selectable(plan) /\ t \in DOMAIN plan /\ plan[t].status \in ActionableStatuses
      BY <1>3, OfferedIsActionable DEF Claim
    <2>3. plan[t].status = "pending" => plan[t].deps \subseteq Having(plan, SatisfiedStatuses)
      BY <2>2 DEF Selectable, PendingCandidates, Having
    <2>4. ASSUME NEW x \in DOMAIN plan
          PROVE  /\ plan'[x].deps = plan[x].deps /\ plan'[x].kind = plan[x].kind
                 /\ plan'[x].status = IF x = t THEN "in-progress" ELSE plan[x].status
      <3>1. plan[x] \in TaskRecord
        BY <2>4 DEF RoundInv, TypeOK, IsPlan
      <3>2. plan'[x] = IF x = t THEN [plan[x] EXCEPT !.status = "in-progress", !.tier = tier]
                       ELSE plan[x]
        BY <2>1, <2>4
      <3>. QED  BY <3>1, <3>2 DEF TaskRecord
    <2>5. DOMAIN plan' = DOMAIN plan
      BY <2>1
    <2>6. "in-progress" \notin Settled /\ plan[t].status \in Live
      BY <2>2 DEF Settled, Live
    <2>7. Onward(plan, plan')
      BY <2>3, <2>4, <2>5, <2>6, StatusesOnward DEF AwaitInv
    <2>8. Leaves
      BY <1>3 DEF Claim, RoundInv, TypeOK, PassRecord, AwaitInv, EpisodeInv
    <2>. QED  BY <2>7, <2>8
  <1>4. CASE DoomedPlan \/ GoesToSleep \/ NoTaskToRun \/ WokenEarly \/ DeadlineWakes \/ HoldsOn
             \/ Held
    <2>1. UNCHANGED plan /\ Leaves
      BY <1>4 DEF DoomedPlan, Held, GoesToSleep, NoTaskToRun, WokenEarly, DeadlineWakes, HoldsOn,
                  RoundInv, TypeOK, PassRecord, AwaitInv, EpisodeInv
    <2>. QED  BY <2>1, SamePlanOnward DEF AwaitInv
  <1>5. CASE SleepsOut
    <2>1. PICK t : plan' = [plan EXCEPT ![t].waits = FALSE]
      BY <1>5 DEF SleepsOut, TimerElapsed
    <2>2. ASSUME NEW x \in DOMAIN plan
          PROVE  /\ plan'[x].deps = plan[x].deps /\ plan'[x].kind = plan[x].kind
                 /\ plan'[x].status = plan[x].status
      BY <2>1, <2>2 DEF RoundInv, TypeOK, IsPlan, TaskRecord
    <2>3. DOMAIN plan' = DOMAIN plan /\ Leaves
      BY <1>5, <2>1 DEF SleepsOut, AwaitInv, EpisodeInv
    <2>. QED  BY <2>2, <2>3, StatusesOnward DEF AwaitInv
  <1>. QED  BY <1>3, <1>4, <1>5, RoundHasOnePlan DEF Selection, Quiet

LEMMA IterationAwaits ==
    ASSUME Quiet, RoundInv, PassInv, HandInv, ListedInv, AwaitInv, Iteration
    PROVE  AwaitInv'
  <1>. DEFINE Leaves == /\ pass'.claim = "none" /\ UNCHANGED reopened
                        /\ at' \notin {"splitting", "refute", "remedy", "void"}
  <1>1. pass.toVerify = {} /\ pass'.toVerify \subseteq pass.toVerify
    BY IterationIdles DEF RoundInv, ListedInv, Idles
  <1>2. SUFFICES Onward(plan, plan') /\ Leaves
    BY <1>1, PassingAwaits DEF Passes
  <1>. USE DEF RoundInv
  <1>3. /\ pass.claim = "none" /\ ~SplitDone
        /\ at \in {"run", "report"} /\ pass.cur \in DOMAIN plan =>
              plan[pass.cur].status = "in-progress"
    BY DEF AwaitInv, EpisodeInv, SplitDone, HandInv, InHand, Await, Settled
  <1>4. CASE Iterates \/ PlanComplete \/ NoVerdict
    <2>1. UNCHANGED plan /\ Leaves
      BY <1>3, <1>4 DEF Iterates, PlanComplete, NoVerdict
    <2>. QED  BY <2>1, SamePlanOnward DEF AwaitInv
  <1>5. CASE SecretFound
    <2>1. /\ plan' = [plan EXCEPT ![pass.cur].status = "failed"] /\ Leaves
          /\ pass.cur \in DOMAIN plan /\ at = "run"
      BY <1>3, <1>5 DEF SecretFound
    <2>2. "failed" \notin Settled \cup Live /\ plan[pass.cur].status # "pending"
      BY <1>3, <2>1 DEF Settled, Live, ActionableStatuses
    <2>. QED  BY <2>1, <2>2, StatusOnward DEF AwaitInv
  <1>6. ASSUME NEW givesBack \in BOOLEAN, IterationFaulted(givesBack)
        PROVE  Onward(plan, plan') /\ Leaves
    <2>1. Leaves
      BY <1>3, <1>6 DEF IterationFaulted, TypeOK, PassRecord
    <2>2. CASE plan' = plan
      BY <2>1, <2>2, SamePlanOnward DEF AwaitInv
    <2>3. CASE plan' # plan
      <3>1. PICK tier : plan' = [plan EXCEPT ![pass.cur].status = pass.from,
                                             ![pass.cur].tier = tier]
        BY <1>6, <2>3 DEF IterationFaulted, GivenBack
      <3>2. pass.from \notin Settled /\ plan[pass.cur].status = "in-progress"
        BY <1>6, <2>3 DEF IterationFaulted, GivenBack, PassInv, Settled
      <3>3. ASSUME NEW x \in DOMAIN plan
            PROVE  /\ plan'[x].deps = plan[x].deps /\ plan'[x].kind = plan[x].kind
                   /\ plan'[x].status = IF x = pass.cur THEN pass.from ELSE plan[x].status
        <4>1. plan[x] \in TaskRecord
          BY <3>3 DEF TypeOK, IsPlan
        <4>2. plan'[x] = IF x = pass.cur
                         THEN [plan[x] EXCEPT !.status = pass.from, !.tier = tier] ELSE plan[x]
          BY <3>1, <3>3
        <4>. QED  BY <4>1, <4>2 DEF TaskRecord
      <3>4. DOMAIN plan' = DOMAIN plan /\ "in-progress" \in Live
        BY <3>1 DEF Live, ActionableStatuses
      <3>. QED  BY <2>1, <3>2, <3>3, <3>4, StatusesOnward DEF AwaitInv
    <2>. QED  BY <2>2, <2>3
  <1>7. /\ \A t, s, justified, touched : ~StatusReported(t, s, justified, touched)
        /\ \A claim : ~ProgressReported(claim)
        /\ \A n : ~ForcedSplit(n) /\ ~VoluntarySplit(n)
        /\ \A t, deps : ~WorkerRepoints(t, deps)
        /\ \A t : ~Unsatisfiable(t)
    BY DEF Quiet, StatusReported, ProgressReported, ForcedSplit, VoluntarySplit, WorkerRepoints,
           Unsatisfiable
  <1>8. CASE Complete
    <2>1. /\ plan' = [plan EXCEPT ![pass.cur].status = "awaiting-validation"]
          /\ pass.cur \in DOMAIN plan /\ at = "report" /\ Leaves
      BY <1>3, <1>8 DEF Complete, AtVerdict, TypeOK, PassRecord
    <2>2. /\ "awaiting-validation" \notin Settled
          /\ plan[pass.cur].status # "pending" /\ plan[pass.cur].status \in Live
      BY <1>3, <2>1 DEF Settled, Live, ActionableStatuses
    <2>. QED  BY <2>1, <2>2, StatusOnward DEF AwaitInv
  <1>9. CASE Deferred
    <2>1. /\ pass.cur \in DOMAIN plan /\ at = "report" /\ Leaves
          /\ plan' = [plan EXCEPT ![pass.cur].status = "pending", ![pass.cur].waits = TRUE]
      BY <1>3, <1>9 DEF Deferred, AtVerdict
    <2>2. ASSUME NEW x \in DOMAIN plan
          PROVE  /\ plan'[x].deps = plan[x].deps /\ plan'[x].kind = plan[x].kind
                 /\ plan'[x].status = IF x = pass.cur THEN "pending" ELSE plan[x].status
      BY <2>1, <2>2 DEF TypeOK, IsPlan, TaskRecord
    <2>3. /\ plan[pass.cur].status = "in-progress" /\ "in-progress" \in Live
          /\ "pending" \notin Settled /\ DOMAIN plan' = DOMAIN plan
      BY <1>3, <2>1 DEF Settled, Live, ActionableStatuses
    <2>. QED  BY <2>1, <2>2, <2>3, StatusesOnward DEF AwaitInv
  <1>. QED  BY <1>3, <1>4, <1>5, <1>6, <1>7, <1>8, <1>9 DEF Iteration

\* A record is restored only when all the cures that re-opened it have landed.
LEMMA ReconciledAwaits ==
    ASSUME NEW p, IsPlan(p), NEW r, Await(p, r), NEW cure, NEW touched
    PROVE  Await(Reconciled(p, r, cure, TRUE, touched), r)
  <1>. DEFINE q == Reconciled(p, r, cure, TRUE, touched)
  <1>0. Restores(p, q, r)
    BY ReconciledRestores
  <1>2. ASSUME NEW t \in DOMAIN p, q[t].status # p[t].status
        PROVE  t \in PendingReconciliation(p, r, cure)
    BY <1>2 DEF Reconciled
  <1>. HIDE DEF q
  <1>1. /\ DOMAIN q = DOMAIN p
        /\ \A t \in DOMAIN p :
              /\ q[t].deps = p[t].deps /\ q[t].kind = p[t].kind
              /\ \/ q[t].status = p[t].status
                 \/ p[t].status = "pending" /\ t \in DOMAIN r /\ q[t].status = r[t].prior
    BY <1>0 DEF Restores
  <1>3. ASSUME NEW t \in DOMAIN p, q[t].status # p[t].status
        PROVE  /\ t = Record /\ t # Sweep
               /\ \A o \in r[t].owners : p[o].status \notin Live
    <2>1. /\ t \in DOMAIN r /\ t # Sweep
          /\ \A o \in r[t].owners : p[o].status \in {"completed", "validated"}
      BY <1>2, <1>3 DEF PendingReconciliation
    <2>. QED  BY <2>1 DEF Await, Live, ActionableStatuses
  <1>4. ASSUME NEW o \in DOMAIN p, q[o].status \in Live PROVE p[o].status \in Live
    BY <1>1, <1>4 DEF Live, ActionableStatuses
  <1>5. ASSUME NEW t \in DOMAIN r, NEW o \in r[t].owners, q[o].status \in Live
        PROVE  Stands(q, t, o)
    <2>1. /\ t \in DOMAIN p /\ t \in {Record, Sweep}
          /\ o \in DOMAIN p /\ p[o].status \in Live /\ Stands(p, t, o)
      BY <1>4, <1>5 DEF Await
    <2>2. q[t].status = p[t].status
      BY <1>3, <1>5, <2>1
    <2>3. PICK v \in DOMAIN p : /\ p[v].status = "pending" /\ o \in p[v].deps
                                /\ v = t \/ (t = Record /\ v \in p[t].deps)
      BY <2>1 DEF Stands
    <2>4. q[v].status = p[v].status
      BY <1>3, <2>2, <2>3
    <2>. QED  BY <1>1, <2>1, <2>2, <2>3, <2>4 DEF Stands
  <1>6. \A t \in DOMAIN q : q[t].status \notin Settled
    BY <1>1 DEF Await
  <1>7. Await(q, r)
    BY <1>1, <1>5, <1>6 DEF Await
  <1>. QED  BY <1>7 DEF q

(* The verification. *)

\* New statuses for tasks that are not pending.
LEMMA VerdictsAwait ==
    ASSUME Await(plan, reopened), UNCHANGED reopened, DOMAIN plan' = DOMAIN plan,
           \A x \in DOMAIN plan :
               /\ plan'[x].deps = plan[x].deps /\ plan'[x].kind = plan[x].kind
               /\ \/ plan'[x].status = plan[x].status
                  \/ plan[x].status # "pending" /\ plan'[x].status \notin Settled \cup Live
    PROVE  Await(plan', reopened')
  <1>1. Onward(plan, plan')
    BY StatusesOnward
  <1>. QED  BY <1>1, OnwardAwaits

LEMMA RefutedAwaits == ASSUME TypeOK, AwaitInv, RefutedApplied PROVE AwaitInv'
  <1>. DEFINE form == Answered(pass.answers, "form")
              substance == Answered(pass.answers, "substance")
  <1>1. /\ form \cup substance \subseteq Having(plan, {"petitioned"})
        /\ form \cap substance = {}
        /\ form \cap Answered(pass.answers, "confirmed") = {}
        /\ substance \cap Answered(pass.answers, "confirmed") = {}
    BY DEF RefutedApplied, AwaitInv, EpisodeInv, Answered
  <1>2. DOMAIN plan' = DOMAIN plan /\ UNCHANGED <<reopened, pass>> /\ at = "refute"
        /\ at' \in {"remedy", "void"}
    BY DEF RefutedApplied
  <1>3. \A x \in DOMAIN plan :
            plan'[x] = CASE x \in form -> [plan[x] EXCEPT !.status = "validated"]
                         [] x \in substance -> [plan[x] EXCEPT !.status = "failed"]
                         [] OTHER -> plan[x]
    BY DEF RefutedApplied
  <1>4. Answered(pass.answers, "confirmed") \subseteq Having(plan, {"petitioned"})
    BY <1>2 DEF AwaitInv, EpisodeInv
  <1>. HIDE DEF form, substance
  <1>5. ASSUME NEW x \in DOMAIN plan
        PROVE  /\ plan'[x].deps = plan[x].deps /\ plan'[x].kind = plan[x].kind
               /\ plan'[x].status = IF x \in form THEN "validated"
                                    ELSE IF x \in substance THEN "failed" ELSE plan[x].status
    <2>1. plan[x] \in TaskRecord
      BY <1>5 DEF TypeOK, IsPlan
    <2>2. \/ x \in form /\ plan'[x] = [plan[x] EXCEPT !.status = "validated"]
          \/ x \notin form /\ x \in substance /\ plan'[x] = [plan[x] EXCEPT !.status = "failed"]
          \/ x \notin form /\ x \notin substance /\ plan'[x] = plan[x]
      BY <1>1, <1>3, <1>5
    <2>. QED  BY <2>1, <2>2 DEF TaskRecord
  <1>6. ASSUME NEW x \in DOMAIN plan, x \in form \cup substance PROVE plan[x].status = "petitioned"
    BY <1>1, <1>6 DEF Having
  <1>7. {"validated", "failed"} \cap (Settled \cup Live) = {}
    BY DEF Settled, Live, ActionableStatuses
  <1>8. Await(plan', reopened')
    BY <1>2, <1>5, <1>6, <1>7, VerdictsAwait DEF AwaitInv
  <1>9. /\ pass'.toVerify \subseteq Having(plan', {"awaiting-validation"})
        /\ Answered(pass'.answers, "confirmed") \subseteq Having(plan', {"petitioned"})
    <2>1. pass.toVerify \subseteq Having(plan, {"awaiting-validation"})
      BY DEF AwaitInv, EpisodeInv
    <2>2. \A x \in pass.toVerify : x \in DOMAIN plan /\ plan'[x].status = "awaiting-validation"
      BY <1>5, <1>6, <2>1 DEF Having
    <2>3. \A x \in Answered(pass.answers, "confirmed") :
              x \in DOMAIN plan /\ plan'[x].status = "petitioned"
      BY <1>1, <1>4, <1>5 DEF Having
    <2>. QED  BY <1>2, <2>2, <2>3 DEF Having
  <1>10. EpisodeInv'
    BY <1>2, <1>9 DEF EpisodeInv, AwaitInv
  <1>. QED  BY <1>8, <1>10 DEF AwaitInv

LEMMA RemedyAwaits ==
    ASSUME TypeOK, Sound(plan), AwaitInv, NEW moved, RemedyInserted(moved)
    PROVE  AwaitInv'
  <1>. DEFINE finding == [named |-> Answered(pass.answers, "substance"), paths |-> {}]
  <1>1. finding \in Findings /\ Room(plan, IdsTaken(finding)) /\ finding.paths = {}
    <2>1. Answered(pass.answers, "substance") \in SUBSET Ids
      BY AnsweredIsKnown DEF TypeOK, PassRecord
    <2>2. Room(plan, 1)
      BY DEF RemedyInserted
    <2>. QED  BY <2>1, <2>2, FS_EmptySet DEF Findings, IdsTaken
  <1>2. /\ plan' = CurePass(plan, finding)
        /\ reopened' = ReopenedAfter(plan, reopened, finding, moved)
    BY DEF RemedyInserted
  <1>3. UNCHANGED pass /\ at = "remedy" /\ at' = "void"
    BY DEF RemedyInserted
  <1>. HIDE DEF finding
  <1>4. Await(plan', reopened')
    BY <1>1, <1>2, CuresAwait DEF AwaitInv
  <1>5. Wrought(plan, plan', FreshId(plan)) /\ Redoes(plan, plan')
    BY <1>1, <1>2, CurePassWrought DEF TypeOK
  <1>6. \A s : s \notin {"validated", "completed"} => Having(plan, {s}) \subseteq Having(plan', {s})
    BY <1>5 DEF Wrought, Redoes, Having
  <1>7. /\ pass'.toVerify \subseteq Having(plan', {"awaiting-validation"})
        /\ Answered(pass'.answers, "confirmed") \subseteq Having(plan', {"petitioned"})
    BY <1>3, <1>6 DEF AwaitInv, EpisodeInv
  <1>8. EpisodeInv'
    BY <1>3, <1>7 DEF EpisodeInv, AwaitInv
  <1>. QED  BY <1>4, <1>8 DEF AwaitInv

LEMMA ConfirmedAwaits ==
    ASSUME Quiet, TypeOK, AwaitInv, NEW by \in Ids \cup {NoTask}, ConfirmedApplied(by)
    PROVE  AwaitInv'
  <1>. DEFINE voided == Answered(pass.answers, "confirmed")
  <1>1. by = NoTask
    BY DEF ConfirmedApplied, Quiet, OneRound
  <1>2. NoTask \notin DOMAIN plan
    BY CurePassAssumption DEF TypeOK, IsPlan
  <1>3. /\ at = "void" /\ at' = pass.then /\ UNCHANGED reopened
        /\ pass' = [pass EXCEPT !.answers = NoAnswers] /\ DOMAIN plan' = DOMAIN plan
    BY DEF ConfirmedApplied
  <1>4. voided \subseteq Having(plan, {"petitioned"})
    BY <1>3 DEF AwaitInv, EpisodeInv
  <1>5. ASSUME NEW x \in DOMAIN plan
        PROVE  /\ plan'[x].deps = plan[x].deps \ voided /\ plan'[x].kind = plan[x].kind
               /\ plan'[x].status = IF x \in voided THEN "skipped" ELSE plan[x].status
    <2>1. plan[x] \in TaskRecord
      BY <1>5 DEF TypeOK, IsPlan
    <2>2. plan'[x] = [plan[x] EXCEPT !.status = IF x \in voided THEN "skipped" ELSE @,
                                     !.deps = EdgeOfVoided(plan, x, by)]
      BY <1>5 DEF ConfirmedApplied
    <2>3. EdgeOfVoided(plan, x, by) = plan[x].deps \ voided
      BY <1>1, <1>2 DEF EdgeOfVoided
    <2>. HIDE DEF voided
    <2>. QED  BY <2>1, <2>2, <2>3 DEF TaskRecord
  <1>. HIDE DEF voided
  <1>6. Onward(plan, plan')
    <2>1. \A x \in voided \cap DOMAIN plan :
              plan[x].status = "petitioned" /\ plan'[x].status \notin Settled \cup Live
      BY <1>4, <1>5 DEF Having, Settled, Live, ActionableStatuses
    <2>. QED  BY <1>3, <1>5, <2>1 DEF Onward, AwaitInv, Await
  <1>7. Await(plan', reopened')
    BY <1>3, <1>6, OnwardAwaits DEF AwaitInv
  <1>8. pass'.toVerify \subseteq Having(plan', {"awaiting-validation"})
    BY <1>3, <1>4, <1>5 DEF AwaitInv, EpisodeInv, Having, TypeOK, PassRecord
  <1>9. at' \notin {"splitting", "refute", "remedy", "void"} /\ pass'.claim = pass.claim
    BY <1>3 DEF TypeOK, PassRecord
  <1>10. EpisodeInv'
    BY <1>8, <1>9 DEF EpisodeInv, AwaitInv
  <1>. QED  BY <1>7, <1>10 DEF AwaitInv

\* A landed task may restore records, but none of those listed beside it is one.
LEMMA PassedAwaits ==
    ASSUME TypeOK, AwaitInv, NEW t, NEW touched, VerifyPasses(t, touched)
    PROVE  AwaitInv'
  <1>. DEFINE p == [plan EXCEPT ![t].status = "validated"]
  <1>1. /\ plan' = Lands(p, t, "validated", touched) /\ UNCHANGED <<reopened, at>> /\ at = "verify"
        /\ t \in pass.toVerify
        /\ pass' = [pass EXCEPT !.toVerify = @ \ {t}, !.stirred = TRUE]
    BY DEF VerifyPasses, Listed
  <1>2. IsPlan(p) /\ DOMAIN p = DOMAIN plan
    BY StatusWritten DEF Statuses, TypeOK
  <1>3. t \in DOMAIN plan /\ plan[t].status = "awaiting-validation"
    BY <1>1 DEF AwaitInv, EpisodeInv, Having
  <1>4. ASSUME NEW x \in DOMAIN plan
        PROVE  /\ p[x].deps = plan[x].deps /\ p[x].kind = plan[x].kind
               /\ p[x].status = IF x = t THEN "validated" ELSE plan[x].status
    BY <1>4 DEF TypeOK, IsPlan, TaskRecord
  <1>. HIDE DEF p
  <1>5. Onward(plan, p)
    BY <1>2, <1>3, <1>4 DEF Onward, AwaitInv, Await, Settled, Live, ActionableStatuses
  <1>6. Await(p, reopened)
    BY <1>5, OnwardAwaits DEF AwaitInv
  <1>7. Await(plan', reopened')
    BY <1>1, <1>2, <1>6, ReconciledAwaits DEF Lands
  <1>8. Restores(p, plan', reopened)
    BY <1>1, <1>2, LandsRestores
  <1>9. ASSUME NEW x \in pass'.toVerify
        PROVE  x \in DOMAIN plan' /\ plan'[x].status = "awaiting-validation"
    <2>1. x \in pass.toVerify /\ x # t
      BY <1>1, <1>9 DEF TypeOK, PassRecord
    <2>2. x \in DOMAIN plan /\ plan[x].status = "awaiting-validation"
      BY <2>1 DEF AwaitInv, EpisodeInv, Having
    <2>. QED  BY <1>2, <1>4, <1>8, <2>1, <2>2 DEF Restores
  <1>10. EpisodeInv'
    BY <1>1, <1>9 DEF EpisodeInv, AwaitInv, Having, TypeOK, PassRecord
  <1>. QED  BY <1>7, <1>10 DEF AwaitInv

LEMMA RejectedAwaits == ASSUME TypeOK, AwaitInv, NEW t, VerifyRejects(t) PROVE AwaitInv'
  <1>1. /\ UNCHANGED reopened /\ t \in pass.toVerify /\ at' \in {"verify", "adjudicate"}
        /\ pass' = [pass EXCEPT !.toVerify = @ \ {t}, !.stirred = TRUE, !.then = "verify"]
    BY DEF VerifyRejects, Listed
  <1>2. PICK s \in {"validation-failed", "petitioned", "failed"} :
            plan' = [plan EXCEPT ![t].tries = @ + 1, ![t].status = s]
    BY DEF VerifyRejects
  <1>3. t \in DOMAIN plan /\ plan[t].status = "awaiting-validation"
    BY <1>1 DEF AwaitInv, EpisodeInv, Having
  <1>4. ASSUME NEW x \in DOMAIN plan
        PROVE  /\ plan'[x].deps = plan[x].deps /\ plan'[x].kind = plan[x].kind
               /\ plan'[x].status = IF x = t THEN s ELSE plan[x].status
    <2>1. plan[x] \in TaskRecord
      BY <1>4 DEF TypeOK, IsPlan
    <2>2. plan'[x] = IF x = t THEN [plan[x] EXCEPT !.tries = @ + 1, !.status = s] ELSE plan[x]
      BY <1>2, <1>4
    <2>. QED  BY <2>1, <2>2 DEF TaskRecord
  <1>5. DOMAIN plan' = DOMAIN plan
    BY <1>2
  <1>6. Onward(plan, plan')
    BY <1>3, <1>4, <1>5 DEF Onward, AwaitInv, Await, Settled, Live, ActionableStatuses
  <1>7. Await(plan', reopened')
    BY <1>1, <1>6, OnwardAwaits DEF AwaitInv
  <1>8. ASSUME NEW x \in pass'.toVerify
        PROVE  x \in DOMAIN plan' /\ plan'[x].status = "awaiting-validation"
    <2>1. x \in pass.toVerify /\ x # t
      BY <1>1, <1>8 DEF TypeOK, PassRecord
    <2>. QED  BY <1>4, <1>5, <2>1 DEF AwaitInv, EpisodeInv, Having
  <1>9. EpisodeInv'
    BY <1>1, <1>8 DEF EpisodeInv, AwaitInv, Having, TypeOK, PassRecord
  <1>. QED  BY <1>7, <1>9 DEF AwaitInv

LEMMA VerificationAwaits ==
    ASSUME Quiet, ~On("midplan"), RoundInv, AwaitInv, Verification
    PROVE  AwaitInv'
  <1>. USE DEF RoundInv
  <1>1. CASE VerificationListed
    <2>1. \A x \in DOMAIN plan : plan[x].status # "completed"
      BY DEF AwaitInv, Await, Settled
    <2>2. /\ DOMAIN plan' = DOMAIN plan /\ \A x \in DOMAIN plan : plan'[x] = plan[x]
          /\ UNCHANGED reopened /\ pass'.toVerify = Having(plan', {"awaiting-validation"})
          /\ pass'.claim = pass.claim /\ at' \in {"tally", "adjudicate"}
      BY <1>1, <2>1 DEF VerificationListed, Relabelled, TypeOK, PassRecord
    <2>3. Await(plan', reopened')
      BY <2>2, VerdictsAwait DEF AwaitInv
    <2>. QED  BY <2>2, <2>3 DEF AwaitInv, EpisodeInv
  <1>2. CASE AdjudicationSkipped \/ MidPlanSkipped \/ CurePassCounted \/ VerificationOver
    <2>1. /\ UNCHANGED <<plan, reopened, pass>>
          /\ at' \notin {"splitting", "refute", "remedy", "void"}
      BY <1>2 DEF AdjudicationSkipped, MidPlanSkipped, CurePassCounted, VerificationOver, TypeOK,
                  PassRecord
    <2>. QED  BY <2>1 DEF AwaitInv, EpisodeInv
  <1>3. CASE Adjudicated
    <2>1. PICK answers \in Adjudications : AdjudicationRecorded(answers)
      BY <1>3 DEF Adjudicated
    <2>2. /\ pass' = [pass EXCEPT !.answers = answers, !.stirred = TRUE] /\ at' = "refute"
          /\ UNCHANGED <<plan, reopened>>
      BY <1>3, <2>1 DEF Adjudicated, AdjudicationRecorded
    <2>3. DOMAIN answers \subseteq Having(plan, {"petitioned"})
      BY DEF Adjudications, OpenPetitions
    <2>4. Answered(answers, "confirmed") \subseteq DOMAIN answers
      BY DEF Answered
    <2>. QED  BY <2>2, <2>3, <2>4 DEF AwaitInv, EpisodeInv, TypeOK, PassRecord
  <1>4. ASSUME NEW by \in Ids \cup {NoTask}, ConfirmedApplied(by) PROVE AwaitInv'
    BY <1>4, ConfirmedAwaits
  <1>5. CASE MidPlanReviewed
    BY <1>5 DEF MidPlanReviewed, MidPlanReviewDue
  <1>6. ASSUME NEW t, VerifyMute(t) PROVE AwaitInv'
    BY <1>6 DEF VerifyMute, AwaitInv, EpisodeInv, TypeOK, PassRecord
  <1>. QED  BY <1>1, <1>2, <1>3, <1>4, <1>5, <1>6, RefutedAwaits, RemedyAwaits, PassedAwaits,
               RejectedAwaits
            DEF Verification

(* Judgement. *)

LEMMA JudgementAwaits ==
    ASSUME Quiet, RoundInv, ListedInv, AwaitInv, Judgement \/ Killed
    PROVE  AwaitInv'
  <1>. USE DEF RoundInv
  <1>1. ASSUME UNCHANGED <<plan, reopened>>, pass' = pass \/ pass' = NewPass,
               at' \notin {"splitting", "refute", "remedy", "void"}
        PROVE  AwaitInv'
    BY <1>1 DEF AwaitInv, EpisodeInv, NewPass
  <1>2. CASE TallyApplied \/ BreakerTrips \/ TallyPassedOver \/ ReviewUnaffordable
             \/ ReviewRejects \/ ReviewEnds \/ OutOfApproaches
    BY <1>1, <1>2 DEF TallyApplied, BreakerTrips, TallyPassedOver, ReviewUnaffordable,
                      ReviewRejects, ReviewEnds, OutOfApproaches
  <1>3. ASSUME NEW activity, Tally(activity) PROVE AwaitInv'
    BY <1>1, <1>3 DEF Tally
  <1>4. ~BacksOff
    <2>1. Repolls = 0
      BY DEF Repolls, AwaitInv, EpisodeInv
    <2>2. ~(0 >= RepollMax)
      BY TasksAssumption
    <2>. QED  BY <2>1, <2>2 DEF BacksOff
  <1>5. CASE ReviewAnswers
    <2>1. PICK f \in Adjudications : pass' = [NewPass EXCEPT !.answers = f, !.then = "reviewed"]
      BY <1>5 DEF ReviewAnswers
    <2>2. /\ DOMAIN f \subseteq Having(plan, {"petitioned"})
          /\ Answered(f, "confirmed") \subseteq DOMAIN f
      BY DEF Adjudications, OpenPetitions, Answered
    <2>3. pass'.answers = f /\ pass'.claim = "none" /\ pass'.toVerify = {}
      BY <2>1 DEF NewPass
    <2>4. UNCHANGED <<plan, reopened>> /\ at' = "refute"
      BY <1>5 DEF ReviewAnswers
    <2>. QED  BY <2>2, <2>3, <2>4 DEF AwaitInv, EpisodeInv
  <1>6. CASE ReviewCured
    <2>1. PICK finding \in ReviewFindings, moved \in BOOLEAN :
              Curable(finding) /\ CuresInserted(finding, moved)
      BY <1>6 DEF ReviewCured
    <2>2. Await(plan', reopened')
      BY <2>1, FindingsType, CuresAwait DEF Curable, CuresInserted, AwaitInv
    <2>3. pass.toVerify = {} /\ at' = "counted" /\ pass' = [pass EXCEPT !.then = "top"]
      BY <1>6, <2>1 DEF ReviewCured, CuresInserted, ListedInv, Verifying
    <2>. QED  BY <2>2, <2>3 DEF AwaitInv, EpisodeInv, TypeOK, PassRecord
  <1>7. \A worded : ~Replanned(worded)
    BY RoundHasOnePlan DEF Quiet
  <1>8. CASE Killed
    BY <1>1, <1>8 DEF Killed, ResumesAt
  <1>. QED  BY <1>2, <1>3, <1>4, <1>5, <1>6, <1>7, <1>8 DEF Judgement

LEMMA AwaitStep ==
    ASSUME Quiet, ~On("midplan"), RoundInv, PassInv, HandInv, ListedInv, VoidInv, AwaitInv,
           [Next]_vars
    PROVE  AwaitInv'
  <1>1. CASE Operator \/ Over \/ UNCHANGED vars
    <2>1. UNCHANGED <<plan, reopened, at, pass>>
      BY <1>1 DEF Operator, SteeringArrives, TimeRunsOut, UndeferRequested, RulingGiven, Over, vars
    <2>. QED  BY <2>1 DEF AwaitInv, EpisodeInv
  <1>. QED  BY <1>1, BoundaryAwaits, SelectionAwaits, IterationAwaits, VerificationAwaits,
               JudgementAwaits
            DEF Next, Engine

\* Where the engine alone edits the plan, in one approach and without a mid-plan review,
\* a record that a cure pass re-opens (insert_cure_tasks) stands behind its cure in the
\* graph until that cure is done with: it is not validated before, neither by its own
\* worker nor by the restoration that another task's verdict brings
\* (records_pending_reconciliation), whichever kills the run is cut off by.
THEOREM CuresAwaited ==
    ASSUME Quiet, ~On("midplan")
    PROVE  Spec => []CuresComeFirst
  <1>. DEFINE Inv == RoundInv /\ PassInv /\ HandInv /\ Attempts /\ ListedInv /\ AnswerInv
                     /\ VoidInv /\ AwaitInv
  <1>1. Init => Inv
    <2>1. Init => /\ DOMAIN plan = Initial /\ world.rulings = <<>>
                  /\ \A t \in DOMAIN plan : plan[t].status = "pending" /\ plan[t].kind = "plan"
      BY DEF Init, FreshPlans, NewTask
    <2>2. Init => DOMAIN reopened = {}
      BY DEF Init, NoReopen
    <2>3. Init => VoidInv
      BY <2>1, <2>2 DEF Init, NewStatus, VoidInv, Dropped
    <2>4. Init => Await(plan, reopened)
      BY <2>1, <2>2 DEF Await, Settled
    <2>5. Init => ListedInv /\ EpisodeInv
      BY DEF Init, NewPass, ListedInv, EpisodeInv
    <2>. QED  BY <2>3, <2>4, <2>5, RoundInit, InitPass, InitAttempts, InitAnswers
              DEF Quiet, AwaitInv
  <1>2. Inv /\ [Next]_vars => Inv'
    <2>1. ASSUME Inv, [Next]_vars PROVE Inv'
      <3>1. TypeOK /\ OneRound
        BY <2>1 DEF RoundInv, Quiet
      <3>2. RoundInv' /\ TypeOK'
        BY <2>1, <3>1, RoundStep DEF RoundInv
      <3>3. PassInv' /\ ListedInv'
        BY <2>1, <3>1, PassStep, ListedStep
      <3>4. HandInv'
        BY <2>1, <3>1, <3>2, HandStep
      <3>5. Attempts'
        BY <2>1, <3>1, <3>2, AttemptsStep
      <3>6. AnswerInv' /\ VoidInv' /\ AwaitInv'
        BY <2>1, <3>3, AnswerStep, VoidStep, AwaitStep
      <3>. QED  BY <3>2, <3>3, <3>4, <3>5, <3>6
    <2>. QED  BY <2>1
  <1>3. Inv => CuresComeFirst
    <2>1. "validated" # "pending" /\ ActionableStatuses \subseteq Live
      BY DEF Live
    <2>. QED  BY <2>1 DEF AwaitInv, Await, Stands, CuresComeFirst
  <1>. QED  BY <1>1, <1>2, <1>3, PTL DEF Spec

=============================================================================
