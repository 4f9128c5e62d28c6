------------------------------ MODULE CurePass ------------------------------
(***************************************************************************)
(* What a cure pass does to the plan (engine/state.py, insert_cure_tasks)  *)
(* and how a record it re-opened may be restored once its cures have       *)
(* landed (records_pending_reconciliation, engine/loop.py).                *)
(*                                                                         *)
(* A blocking finding is a record: `named`, the task ids its clause and    *)
(* evidence name, and `paths`, the evidence files it invalidates: "lane",  *)
(* which the plan's own record task Record cites, or "other", which no     *)
(* record cites.                                                           *)
(***************************************************************************)
EXTENDS TaskStatus

CONSTANTS
    Ids,            \* every task id a plan may ever hold: 1..n
    Record,         \* the plan's lane-evidence record
    OrderingOnly,   \* the dependencies Record declares orderingOnly
    Freeze,         \* the plan's named last-code-touching task
    Sweep           \* the plan's sweep task

NoTask == 0

ASSUME CurePassAssumption ==
    /\ Ids \subseteq Nat \ {NoTask}
    /\ {Record, Freeze, Sweep} \subseteq Ids \cup {NoTask}

\* `retake` marks the engine's own re-take tasks; `parent` is splitFrom.
NewTask(kind, deps, parent) ==
    [status |-> "pending", deps |-> deps, waits |-> FALSE, tries |-> 0,
     tier |-> 0, kind |-> kind, parent |-> parent]

Kinds == {"plan", "worker", "steer", "cure", "retake"}
EngineAuthored == {"cure", "retake"}

Room(plan, n) == Cardinality(Ids \ DOMAIN plan) >= n
FreshId(plan) == CHOOSE i \in Ids \ DOMAIN plan : \A j \in Ids \ DOMAIN plan : i <= j

Added(plan, i, task) == [t \in DOMAIN plan \cup {i} |-> IF t = i THEN task ELSE plan[t]]

\* One edge more, unless validation refuses it.
EdgeAppended(plan, t, d) ==
    IF t \notin DOMAIN plan THEN plan
    ELSE [plan EXCEPT ![t].deps = ValidEdges(DepsOf(plan), t, plan[t].deps \cup {d})]

\* The dependents of the failed tasks F wait for the cure instead.
Repointed(plan, F, c) ==
    [t \in DOMAIN plan |->
        IF plan[t].deps \cap F = {} THEN plan[t]
        ELSE [plan[t] EXCEPT !.deps =
                ValidEdges(DepsOf(plan), t, (plan[t].deps \ F) \cup {c})]]

\* _lane_evidence_record_chain: the record counts when a task the plan itself
\* holds precedes it; what it merely follows in order took no evidence.
ChainRecognised(plan) ==
    /\ Record \in DOMAIN plan /\ plan[Record].kind \notin EngineAuthored
    /\ \E v \in plan[Record].deps \cap DOMAIN plan : plan[v].kind \notin EngineAuthored

VerificationTasks(plan) ==
    {v \in plan[Record].deps \cap DOMAIN plan :
        plan[v].kind \notin EngineAuthored /\ v \notin OrderingOnly}

\* Back to pending with the attempts of the earlier round put aside.
Reopened(plan, S) ==
    [t \in DOMAIN plan |-> IF t \in S THEN [plan[t] EXCEPT !.status = "pending", !.tries = 0]
                           ELSE plan[t]]

\* Cure, then its verification steps, then the record.  A record left with no
\* step of its own waits on the cure itself.
ChainReopened(plan, c) ==
    LET steps == VerificationTasks(plan)
        behind == IF steps = {} THEN {Record} ELSE steps
        p == Reopened(plan, {Record} \cup steps)
    IN  [t \in DOMAIN p |->
            IF t \in behind
            THEN [p[t] EXCEPT !.deps = ValidEdges(DepsOf(p), t, p[t].deps \cup {c})]
            ELSE p[t]]

\* A re-take none of whose dependencies is dead is used again.
ExistingRetakes(plan) ==
    {t \in DOMAIN plan : plan[t].kind = "retake" /\ plan[t].deps \cap Having(plan, DeadStatuses) = {}}

Retaken(plan, c) ==
    IF ExistingRetakes(plan) # {}
    THEN LET r == CHOOSE x \in ExistingRetakes(plan) : \A y \in ExistingRetakes(plan) : x <= y
         IN  EdgeAppended(Reopened(plan, {r}), r, c)
    ELSE Added(plan, FreshId(plan), NewTask("retake", {c}, NoTask))

\* The cure is in the plan, and the freeze waits for it, and what waited for a
\* failed task that the finding names.
Handed(plan, finding) ==
    LET c == FreshId(plan)
        p == EdgeAppended(Added(plan, c, NewTask("cure", {}, NoTask)), Freeze, c)
    IN  Repointed(p, finding.named \cap Having(p, {"failed"}), c)

\* insert_cure_tasks, for one finding; c is the cure's id.
Cured(plan, finding) ==
    LET c == FreshId(plan)
        p2 == Handed(plan, finding)
        p3 == IF "lane" \in finding.paths
              THEN IF ChainRecognised(p2) THEN ChainReopened(p2, c) ELSE Retaken(p2, c)
              ELSE p2
    IN  IF "other" \in finding.paths THEN Retaken(p3, c) ELSE p3

\* Mutant (a plausible bug): the sweep is re-opened, not held behind the cures.
SweptUnheld(plan, c) ==
    IF Sweep \in DOMAIN plan /\ plan[Sweep].status \in {"validated", "completed"}
    THEN Reopened(plan, {Sweep}) ELSE plan

\* The sweep waits on the pass's cures and runs again.
Swept(plan, c) ==
    LET p == EdgeAppended(plan, Sweep, c)
    IN  IF Sweep \in DOMAIN p /\ p[Sweep].status \in {"validated", "completed"}
        THEN Reopened(p, {Sweep}) ELSE p

\* The ids one finding may take.
IdsTaken(finding) == 1 + Cardinality(finding.paths)

CurePass(plan, finding) == Swept(Cured(plan, finding), FreshId(plan))

(***************************************************************************)
(* status.json's preCureHeads, preCureStatuses and the events that name    *)
(* the owners: what each record held before it was re-opened, and the      *)
(* cures that re-opened it since HEAD last moved.                          *)
(***************************************************************************)
NoReopen == [t \in {} |-> [prior |-> "pending", owners |-> {}]]

RecordsReopened(plan, finding) ==
    LET p == Cured(plan, finding)
        chained == "lane" \in finding.paths /\ ChainRecognised(Handed(plan, finding))
    IN  (IF chained THEN {Record} ELSE {})
        \cup (IF Sweep \in DOMAIN plan /\ plan[Sweep].status \in {"validated", "completed"}
                 /\ p[Sweep].status # "pending"
              THEN {Sweep} ELSE {})

PriorStatus(plan, reopened, t) ==
    IF plan[t].status = "pending" /\ t \in DOMAIN reopened THEN reopened[t].prior
    ELSE plan[t].status

\* moved: HEAD is no longer where the live baseline of the record was taken.
ReopenedAfter(plan, reopened, finding, moved) ==
    LET S == RecordsReopened(plan, finding)
        c == FreshId(plan)
    IN  [t \in DOMAIN reopened \cup S |->
            IF t \notin S THEN reopened[t]
            ELSE [prior |-> PriorStatus(plan, reopened, t),
                  owners |-> (IF t \in DOMAIN reopened /\ ~moved THEN reopened[t].owners
                              ELSE {}) \cup {c}]]

\* The records of which `cure`, just landed, was the last owner to land.  The
\* sweep is never among them.
PendingReconciliation(plan, reopened, cure) ==
    {t \in DOMAIN reopened \cap DOMAIN plan :
        /\ t # Sweep
        /\ plan[t].status = "pending"
        /\ cure \in reopened[t].owners
        /\ \A o \in reopened[t].owners :
                o \in DOMAIN plan /\ plan[o].status \in {"completed", "validated"}}

\* touched: the cures' diff touches a path the record cites, or is unknown.
Reconciled(plan, reopened, cure, vigilant, touched) ==
    LET back == IF touched THEN {} ELSE PendingReconciliation(plan, reopened, cure)
    IN  [t \in DOMAIN plan |->
            IF t \in back
            THEN Moved(plan, t, reopened[t].prior, vigilant, TRUE, FALSE)[t]
            ELSE plan[t]]

=============================================================================
