----------------------------- MODULE TasksProofs -----------------------------
(***************************************************************************)
(* The worker's step, for every value of the constants: any plan, limits,  *)
(* budgets and features.                                                   *)
(***************************************************************************)
EXTENDS TaskProperties, FiniteSetTheorems, WellFoundedInduction, TLAPS

(***************************************************************************)
(* Fresh ids.                                                              *)
(***************************************************************************)
LEMMA LeastExists ==
    ASSUME NEW S, S \subseteq Nat, S # {}
    PROVE  \E x \in S : \A y \in S : x <= y
  <1>. DEFINE R == OpToRel(<, Nat)
  <1>1. IsWellFoundedOn(R, Nat)
    BY NatLessThanWellFounded
  <1>2. ASSUME NEW x \in S, NEW y \in S, ~(<<y, x>> \in R)
        PROVE  x <= y
    BY <1>2 DEF OpToRel
  <1>. HIDE DEF R
  <1>3. \E x \in S : \A y \in S : ~(<<y, x>> \in R)
    BY <1>1, WFMin
  <1>. QED  BY <1>2, <1>3

\* With room for one task there is an id for it that no task of the plan has.
LEMMA FreshIdIsFree ==
    ASSUME NEW p, DOMAIN p \subseteq Ids, Room(p, 1)
    PROVE  FreshId(p) \in Ids \ DOMAIN p
  <1>. DEFINE Free == Ids \ DOMAIN p
  <1>1. Free # {}
    <2>1. SUFFICES ASSUME Free = {} PROVE FALSE
      OBVIOUS
    <2>2. Cardinality(Free) = 0
      BY <2>1, FS_EmptySet
    <2>. QED  BY <2>2 DEF Room
  <1>2. \E i \in Free : \A j \in Free : i <= j
    BY <1>1, LeastExists, CurePassAssumption
  <1>. QED  BY <1>2 DEF FreshId

LEMMA RoomAfterOne ==
    ASSUME NEW p, DOMAIN p \subseteq Ids, NEW n \in Nat, Room(p, n + 1), NEW i, NEW task
    PROVE  Room(Added(p, i, task), n)
  <1>. DEFINE Free == Ids \ DOMAIN p
  <1>1. IsFiniteSet(Free)
    BY FS_Subset, TasksAssumption
  <1>2. Cardinality(Free) \in Nat
    BY <1>1, FS_CardinalityType
  <1>3. Cardinality(Free \ {i}) >= Cardinality(Free) - 1
    BY <1>1, <1>2, FS_RemoveElement
  <1>4. Ids \ DOMAIN Added(p, i, task) = Free \ {i}
    BY DEF Added
  <1>5. IsFiniteSet(Free \ {i}) /\ Cardinality(Free \ {i}) \in Nat
    BY <1>1, FS_RemoveElement, FS_CardinalityType
  <1>. QED  BY <1>2, <1>3, <1>4, <1>5 DEF Room

LEMMA RoomForLess ==
    ASSUME NEW p, DOMAIN p \subseteq Ids, NEW n \in Nat, NEW m \in Nat, m <= n, Room(p, n)
    PROVE  Room(p, m)
  <1>1. IsFiniteSet(Ids \ DOMAIN p)
    BY FS_Subset, TasksAssumption
  <1>2. Cardinality(Ids \ DOMAIN p) \in Nat
    BY <1>1, FS_CardinalityType
  <1>. QED  BY <1>2 DEF Room

(***************************************************************************)
(* What the plan's operators make of a plan.                               *)
(***************************************************************************)
\* No task is rejected, and none climbs a tier, on the way from p to q.
Tame(p, q) ==
    \A t \in DOMAIN q :
        IF t \in DOMAIN p
        THEN q[t].tier = p[t].tier
             /\ (q[t].status = "validation-failed" => p[t].status = "validation-failed")
        ELSE q[t].tier = 0 /\ q[t].status # "validation-failed"

Leads(p, q) == DOMAIN p \subseteq DOMAIN q /\ IsPlan(q) /\ Tame(p, q)

LEMMA LeadsOn ==
    ASSUME NEW p, NEW q, NEW r, Leads(p, q), Leads(q, r)
    PROVE  Leads(p, r)
  BY DEF Leads, Tame

LEMMA LeadsToItself == ASSUME NEW p, IsPlan(p) PROVE Leads(p, p)
  BY DEF Leads, Tame

LEMMA KeptEdges ==
    ASSUME NEW deps, NEW t, NEW C, C \subseteq Ids
    PROVE  ValidEdges(deps, t, C) \in SUBSET Ids
  BY DEF ValidEdges

LEMMA NewTaskIsTask ==
    ASSUME NEW kind \in Kinds, NEW deps \in SUBSET Ids, NEW parent \in Ids \cup {NoTask}
    PROVE  /\ NewTask(kind, deps, parent) \in TaskRecord
           /\ NewTask(kind, deps, parent).tier = 0
           /\ NewTask(kind, deps, parent).status = "pending"
  BY DEF NewTask, TaskRecord, Statuses

LEMMA AddedLeads ==
    ASSUME NEW p, IsPlan(p), NEW i \in Ids \ DOMAIN p, NEW task \in TaskRecord,
           task.tier = 0, task.status = "pending"
    PROVE  Leads(p, Added(p, i, task))
  BY DEF Added, IsPlan, Leads, Tame

\* New edges alone.
LEMMA EdgesLead ==
    ASSUME NEW p, IsPlan(p), NEW t, NEW D \in SUBSET Ids
    PROVE  Leads(p, [p EXCEPT ![t].deps = D])
  <1>. DEFINE q == [p EXCEPT ![t].deps = D]
  <1>1. DOMAIN q = DOMAIN p
    OBVIOUS
  <1>2. ASSUME NEW x \in DOMAIN p
        PROVE  q[x] \in TaskRecord /\ q[x].tier = p[x].tier /\ q[x].status = p[x].status
    BY <1>2 DEF IsPlan, TaskRecord
  <1>. QED  BY <1>1, <1>2 DEF IsPlan, Leads, Tame

\* A new status that is no rejection.
LEMMA StatusLeads ==
    ASSUME NEW p, IsPlan(p), NEW t, NEW s \in Statuses, s # "validation-failed"
    PROVE  Leads(p, [p EXCEPT ![t].status = s])
  <1>. DEFINE q == [p EXCEPT ![t].status = s]
  <1>1. DOMAIN q = DOMAIN p
    OBVIOUS
  <1>2. ASSUME NEW x \in DOMAIN p
        PROVE  /\ q[x] \in TaskRecord /\ q[x].tier = p[x].tier
               /\ q[x].status = p[x].status \/ q[x].status # "validation-failed"
    BY <1>2 DEF IsPlan, TaskRecord
  <1>. QED  BY <1>1, <1>2 DEF IsPlan, Leads, Tame

\* Each task rewritten by itself.
LEMMA RewrittenLeads ==
    ASSUME NEW p, IsPlan(p), NEW q, q = [t \in DOMAIN p |-> q[t]],
           \A t \in DOMAIN p :
               /\ q[t] \in TaskRecord /\ q[t].tier = p[t].tier
               /\ q[t].status = p[t].status \/ q[t].status # "validation-failed"
    PROVE  Leads(p, q)
  BY DEF IsPlan, Leads, Tame

LEMMA EdgeAppendedLeads ==
    ASSUME NEW p, IsPlan(p), NEW t, NEW d \in Ids
    PROVE  Leads(p, EdgeAppended(p, t, d))
  <1>1. CASE t \notin DOMAIN p
    BY <1>1, LeadsToItself DEF EdgeAppended
  <1>2. CASE t \in DOMAIN p
    <2>. DEFINE D == ValidEdges(DepsOf(p), t, p[t].deps \cup {d})
    <2>1. p[t].deps \cup {d} \subseteq Ids
      BY <1>2 DEF IsPlan, TaskRecord
    <2>2. D \in SUBSET Ids
      BY <2>1, KeptEdges
    <2>3. EdgeAppended(p, t, d) = [p EXCEPT ![t].deps = D]
      BY <1>2 DEF EdgeAppended
    <2>. HIDE DEF D
    <2>4. Leads(p, [p EXCEPT ![t].deps = D])
      BY <2>2, EdgesLead, Zenon
    <2>. QED  BY <2>3, <2>4
  <1>. QED  BY <1>1, <1>2

LEMMA ReopenedLeads ==
    ASSUME NEW p, IsPlan(p), NEW S
    PROVE  Leads(p, Reopened(p, S)) /\ DOMAIN Reopened(p, S) = DOMAIN p
  <1>. DEFINE q == Reopened(p, S)
  <1>1. q = [t \in DOMAIN p |-> q[t]]
    BY DEF Reopened
  <1>2. ASSUME NEW t \in DOMAIN p
        PROVE  /\ q[t] \in TaskRecord /\ q[t].tier = p[t].tier
               /\ q[t].status = p[t].status \/ q[t].status # "validation-failed"
    BY <1>2 DEF Reopened, IsPlan, TaskRecord, Statuses
  <1>. HIDE DEF q
  <1>. QED  BY <1>1, <1>2, RewrittenLeads DEF q

LEMMA RepointedLeads ==
    ASSUME NEW p, IsPlan(p), NEW F, NEW c \in Ids
    PROVE  Leads(p, Repointed(p, F, c)) /\ DOMAIN Repointed(p, F, c) = DOMAIN p
  <1>. DEFINE q == Repointed(p, F, c)
  <1>1. q = [t \in DOMAIN p |-> q[t]]
    BY DEF Repointed
  <1>2. ASSUME NEW t \in DOMAIN p
        PROVE  /\ q[t] \in TaskRecord /\ q[t].tier = p[t].tier
               /\ q[t].status = p[t].status \/ q[t].status # "validation-failed"
    <2>. DEFINE D == ValidEdges(DepsOf(p), t, (p[t].deps \ F) \cup {c})
    <2>1. p[t] \in TaskRecord
      BY <1>2 DEF IsPlan
    <2>2. D \in SUBSET Ids
      BY <2>1, KeptEdges DEF TaskRecord
    <2>3. q[t] = IF p[t].deps \cap F = {} THEN p[t] ELSE [p[t] EXCEPT !.deps = D]
      BY <1>2 DEF Repointed
    <2>. HIDE DEF D
    <2>. QED  BY <2>1, <2>2, <2>3 DEF TaskRecord
  <1>. HIDE DEF q
  <1>. QED  BY <1>1, <1>2, RewrittenLeads DEF q

LEMMA ChainReopenedLeads ==
    ASSUME NEW p, IsPlan(p), NEW c \in Ids
    PROVE  Leads(p, ChainReopened(p, c)) /\ DOMAIN ChainReopened(p, c) = DOMAIN p
  <1>. DEFINE q == ChainReopened(p, c)
              steps == VerificationTasks(p)
              behind == IF steps = {} THEN {Record} ELSE steps
              m == Reopened(p, {Record} \cup steps)
  <1>1. Leads(p, m) /\ DOMAIN m = DOMAIN p
    BY ReopenedLeads
  <1>2. q = [t \in DOMAIN m |->
                IF t \in behind
                THEN [m[t] EXCEPT !.deps = ValidEdges(DepsOf(m), t, m[t].deps \cup {c})]
                ELSE m[t]]
    BY DEF ChainReopened
  <1>. HIDE DEF q, m, behind
  <1>3. ASSUME NEW t \in DOMAIN m
        PROVE  /\ q[t] \in TaskRecord /\ q[t].tier = m[t].tier
               /\ q[t].status = m[t].status \/ q[t].status # "validation-failed"
    <2>. DEFINE D == ValidEdges(DepsOf(m), t, m[t].deps \cup {c})
    <2>1. m[t] \in TaskRecord
      BY <1>1, <1>3 DEF Leads, IsPlan
    <2>2. D \in SUBSET Ids
      BY <2>1, KeptEdges DEF TaskRecord
    <2>3. q[t] = IF t \in behind THEN [m[t] EXCEPT !.deps = D] ELSE m[t]
      BY <1>2, <1>3
    <2>. HIDE DEF D
    <2>. QED  BY <2>1, <2>2, <2>3 DEF TaskRecord
  <1>4. IsPlan(m)
    BY <1>1 DEF Leads
  <1>5. Leads(m, q)
    BY <1>2, <1>3, <1>4, RewrittenLeads
  <1>6. Leads(p, q)
    BY <1>1, <1>5, LeadsOn
  <1>. QED  BY <1>1, <1>2, <1>6 DEF q

(***************************************************************************)
(* The graph.                                                              *)
(***************************************************************************)
Sound(p) == Acyclic(DepsOf(p)) /\ Resolved(p)

\* Fewer edges.
LEMMA FewerEdges ==
    ASSUME NEW p, Sound(p), NEW q, DOMAIN q = DOMAIN p,
           \A t \in DOMAIN p : q[t].deps \subseteq p[t].deps
    PROVE  Sound(q)
  <1>1. Resolved(q)
    BY DEF Sound, Resolved
  <1>2. Acyclic(DepsOf(q))
    <2>. SUFFICES ASSUME NEW S \in SUBSET DOMAIN p, S # {}
                  PROVE  \E t \in S : q[t].deps \cap S = {}
      BY DEF Acyclic, DepsOf
    <2>1. \E t \in S : p[t].deps \cap S = {}
      BY DEF Sound, Acyclic, DepsOf
    <2>. QED  BY <2>1
  <1>. QED  BY <1>1, <1>2 DEF Sound

\* Edges onto a task that waits on nothing.
LEMMA EdgesOntoSink ==
    ASSUME NEW p, Sound(p), NEW c \in DOMAIN p, NEW q, DOMAIN q = DOMAIN p,
           q[c].deps = {}, \A t \in DOMAIN p : q[t].deps \subseteq p[t].deps \cup {c}
    PROVE  Sound(q)
  <1>1. Resolved(q)
    BY DEF Sound, Resolved
  <1>2. Acyclic(DepsOf(q))
    <2>. SUFFICES ASSUME NEW S \in SUBSET DOMAIN p, S # {}
                  PROVE  \E t \in S : q[t].deps \cap S = {}
      BY DEF Acyclic, DepsOf
    <2>1. CASE c \in S
      BY <2>1
    <2>2. CASE c \notin S
      <3>1. \E t \in S : p[t].deps \cap S = {}
        BY DEF Sound, Acyclic, DepsOf
      <3>. QED  BY <2>2, <3>1
    <2>. QED  BY <2>1, <2>2
  <1>. QED  BY <1>1, <1>2 DEF Sound

\* Edges of one task that validation kept: a cycle through t and a kept edge
\* t -> d would lead from d back to t.
LEMMA ValidatedEdges ==
    ASSUME NEW p, Sound(p), NEW t \in DOMAIN p, NEW C, NEW q, DOMAIN q = DOMAIN p,
           q[t].deps = ValidEdges(DepsOf(p), t, C),
           \A x \in DOMAIN p : x # t => q[x].deps = p[x].deps
    PROVE  Sound(q)
  <1>. DEFINE V == ValidEdges(DepsOf(p), t, C)
  <1>1. ASSUME NEW d \in V
        PROVE  d # t /\ d \in DOMAIN p /\ t \notin Ancestors(DepsOf(p), d)
    BY <1>1 DEF ValidEdges, EdgeRefused, DepsOf
  <1>2. Resolved(q)
    BY <1>1 DEF Sound, Resolved
  <1>3. Acyclic(DepsOf(q))
    <2>. SUFFICES ASSUME NEW S \in SUBSET DOMAIN p, S # {}
                  PROVE  \E x \in S : q[x].deps \cap S = {}
      BY DEF Acyclic, DepsOf
    <2>. SUFFICES ASSUME \A x \in S : q[x].deps \cap S # {}
                  PROVE  FALSE
      OBVIOUS
    <2>1. CASE t \notin S
      <3>1. \E x \in S : p[x].deps \cap S = {}
        BY DEF Sound, Acyclic, DepsOf
      <3>. QED  BY <2>1, <3>1
    <2>2. CASE t \in S
      <3>1. PICK d \in V : d \in S
        BY <2>2
      <3>2. d # t /\ d \in DOMAIN p /\ t \notin Ancestors(DepsOf(p), d)
        BY <1>1
      <3>3. PICK W \in SUBSET DOMAIN p :
                /\ p[d].deps \cap DOMAIN p \subseteq W
                /\ \A x \in W : p[x].deps \cap DOMAIN p \subseteq W
                /\ t \notin W
        BY <3>2 DEF Ancestors, DepsOf
      <3>. DEFINE T == S \cap (W \cup {d})
      <3>4. \E x \in T : p[x].deps \cap T = {}
        <4>1. T # {} /\ T \in SUBSET DOMAIN p
          BY <3>1
        <4>. QED  BY <4>1 DEF Sound, Acyclic, DepsOf
      <3>5. ASSUME NEW x \in T PROVE p[x].deps \cap T # {}
        <4>1. x # t /\ q[x].deps = p[x].deps
          BY <3>2, <3>3
        <4>2. p[x].deps \subseteq W
          BY <3>3, <3>5 DEF Sound, Resolved
        <4>. QED  BY <4>1, <4>2
      <3>. QED  BY <3>4, <3>5
    <2>. QED  BY <2>1, <2>2
  <1>. QED  BY <1>2, <1>3 DEF Sound

\* A new task that nobody waits on.
LEMMA AddedSound ==
    ASSUME NEW p, Sound(p), NEW i, i \notin DOMAIN p, NEW task, task.deps \subseteq DOMAIN p
    PROVE  Sound(Added(p, i, task))
  <1>. DEFINE q == Added(p, i, task)
  <1>1. /\ DOMAIN q = DOMAIN p \cup {i} /\ q[i].deps = task.deps
        /\ \A t \in DOMAIN p : q[t].deps = p[t].deps
    BY DEF Added
  <1>. HIDE DEF q
  <1>2. Resolved(q)
    BY <1>1 DEF Sound, Resolved
  <1>3. Acyclic(DepsOf(q))
    <2>. SUFFICES ASSUME NEW S \in SUBSET DOMAIN q, S # {}
                  PROVE  \E t \in S : q[t].deps \cap S = {}
      BY DEF Acyclic, DepsOf
    <2>1. CASE S \cap DOMAIN p = {}
      BY <1>1, <2>1
    <2>2. CASE S \cap DOMAIN p # {}
      <3>1. PICK t \in S \cap DOMAIN p : p[t].deps \cap (S \cap DOMAIN p) = {}
        BY <2>2 DEF Sound, Acyclic, DepsOf
      <3>2. p[t].deps \subseteq DOMAIN p
        BY DEF Sound, Resolved
      <3>. QED  BY <1>1, <3>1, <3>2
    <2>. QED  BY <2>1, <2>2
  <1>. QED  BY <1>2, <1>3 DEF Sound, q

LEMMA FreshPlansSound == ASSUME NEW p \in FreshPlans PROVE Sound(p)
  <1>1. PICK deps \in [Initial -> SUBSET Initial] :
            /\ p = [t \in Initial |-> NewTask("plan", deps[t], NoTask)]
            /\ \A t \in Initial : \A x \in deps[t] : x < t
    BY DEF FreshPlans
  <1>2. DOMAIN p = Initial /\ \A t \in Initial : p[t].deps = deps[t]
    BY <1>1 DEF NewTask
  <1>3. Resolved(p)
    BY <1>2 DEF Resolved
  <1>4. Initial \subseteq Nat
    BY TasksAssumption, CurePassAssumption
  <1>5. Acyclic(DepsOf(p))
    <2>. SUFFICES ASSUME NEW S \in SUBSET Initial, S # {}
                  PROVE  \E t \in S : deps[t] \cap S = {}
      BY <1>2 DEF Acyclic, DepsOf
    <2>1. PICK t \in S : \A y \in S : t <= y
      BY <1>4, LeastExists
    <2>2. \A y \in deps[t] \cap S : y < t /\ t <= y /\ y \in Nat /\ t \in Nat
      BY <1>1, <1>4, <2>1
    <2>3. deps[t] \cap S = {}
      BY <2>2
    <2>. QED  BY <2>3
  <1>. QED  BY <1>3, <1>5 DEF Sound

LEMMA EdgeAppendedSound ==
    ASSUME NEW p, IsPlan(p), Sound(p), NEW t, NEW d
    PROVE  Sound(EdgeAppended(p, t, d)) /\ DOMAIN EdgeAppended(p, t, d) = DOMAIN p
  <1>1. CASE t \notin DOMAIN p
    BY <1>1 DEF EdgeAppended
  <1>2. CASE t \in DOMAIN p
    <2>. DEFINE q == EdgeAppended(p, t, d)
                C == p[t].deps \cup {d}
    <2>1. q = [p EXCEPT ![t].deps = ValidEdges(DepsOf(p), t, C)]
      BY <1>2 DEF EdgeAppended
    <2>. HIDE DEF q, C
    <2>2. /\ DOMAIN q = DOMAIN p /\ q[t].deps = ValidEdges(DepsOf(p), t, C)
          /\ \A x \in DOMAIN p : x # t => q[x].deps = p[x].deps
      BY <1>2, <2>1 DEF IsPlan, TaskRecord
    <2>3. Sound(q)
      BY <1>2, <2>2, ValidatedEdges
    <2>. QED  BY <2>2, <2>3 DEF q
  <1>. QED  BY <1>1, <1>2

LEMMA ReopenedSound ==
    ASSUME NEW p, IsPlan(p), Sound(p), NEW S
    PROVE  /\ Sound(Reopened(p, S)) /\ DOMAIN Reopened(p, S) = DOMAIN p
           /\ \A t \in DOMAIN p : Reopened(p, S)[t].deps = p[t].deps
  <1>. DEFINE q == Reopened(p, S)
  <1>1. DOMAIN q = DOMAIN p
    BY DEF Reopened
  <1>2. ASSUME NEW t \in DOMAIN p PROVE q[t].deps = p[t].deps
    BY <1>2 DEF Reopened, IsPlan, TaskRecord
  <1>. HIDE DEF q
  <1>3. Sound(q)
    BY <1>1, <1>2, FewerEdges
  <1>. QED  BY <1>1, <1>2, <1>3 DEF q

\* A task waits on nothing.
Sink(p, c) == c \in DOMAIN p /\ p[c].deps = {}

LEMMA EdgeAppendedSink ==
    ASSUME NEW p, IsPlan(p), NEW c, Sink(p, c), NEW t
    PROVE  Sink(EdgeAppended(p, t, c), c)
  <1>1. CASE t \notin DOMAIN p \/ t # c
    BY <1>1 DEF Sink, EdgeAppended
  <1>2. CASE t \in DOMAIN p /\ t = c
    <2>1. ValidEdges(DepsOf(p), c, p[c].deps \cup {c}) = {}
      BY DEF Sink, ValidEdges, EdgeRefused
    <2>2. EdgeAppended(p, t, c) = [p EXCEPT ![c].deps = {}]
      BY <1>2, <2>1 DEF EdgeAppended
    <2>. QED  BY <2>2 DEF Sink, IsPlan, TaskRecord
  <1>. QED  BY <1>1, <1>2

LEMMA RepointedSound ==
    ASSUME NEW p, IsPlan(p), Sound(p), NEW F, NEW c, Sink(p, c)
    PROVE  Sound(Repointed(p, F, c)) /\ Sink(Repointed(p, F, c), c)
  <1>. DEFINE q == Repointed(p, F, c)
  <1>1. DOMAIN q = DOMAIN p
    BY DEF Repointed
  <1>2. ASSUME NEW t \in DOMAIN p PROVE q[t].deps \subseteq p[t].deps \cup {c}
    <2>. DEFINE D == ValidEdges(DepsOf(p), t, (p[t].deps \ F) \cup {c})
    <2>1. p[t] \in TaskRecord
      BY <1>2 DEF IsPlan
    <2>2. D \subseteq p[t].deps \cup {c}
      BY DEF ValidEdges
    <2>3. q[t] = IF p[t].deps \cap F = {} THEN p[t] ELSE [p[t] EXCEPT !.deps = D]
      BY <1>2 DEF Repointed
    <2>. HIDE DEF D, q
    <2>. QED  BY <2>1, <2>2, <2>3 DEF TaskRecord
  <1>3. q[c].deps = {}
    BY DEF Repointed, Sink
  <1>. HIDE DEF q
  <1>4. Sound(q)
    BY <1>1, <1>2, <1>3, EdgesOntoSink DEF Sink
  <1>. QED  BY <1>1, <1>3, <1>4 DEF q, Sink

LEMMA ChainReopenedSound ==
    ASSUME NEW p, IsPlan(p), Sound(p), NEW c, Sink(p, c)
    PROVE  Sound(ChainReopened(p, c)) /\ DOMAIN ChainReopened(p, c) = DOMAIN p
  <1>. DEFINE q == ChainReopened(p, c)
              steps == VerificationTasks(p)
              behind == IF steps = {} THEN {Record} ELSE steps
              m == Reopened(p, {Record} \cup steps)
  <1>1. /\ IsPlan(m) /\ Sound(m) /\ DOMAIN m = DOMAIN p
        /\ \A t \in DOMAIN p : m[t].deps = p[t].deps
    BY ReopenedLeads, ReopenedSound DEF Leads
  <1>2. q = [t \in DOMAIN m |->
                IF t \in behind
                THEN [m[t] EXCEPT !.deps = ValidEdges(DepsOf(m), t, m[t].deps \cup {c})]
                ELSE m[t]]
    BY DEF ChainReopened
  <1>. HIDE DEF q, m, behind
  <1>3. ASSUME NEW t \in DOMAIN m
        PROVE  q[t].deps \subseteq m[t].deps \cup {c} /\ (t = c => q[t].deps = {})
    <2>. DEFINE D == ValidEdges(DepsOf(m), t, m[t].deps \cup {c})
    <2>1. m[t] \in TaskRecord
      BY <1>1, <1>3 DEF IsPlan
    <2>2. D \subseteq m[t].deps \cup {c} /\ (t = c => D = {}) /\ (t = c => m[t].deps = {})
      BY <1>1, <1>3 DEF ValidEdges, EdgeRefused, Sink
    <2>3. q[t] = IF t \in behind THEN [m[t] EXCEPT !.deps = D] ELSE m[t]
      BY <1>2, <1>3
    <2>. HIDE DEF D
    <2>. QED  BY <2>1, <2>2, <2>3 DEF TaskRecord
  <1>4. DOMAIN q = DOMAIN m
    BY <1>2
  <1>5. c \in DOMAIN m
    BY <1>1 DEF Sink
  <1>6. Sound(q)
    BY <1>1, <1>3, <1>4, <1>5, EdgesOntoSink
  <1>. QED  BY <1>1, <1>4, <1>6 DEF q

LEMMA RetakenSound ==
    ASSUME NEW p, IsPlan(p), Sound(p), NEW c \in DOMAIN p,
           ExistingRetakes(p) = {} => Room(p, 1)
    PROVE  Sound(Retaken(p, c))
  <1>1. CASE ExistingRetakes(p) # {}
    <2>. DEFINE r == CHOOSE x \in ExistingRetakes(p) : \A y \in ExistingRetakes(p) : x <= y
                m == Reopened(p, {r})
    <2>1. IsPlan(m) /\ Sound(m)
      BY ReopenedLeads, ReopenedSound DEF Leads
    <2>2. Retaken(p, c) = EdgeAppended(m, r, c)
      BY <1>1 DEF Retaken
    <2>. HIDE DEF r, m
    <2>. QED  BY <2>1, <2>2, EdgeAppendedSound
  <1>2. CASE ExistingRetakes(p) = {}
    <2>. DEFINE i == FreshId(p)
                task == NewTask("retake", {c}, NoTask)
    <2>1. i \notin DOMAIN p
      BY <1>2, FreshIdIsFree DEF IsPlan
    <2>2. task.deps \subseteq DOMAIN p
      BY DEF NewTask
    <2>3. Retaken(p, c) = Added(p, i, task)
      BY <1>2 DEF Retaken
    <2>. HIDE DEF i, task
    <2>. QED  BY <2>1, <2>2, <2>3, AddedSound
  <1>. QED  BY <1>1, <1>2

(***************************************************************************)
(* Cure passes.                                                            *)
(***************************************************************************)
LEMMA RetakenLeads ==
    ASSUME NEW p, IsPlan(p), NEW c \in Ids, ExistingRetakes(p) = {} => Room(p, 1)
    PROVE  Leads(p, Retaken(p, c))
  <1>1. CASE ExistingRetakes(p) # {}
    <2>. DEFINE r == CHOOSE x \in ExistingRetakes(p) : \A y \in ExistingRetakes(p) : x <= y
                m == Reopened(p, {r})
    <2>1. Leads(p, m)
      BY ReopenedLeads
    <2>2. Leads(m, EdgeAppended(m, r, c))
      BY <2>1, EdgeAppendedLeads DEF Leads
    <2>3. Retaken(p, c) = EdgeAppended(m, r, c)
      BY <1>1 DEF Retaken
    <2>. HIDE DEF r, m
    <2>. QED  BY <2>1, <2>2, <2>3, LeadsOn
  <1>2. CASE ExistingRetakes(p) = {}
    <2>1. FreshId(p) \in Ids \ DOMAIN p
      BY <1>2, FreshIdIsFree DEF IsPlan
    <2>2. /\ NewTask("retake", {c}, NoTask) \in TaskRecord
          /\ NewTask("retake", {c}, NoTask).tier = 0
          /\ NewTask("retake", {c}, NoTask).status = "pending"
      BY NewTaskIsTask DEF Kinds
    <2>3. Leads(p, Added(p, FreshId(p), NewTask("retake", {c}, NoTask)))
      BY <2>1, <2>2, AddedLeads, Zenon
    <2>. QED  BY <1>2, <2>3 DEF Retaken
  <1>. QED  BY <1>1, <1>2

\* What a finding is, and the ids it may take.
LEMMA PathsOfFinding ==
    ASSUME NEW P \in SUBSET {"lane", "other"}
    PROVE  /\ Cardinality({}) = 0 /\ (P # {} => Cardinality(P) >= 1)
           /\ Cardinality(P) \in Nat
           /\ ("lane" \in P /\ "other" \in P => Cardinality(P) >= 2)
  <1>1. IsFiniteSet({"lane", "other"})
    <2>1. IsFiniteSet({"lane"})
      BY FS_Singleton
    <2>2. IsFiniteSet({"lane"} \cup {"other"})
      BY <2>1, FS_AddElement
    <2>3. {"lane"} \cup {"other"} = {"lane", "other"}
      OBVIOUS
    <2>. QED  BY <2>2, <2>3
  <1>2. IsFiniteSet(P) /\ Cardinality(P) \in Nat
    BY <1>1, FS_Subset, FS_CardinalityType
  <1>3. P # {} => Cardinality(P) >= 1
    BY <1>2, FS_EmptySet
  <1>4. ASSUME "lane" \in P, "other" \in P PROVE Cardinality(P) >= 2
    <2>. DEFINE Q == P \ {"lane"}
    <2>1. IsFiniteSet(Q) /\ Cardinality(Q) = Cardinality(P) - 1
      BY <1>2, <1>4, FS_RemoveElement
    <2>2. Q # {}
      BY <1>4
    <2>3. Cardinality(Q) # 0
      BY <2>1, <2>2, FS_EmptySet
    <2>4. Cardinality(Q) \in Nat
      BY <2>1, FS_CardinalityType
    <2>. QED  BY <1>2, <2>1, <2>3, <2>4
  <1>. QED  BY <1>2, <1>3, <1>4, FS_EmptySet

Findings == [named : SUBSET Ids, paths : SUBSET {"lane", "other"}]

\* The stages of a cure pass: the cure, the freeze held behind it, the failed
\* tasks' dependents, the lane's record.
WithCure(p) == Added(p, FreshId(p), NewTask("cure", {}, NoTask))
Ordered(p) == EdgeAppended(WithCure(p), Freeze, FreshId(p))
Laned(p, finding) ==
    IF "lane" \in finding.paths
    THEN IF ChainRecognised(Handed(p, finding))
         THEN ChainReopened(Handed(p, finding), FreshId(p))
         ELSE Retaken(Handed(p, finding), FreshId(p))
    ELSE Handed(p, finding)

LEMMA CuredInStages ==
    ASSUME NEW p, NEW finding
    PROVE  Cured(p, finding) = IF "other" \in finding.paths
                               THEN Retaken(Laned(p, finding), FreshId(p))
                               ELSE Laned(p, finding)
  BY DEF Cured, Laned, Handed, Ordered, WithCure

\* Each stage is a plan, and has room for what the next one may add.
LEMMA CureStages ==
    ASSUME NEW p, IsPlan(p), NEW finding \in Findings, Room(p, IdsTaken(finding))
    PROVE  /\ FreshId(p) \in Ids \ DOMAIN p
           /\ Leads(p, WithCure(p)) /\ Leads(p, Ordered(p)) /\ Leads(p, Handed(p, finding))
           /\ Leads(p, Laned(p, finding)) /\ Leads(Handed(p, finding), Laned(p, finding))
           /\ DOMAIN Ordered(p) = DOMAIN WithCure(p)
           /\ DOMAIN Handed(p, finding) = DOMAIN WithCure(p)
           /\ "lane" \in finding.paths => Room(Handed(p, finding), 1)
           /\ "other" \in finding.paths /\ ExistingRetakes(Laned(p, finding)) = {} =>
                 Room(Laned(p, finding), 1)
  <1>. DEFINE c == FreshId(p)
              new == NewTask("cure", {}, NoTask)
              p0 == WithCure(p)
              p1 == Ordered(p)
              p2 == Handed(p, finding)
              p3 == Laned(p, finding)
              n == Cardinality(finding.paths)
  <1>. USE DEF Leads
  <1>1. n \in Nat /\ Room(p, n + 1)
    BY PathsOfFinding DEF Findings, IdsTaken
  <1>2. c \in Ids \ DOMAIN p
    <2>1. Room(p, 1)
      BY <1>1, RoomForLess DEF IsPlan
    <2>. QED  BY <2>1, FreshIdIsFree DEF IsPlan
  <1>3. Leads(p, p0) /\ Room(p0, n)
    <2>1. new \in TaskRecord /\ new.tier = 0 /\ new.status = "pending"
      BY NewTaskIsTask DEF Kinds
    <2>2. p0 = Added(p, c, new)
      BY DEF WithCure
    <2>. HIDE DEF c, new, p0
    <2>3. Leads(p, p0)
      <3>. HIDE DEF Leads
      <3>. QED  BY <1>2, <2>1, <2>2, AddedLeads
    <2>. QED  BY <1>1, <2>2, <2>3, RoomAfterOne DEF IsPlan
  <1>4. DOMAIN p1 = DOMAIN p0 /\ Leads(p, p1)
    <2>1. p1 = EdgeAppended(p0, Freeze, c)
      BY DEF Ordered
    <2>2. DOMAIN p1 = DOMAIN p0
      BY <2>1 DEF EdgeAppended
    <2>. QED  BY <1>2, <1>3, <2>1, <2>2, EdgeAppendedLeads, LeadsOn
  <1>5. DOMAIN p2 = DOMAIN p0 /\ Leads(p, p2)
    BY <1>2, <1>4, RepointedLeads, LeadsOn DEF Handed, Ordered, WithCure
  <1>6. Room(p2, n)
    BY <1>3, <1>5 DEF Room
  <1>7. ASSUME "lane" \in finding.paths PROVE Room(p2, 1)
    BY <1>1, <1>5, <1>6, <1>7, PathsOfFinding, RoomForLess DEF Findings, IsPlan
  <1>8. p3 = IF "lane" \in finding.paths
             THEN IF ChainRecognised(p2) THEN ChainReopened(p2, c) ELSE Retaken(p2, c)
             ELSE p2
    BY DEF Laned
  <1>. HIDE DEF p0, p1, p2, p3, c, new
  <1>9. Leads(p2, p3)
    <2>1. CASE "lane" \notin finding.paths
      BY <1>5, <1>8, <2>1, LeadsToItself
    <2>2. CASE "lane" \in finding.paths /\ ChainRecognised(p2)
      BY <1>2, <1>5, <1>8, <2>2, ChainReopenedLeads
    <2>3. CASE "lane" \in finding.paths /\ ~ChainRecognised(p2)
      BY <1>2, <1>5, <1>7, <1>8, <2>3, RetakenLeads
    <2>. QED  BY <2>1, <2>2, <2>3
  <1>10. ASSUME "other" \in finding.paths, ExistingRetakes(p3) = {} PROVE Room(p3, 1)
    <2>1. CASE "lane" \notin finding.paths
      <3>1. Room(p2, 1)
        BY <1>1, <1>5, <1>6, <1>10, PathsOfFinding, RoomForLess DEF Findings, IsPlan
      <3>. QED  BY <1>8, <2>1, <3>1
    <2>2. CASE "lane" \in finding.paths /\ ChainRecognised(p2)
      <3>1. DOMAIN p3 = DOMAIN p2
        BY <1>2, <1>5, <1>8, <2>2, ChainReopenedLeads
      <3>. QED  BY <1>7, <2>2, <3>1 DEF Room
    <2>3. CASE "lane" \in finding.paths /\ ~ChainRecognised(p2)
      <3>1. n >= 2
        BY <1>10, <2>3, PathsOfFinding DEF Findings
      <3>2. Room(p2, 2)
        BY <1>1, <1>5, <1>6, <3>1, RoomForLess DEF IsPlan
      <3>3. CASE ExistingRetakes(p2) # {}
        <4>. DEFINE r == CHOOSE x \in ExistingRetakes(p2) :
                            \A y \in ExistingRetakes(p2) : x <= y
                    m == Reopened(p2, {r})
        <4>1. p3 = EdgeAppended(m, r, c)
          BY <1>8, <2>3, <3>3 DEF Retaken
        <4>2. DOMAIN EdgeAppended(m, r, c) = DOMAIN m /\ DOMAIN m = DOMAIN p2
          BY DEF EdgeAppended, Reopened
        <4>3. DOMAIN p3 = DOMAIN p2
          BY <4>1, <4>2
        <4>. QED  BY <1>7, <2>3, <4>3 DEF Room
      <3>4. CASE ExistingRetakes(p2) = {}
        <4>1. p3 = Added(p2, FreshId(p2), NewTask("retake", {c}, NoTask))
          BY <1>8, <2>3, <3>4 DEF Retaken
        <4>. QED  BY <1>5, <3>2, <4>1, RoomAfterOne DEF IsPlan
      <3>. QED  BY <3>3, <3>4
    <2>. QED  BY <2>1, <2>2, <2>3
  <1>11. Leads(p, p3)
    BY <1>5, <1>9, LeadsOn
  <1>. QED  BY <1>2, <1>3, <1>4, <1>5, <1>7, <1>9, <1>10, <1>11 DEF c, p0, p1, p2, p3

LEMMA CuredLeads ==
    ASSUME NEW p, IsPlan(p), NEW finding \in Findings, Room(p, IdsTaken(finding))
    PROVE  /\ Leads(p, Cured(p, finding)) /\ FreshId(p) \in Ids
           /\ FreshId(p) \in DOMAIN Cured(p, finding)
           /\ Sound(p) => Sound(Cured(p, finding))
  <1>. DEFINE c == FreshId(p)
              p0 == WithCure(p)
              p1 == Ordered(p)
              p2 == Handed(p, finding)
              p3 == Laned(p, finding)
  <1>1. /\ c \in Ids \ DOMAIN p
        /\ Leads(p, p0) /\ Leads(p, p1) /\ Leads(p, p2) /\ Leads(p, p3) /\ Leads(p2, p3)
        /\ DOMAIN p2 = DOMAIN p0
        /\ "lane" \in finding.paths => Room(p2, 1)
        /\ "other" \in finding.paths /\ ExistingRetakes(p3) = {} => Room(p3, 1)
    BY CureStages
  <1>2. /\ p0 = Added(p, c, NewTask("cure", {}, NoTask))
        /\ p1 = EdgeAppended(p0, Freeze, c)
        /\ p2 = Repointed(p1, finding.named \cap Having(p1, {"failed"}), c)
        /\ p3 = IF "lane" \in finding.paths
                THEN IF ChainRecognised(p2) THEN ChainReopened(p2, c) ELSE Retaken(p2, c)
                ELSE p2
    BY DEF WithCure, Ordered, Handed, Laned
  <1>3. Cured(p, finding) = IF "other" \in finding.paths THEN Retaken(p3, c) ELSE p3
    BY CuredInStages
  <1>. HIDE DEF c, p0, p1, p2, p3
  <1>. USE DEF Leads
  <1>4. "other" \in finding.paths => Leads(p3, Retaken(p3, c))
    BY <1>1, RetakenLeads
  <1>5. Leads(p, Cured(p, finding))
    BY <1>1, <1>3, <1>4, LeadsOn
  <1>6. c \in DOMAIN p2 /\ c \in DOMAIN p3 /\ c \in DOMAIN Cured(p, finding)
    BY <1>1, <1>2, <1>3, <1>4 DEF Added
  <1>7. ASSUME Sound(p) PROVE Sound(Cured(p, finding))
    <2>1. Sound(p0) /\ Sink(p0, c)
      <3>1. NewTask("cure", {}, NoTask).deps = {}
        BY DEF NewTask
      <3>2. Sound(p0)
        BY <1>1, <1>2, <1>7, <3>1, AddedSound
      <3>. QED  BY <1>2, <3>1, <3>2 DEF Added, Sink
    <2>2. Sound(p1) /\ Sink(p1, c)
      BY <1>1, <1>2, <2>1, EdgeAppendedSound, EdgeAppendedSink
    <2>3. Sound(p2) /\ Sink(p2, c)
      BY <1>1, <1>2, <2>2, RepointedSound
    <2>4. Sound(p3)
      <3>1. CASE "lane" \notin finding.paths
        BY <1>2, <2>3, <3>1
      <3>2. CASE "lane" \in finding.paths /\ ChainRecognised(p2)
        BY <1>1, <1>2, <2>3, <3>2, ChainReopenedSound
      <3>3. CASE "lane" \in finding.paths /\ ~ChainRecognised(p2)
        BY <1>1, <1>2, <1>6, <2>3, <3>3, RetakenSound
      <3>. QED  BY <3>1, <3>2, <3>3
    <2>5. "other" \in finding.paths => Sound(Retaken(p3, c))
      BY <1>1, <1>6, <2>4, RetakenSound
    <2>. QED  BY <1>3, <2>4, <2>5
  <1>. QED  BY <1>1, <1>5, <1>6, <1>7 DEF c

LEMMA SweptLeads ==
    ASSUME NEW p, IsPlan(p), NEW c \in Ids
    PROVE  Leads(p, Swept(p, c)) /\ (Sound(p) => Sound(Swept(p, c)))
  <1>. DEFINE m == EdgeAppended(p, Sweep, c)
  <1>1. Leads(p, m)
    BY EdgeAppendedLeads
  <1>2. Leads(p, Reopened(m, {Sweep}))
    BY <1>1, ReopenedLeads, LeadsOn DEF Leads
  <1>3. Swept(p, c) \in {m, Reopened(m, {Sweep})}
    BY DEF Swept
  <1>4. ASSUME Sound(p) PROVE Sound(m) /\ Sound(Reopened(m, {Sweep}))
    BY <1>1, <1>4, EdgeAppendedSound, ReopenedSound DEF Leads
  <1>. HIDE DEF m
  <1>. QED  BY <1>1, <1>2, <1>3, <1>4

\* A cure pass rejects no task, moves none up a tier and closes no cycle.
LEMMA CurePassLeads ==
    ASSUME NEW p, IsPlan(p), NEW finding \in Findings, Room(p, IdsTaken(finding))
    PROVE  Leads(p, CurePass(p, finding)) /\ (Sound(p) => Sound(CurePass(p, finding)))
  <1>1. /\ Leads(p, Cured(p, finding)) /\ FreshId(p) \in Ids
        /\ Sound(p) => Sound(Cured(p, finding))
    BY CuredLeads
  <1>2. /\ Leads(Cured(p, finding), CurePass(p, finding))
        /\ Sound(Cured(p, finding)) => Sound(CurePass(p, finding))
    BY <1>1, SweptLeads DEF CurePass, Leads
  <1>. QED  BY <1>1, <1>2, LeadsOn

\* Reconciliation restores what the record held, never a rejection.
LEMMA ReconciledLeads ==
    ASSUME NEW p, IsPlan(p), NEW r, NEW cure, NEW touched
    PROVE  Leads(p, Reconciled(p, r, cure, TRUE, touched))
  <1>. DEFINE q == Reconciled(p, r, cure, TRUE, touched)
              back == IF touched THEN {} ELSE PendingReconciliation(p, r, cure)
  <1>1. q = [t \in DOMAIN p |-> IF t \in back THEN Moved(p, t, r[t].prior, TRUE, TRUE, FALSE)[t]
                                ELSE p[t]]
    BY DEF Reconciled
  <1>2. ASSUME NEW t \in DOMAIN p
        PROVE  /\ q[t] \in TaskRecord /\ q[t].tier = p[t].tier
               /\ q[t].status = p[t].status \/ q[t].status # "validation-failed"
    <2>. DEFINE s == r[t].prior
    <2>1. p[t] \in TaskRecord
      BY <1>2 DEF IsPlan
    <2>2. ASSUME t \in back PROVE p[t].status = "pending"
      BY <2>2 DEF PendingReconciliation
    <2>3. ASSUME t \in back, ReportAccepted("pending", s, TRUE, TRUE, FALSE)
          PROVE  s \in Statuses /\ s # "validation-failed"
      BY <2>3 DEF ReportAccepted, IsLegalMove, TaskStatusTable, UnReopenTargets, Statuses
    <2>4. q[t] \in {p[t]} \/ (q[t] = [p[t] EXCEPT !.status = s] /\ s \in Statuses
                                /\ s # "validation-failed")
      <3>1. CASE t \notin back
        BY <1>1, <1>2, <3>1
      <3>2. CASE t \in back /\ ReportAccepted("pending", s, TRUE, TRUE, FALSE)
        <4>1. q[t] = Moved(p, t, s, TRUE, TRUE, FALSE)[t]
          BY <1>1, <1>2, <3>2
        <4>2. Moved(p, t, s, TRUE, TRUE, FALSE) = [p EXCEPT ![t].status = s]
          BY <1>2, <2>2, <3>2 DEF Moved
        <4>. QED  BY <1>2, <2>3, <3>2, <4>1, <4>2
      <3>3. CASE t \in back /\ ~ReportAccepted("pending", s, TRUE, TRUE, FALSE)
        <4>1. q[t] = Moved(p, t, s, TRUE, TRUE, FALSE)[t]
          BY <1>1, <1>2, <3>3
        <4>. QED  BY <1>2, <2>2, <3>3, <4>1 DEF Moved
      <3>. QED  BY <3>1, <3>2, <3>3
    <2>. HIDE DEF q, s
    <2>. QED  BY <2>1, <2>4 DEF TaskRecord
  <1>. HIDE DEF q, back
  <1>3. q = [t \in DOMAIN p |-> q[t]]
    BY <1>1
  <1>4. Leads(p, q)
    BY <1>2, <1>3, RewrittenLeads
  <1>. QED  BY <1>4 DEF q

(***************************************************************************)
(* Types.                                                                  *)
(***************************************************************************)
\* One task rewritten.
LEMMA TaskRewritten ==
    ASSUME NEW p, IsPlan(p), NEW t, NEW r, t \in DOMAIN p => r \in TaskRecord
    PROVE  IsPlan([p EXCEPT ![t] = r])
  BY DEF IsPlan

LEMMA StatusWritten ==
    ASSUME NEW p, IsPlan(p), NEW t, NEW s \in Statuses
    PROVE  IsPlan([p EXCEPT ![t].status = s])
  <1>. DEFINE q == [p EXCEPT ![t].status = s]
  <1>1. DOMAIN q = DOMAIN p /\ q = [x \in DOMAIN p |-> q[x]]
    OBVIOUS
  <1>2. ASSUME NEW x \in DOMAIN p PROVE q[x] \in TaskRecord
    BY <1>2 DEF IsPlan, TaskRecord
  <1>. QED  BY <1>1, <1>2 DEF IsPlan

LEMMA FreshPlansArePlans ==
    ASSUME NEW p \in FreshPlans
    PROVE  IsPlan(p) /\ \A t \in DOMAIN p : p[t].tier = 0 /\ p[t].status = "pending"
  <1>1. PICK deps \in [Initial -> SUBSET Initial] :
            p = [t \in Initial |-> NewTask("plan", deps[t], NoTask)]
    BY DEF FreshPlans
  <1>2. Initial \subseteq Ids
    BY TasksAssumption
  <1>3. ASSUME NEW t \in Initial
        PROVE  p[t] \in TaskRecord /\ p[t].tier = 0 /\ p[t].status = "pending"
    <2>1. p[t] = NewTask("plan", deps[t], NoTask) /\ deps[t] \in SUBSET Ids
      BY <1>1, <1>2, <1>3
    <2>. QED  BY <2>1, NewTaskIsTask DEF Kinds
  <1>. QED  BY <1>1, <1>2, <1>3 DEF IsPlan

LEMMA NoAnswersAreAnswers == NoAnswers \in AnswerSheets
  <1>1. NoAnswers \in [{} -> Answers]
    BY DEF NoAnswers, Answers
  <1>. QED  BY <1>1 DEF AnswerSheets

LEMMA NewPassType == NewPass \in PassRecord
  BY NoAnswersAreAnswers DEF NewPass, PassRecord

LEMMA InitType == ASSUME Init PROVE TypeOK
  <1>1. IsPlan(plan)
    BY FreshPlansArePlans DEF Init
  <1>2. IsReopen(reopened)
    BY DEF Init, NoReopen, IsReopen
  <1>3. status \in StatusRecord /\ streak \in StreakRecord
    BY DEF Init, NewStatus, StatusRecord, NewStreak, StreakRecord
  <1>4. world \in WorldRecord
    BY TasksAssumption DEF Init, WorldRecord, Rulings
  <1>5. past \in Past
    BY DEF Init, Untouched, Fresh, Past
  <1>6. at \in Places /\ pass \in PassRecord
    BY NewPassType DEF Init, Places
  <1>. QED  BY <1>1, <1>2, <1>3, <1>4, <1>5, <1>6 DEF TypeOK

\* A status that a report may claim is a status.
LEMMA AcceptedIsStatus ==
    ASSUME NEW current \in Statuses, NEW s, NEW vigilant, NEW restoring, NEW justified,
           ReportAccepted(current, s, vigilant, restoring, justified)
    PROVE  s \in Statuses
  BY DEF ReportAccepted, IsLegalMove, TaskStatusTable, UnReopenTargets, Statuses

LEMMA EditSpent == ASSUME TypeOK, Asked PROVE world.edits - 1 \in Nat
  BY DEF TypeOK, WorldRecord, Asked

LEMMA OperatorType == ASSUME TypeOK, Operator PROVE TypeOK'
  <1>. DEFINE n == world.edits - 1
  <1>0. n \in Nat \/ ~Asked
    BY EditSpent
  <1>1. CASE SteeringArrives
    <2>1. world' = [spent |-> world.spent, cut |-> world.cut, steering |-> 1,
                    undefer |-> world.undefer, rulings |-> world.rulings, edits |-> n]
      BY <1>1 DEF SteeringArrives, TypeOK, WorldRecord
    <2>. HIDE DEF n
    <2>2. world' \in WorldRecord
      BY <1>0, <1>1, <2>1 DEF SteeringArrives, TypeOK, WorldRecord
    <2>. QED  BY <1>1, <2>2 DEF SteeringArrives, TypeOK
  <1>2. CASE TimeRunsOut
    BY <1>2 DEF TimeRunsOut, TypeOK, WorldRecord
  <1>3. ASSUME NEW t \in Ids, UndeferRequested(t) PROVE TypeOK'
    <2>1. world' = [spent |-> world.spent, cut |-> world.cut, steering |-> world.steering,
                    undefer |-> world.undefer \cup {t}, rulings |-> world.rulings, edits |-> n]
      BY <1>3 DEF UndeferRequested, TypeOK, WorldRecord
    <2>. HIDE DEF n
    <2>2. world' \in WorldRecord
      BY <1>0, <1>3, <2>1 DEF UndeferRequested, TypeOK, WorldRecord
    <2>. QED  BY <1>3, <2>2 DEF UndeferRequested, TypeOK
  <1>4. ASSUME NEW t \in Ids, NEW s \in Statuses, RulingGiven(t, s) PROVE TypeOK'
    <2>. DEFINE r == Append(world.rulings, [task |-> t, status |-> s, in |-> status.approach])
    <2>1. r \in Rulings
      BY <1>4 DEF TypeOK, WorldRecord, StatusRecord, Rulings
    <2>2. world' = [spent |-> world.spent, cut |-> world.cut, steering |-> world.steering,
                    undefer |-> world.undefer, rulings |-> r, edits |-> n]
      BY <1>4 DEF RulingGiven, TypeOK, WorldRecord
    <2>. HIDE DEF n, r
    <2>3. world' \in WorldRecord
      BY <1>0, <1>4, <2>1, <2>2 DEF RulingGiven, TypeOK, WorldRecord
    <2>. QED  BY <1>4, <2>3 DEF RulingGiven, TypeOK
  <1>. QED  BY <1>1, <1>2, <1>3, <1>4 DEF Operator

LEMMA StepEnteredType == ASSUME TypeOK PROVE StepEntered \in StreakRecord
  BY DEF TypeOK, StepEntered, NewStreak, StreakRecord

LEMMA MovedIsPlan ==
    ASSUME NEW p, IsPlan(p), NEW t, NEW s, NEW vigilant, NEW restoring, NEW justified
    PROVE  IsPlan(Moved(p, t, s, vigilant, restoring, justified))
  <1>1. CASE t \in DOMAIN p /\ ReportAccepted(p[t].status, s, vigilant, restoring, justified)
    <2>1. s \in Statuses
      BY <1>1, AcceptedIsStatus DEF IsPlan, TaskRecord
    <2>. QED  BY <1>1, <2>1, StatusWritten DEF Moved
  <1>2. CASE ~(t \in DOMAIN p /\ ReportAccepted(p[t].status, s, vigilant, restoring, justified))
    BY <1>2 DEF Moved
  <1>. QED  BY <1>1, <1>2

\* One task's history, rewritten.
LEMMA RejectionNoted ==
    ASSUME TypeOK, NEW t, NEW n \in Nat, past' = [past EXCEPT ![t].rejected = @ + n]
    PROVE  past' \in Past
  <1>1. ASSUME NEW x \in Ids
        PROVE  past'[x] \in [rejected : Nat, corroborated : Nat, split : BOOLEAN]
    BY <1>1 DEF TypeOK, Past
  <1>2. past' = [x \in Ids |-> past'[x]]
    BY DEF TypeOK, Past
  <1>. QED  BY <1>1, <1>2 DEF Past

LEMMA BoundaryType == ASSUME TypeOK, Boundary PROVE TypeOK'
  <1>1. CASE PassBegins
    BY <1>1, NewPassType DEF TypeOK, PassBegins, Places
  <1>2. CASE BudgetGone
    BY <1>2 DEF TypeOK, BudgetGone, Places
  <1>3. CASE RulingReapplied
    <2>. DEFINE r == world.rulings[pass.k + 1]
                moved == Moved(plan, r.task, r.status, TRUE, FALSE, TRUE)
    <2>1. IsPlan(plan')
      BY <1>3, MovedIsPlan DEF TypeOK, RulingReapplied
    <2>2. past' \in Past
      <3>. DEFINE n == IF r.status = "validation-failed" THEN 1 ELSE 0
      <3>1. past' = IF moved # plan THEN [past EXCEPT ![r.task].rejected = @ + n] ELSE past
        BY <1>3 DEF RulingReapplied
      <3>2. n \in Nat
        OBVIOUS
      <3>. HIDE DEF n, moved, r
      <3>. QED  BY <3>1, <3>2, RejectionNoted DEF TypeOK
    <2>3. pass' \in PassRecord
      BY <1>3 DEF TypeOK, RulingReapplied, PassRecord
    <2>. QED  BY <1>3, <2>1, <2>2, <2>3 DEF TypeOK, RulingReapplied
  <1>4. CASE BoundaryPassed
    <2>1. IsPlan(plan')
      <3>1. plan' = [t \in DOMAIN plan |-> plan'[t]]
        BY <1>4 DEF BoundaryPassed
      <3>2. ASSUME NEW t \in DOMAIN plan PROVE plan'[t] \in TaskRecord
        BY <1>4, <3>2 DEF TypeOK, BoundaryPassed, IsPlan, TaskRecord
      <3>. QED  BY <3>1, <3>2 DEF TypeOK, IsPlan
    <2>2. pass' \in PassRecord /\ world' \in WorldRecord
      BY <1>4 DEF TypeOK, BoundaryPassed, PassRecord, WorldRecord
    <2>. QED  BY <1>4, <2>1, <2>2 DEF TypeOK, BoundaryPassed, Places
  <1>5. CASE Resteered
    <2>1. world' \in WorldRecord
      BY <1>5 DEF Resteered, TypeOK, WorldRecord
    <2>. QED  BY <1>5, <2>1, StepEnteredType DEF TypeOK, Resteered, Places
  <1>6. ASSUME SteerCall PROVE pass' \in PassRecord
    BY <1>6 DEF TypeOK, SteerCall, PassRecord
  <1>7. ASSUME NEW deps \in SUBSET Ids, SteerInsert(deps) PROVE TypeOK'
    <2>. DEFINE i == FreshId(plan)
                D == ValidEdges(DepsOf(plan), i, deps)
    <2>1. i \in Ids \ DOMAIN plan
      BY <1>7, FreshIdIsFree DEF SteerInsert, TypeOK, IsPlan
    <2>2. D \in SUBSET Ids
      BY KeptEdges
    <2>3. plan' = Added(plan, i, NewTask("steer", D, NoTask))
      BY <1>7 DEF SteerInsert
    <2>. HIDE DEF i, D
    <2>4. /\ NewTask("steer", D, NoTask) \in TaskRecord
          /\ NewTask("steer", D, NoTask).tier = 0
          /\ NewTask("steer", D, NoTask).status = "pending"
      BY <2>2, NewTaskIsTask DEF Kinds
    <2>5. Leads(plan, Added(plan, i, NewTask("steer", D, NoTask)))
      <3>1. IsPlan(plan)
        BY DEF TypeOK
      <3>. QED  BY <2>1, <2>4, <3>1, AddedLeads, Zenon
    <2>. QED  BY <1>6, <1>7, <2>3, <2>5 DEF SteerInsert, TypeOK, Leads
  <1>8. ASSUME NEW t \in Ids, SteerDelete(t) PROVE TypeOK'
    <2>1. IsPlan(plan')
      BY <1>8 DEF SteerDelete, TypeOK, IsPlan
    <2>2. past' \in Past
      BY <1>8 DEF SteerDelete, TypeOK, Fresh, Past
    <2>. QED  BY <1>6, <1>8, <2>1, <2>2 DEF SteerDelete, TypeOK
  <1>9. ASSUME NEW t \in Ids, NEW deps \in SUBSET Ids, SteerRepoint(t, deps) PROVE TypeOK'
    <2>. DEFINE D == ValidEdges(DepsOf(plan), t, deps)
    <2>1. D \in SUBSET Ids
      BY KeptEdges
    <2>2. plan' = [plan EXCEPT ![t].deps = D]
      BY <1>9 DEF SteerRepoint
    <2>. HIDE DEF D
    <2>3. Leads(plan, [plan EXCEPT ![t].deps = D])
      <3>1. IsPlan(plan)
        BY DEF TypeOK
      <3>. QED  BY <2>1, <3>1, EdgesLead, Zenon
    <2>. QED  BY <1>6, <1>9, <2>2, <2>3 DEF SteerRepoint, TypeOK, Leads
  <1>10. ASSUME NEW t \in Ids, NEW s \in Statuses, SteerMoves(t, s) PROVE TypeOK'
    <2>1. IsPlan(plan')
      BY <1>10, StatusWritten DEF SteerMoves, TypeOK
    <2>2. past' \in Past
      BY <1>10, RejectionNoted DEF SteerMoves
    <2>. QED  BY <1>6, <1>10, <2>1, <2>2 DEF SteerMoves, TypeOK
  <1>. QED  BY <1>1, <1>2, <1>3, <1>4, <1>5, <1>7, <1>8, <1>9, <1>10 DEF Boundary

LEMMA ClaimedIsPlan ==
    ASSUME TypeOK, NEW t, Claim(t)
    PROVE  IsPlan(plan') /\ DOMAIN plan' = DOMAIN plan /\ t \in DOMAIN plan
  <1>1. DOMAIN plan' = DOMAIN plan /\ plan' = [x \in DOMAIN plan |-> plan'[x]]
    BY DEF Claim
  <1>2. ASSUME NEW x \in DOMAIN plan PROVE plan'[x] \in TaskRecord
    <2>1. plan[x] \in TaskRecord
      BY <1>2 DEF TypeOK, IsPlan
    <2>2. Escalated(plan[x].tier) \in Nat
      BY <2>1, TasksAssumption DEF Escalated, TaskRecord
    <2>3. plan'[x] = IF x # t THEN plan[x]
                     ELSE [plan[x] EXCEPT !.status = "in-progress",
                              !.tier = IF plan[x].status = "validation-failed"
                                       THEN Escalated(plan[x].tier) ELSE @]
      BY <1>2 DEF Claim
    <2>4. "in-progress" \in Statuses
      BY DEF Statuses
    <2>. QED  BY <2>1, <2>2, <2>3, <2>4 DEF TaskRecord
  <1>3. t \in DOMAIN plan
    BY DEF Claim, Selectable, Having, PendingCandidates
  <1>. QED  BY <1>1, <1>2, <1>3 DEF TypeOK, IsPlan

\* The graph fault is noted of its approach.
LEMMA FaultNoted ==
    ASSUME status \in StatusRecord
    PROVE  [status EXCEPT !.faulted = @ \cup {status.approach}, !.remedied = {}] \in StatusRecord
  <1>1. status.faulted \cup {status.approach} \in SUBSET Nat
    BY DEF StatusRecord
  <1>. QED  BY <1>1 DEF StatusRecord

LEMMA SelectionType == ASSUME TypeOK, Selection PROVE TypeOK'
  <1>1. ASSUME NEW t \in Ids, Claim(t) PROVE TypeOK'
    <2>1. plan[t] \in TaskRecord
      BY <1>1, ClaimedIsPlan DEF TypeOK, IsPlan
    <2>2. pass' \in PassRecord
      BY <1>1, <2>1 DEF TypeOK, Claim, PassRecord, TaskRecord, SpentItsBudget
    <2>3. streak' \in StreakRecord
      BY <1>1 DEF TypeOK, Claim, StreakRecord
    <2>. QED  BY <1>1, <2>2, <2>3, ClaimedIsPlan DEF TypeOK, Claim, Places
  <1>2. CASE DoomedPlan \/ GoesToSleep \/ WokenEarly
    BY <1>2 DEF TypeOK, DoomedPlan, GoesToSleep, WokenEarly, Places
  <1>3. CASE GraphFault
    <2>1. CASE plan' \in FreshPlans /\ past' = Untouched
      <3>1. IsPlan(plan')
        BY <2>1, FreshPlansArePlans
      <3>2. past' \in Past
        BY <2>1 DEF Untouched, Fresh, Past
      <3>3. status' \in StatusRecord
        BY <1>3, FaultNoted DEF TypeOK, GraphFault
      <3>. QED  BY <1>3, <3>1, <3>2, <3>3 DEF TypeOK, GraphFault, Places
    <2>2. CASE UNCHANGED <<plan, past>>
      <3>1. status' \in StatusRecord
        BY <1>3, FaultNoted DEF TypeOK, GraphFault
      <3>. QED  BY <1>3, <2>2, <3>1 DEF TypeOK, GraphFault, Places
    <2>. QED  BY <1>3, <2>1, <2>2 DEF GraphFault
  <1>4. CASE Held
    BY <1>4 DEF TypeOK, Held, PassRecord, Places
  <1>5. CASE NoTaskToRun \/ DeadlineWakes \/ HoldsOn
    <2>1. streak' \in StreakRecord
      BY <1>5 DEF TypeOK, NoTaskToRun, DeadlineWakes, HoldsOn, StreakRecord
    <2>. QED  BY <1>5, <2>1 DEF TypeOK, NoTaskToRun, DeadlineWakes, HoldsOn, Places
  <1>6. CASE SleepsOut
    <2>1. PICK t \in Waiting : plan' = [plan EXCEPT ![t].waits = FALSE]
      BY <1>6 DEF SleepsOut, TimerElapsed
    <2>2. ASSUME NEW x \in DOMAIN plan PROVE plan'[x] \in TaskRecord
      BY <2>1, <2>2 DEF TypeOK, IsPlan, TaskRecord
    <2>3. IsPlan(plan')
      BY <2>1, <2>2 DEF TypeOK, IsPlan
    <2>. QED  BY <1>6, <2>3 DEF TypeOK, SleepsOut, Places
  <1>. QED  BY <1>1, <1>2, <1>3, <1>4, <1>5, <1>6 DEF Selection

LEMMA SpentType == ASSUME TypeOK PROVE Spent \in WorldRecord
  BY DEF TypeOK, Spent, WorldRecord

LEMMA LandsLeads ==
    ASSUME NEW p, IsPlan(p), NEW t, NEW s, NEW touched
    PROVE  Leads(p, Lands(p, t, s, touched))
  BY ReconciledLeads, LeadsToItself DEF Lands

LEMMA KidsAreFree ==
    ASSUME IsPlan(plan), NEW n \in 1 .. 2, Room(plan, n)
    PROVE  Kids(n) \subseteq Ids \ DOMAIN plan
  <1>. DEFINE p == Added(plan, FreshId(plan), NewTask("worker", {}, NoTask))
  <1>1. Room(plan, 1)
    BY RoomForLess DEF IsPlan
  <1>2. FreshId(plan) \in Ids \ DOMAIN plan
    BY <1>1, FreshIdIsFree DEF IsPlan
  <1>3. ASSUME n = 2 PROVE FreshId(p) \in Ids \ DOMAIN plan
    <2>1. Room(p, 1)
      <3>1. Room(plan, 1 + 1)
        BY <1>3
      <3>. QED  BY <3>1, RoomAfterOne DEF IsPlan
    <2>2. DOMAIN p = DOMAIN plan \cup {FreshId(plan)}
      BY DEF Added
    <2>3. FreshId(p) \in Ids \ DOMAIN p
      BY <1>2, <2>1, <2>2, FreshIdIsFree DEF IsPlan
    <2>. QED  BY <2>2, <2>3
  <1>4. ASSUME NEW i \in 1 .. n PROVE Kid(i) \in Ids \ DOMAIN plan
    <2>1. CASE i = 1
      BY <1>2, <2>1 DEF Kid
    <2>2. CASE i # 1
      BY <1>3, <1>4, <2>2 DEF Kid
    <2>. QED  BY <2>1, <2>2
  <1>. QED  BY <1>4 DEF Kids

\* A split adds tasks nobody has worked on.
LEMMA WithKidsLead ==
    ASSUME TypeOK, NEW n \in 1 .. 2, SplitFits(n), NEW deps \in SplitsInto(n),
           NEW inherited \in SUBSET Ids
    PROVE  Leads(plan, WithKids(deps, inherited))
  <1>. DEFINE q == WithKids(deps, inherited)
  <1>1. DOMAIN deps = Kids(n) /\ Kids(n) \subseteq Ids \ DOMAIN plan
    BY KidsAreFree DEF TypeOK, SplitFits, SplitsInto
  <1>2. q = [t \in DOMAIN plan \cup Kids(n) |-> IF t \in Kids(n)
                 THEN NewTask("worker", deps[t] \cup inherited, pass.cur) ELSE plan[t]]
    BY <1>1 DEF WithKids
  <1>3. ASSUME NEW t \in Kids(n)
        PROVE  q[t] \in TaskRecord /\ q[t].tier = 0 /\ q[t].status # "validation-failed"
    <2>1. deps[t] \cup inherited \in SUBSET Ids
      BY <1>1, <1>3 DEF SplitsInto, TypeOK, IsPlan
    <2>2. pass.cur \in Ids \cup {NoTask}
      BY DEF TypeOK, PassRecord
    <2>3. q[t] = NewTask("worker", deps[t] \cup inherited, pass.cur)
      BY <1>2, <1>3
    <2>. QED  BY <2>1, <2>2, <2>3, NewTaskIsTask DEF Kinds
  <1>4. ASSUME NEW t \in DOMAIN plan PROVE q[t] = plan[t] /\ plan[t] \in TaskRecord
    BY <1>1, <1>2, <1>4 DEF TypeOK, IsPlan
  <1>5. DOMAIN q = DOMAIN plan \cup Kids(n) /\ DOMAIN q \subseteq Ids
    BY <1>1, <1>2 DEF TypeOK, IsPlan
  <1>6. q = [t \in DOMAIN q |-> q[t]]
    BY <1>2
  <1>. HIDE DEF q
  <1>7. IsPlan(q)
    BY <1>3, <1>4, <1>5, <1>6 DEF IsPlan
  <1>8. Tame(plan, q)
    BY <1>1, <1>3, <1>4, <1>5 DEF Tame
  <1>9. Leads(plan, q)
    BY <1>5, <1>7, <1>8 DEF Leads
  <1>. QED  BY <1>9 DEF q

LEMMA InheritedType == ASSUME TypeOK, pass.cur \in DOMAIN plan PROVE Inherited \in SUBSET Ids
  BY DEF TypeOK, IsPlan, TaskRecord, Inherited

\* The report's parts, as far as `pass` notes them.
LEMMA ToldType ==
    ASSUME TypeOK, NEW part \in DOMAIN Part
    PROVE  /\ Told(part) \in PassRecord /\ ToldAndStirred(part) \in PassRecord
           /\ \A claim \in {"idle", "corroborated"} :
                [Told(part) EXCEPT !.claim = claim] \in PassRecord
  <1>1. Part[part] \in 0 .. 5
    BY DEF Part
  <1>. HIDE DEF Part
  <1>. QED  BY <1>1 DEF TypeOK, Told, ToldAndStirred, PassRecord

LEMMA ReportType ==
    ASSUME TypeOK,
           \/ \E t \in Ids, st \in Statuses, justified, touched \in BOOLEAN :
                 StatusReported(t, st, justified, touched)
           \/ \E claim \in {"corroborated", "idle"} : ProgressReported(claim)
           \/ \E n \in 1 .. 2 : ForcedSplit(n)
           \/ \E n \in 1 .. 2 : VoluntarySplit(n)
           \/ SplitDone
           \/ \E t \in Ids, deps \in SUBSET Ids : WorkerRepoints(t, deps)
    PROVE  TypeOK'
  <1>. DEFINE parts == DOMAIN Part
  <1>0. parts = {"task_status", "progress", "forced_split", "split", "repoint"}
    BY DEF Part
  <1>. HIDE DEF parts
  <1>1. ASSUME NEW t \in Ids, NEW st \in Statuses, NEW justified, NEW touched,
               StatusReported(t, st, justified, touched)
        PROVE  TypeOK'
    <2>1. IsPlan([plan EXCEPT ![t].status = st])
      BY StatusWritten DEF TypeOK
    <2>2. IsPlan(plan')
      BY <1>1, <2>1, LandsLeads DEF StatusReported, Leads
    <2>3. past' \in Past
      BY <1>1, RejectionNoted DEF StatusReported
    <2>4. pass' \in PassRecord
      BY <1>0, <1>1, ToldType DEF StatusReported, parts
    <2>. QED  BY <1>1, <2>2, <2>3, <2>4 DEF TypeOK, StatusReported
  <1>2. ASSUME NEW claim \in {"corroborated", "idle"}, ProgressReported(claim) PROVE TypeOK'
    <2>1. pass' \in PassRecord
      BY <1>0, <1>2, ToldType DEF ProgressReported, parts
    <2>2. status' \in StatusRecord
      <3>. DEFINE u == IF status.task = pass.cur THEN status.used + 1 ELSE 1
      <3>1. u \in Nat /\ pass.cur \in Ids \cup {NoTask}
        BY DEF TypeOK, StatusRecord, PassRecord
      <3>2. status' \in {status, [status EXCEPT !.task = pass.cur, !.used = u]}
        BY <1>2 DEF ProgressReported
      <3>. HIDE DEF u
      <3>. QED  BY <3>1, <3>2 DEF TypeOK, StatusRecord
    <2>3. past' \in Past
      <3>1. ASSUME NEW x \in Ids
            PROVE  past'[x] \in [rejected : Nat, corroborated : Nat, split : BOOLEAN]
        BY <1>2, <3>1 DEF TypeOK, Past, ProgressReported
      <3>2. past' = [x \in Ids |-> past'[x]]
        BY <1>2 DEF TypeOK, Past, ProgressReported
      <3>. QED  BY <3>1, <3>2 DEF Past
    <2>. QED  BY <1>2, <2>1, <2>2, <2>3 DEF TypeOK, ProgressReported
  <1>3. ASSUME NEW n \in 1 .. 2, ForcedSplit(n) PROVE TypeOK'
    <2>1. PICK deps \in SplitsInto(n) : plan' = WithKids(deps, Inherited)
      BY <1>3 DEF ForcedSplit
    <2>2. IsPlan(plan')
      BY <1>3, <2>1, InheritedType, WithKidsLead DEF ForcedSplit, SplitFits, Leads
    <2>3. past' \in Past
      <3>1. ASSUME NEW x \in Ids
            PROVE  past'[x] \in [rejected : Nat, corroborated : Nat, split : BOOLEAN]
        BY <1>3, <3>1 DEF TypeOK, Past, ForcedSplit
      <3>2. past' = [x \in Ids |-> past'[x]]
        BY <1>3 DEF TypeOK, Past, ForcedSplit
      <3>. QED  BY <3>1, <3>2 DEF Past
    <2>4. pass' \in PassRecord
      BY <1>3 DEF TypeOK, ForcedSplit, PassRecord
    <2>. QED  BY <1>3, <2>2, <2>3, <2>4 DEF TypeOK, ForcedSplit, Places
  <1>4. ASSUME NEW n \in 1 .. 2, VoluntarySplit(n) PROVE TypeOK'
    <2>1. PICK deps \in SplitsInto(n) : plan' = WithKids(deps, {})
      BY <1>4 DEF VoluntarySplit
    <2>2. IsPlan(plan')
      BY <1>4, <2>1, WithKidsLead DEF VoluntarySplit, Leads
    <2>3. pass' \in PassRecord
      BY <1>0, <1>4, ToldType DEF VoluntarySplit, parts
    <2>4. status' \in StatusRecord
      <3>. DEFINE m == status.splits + n
      <3>1. m \in Nat
        BY DEF TypeOK, StatusRecord
      <3>2. status' = [status EXCEPT !.splits = m]
        BY <1>4 DEF VoluntarySplit
      <3>. HIDE DEF m
      <3>. QED  BY <3>1, <3>2 DEF TypeOK, StatusRecord
    <2>. QED  BY <1>4, <2>2, <2>3, <2>4 DEF TypeOK, VoluntarySplit
  <1>5. CASE SplitDone
    <2>1. IsPlan(plan')
      BY <1>5, StatusWritten DEF TypeOK, SplitDone, ParentSuperseded, Statuses
    <2>2. pass' \in PassRecord
      BY <1>0, <1>5, ToldType DEF SplitDone, parts
    <2>3. status' \in StatusRecord /\ streak' \in StreakRecord
      BY <1>5 DEF TypeOK, SplitDone, StatusRecord, StreakRecord, PassRecord
    <2>. QED  BY <1>5, <2>1, <2>2, <2>3 DEF TypeOK, SplitDone, Places
  <1>6. ASSUME NEW t \in Ids, NEW deps \in SUBSET Ids, WorkerRepoints(t, deps) PROVE TypeOK'
    <2>1. IsPlan(plan')
      BY <1>6, EdgesLead DEF TypeOK, WorkerRepoints, Leads
    <2>2. pass' \in PassRecord
      BY <1>0, <1>6, ToldType DEF WorkerRepoints, parts
    <2>3. status' \in StatusRecord
      BY <1>6 DEF TypeOK, WorkerRepoints, StatusRecord
    <2>. QED  BY <1>6, <2>1, <2>2, <2>3 DEF TypeOK, WorkerRepoints
  <1>. QED  BY <1>1, <1>2, <1>3, <1>4, <1>5, <1>6

LEMMA GivenBackIsPlan == ASSUME TypeOK PROVE IsPlan(GivenBack)
  <1>1. CASE ~(pass.from # "none" /\ plan[pass.cur].status = "in-progress")
    BY <1>1 DEF GivenBack, TypeOK
  <1>2. CASE pass.from # "none" /\ plan[pass.cur].status = "in-progress"
    <2>1. DOMAIN GivenBack = DOMAIN plan /\ GivenBack = [x \in DOMAIN plan |-> GivenBack[x]]
      BY <1>2 DEF GivenBack
    <2>2. ASSUME NEW x \in DOMAIN plan PROVE GivenBack[x] \in TaskRecord
      <3>1. plan[x] \in TaskRecord /\ pass.from \in Statuses /\ pass.tier \in Nat
        BY <1>2, <2>2 DEF TypeOK, IsPlan, PassRecord
      <3>2. GivenBack[x] = IF x # pass.cur THEN plan[x]
                           ELSE [plan[x] EXCEPT !.status = pass.from,
                                    !.tier = IF pass.from = "validation-failed"
                                             THEN pass.tier ELSE @]
        BY <1>2, <2>2 DEF GivenBack
      <3>. QED  BY <3>1, <3>2 DEF TaskRecord
    <2>. QED  BY <2>1, <2>2 DEF TypeOK, IsPlan
  <1>. QED  BY <1>1, <1>2

LEMMA IterationType == ASSUME TypeOK, Iteration PROVE TypeOK'
  <1>1. CASE Iterates
    BY <1>1, SpentType DEF TypeOK, Iterates, Places
  <1>2. CASE SecretFound
    <2>1. IsPlan(plan')
      BY <1>2, StatusWritten DEF TypeOK, SecretFound, Statuses
    <2>. QED  BY <1>2, <2>1, SpentType DEF TypeOK, SecretFound, Places
  <1>3. ASSUME NEW givesBack \in BOOLEAN, IterationFaulted(givesBack) PROVE TypeOK'
    <2>1. IsPlan(plan')
      BY <1>3, GivenBackIsPlan DEF TypeOK, IterationFaulted
    <2>2. pass' \in PassRecord
      BY <1>3 DEF TypeOK, IterationFaulted, PassRecord
    <2>. QED  BY <1>3, <2>1, <2>2, SpentType DEF TypeOK, IterationFaulted, Places
  <1>4. CASE Complete
    <2>1. IsPlan(plan')
      BY <1>4, StatusWritten DEF TypeOK, Complete, Statuses
    <2>2. pass' \in PassRecord /\ streak' \in StreakRecord
      BY <1>4 DEF TypeOK, Complete, PassRecord, StreakRecord
    <2>. QED  BY <1>4, <2>1, <2>2 DEF TypeOK, Complete, Places
  <1>5. CASE PlanComplete \/ NoVerdict
    BY <1>5 DEF TypeOK, PlanComplete, NoVerdict, Places
  <1>6. CASE Deferred
    <2>1. ASSUME NEW x \in DOMAIN plan PROVE plan'[x] \in TaskRecord
      BY <1>6, <2>1 DEF TypeOK, Deferred, IsPlan, TaskRecord, Statuses
    <2>2. IsPlan(plan')
      BY <1>6, <2>1 DEF TypeOK, Deferred, IsPlan
    <2>3. streak' \in StreakRecord
      BY <1>6 DEF TypeOK, Deferred, StreakRecord
    <2>. QED  BY <1>6, <2>2, <2>3 DEF TypeOK, Deferred, Places
  <1>7. ASSUME NEW t \in Ids, Unsatisfiable(t) PROVE TypeOK'
    <2>1. IsPlan(plan')
      BY <1>7, StatusWritten DEF TypeOK, Unsatisfiable, Statuses
    <2>2. streak' \in StreakRecord
      BY <1>7 DEF TypeOK, Unsatisfiable, StreakRecord
    <2>. QED  BY <1>7, <2>1, <2>2 DEF TypeOK, Unsatisfiable, Places
  <1>. QED  BY <1>1, <1>2, <1>3, <1>4, <1>5, <1>6, <1>7, ReportType DEF Iteration

LEMMA OpenIsKnown == ASSUME TypeOK PROVE OpenPetitions \subseteq Ids
  BY DEF TypeOK, IsPlan, OpenPetitions, Having

LEMMA AdjudicationsType ==
    ASSUME TypeOK, NEW f \in Adjudications
    PROVE  f \in AnswerSheets /\ DOMAIN f \subseteq Ids
  <1>1. f \in [OpenPetitions -> Answers]
    BY DEF Adjudications
  <1>. QED  BY <1>1, OpenIsKnown DEF AnswerSheets

LEMMA AnsweredIsKnown ==
    ASSUME NEW f \in AnswerSheets, NEW answer
    PROVE  Answered(f, answer) \in SUBSET Ids
  BY DEF AnswerSheets, Answered

LEMMA RefutedLeads == ASSUME TypeOK, RefutedApplied PROVE Leads(plan, plan')
  <1>. DEFINE form == Answered(pass.answers, "form")
              substance == Answered(pass.answers, "substance")
  <1>1. plan' = [t \in DOMAIN plan |->
                    CASE t \in form -> [plan[t] EXCEPT !.status = "validated"]
                      [] t \in substance -> [plan[t] EXCEPT !.status = "failed"]
                      [] OTHER -> plan[t]]
    BY DEF RefutedApplied
  <1>2. \A t : ~(t \in form /\ t \in substance)
    BY DEF Answered
  <1>. HIDE DEF form, substance
  <1>3. ASSUME NEW t \in DOMAIN plan
        PROVE  /\ plan'[t] \in TaskRecord /\ plan'[t].tier = plan[t].tier
               /\ plan'[t].status = plan[t].status \/ plan'[t].status # "validation-failed"
    <2>1. plan[t] \in TaskRecord
      BY <1>3 DEF TypeOK, IsPlan
    <2>2. CASE t \in form
      <3>1. plan'[t] = [plan[t] EXCEPT !.status = "validated"]
        BY <1>1, <1>2, <1>3, <2>2
      <3>. QED  BY <2>1, <3>1 DEF TaskRecord, Statuses
    <2>3. CASE t \in substance
      <3>1. plan'[t] = [plan[t] EXCEPT !.status = "failed"]
        BY <1>1, <1>2, <1>3, <2>3
      <3>. QED  BY <2>1, <3>1 DEF TaskRecord, Statuses
    <2>4. CASE t \notin form \cup substance
      <3>1. plan'[t] = plan[t]
        BY <1>1, <1>3, <2>4
      <3>. QED  BY <2>1, <3>1
    <2>. QED  BY <2>2, <2>3, <2>4
  <1>4. plan' = [t \in DOMAIN plan |-> plan'[t]]
    BY <1>1
  <1>. QED  BY <1>3, <1>4, RewrittenLeads, Zenon DEF TypeOK

LEMMA ConfirmedLeads ==
    ASSUME TypeOK, NEW by \in Ids \cup {NoTask}, ConfirmedApplied(by)
    PROVE  Leads(plan, plan')
  <1>. DEFINE confirmed == Answered(pass.answers, "confirmed")
  <1>1. plan' = [t \in DOMAIN plan |->
                  [plan[t] EXCEPT !.status = IF t \in confirmed THEN "skipped" ELSE @,
                                  !.deps = EdgeOfVoided(plan, t, by)]]
    BY DEF ConfirmedApplied
  <1>. HIDE DEF confirmed
  <1>2. ASSUME NEW t \in DOMAIN plan
        PROVE  /\ plan'[t] \in TaskRecord /\ plan'[t].tier = plan[t].tier
               /\ plan'[t].status = plan[t].status \/ plan'[t].status # "validation-failed"
    <2>1. plan[t] \in TaskRecord /\ DOMAIN plan \subseteq Ids
      BY <1>2 DEF TypeOK, IsPlan
    <2>2. EdgeOfVoided(plan, t, by) \in SUBSET Ids
      BY <2>1 DEF EdgeOfVoided, TaskRecord
    <2>3. "skipped" \in Statuses
      BY DEF Statuses
    <2>. HIDE DEF EdgeOfVoided
    <2>. QED  BY <1>1, <1>2, <2>1, <2>2, <2>3 DEF TaskRecord
  <1>3. plan' = [t \in DOMAIN plan |-> plan'[t]]
    BY <1>1
  <1>. QED  BY <1>2, <1>3, RewrittenLeads, Zenon DEF TypeOK

LEMMA RelabelledLeads == ASSUME TypeOK PROVE Leads(plan, Relabelled(plan))
  <1>. DEFINE q == Relabelled(plan)
  <1>1. q = [t \in DOMAIN plan |-> q[t]]
    BY DEF Relabelled
  <1>2. ASSUME NEW t \in DOMAIN plan
        PROVE  /\ q[t] \in TaskRecord /\ q[t].tier = plan[t].tier
               /\ q[t].status = plan[t].status \/ q[t].status # "validation-failed"
    BY <1>2 DEF Relabelled, TypeOK, IsPlan, TaskRecord, Statuses
  <1>. HIDE DEF q
  <1>3. Leads(plan, q)
    BY <1>1, <1>2, RewrittenLeads DEF TypeOK
  <1>. QED  BY <1>3 DEF q

\* The record a pass re-opens was in the plan before it: the task the pass adds is a
\* cure, and a cure is nobody's record.
LEMMA RecordsAreHeld ==
    ASSUME NEW p, NEW finding
    PROVE  RecordsReopened(p, finding) \subseteq DOMAIN p
  <1>. DEFINE c == FreshId(p)
              a == Added(p, c, NewTask("cure", {}, NoTask))
              e == EdgeAppended(a, Freeze, c)
              h == Handed(p, finding)
  <1>1. /\ a = [t \in DOMAIN a |-> a[t]] /\ DOMAIN a = DOMAIN p \cup {c}
        /\ a[c] = NewTask("cure", {}, NoTask)
    BY DEF Added
  <1>2. /\ e = [t \in DOMAIN a |-> e[t]] /\ DOMAIN e = DOMAIN a
        /\ e[c].kind = "cure"
    <2>. HIDE DEF a
    <2>1. a[c].kind = "cure" /\ "kind" \in DOMAIN a[c] /\ c \in DOMAIN a
      BY <1>1 DEF NewTask
    <2>2. CASE Freeze \notin DOMAIN a
      BY <1>1, <2>1, <2>2 DEF EdgeAppended
    <2>3. CASE Freeze \in DOMAIN a
      <3>1. e = [a EXCEPT ![Freeze].deps =
                            ValidEdges(DepsOf(a), Freeze, a[Freeze].deps \cup {c})]
        BY <2>3 DEF EdgeAppended
      <3>. DEFINE v == ValidEdges(DepsOf(a), Freeze, a[Freeze].deps \cup {c})
      <3>. HIDE DEF e, v, c
      <3>. QED  BY <1>1, <2>1, <3>1 DEF NewTask, v
    <2>. QED  BY <2>2, <2>3
  <1>3. DOMAIN h = DOMAIN p \cup {c} /\ h[c].kind = "cure"
    BY <1>1, <1>2 DEF Handed, Repointed
  <1>. HIDE DEF h, c
  <1>4. ChainRecognised(h) => Record \in DOMAIN p
    BY <1>3 DEF ChainRecognised, EngineAuthored
  <1>. QED  BY <1>4 DEF RecordsReopened, h

\* What a cure pass notes of the records it re-opens.
LEMMA ReopenedAfterType ==
    ASSUME TypeOK, NEW finding, NEW moved, FreshId(plan) \in Ids
    PROVE  IsReopen(ReopenedAfter(plan, reopened, finding, moved))
  <1>. DEFINE S == RecordsReopened(plan, finding)
              c == FreshId(plan)
              r == ReopenedAfter(plan, reopened, finding, moved)
  <1>1. S \subseteq DOMAIN plan
    BY RecordsAreHeld
  <1>2. r = [t \in DOMAIN reopened \cup S |->
                IF t \notin S THEN reopened[t]
                ELSE [prior |-> PriorStatus(plan, reopened, t),
                      owners |-> (IF t \in DOMAIN reopened /\ ~moved THEN reopened[t].owners
                                  ELSE {}) \cup {c}]]
    BY DEF ReopenedAfter
  <1>. HIDE DEF S, c, r
  <1>3. DOMAIN r \subseteq Ids /\ r = [t \in DOMAIN r |-> r[t]]
    BY <1>1, <1>2 DEF TypeOK, IsPlan, IsReopen
  <1>4. ASSUME NEW t \in DOMAIN r PROVE r[t] \in [prior : Statuses, owners : SUBSET Ids]
    <2>1. ASSUME t \in DOMAIN reopened
          PROVE  /\ reopened[t] \in [prior : Statuses, owners : SUBSET Ids]
                 /\ reopened[t].prior \in Statuses /\ reopened[t].owners \in SUBSET Ids
      BY <2>1 DEF TypeOK, IsReopen
    <2>2. CASE t \notin S
      BY <1>2, <1>4, <2>1, <2>2
    <2>3. CASE t \in S
      <3>1. PriorStatus(plan, reopened, t) \in Statuses
        BY <1>1, <2>1, <2>3 DEF PriorStatus, TypeOK, IsPlan, TaskRecord
      <3>2. c \in Ids
        BY DEF c
      <3>. DEFINE owners == (IF t \in DOMAIN reopened /\ ~moved THEN reopened[t].owners
                             ELSE {}) \cup {c}
      <3>3. owners \in SUBSET Ids
        BY <2>1, <3>2
      <3>4. r[t] = [prior |-> PriorStatus(plan, reopened, t), owners |-> owners]
        BY <1>2, <1>4, <2>3
      <3>. HIDE DEF owners
      <3>. QED  BY <3>1, <3>3, <3>4
    <2>. QED  BY <2>2, <2>3
  <1>5. IsReopen(r)
    BY <1>3, <1>4 DEF IsReopen
  <1>. QED  BY <1>5 DEF r

LEMMA FindingsType == ASSUME TypeOK PROVE ReviewFindings \subseteq Findings
  BY DEF TypeOK, IsPlan, ReviewFindings, Findings, Having

LEMMA CuresType ==
    ASSUME TypeOK, NEW finding \in Findings, NEW moved, Room(plan, IdsTaken(finding)),
           plan' = CurePass(plan, finding),
           reopened' = ReopenedAfter(plan, reopened, finding, moved)
    PROVE  Leads(plan, plan') /\ IsPlan(plan') /\ IsReopen(reopened')
  <1>1. Leads(plan, plan')
    BY CurePassLeads DEF TypeOK
  <1>2. FreshId(plan) \in Ids
    BY CuredLeads DEF TypeOK
  <1>. QED  BY <1>1, <1>2, ReopenedAfterType DEF Leads

\* The remedy of an adjudication.
LEMMA RemedyType ==
    ASSUME TypeOK, NEW moved, RemedyInserted(moved)
    PROVE  Leads(plan, plan') /\ IsPlan(plan') /\ IsReopen(reopened')
  <1>. DEFINE finding == [named |-> Answered(pass.answers, "substance"), paths |-> {}]
  <1>1. Answered(pass.answers, "substance") \in SUBSET Ids
    BY AnsweredIsKnown DEF TypeOK, PassRecord
  <1>2. finding \in Findings /\ Room(plan, IdsTaken(finding))
    BY <1>1, PathsOfFinding DEF Findings, IdsTaken, RemedyInserted
  <1>3. /\ plan' = CurePass(plan, finding)
        /\ reopened' = ReopenedAfter(plan, reopened, finding, moved)
    BY DEF RemedyInserted
  <1>. HIDE DEF finding
  <1>. QED  BY <1>2, <1>3, CuresType

LEMMA RecordedType ==
    ASSUME TypeOK, NEW f \in AnswerSheets PROVE RulingsRecorded(f) \in StatusRecord
  <1>1. Answered(f, "confirmed") \in SUBSET Ids
    BY AnsweredIsKnown
  <1>2. RuledOn(f) \in SUBSET Ids
    BY DEF RuledOn, AnswerSheets
  <1>. QED  BY <1>1, <1>2 DEF RulingsRecorded, TypeOK, StatusRecord

LEMMA RejectedIsPlan == ASSUME TypeOK, NEW t, VerifyRejects(t) PROVE IsPlan(plan')
  <1>1. PICK s \in Statuses :
            plan' = [plan EXCEPT ![t].tries = @ + 1, ![t].status = s]
    BY DEF VerifyRejects, Statuses
  <1>2. ASSUME NEW x \in DOMAIN plan PROVE plan'[x] \in TaskRecord
    <2>1. plan[x] \in TaskRecord
      BY <1>2 DEF TypeOK, IsPlan
    <2>. DEFINE n == plan[x].tries + 1
    <2>2. n \in Nat
      BY <2>1 DEF TaskRecord
    <2>3. plan'[x] \in {plan[x], [plan[x] EXCEPT !.tries = n, !.status = s]}
      BY <1>1, <1>2
    <2>. HIDE DEF n
    <2>. QED  BY <2>1, <2>2, <2>3 DEF TaskRecord
  <1>. QED  BY <1>1, <1>2 DEF TypeOK, IsPlan

LEMMA VerificationType == ASSUME TypeOK, Verification PROVE TypeOK'
  <1>1. CASE VerificationListed
    <2>1. IsPlan(plan')
      BY <1>1, RelabelledLeads DEF VerificationListed, Leads
    <2>2. Having(plan', {"awaiting-validation"}) \subseteq Ids
      BY <2>1 DEF IsPlan, Having
    <2>. DEFINE listed == Having(plan', {"awaiting-validation"})
                stirred == pass.stirred \/ plan' # plan
    <2>3. stirred \in BOOLEAN
      OBVIOUS
    <2>4. pass' = [pass EXCEPT !.toVerify = listed, !.then = "midplan", !.stirred = stirred]
      BY <1>1 DEF VerificationListed
    <2>. HIDE DEF listed, stirred
    <2>5. pass' \in PassRecord
      BY <2>2, <2>3, <2>4 DEF TypeOK, PassRecord, listed
    <2>. QED  BY <1>1, <2>1, <2>5 DEF TypeOK, VerificationListed, Places
  <1>2. CASE AdjudicationSkipped
    <2>1. pass.then \in Places
      BY DEF TypeOK, PassRecord, Places
    <2>. QED  BY <1>2, <2>1 DEF TypeOK, AdjudicationSkipped
  <1>3. CASE Adjudicated
    <2>1. PICK answers \in Adjudications : AdjudicationRecorded(answers)
      BY <1>3 DEF Adjudicated
    <2>2. answers \in AnswerSheets
      BY AdjudicationsType
    <2>3. status' \in StatusRecord /\ pass' \in PassRecord
      BY <2>1, <2>2, RecordedType DEF TypeOK, AdjudicationRecorded, PassRecord
    <2>4. streak' \in StreakRecord
      BY <1>3, OpenIsKnown DEF TypeOK, Adjudicated, StreakRecord
    <2>. QED  BY <1>3, <2>1, <2>3, <2>4 DEF TypeOK, Adjudicated, AdjudicationRecorded, Places
  <1>4. CASE RefutedApplied
    BY <1>4, RefutedLeads DEF TypeOK, RefutedApplied, Leads, Places
  <1>5. ASSUME NEW moved, RemedyInserted(moved) PROVE TypeOK'
    <2>1. Answered(pass.answers, "substance") \in SUBSET Ids
      BY AnsweredIsKnown DEF TypeOK, PassRecord
    <2>2. status' = [status EXCEPT !.remedied = @ \cup Answered(pass.answers, "substance")]
      BY <1>5 DEF RemedyInserted
    <2>3. status' \in StatusRecord
      BY <2>1, <2>2 DEF TypeOK, StatusRecord
    <2>. QED  BY <1>5, <2>3, RemedyType DEF TypeOK, RemedyInserted, Places
  <1>6. ASSUME NEW by \in Ids \cup {NoTask}, ConfirmedApplied(by) PROVE TypeOK'
    <2>1. IsPlan(plan')
      BY <1>6, ConfirmedLeads DEF Leads
    <2>2. pass' \in PassRecord
      BY <1>6, NoAnswersAreAnswers DEF TypeOK, ConfirmedApplied, PassRecord
    <2>3. pass.then \in Places
      BY DEF TypeOK, PassRecord, Places
    <2>. QED  BY <1>6, <2>1, <2>2, <2>3 DEF TypeOK, ConfirmedApplied
  <1>7. CASE MidPlanSkipped \/ VerificationOver
    BY <1>7 DEF TypeOK, MidPlanSkipped, VerificationOver, Places
  <1>8. CASE MidPlanReviewed
    <2>1. status' \in StatusRecord /\ pass' \in PassRecord
      BY <1>8 DEF TypeOK, MidPlanReviewed, StatusRecord, PassRecord
    <2>2. IsPlan(plan') /\ IsReopen(reopened') /\ at' \in Places
      <3>1. CASE at' = "verify" /\ UNCHANGED <<plan, reopened>>
        BY <3>1 DEF TypeOK, Places
      <3>2. ASSUME NEW finding \in ReviewFindings, NEW moved \in BOOLEAN,
                   Curable(finding), CuresInserted(finding, moved)
            PROVE  IsPlan(plan') /\ IsReopen(reopened') /\ at' \in Places
        BY <3>2, FindingsType, CuresType DEF Curable, CuresInserted, Places
      <3>. QED  BY <1>8, <3>1, <3>2 DEF MidPlanReviewed
    <2>. QED  BY <1>8, <2>1, <2>2, SpentType DEF TypeOK, MidPlanReviewed
  <1>9. CASE CurePassCounted
    <2>1. pass.then \in Places
      BY DEF TypeOK, PassRecord, Places
    <2>2. status' \in StatusRecord
      BY <1>9 DEF TypeOK, CurePassCounted, StatusRecord
    <2>. QED  BY <1>9, <2>1, <2>2 DEF TypeOK, CurePassCounted
  <1>10. ASSUME NEW t \in Ids, NEW touched, VerifyPasses(t, touched) PROVE TypeOK'
    <2>1. IsPlan([plan EXCEPT ![t].status = "validated"])
      BY StatusWritten DEF TypeOK, Statuses
    <2>2. IsPlan(plan')
      BY <1>10, <2>1, LandsLeads DEF VerifyPasses, Leads
    <2>3. pass' \in PassRecord
      BY <1>10 DEF TypeOK, VerifyPasses, PassRecord
    <2>. QED  BY <1>10, <2>2, <2>3, SpentType DEF TypeOK, VerifyPasses
  <1>11. ASSUME NEW t \in Ids, VerifyRejects(t) PROVE TypeOK'
    <2>1. status' \in StatusRecord
      BY <1>11 DEF TypeOK, VerifyRejects, StatusRecord
    <2>2. past' \in Past
      BY <1>11, RejectionNoted DEF VerifyRejects
    <2>3. pass' \in PassRecord
      BY <1>11 DEF TypeOK, VerifyRejects, PassRecord
    <2>. QED  BY <1>11, <2>1, <2>2, <2>3, RejectedIsPlan, SpentType
              DEF TypeOK, VerifyRejects, Places
  <1>12. ASSUME NEW t \in Ids, VerifyMute(t) PROVE TypeOK'
    <2>1. pass' \in PassRecord
      BY <1>12 DEF TypeOK, VerifyMute, PassRecord
    <2>. QED  BY <1>12, <2>1, SpentType DEF TypeOK, VerifyMute
  <1>. QED  BY <1>1, <1>2, <1>3, <1>4, <1>5, <1>6, <1>7, <1>8, <1>9, <1>10, <1>11, <1>12
            DEF Verification

LEMMA JudgementType == ASSUME TypeOK, Judgement PROVE TypeOK'
  <1>0. Repolls \in Nat
    BY DEF TypeOK, Repolls, StreakRecord
  <1>1. CASE TallyApplied \/ TallyPassedOver \/ ReviewUnaffordable \/ ReviewRejects
             \/ ReviewEnds \/ OutOfApproaches
    BY <1>1 DEF TypeOK, TallyApplied, TallyPassedOver, ReviewUnaffordable, ReviewRejects,
                ReviewEnds, OutOfApproaches, Places
  <1>2. CASE BreakerTrips
    <2>1. world' \in WorldRecord
      BY <1>2 DEF TypeOK, BreakerTrips, WorldRecord
    <2>. QED  BY <1>2, <2>1 DEF TypeOK, BreakerTrips, Places
  <1>3. CASE BacksOff
    <2>1. ASSUME NEW x \in DOMAIN plan PROVE plan'[x] \in TaskRecord
      BY <1>3, <2>1 DEF TypeOK, BacksOff, IsPlan, TaskRecord, Statuses
    <2>2. IsPlan(plan')
      BY <1>3, <2>1 DEF TypeOK, BacksOff, IsPlan
    <2>3. streak' \in StreakRecord
      BY <1>3, TasksAssumption DEF TypeOK, BacksOff, StreakRecord, PassRecord
    <2>. QED  BY <1>3, <2>2, <2>3 DEF TypeOK, BacksOff, Places
  <1>4. ASSUME NEW activity \in BOOLEAN, Tally(activity) PROVE TypeOK'
    <2>. DEFINE n == Stagnant(activity)
    <2>1. n \in Nat
      BY DEF TypeOK, Stagnant, StreakRecord
    <2>2. streak' = [streak EXCEPT !.on = pass.cur, !.repolls = Repolls, !.stagnant = n]
      BY <1>4 DEF Tally
    <2>. HIDE DEF n
    <2>3. streak' \in StreakRecord
      BY <1>0, <2>1, <2>2 DEF TypeOK, StreakRecord, PassRecord
    <2>. QED  BY <1>4, <2>3 DEF TypeOK, Tally, Places
  <1>5. CASE ReviewAnswers
    <2>1. PICK f \in Adjudications :
            /\ status' = RulingsRecorded(f)
            /\ pass' = [NewPass EXCEPT !.answers = f, !.then = "reviewed"]
      BY <1>5 DEF ReviewAnswers
    <2>2. f \in AnswerSheets
      BY AdjudicationsType
    <2>3. status' \in StatusRecord /\ pass' \in PassRecord
      BY <2>1, <2>2, NewPassType, RecordedType DEF TypeOK, PassRecord
    <2>. QED  BY <1>5, <2>3, SpentType DEF TypeOK, ReviewAnswers, Places
  <1>6. CASE ReviewCured
    <2>1. PICK finding \in ReviewFindings, moved \in BOOLEAN :
            Curable(finding) /\ CuresInserted(finding, moved)
      BY <1>6 DEF ReviewCured
    <2>2. IsPlan(plan') /\ IsReopen(reopened') /\ at' \in Places
      BY <2>1, FindingsType, CuresType DEF Curable, CuresInserted, Places
    <2>3. pass' \in PassRecord
      BY <1>6 DEF TypeOK, ReviewCured, PassRecord
    <2>. QED  BY <1>6, <2>2, <2>3, StepEnteredType DEF TypeOK, ReviewCured
  <1>7. ASSUME NEW worded \in BOOLEAN, Replanned(worded) PROVE TypeOK'
    <2>1. IsPlan(plan')
      BY <1>7, FreshPlansArePlans DEF Replanned
    <2>2. past' \in Past
      BY <1>7 DEF Replanned, Untouched, Fresh, Past
    <2>3. status' \in StatusRecord
      <3>. DEFINE n == status.approach + 1
                  filed == IF worded THEN status.filed ELSE {}
                  settled == IF worded THEN status.settled ELSE {}
                  confirmed == IF worded THEN status.confirmed ELSE {}
      <3>1. n \in Nat /\ {filed, settled, confirmed} \subseteq SUBSET Ids
        BY DEF TypeOK, StatusRecord
      <3>2. status' = [status EXCEPT !.approach = n, !.splits = 0, !.repoints = 0,
                                     !.filed = filed, !.settled = settled,
                                     !.confirmed = confirmed, !.remedied = {}]
        BY <1>7 DEF Replanned
      <3>. HIDE DEF n, filed, settled, confirmed
      <3>. QED  BY <3>1, <3>2 DEF TypeOK, StatusRecord
    <2>. QED  BY <1>7, <2>1, <2>2, <2>3, StepEnteredType DEF TypeOK, Replanned, Places
  <1>. QED  BY <1>1, <1>2, <1>3, <1>4, <1>5, <1>6, <1>7 DEF Judgement

LEMMA KilledType == ASSUME TypeOK, Killed PROVE TypeOK'
  <1>1. world' \in WorldRecord
    BY DEF TypeOK, Killed, WorldRecord
  <1>2. streak' \in StreakRecord
    BY DEF Killed, NewStreak, StreakRecord
  <1>. QED  BY <1>1, <1>2, NewPassType DEF TypeOK, Killed, ResumesAt, Places

LEMMA TypeStep == ASSUME TypeOK, [Next]_vars PROVE TypeOK'
  <1>1. CASE UNCHANGED vars
    BY <1>1 DEF TypeOK, vars
  <1>2. CASE Over
    BY <1>2 DEF TypeOK, Over, vars
  <1>. QED  BY <1>1, <1>2, OperatorType, BoundaryType, SelectionType, IterationType,
               VerificationType, JudgementType, KilledType DEF Next, Engine

\* Whatever the plan, the limits and the operator's requests, every durable
\* record keeps the shape the step's code reads it by.
THEOREM TasksTyped == Spec => []TypeOK
  <1>1. Init => TypeOK
    BY InitType
  <1>2. TypeOK /\ [Next]_vars => TypeOK'
    BY TypeStep
  <1>. QED  BY <1>1, <1>2, PTL DEF Spec

(***************************************************************************)
(* The tier ladder.                                                        *)
(***************************************************************************)
\* Where a task may be given back, the tier it is given back with is earned, and
\* a pass that has claimed nothing has nothing to give back.
ClaimRecalled ==
    /\ at = "run" /\ pass.from = "validation-failed" =>
          pass.cur \in Ids /\ pass.tier < past[pass.cur].rejected
    /\ at \in {"rulings", "steer", "select", "sleep"} =>
          pass.from = "none" /\ pass.then # "held"
    /\ at = "held" \/ pass.then = "held" => pass.from = "none"

RejectedNow(t) == IF plan[t].status = "validation-failed" THEN 1 ELSE 0

\* One rejection is kept for the step the next claim climbs.
StandingEarned == \A t \in DOMAIN plan : plan[t].tier + RejectedNow(t) <= past[t].rejected

LEMMA InitRecalled == ASSUME Init PROVE ClaimRecalled /\ StandingEarned
  <1>1. \A t \in DOMAIN plan : plan[t].tier = 0 /\ plan[t].status = "pending"
    BY FreshPlansArePlans DEF Init
  <1>2. \A t \in DOMAIN plan : t \in Ids /\ past[t].rejected = 0
    BY FreshPlansArePlans DEF Init, IsPlan, Untouched, Fresh
  <1>. QED  BY <1>1, <1>2 DEF Init, NewPass, ClaimRecalled, StandingEarned, RejectedNow

LEMMA OperatorRecalls == ASSUME TypeOK, ClaimRecalled, Operator PROVE ClaimRecalled'
  <1>1. UNCHANGED <<at, pass>> /\ at # "run"
    BY DEF Operator, SteeringArrives, TimeRunsOut, UndeferRequested, RulingGiven, Asked
  <1>. QED  BY <1>1 DEF ClaimRecalled

LEMMA BoundaryRecalls == ASSUME TypeOK, ClaimRecalled, Boundary PROVE ClaimRecalled'
  <1>1. CASE PassBegins
    BY <1>1 DEF PassBegins, NewPass, ClaimRecalled
  <1>2. CASE BudgetGone \/ Resteered
    BY <1>2 DEF BudgetGone, Resteered, ClaimRecalled
  <1>3. ASSUME at \in {"rulings", "steer"}, at' \in {"rulings", "steer", "select"},
               NEW n, pass' = [pass EXCEPT !.k = n]
        PROVE  ClaimRecalled'
    BY <1>3 DEF TypeOK, PassRecord, ClaimRecalled
  <1>4. CASE RulingReapplied
    <2>1. pass' = [pass EXCEPT !.k = pass.k + 1] /\ at = "rulings" /\ at' = at
      BY <1>4 DEF RulingReapplied
    <2>. QED  BY <1>3, <2>1
  <1>5. CASE BoundaryPassed
    <2>1. pass' = [pass EXCEPT !.k = 0] /\ at = "rulings" /\ at' \in {"steer", "select"}
      BY <1>5 DEF BoundaryPassed
    <2>. QED  BY <1>3, <2>1
  <1>6. CASE SteerCall /\ at' = at
    <2>1. pass' = [pass EXCEPT !.k = pass.k + 1] /\ at = "steer" /\ at' = at
      BY <1>6 DEF SteerCall
    <2>. QED  BY <1>3, <2>1
  <1>7. ASSUME \/ \E deps \in SUBSET Ids : SteerInsert(deps)
               \/ \E t \in Ids : SteerDelete(t)
               \/ \E t \in Ids, deps \in SUBSET Ids : SteerRepoint(t, deps)
               \/ \E t \in Ids, s \in Statuses : SteerMoves(t, s)
        PROVE  SteerCall /\ at' = at
    BY <1>7 DEF SteerInsert, SteerDelete, SteerRepoint, SteerMoves
  <1>. QED  BY <1>1, <1>2, <1>4, <1>5, <1>6, <1>7 DEF Boundary

\* A claimed task was offered with the status its rejections had left it.
LEMMA ClaimRecalls ==
    ASSUME TypeOK, ClaimRecalled, StandingEarned, NEW t \in Ids, Claim(t)
    PROVE  ClaimRecalled'
  <1>1. t \in DOMAIN plan /\ plan[t] \in TaskRecord
    BY ClaimedIsPlan DEF TypeOK, IsPlan
  <1>2. /\ pass'.cur = t /\ pass'.tier = plan[t].tier /\ pass'.then = pass.then
        /\ pass'.from = "validation-failed" => plan[t].status = "validation-failed"
    BY DEF Claim, TypeOK, PassRecord
  <1>3. plan[t].status = "validation-failed" => plan[t].tier < past[t].rejected
    BY <1>1 DEF StandingEarned, RejectedNow, TypeOK, Past, TaskRecord
  <1>4. at = "select" /\ at' \in {"run", "replan"} /\ UNCHANGED past
    BY DEF Claim
  <1>. QED  BY <1>2, <1>3, <1>4 DEF ClaimRecalled

LEMMA SelectionRecalls ==
    ASSUME TypeOK, ClaimRecalled, StandingEarned, Selection
    PROVE  ClaimRecalled'
  <1>1. CASE DoomedPlan \/ GraphFault \/ GoesToSleep \/ WokenEarly \/ SleepsOut
    BY <1>1 DEF ClaimRecalled, DoomedPlan, GraphFault, GoesToSleep, WokenEarly, SleepsOut,
                NothingToDo, GraphIsSound
  <1>2. CASE Held
    BY <1>2 DEF TypeOK, PassRecord, ClaimRecalled, Held, GraphIsSound, NothingToDo
  <1>3. CASE NoTaskToRun \/ DeadlineWakes \/ HoldsOn
    BY <1>3 DEF ClaimRecalled, NoTaskToRun, DeadlineWakes, HoldsOn, GraphIsSound, NothingToDo
  <1>. QED  BY <1>1, <1>2, <1>3, ClaimRecalls DEF Selection

\* Everywhere else the pass goes to a place that neither claims nor holds, or to
\* the hold that it was adjudicated for.
GoesOn ==
    /\ at' \notin {"run", "rulings", "steer", "select", "sleep"}
    /\ at' = "held" => pass.then = "held" /\ pass'.from = pass.from
    /\ pass'.then = "held" => pass.then = "held" /\ pass'.from = pass.from

LEMMA GoesOnRecalls == ASSUME ClaimRecalled, GoesOn PROVE ClaimRecalled'
  BY DEF ClaimRecalled, GoesOn

LEMMA IterationGoesOn == ASSUME TypeOK, Iteration PROVE GoesOn
  <1>. USE DEF GoesOn, TypeOK, PassRecord
  <1>1. CASE Iterates \/ SecretFound \/ PlanComplete \/ Deferred \/ NoVerdict \/ Complete
    BY <1>1 DEF Iterates, SecretFound, PlanComplete, Deferred, NoVerdict, Complete, AtVerdict
  <1>2. ASSUME NEW givesBack \in BOOLEAN, IterationFaulted(givesBack) PROVE GoesOn
    BY <1>2 DEF IterationFaulted
  <1>3. ASSUME NEW t \in Ids, NEW s \in Statuses, NEW justified, NEW touched,
               StatusReported(t, s, justified, touched)
        PROVE  GoesOn
    BY <1>3 DEF StatusReported, Telling, ToldAndStirred
  <1>4. ASSUME NEW claim \in {"corroborated", "idle"}, ProgressReported(claim) PROVE GoesOn
    BY <1>4 DEF ProgressReported, Telling, Told
  <1>5. ASSUME NEW n \in 1 .. 2, ForcedSplit(n) \/ VoluntarySplit(n) PROVE GoesOn
    BY <1>5 DEF ForcedSplit, VoluntarySplit, Telling, Told
  <1>6. CASE SplitDone
    BY <1>6 DEF SplitDone, ToldAndStirred
  <1>7. ASSUME NEW t \in Ids, NEW deps \in SUBSET Ids, WorkerRepoints(t, deps) PROVE GoesOn
    BY <1>7 DEF WorkerRepoints, Telling, ToldAndStirred
  <1>8. ASSUME NEW t \in Ids, Unsatisfiable(t) PROVE GoesOn
    BY <1>8 DEF Unsatisfiable, AtVerdict
  <1>. QED  BY <1>1, <1>2, <1>3, <1>4, <1>5, <1>6, <1>7, <1>8 DEF Iteration

LEMMA VerificationGoesOn == ASSUME TypeOK, Verification PROVE GoesOn
  <1>. USE DEF GoesOn, TypeOK, PassRecord
  <1>1. CASE VerificationListed \/ AdjudicationSkipped \/ RefutedApplied \/ VerificationOver
    BY <1>1 DEF VerificationListed, AdjudicationSkipped, RefutedApplied, VerificationOver
  <1>2. CASE Adjudicated
    BY <1>2 DEF Adjudicated, AdjudicationRecorded
  <1>3. ASSUME NEW moved, RemedyInserted(moved) PROVE GoesOn
    BY <1>3 DEF RemedyInserted
  <1>4. ASSUME NEW by, ConfirmedApplied(by) PROVE GoesOn
    BY <1>4 DEF ConfirmedApplied
  <1>5. CASE MidPlanSkipped \/ MidPlanReviewed \/ CurePassCounted
    BY <1>5 DEF MidPlanSkipped, MidPlanReviewed, CurePassCounted, CuresInserted
  <1>6. ASSUME NEW t \in Ids, NEW touched, VerifyPasses(t, touched) PROVE GoesOn
    BY <1>6 DEF VerifyPasses, Listed
  <1>7. ASSUME NEW t \in Ids, VerifyRejects(t) \/ VerifyMute(t) PROVE GoesOn
    BY <1>7 DEF VerifyRejects, VerifyMute, Listed
  <1>. QED  BY <1>1, <1>2, <1>3, <1>4, <1>5, <1>6, <1>7 DEF Verification

LEMMA JudgementGoesOn == ASSUME TypeOK, Judgement \/ Killed PROVE GoesOn
  <1>. USE DEF GoesOn, TypeOK, PassRecord
  <1>1. CASE TallyApplied \/ BreakerTrips \/ TallyPassedOver \/ BacksOff
    BY <1>1 DEF TallyApplied, BreakerTrips, TallyPassedOver, BacksOff, Tallied
  <1>2. ASSUME NEW activity, Tally(activity) PROVE GoesOn
    BY <1>2 DEF Tally, Tallied
  <1>3. CASE ReviewAnswers
    BY <1>3 DEF ReviewAnswers, NewPass
  <1>4. CASE ReviewUnaffordable \/ ReviewRejects \/ ReviewEnds \/ OutOfApproaches
    BY <1>4 DEF ReviewUnaffordable, ReviewRejects, ReviewEnds, OutOfApproaches
  <1>5. CASE ReviewCured
    BY <1>5 DEF ReviewCured, CuresInserted
  <1>6. ASSUME NEW worded, Replanned(worded) PROVE GoesOn
    BY <1>6 DEF Replanned
  <1>7. CASE Killed
    BY <1>7 DEF Killed, ResumesAt, NewPass
  <1>. QED  BY <1>1, <1>2, <1>3, <1>4, <1>5, <1>6, <1>7 DEF Judgement

\* A step that rejects nothing keeps every tier earned.
LEMMA LeadingStands ==
    ASSUME TypeOK, TypeOK', StandingEarned, Leads(plan, plan'),
           \A t \in Ids : past'[t].rejected >= past[t].rejected
    PROVE  StandingEarned'
  <1>. SUFFICES ASSUME NEW t \in DOMAIN plan'
                PROVE  plan'[t].tier + RejectedNow(t)' <= past'[t].rejected
    BY DEF StandingEarned
  <1>1. t \in Ids /\ past'[t].rejected \in Nat /\ past[t].rejected \in Nat
        /\ past'[t].rejected >= past[t].rejected
    BY DEF TypeOK, IsPlan, Past
  <1>2. CASE t \notin DOMAIN plan
    BY <1>1, <1>2 DEF Leads, Tame, RejectedNow
  <1>3. CASE t \in DOMAIN plan
    <2>1. plan[t].tier + RejectedNow(t) <= past[t].rejected
      BY <1>3 DEF StandingEarned
    <2>2. plan[t].tier \in Nat /\ plan'[t].tier = plan[t].tier
      BY <1>3 DEF TypeOK, IsPlan, TaskRecord, Leads, Tame
    <2>3. RejectedNow(t)' \in 0 .. 1 /\ RejectedNow(t) \in 0 .. 1
          /\ RejectedNow(t)' <= RejectedNow(t)
      BY <1>3 DEF Leads, Tame, RejectedNow
    <2>. QED  BY <1>1, <2>1, <2>2, <2>3
  <1>. QED  BY <1>2, <1>3

\* A rejection is noted when it is written.
LEMMA RejectionStands ==
    ASSUME TypeOK, TypeOK', StandingEarned, NEW t,
           DOMAIN plan' = DOMAIN plan,
           \A x \in DOMAIN plan : x # t => plan'[x] = plan[x],
           t \in DOMAIN plan => plan'[t].tier = plan[t].tier,
           NEW n \in Nat, past' = [past EXCEPT ![t].rejected = @ + n],
           t \in DOMAIN plan /\ plan'[t].status = "validation-failed" =>
               plan[t].status = "validation-failed" \/ n = 1
    PROVE  StandingEarned'
  <1>. SUFFICES ASSUME NEW x \in DOMAIN plan
                PROVE  plan'[x].tier + RejectedNow(x)' <= past'[x].rejected
    BY DEF StandingEarned
  <1>1. /\ plan[x].tier + RejectedNow(x) <= past[x].rejected
        /\ plan[x].tier \in Nat /\ past[x].rejected \in Nat /\ x \in Ids
    BY DEF StandingEarned, TypeOK, IsPlan, TaskRecord, Past
  <1>2. past'[x].rejected = past[x].rejected + (IF x = t THEN n ELSE 0)
    BY <1>1 DEF TypeOK, Past
  <1>3. CASE x # t
    BY <1>1, <1>2, <1>3 DEF RejectedNow
  <1>4. CASE x = t
    BY <1>1, <1>2, <1>4 DEF RejectedNow
  <1>. QED  BY <1>3, <1>4

LEMMA SpentRemains ==
    ASSUME TypeOK, UNCHANGED past
    PROVE  \A t \in Ids : past'[t].rejected >= past[t].rejected
  BY DEF TypeOK, Past

LEMMA FreshStands ==
    ASSUME plan' \in FreshPlans, past' = Untouched
    PROVE  StandingEarned'
  <1>1. \A t \in DOMAIN plan' :
            t \in Ids /\ plan'[t].tier = 0 /\ plan'[t].status = "pending"
    BY FreshPlansArePlans DEF IsPlan
  <1>2. \A t \in Ids : past'[t].rejected = 0
    BY DEF Untouched, Fresh
  <1>. QED  BY <1>1, <1>2 DEF StandingEarned, RejectedNow

LEMMA UntouchedStands ==
    ASSUME StandingEarned, UNCHANGED <<plan, past>>
    PROVE  StandingEarned'
  BY DEF StandingEarned, RejectedNow

LEMMA BoundaryStands ==
    ASSUME TypeOK, TypeOK', StandingEarned, Boundary
    PROVE  StandingEarned'
  <1>1. CASE PassBegins \/ BudgetGone \/ Resteered
    BY <1>1, UntouchedStands DEF PassBegins, BudgetGone, Resteered
  <1>2. CASE RulingReapplied
    <2>. DEFINE r == world.rulings[pass.k + 1]
                t == r.task
                s == r.status
                moved == Moved(plan, t, s, TRUE, FALSE, TRUE)
                n == IF s = "validation-failed" THEN 1 ELSE 0
    <2>1. plan' = moved
          /\ past' = IF moved # plan THEN [past EXCEPT ![t].rejected = @ + n] ELSE past
      BY <1>2 DEF RulingReapplied
    <2>2. CASE moved = plan
      BY <2>1, <2>2, UntouchedStands
    <2>3. CASE moved # plan
      <3>1. moved = [plan EXCEPT ![t].status = s] /\ t \in DOMAIN plan
        BY <2>3 DEF Moved
      <3>2. plan[t] \in TaskRecord
        BY <3>1 DEF TypeOK, IsPlan
      <3>3. n \in Nat
        OBVIOUS
      <3>4. /\ plan' = [plan EXCEPT ![t].status = s]
            /\ past' = [past EXCEPT ![t].rejected = @ + n]
        BY <2>1, <2>3, <3>1
      <3>5. s = "validation-failed" => n = 1
        OBVIOUS
      <3>. HIDE DEF t, s, n, moved, r
      <3>6. /\ plan'[t].tier = plan[t].tier /\ plan'[t].status = s
            /\ DOMAIN plan' = DOMAIN plan /\ \A x \in DOMAIN plan : x # t => plan'[x] = plan[x]
        BY <3>1, <3>2, <3>4 DEF TaskRecord
      <3>. QED  BY <3>3, <3>4, <3>5, <3>6, RejectionStands
    <2>. QED  BY <2>2, <2>3
  <1>3. CASE BoundaryPassed
    <2>1. plan' = [t \in DOMAIN plan |-> plan'[t]]
      BY <1>3 DEF BoundaryPassed
    <2>2. ASSUME NEW t \in DOMAIN plan
          PROVE  /\ plan'[t] \in TaskRecord /\ plan'[t].tier = plan[t].tier
                 /\ plan'[t].status = plan[t].status \/ plan'[t].status # "validation-failed"
      BY <1>3, <2>2 DEF BoundaryPassed, TypeOK, IsPlan, TaskRecord
    <2>3. Leads(plan, plan')
      BY <2>1, <2>2, RewrittenLeads, Zenon DEF TypeOK
    <2>. QED  BY <1>3, <2>3, LeadingStands, SpentRemains DEF BoundaryPassed
  <1>4. ASSUME NEW deps \in SUBSET Ids, SteerInsert(deps) PROVE StandingEarned'
    <2>. DEFINE i == FreshId(plan)
                D == ValidEdges(DepsOf(plan), i, deps)
                task == NewTask("steer", D, NoTask)
    <2>1. i \in Ids \ DOMAIN plan
      BY <1>4, FreshIdIsFree DEF SteerInsert, TypeOK, IsPlan
    <2>2. task \in TaskRecord /\ task.tier = 0 /\ task.status = "pending"
      BY KeptEdges, NewTaskIsTask DEF Kinds
    <2>3. plan' = Added(plan, i, task) /\ UNCHANGED past
      BY <1>4 DEF SteerInsert
    <2>4. IsPlan(plan)
      BY DEF TypeOK
    <2>. HIDE DEF i, task
    <2>5. Leads(plan, plan')
      BY <2>1, <2>2, <2>3, <2>4, AddedLeads
    <2>. QED  BY <2>3, <2>5, LeadingStands, SpentRemains
  <1>5. ASSUME NEW t \in Ids, SteerDelete(t) PROVE StandingEarned'
    BY <1>5 DEF SteerDelete, StandingEarned, RejectedNow, TypeOK, IsPlan, Past
  <1>6. ASSUME NEW t \in Ids, NEW deps \in SUBSET Ids, SteerRepoint(t, deps)
        PROVE  StandingEarned'
    <2>1. Leads(plan, plan')
      BY <1>6, KeptEdges, EdgesLead DEF SteerRepoint, TypeOK
    <2>. QED  BY <1>6, <2>1, LeadingStands, SpentRemains DEF SteerRepoint
  <1>7. ASSUME NEW t \in Ids, NEW s \in Statuses, SteerMoves(t, s) PROVE StandingEarned'
    <2>. DEFINE n == IF s = "validation-failed" /\ plan[t].status # s THEN 1 ELSE 0
    <2>1. /\ plan' = [plan EXCEPT ![t].status = s]
          /\ past' = [past EXCEPT ![t].rejected = @ + n]
          /\ t \in DOMAIN plan
      BY <1>7 DEF SteerMoves
    <2>2. n \in Nat /\ (s = "validation-failed" => n = 1 \/ plan[t].status = "validation-failed")
      OBVIOUS
    <2>3. plan[t] \in TaskRecord
      BY <2>1 DEF TypeOK, IsPlan
    <2>. HIDE DEF n
    <2>4. /\ plan'[t].tier = plan[t].tier /\ plan'[t].status = s
          /\ DOMAIN plan' = DOMAIN plan /\ \A x \in DOMAIN plan : x # t => plan'[x] = plan[x]
      BY <2>1, <2>3 DEF TaskRecord
    <2>. QED  BY <2>1, <2>2, <2>4, RejectionStands
  <1>. QED  BY <1>1, <1>2, <1>3, <1>4, <1>5, <1>6, <1>7 DEF Boundary

\* A claim climbs the step its last rejection left room for.
LEMMA ClaimStands ==
    ASSUME TypeOK, TypeOK', StandingEarned, NEW t, Claim(t)
    PROVE  StandingEarned'
  <1>. SUFFICES ASSUME NEW x \in DOMAIN plan
                PROVE  plan'[x].tier + RejectedNow(x)' <= past[x].rejected
    BY ClaimedIsPlan DEF StandingEarned, Claim
  <1>1. /\ plan[x].tier + RejectedNow(x) <= past[x].rejected
        /\ plan[x] \in TaskRecord /\ plan[x].tier \in Nat /\ past[x].rejected \in Nat
    BY DEF StandingEarned, TypeOK, IsPlan, TaskRecord, Past
  <1>2. CASE x # t
    <2>1. plan'[x] = plan[x]
      BY <1>2 DEF Claim
    <2>. QED  BY <1>1, <2>1 DEF RejectedNow
  <1>3. CASE x = t
    <2>. DEFINE e == Escalated(plan[t].tier)
    <2>1. e \in Nat /\ e <= plan[t].tier + 1
      BY <1>1, <1>3, TasksAssumption DEF Escalated
    <2>2. plan'[t] = [plan[t] EXCEPT !.status = "in-progress",
                          !.tier = IF plan[t].status = "validation-failed" THEN e ELSE @]
      BY <1>3 DEF Claim
    <2>. HIDE DEF e
    <2>3. /\ plan'[t].status = "in-progress"
          /\ plan'[t].tier = IF plan[t].status = "validation-failed" THEN e ELSE plan[t].tier
      BY <1>1, <1>3, <2>2 DEF TaskRecord
    <2>. QED  BY <1>1, <1>3, <2>1, <2>3 DEF RejectedNow
  <1>. QED  BY <1>2, <1>3

LEMMA SelectionStands ==
    ASSUME TypeOK, TypeOK', StandingEarned, Selection
    PROVE  StandingEarned'
  <1>1. CASE DoomedPlan \/ Held \/ GoesToSleep \/ NoTaskToRun \/ WokenEarly
             \/ DeadlineWakes \/ HoldsOn
    BY <1>1, UntouchedStands DEF DoomedPlan, Held, GoesToSleep, NoTaskToRun, WokenEarly,
       DeadlineWakes, HoldsOn
  <1>2. CASE GraphFault
    BY <1>2, UntouchedStands, FreshStands DEF GraphFault
  <1>3. CASE SleepsOut
    <2>1. PICK t \in Waiting : plan' = [plan EXCEPT ![t].waits = FALSE]
      BY <1>3 DEF SleepsOut, TimerElapsed
    <2>2. ASSUME NEW x \in DOMAIN plan
          PROVE  plan'[x].tier = plan[x].tier /\ plan'[x].status = plan[x].status
      BY <2>1, <2>2 DEF TypeOK, IsPlan, TaskRecord
    <2>3. Leads(plan, plan')
      BY <2>1, <2>2 DEF Leads, Tame, TypeOK
    <2>. QED  BY <1>3, <2>3, LeadingStands, SpentRemains DEF SleepsOut
  <1>. QED  BY <1>1, <1>2, <1>3, ClaimStands DEF Selection

\* What is given back is given back with the tier it was claimed with.
LEMMA FaultStands ==
    ASSUME TypeOK, TypeOK', StandingEarned, ClaimRecalled, NEW givesBack \in BOOLEAN,
           IterationFaulted(givesBack)
    PROVE  StandingEarned'
  <1>0. at = "run" /\ UNCHANGED past
    BY DEF IterationFaulted
  <1>1. CASE plan' = plan
    BY <1>0, <1>1, UntouchedStands
  <1>2. CASE plan' # plan
    <2>1. /\ plan' = GivenBack
          /\ pass.from # "none" /\ plan[pass.cur].status = "in-progress"
      BY <1>2 DEF IterationFaulted, GivenBack
    <2>2. DOMAIN plan' = DOMAIN plan
      BY <2>1 DEF GivenBack
    <2>. SUFFICES ASSUME NEW x \in DOMAIN plan
                  PROVE  plan'[x].tier + RejectedNow(x)' <= past[x].rejected
      BY <1>0, <2>2 DEF StandingEarned
    <2>3. /\ plan[x].tier + RejectedNow(x) <= past[x].rejected
          /\ plan[x] \in TaskRecord /\ plan[x].tier \in Nat /\ past[x].rejected \in Nat
      BY DEF StandingEarned, TypeOK, IsPlan, TaskRecord, Past
    <2>4. plan'[x] = IF x # pass.cur THEN plan[x]
                     ELSE [plan[x] EXCEPT !.status = pass.from,
                              !.tier = IF pass.from = "validation-failed" THEN pass.tier ELSE @]
      BY <2>1 DEF GivenBack
    <2>5. CASE x # pass.cur
      <3>1. plan'[x] = plan[x]
        BY <2>4, <2>5
      <3>. QED  BY <2>3, <3>1 DEF RejectedNow
    <2>6. CASE x = pass.cur
      <3>1. /\ plan'[x].status = pass.from
            /\ plan'[x].tier = IF pass.from = "validation-failed" THEN pass.tier ELSE plan[x].tier
        BY <2>3, <2>4, <2>6 DEF TaskRecord
      <3>2. pass.from = "validation-failed" => pass.tier < past[x].rejected /\ pass.tier \in Nat
        BY <1>0, <2>6 DEF ClaimRecalled, TypeOK, PassRecord
      <3>3. RejectedNow(x) \in 0 .. 1
        BY DEF RejectedNow
      <3>. QED  BY <2>3, <3>1, <3>2, <3>3 DEF RejectedNow
    <2>. QED  BY <2>5, <2>6
  <1>. QED  BY <1>1, <1>2

\* A task put off: its status is "pending" and its tier untouched.
LEMMA PutOffLeads ==
    ASSUME NEW p, IsPlan(p), NEW t
    PROVE  Leads(p, [p EXCEPT ![t].status = "pending", ![t].waits = TRUE])
  <1>. DEFINE q == [p EXCEPT ![t].status = "pending", ![t].waits = TRUE]
  <1>1. q = [x \in DOMAIN p |-> q[x]]
    OBVIOUS
  <1>2. ASSUME NEW x \in DOMAIN p
        PROVE  /\ q[x] \in TaskRecord /\ q[x].tier = p[x].tier
               /\ q[x].status = p[x].status \/ q[x].status # "validation-failed"
    <2>1. p[x] \in TaskRecord
      BY <1>2 DEF IsPlan
    <2>2. q[x] = IF x = t THEN [p[x] EXCEPT !.status = "pending", !.waits = TRUE] ELSE p[x]
      BY <1>2
    <2>3. "pending" \in Statuses
      BY DEF Statuses
    <2>. HIDE DEF q
    <2>4. CASE x # t
      BY <2>1, <2>2, <2>4
    <2>5. CASE x = t
      <3>1. q[x] = [p[x] EXCEPT !.status = "pending", !.waits = TRUE]
        BY <2>2, <2>5
      <3>. QED  BY <2>1, <2>3, <3>1 DEF TaskRecord
    <2>. QED  BY <2>4, <2>5
  <1>. HIDE DEF q
  <1>3. Leads(p, q)
    BY <1>1, <1>2, RewrittenLeads
  <1>. QED  BY <1>3 DEF q

LEMMA IterationStands ==
    ASSUME TypeOK, TypeOK', StandingEarned, ClaimRecalled, Iteration
    PROVE  StandingEarned'
  <1>. DEFINE Noted == \A t \in Ids : past'[t].rejected >= past[t].rejected
  <1>0. UNCHANGED past => Noted
    BY SpentRemains
  <1>1. CASE Iterates \/ PlanComplete \/ NoVerdict
    BY <1>1, UntouchedStands DEF Iterates, PlanComplete, NoVerdict
  <1>2. CASE SecretFound \/ Complete \/ SplitDone
    <2>1. PICK s \in Statuses \ {"validation-failed"} :
            plan' = [plan EXCEPT ![pass.cur].status = s]
      BY <1>2 DEF SecretFound, Complete, SplitDone, ParentSuperseded, Statuses
    <2>2. Leads(plan, plan')
      BY <2>1, StatusLeads DEF TypeOK
    <2>3. UNCHANGED past
      BY <1>2 DEF SecretFound, Complete, SplitDone
    <2>. QED  BY <1>0, <2>2, <2>3, LeadingStands
  <1>3. ASSUME NEW t \in Ids, Unsatisfiable(t) PROVE StandingEarned'
    <2>1. Leads(plan, plan') /\ UNCHANGED past
      BY <1>3, StatusLeads DEF Unsatisfiable, TypeOK, Statuses
    <2>. QED  BY <1>0, <2>1, LeadingStands
  <1>4. CASE Deferred
    <2>1. Leads(plan, plan') /\ UNCHANGED past
      BY <1>4, PutOffLeads DEF Deferred, TypeOK
    <2>. QED  BY <1>0, <2>1, LeadingStands
  <1>5. ASSUME NEW t \in Ids, NEW s \in Statuses, NEW justified, NEW touched,
               StatusReported(t, s, justified, touched)
        PROVE  StandingEarned'
    <2>. DEFINE n == IF s = "validation-failed" THEN 1 ELSE 0
                p == [plan EXCEPT ![t].status = s]
    <2>1. /\ plan' = Lands(p, t, s, touched) /\ t \in DOMAIN plan
          /\ past' = [past EXCEPT ![t].rejected = @ + n]
      BY <1>5 DEF StatusReported
    <2>2. n \in Nat
      OBVIOUS
    <2>3. CASE s = "validation-failed"
      <3>1. plan' = [plan EXCEPT ![t].status = s] /\ n = 1
        BY <2>1, <2>3 DEF Lands
      <3>2. plan[t] \in TaskRecord
        BY <2>1 DEF TypeOK, IsPlan
      <3>. HIDE DEF n, p
      <3>3. /\ plan'[t].tier = plan[t].tier
            /\ DOMAIN plan' = DOMAIN plan /\ \A x \in DOMAIN plan : x # t => plan'[x] = plan[x]
        BY <2>1, <3>1, <3>2 DEF TaskRecord
      <3>. QED  BY <2>1, <2>2, <3>1, <3>3, RejectionStands
    <2>4. CASE s # "validation-failed"
      <3>. HIDE DEF n, p
      <3>1. Leads(plan, p)
        BY <2>4, StatusLeads DEF p, TypeOK
      <3>2. Leads(p, plan')
        BY <2>1, <3>1, LandsLeads DEF Leads
      <3>3. Leads(plan, plan')
        BY <3>1, <3>2, LeadsOn
      <3>4. Noted
        BY <2>1, <2>2 DEF TypeOK, Past
      <3>. QED  BY <3>3, <3>4, LeadingStands
    <2>. QED  BY <2>3, <2>4
  <1>6. ASSUME NEW claim \in {"corroborated", "idle"}, ProgressReported(claim)
        PROVE  StandingEarned'
    <2>1. Leads(plan, plan')
      BY <1>6, LeadsToItself DEF ProgressReported, TypeOK
    <2>2. Noted
      BY <1>6 DEF ProgressReported, TypeOK, Past
    <2>. QED  BY <2>1, <2>2, LeadingStands
  <1>7. ASSUME NEW n \in 1 .. 2, ForcedSplit(n) PROVE StandingEarned'
    <2>1. Leads(plan, plan')
      BY <1>7, InheritedType, WithKidsLead DEF ForcedSplit, SplitFits
    <2>2. Noted
      BY <1>7 DEF ForcedSplit, TypeOK, Past
    <2>. QED  BY <2>1, <2>2, LeadingStands
  <1>8. ASSUME NEW n \in 1 .. 2, VoluntarySplit(n) PROVE StandingEarned'
    <2>1. Leads(plan, plan') /\ UNCHANGED past
      BY <1>8, WithKidsLead DEF VoluntarySplit
    <2>. QED  BY <1>0, <2>1, LeadingStands
  <1>9. ASSUME NEW t \in Ids, NEW deps \in SUBSET Ids, WorkerRepoints(t, deps)
        PROVE  StandingEarned'
    <2>1. Leads(plan, plan') /\ UNCHANGED past
      BY <1>9, EdgesLead DEF WorkerRepoints, TypeOK
    <2>. QED  BY <1>0, <2>1, LeadingStands
  <1>. QED  BY <1>1, <1>2, <1>3, <1>4, <1>5, <1>6, <1>7, <1>8, <1>9, FaultStands DEF Iteration

LEMMA VerificationStands ==
    ASSUME TypeOK, TypeOK', StandingEarned, Verification
    PROVE  StandingEarned'
  <1>0. Leads(plan, plan') /\ UNCHANGED past => StandingEarned'
    BY SpentRemains, LeadingStands
  <1>1. CASE VerificationListed
    BY <1>0, <1>1, RelabelledLeads DEF VerificationListed
  <1>2. CASE AdjudicationSkipped \/ Adjudicated \/ MidPlanSkipped \/ CurePassCounted
             \/ VerificationOver
    BY <1>2, UntouchedStands DEF AdjudicationSkipped, Adjudicated, MidPlanSkipped,
       CurePassCounted, VerificationOver
  <1>3. CASE RefutedApplied
    BY <1>0, <1>3, RefutedLeads DEF RefutedApplied
  <1>4. ASSUME NEW moved, RemedyInserted(moved) PROVE StandingEarned'
    BY <1>0, <1>4, RemedyType DEF RemedyInserted
  <1>5. ASSUME NEW by \in Ids \cup {NoTask}, ConfirmedApplied(by) PROVE StandingEarned'
    BY <1>0, <1>5, ConfirmedLeads DEF ConfirmedApplied
  <1>6. CASE MidPlanReviewed
    <2>1. CASE UNCHANGED plan
      BY <1>6, <2>1, UntouchedStands DEF MidPlanReviewed
    <2>2. ASSUME NEW finding \in ReviewFindings, NEW moved \in BOOLEAN,
                 Curable(finding), CuresInserted(finding, moved)
          PROVE  Leads(plan, plan')
      BY <2>2, FindingsType, CuresType DEF Curable, CuresInserted
    <2>. QED  BY <1>0, <1>6, <2>1, <2>2 DEF MidPlanReviewed
  <1>7. ASSUME NEW t \in Ids, NEW touched, VerifyPasses(t, touched) PROVE StandingEarned'
    <2>. DEFINE p == [plan EXCEPT ![t].status = "validated"]
    <2>1. Leads(plan, p)
      BY StatusLeads DEF TypeOK, Statuses
    <2>2. Leads(p, plan')
      BY <1>7, <2>1, LandsLeads DEF VerifyPasses, Leads
    <2>3. Leads(plan, plan')
      BY <2>1, <2>2, LeadsOn
    <2>. QED  BY <1>0, <1>7, <2>3 DEF VerifyPasses
  <1>8. ASSUME NEW t \in Ids, VerifyRejects(t) PROVE StandingEarned'
    <2>1. PICK s \in Statuses :
            plan' = [plan EXCEPT ![t].tries = @ + 1, ![t].status = s]
      BY <1>8 DEF VerifyRejects, Statuses
    <2>2. /\ DOMAIN plan' = DOMAIN plan
          /\ \A x \in DOMAIN plan : x # t => plan'[x] = plan[x]
          /\ t \in DOMAIN plan => plan'[t].tier = plan[t].tier
      BY <2>1 DEF TypeOK, IsPlan, TaskRecord
    <2>3. past' = [past EXCEPT ![t].rejected = @ + 1]
      BY <1>8 DEF VerifyRejects
    <2>. QED  BY <2>2, <2>3, RejectionStands
  <1>9. ASSUME NEW t \in Ids, VerifyMute(t) PROVE StandingEarned'
    BY <1>9, UntouchedStands DEF VerifyMute
  <1>. QED  BY <1>1, <1>2, <1>3, <1>4, <1>5, <1>6, <1>7, <1>8, <1>9 DEF Verification

LEMMA JudgementStands ==
    ASSUME TypeOK, TypeOK', StandingEarned, Judgement
    PROVE  StandingEarned'
  <1>0. Leads(plan, plan') /\ UNCHANGED past => StandingEarned'
    BY SpentRemains, LeadingStands
  <1>1. CASE TallyApplied \/ BreakerTrips \/ TallyPassedOver \/ ReviewAnswers
             \/ ReviewUnaffordable \/ ReviewRejects \/ ReviewEnds \/ OutOfApproaches
    BY <1>1, UntouchedStands DEF TallyApplied, BreakerTrips, TallyPassedOver, ReviewAnswers,
       ReviewUnaffordable, ReviewRejects, ReviewEnds, OutOfApproaches
  <1>2. ASSUME NEW activity, Tally(activity) PROVE StandingEarned'
    BY <1>2, UntouchedStands DEF Tally
  <1>3. CASE BacksOff
    BY <1>0, <1>3, PutOffLeads DEF BacksOff, TypeOK
  <1>4. CASE ReviewCured
    <2>1. PICK finding \in ReviewFindings, moved \in BOOLEAN :
            Curable(finding) /\ CuresInserted(finding, moved)
      BY <1>4 DEF ReviewCured
    <2>2. Leads(plan, plan')
      BY <2>1, FindingsType, CuresType DEF Curable, CuresInserted
    <2>. QED  BY <1>0, <1>4, <2>2 DEF ReviewCured
  <1>5. ASSUME NEW worded, Replanned(worded) PROVE StandingEarned'
    BY <1>5, FreshStands DEF Replanned
  <1>. QED  BY <1>1, <1>2, <1>3, <1>4, <1>5 DEF Judgement

TierInv == TypeOK /\ ClaimRecalled /\ StandingEarned

LEMMA TierStep == ASSUME TierInv, [Next]_vars PROVE TierInv'
  <1>. USE DEF TierInv
  <1>1. TypeOK'
    BY TypeStep
  <1>2. ClaimRecalled'
    <2>1. CASE UNCHANGED vars
      BY <2>1 DEF vars, ClaimRecalled
    <2>2. CASE Over
      BY <2>2 DEF Over, vars, ClaimRecalled
    <2>. QED  BY <2>1, <2>2, OperatorRecalls, BoundaryRecalls, SelectionRecalls,
                 IterationGoesOn, VerificationGoesOn, JudgementGoesOn, GoesOnRecalls
              DEF Next, Engine
  <1>3. StandingEarned'
    <2>1. CASE Operator \/ Killed \/ Over \/ UNCHANGED vars
      BY <2>1, UntouchedStands DEF Operator, SteeringArrives, TimeRunsOut,
         UndeferRequested, RulingGiven, Killed, Over, vars
    <2>. QED  BY <1>1, <2>1, BoundaryStands, SelectionStands, IterationStands,
                 VerificationStands, JudgementStands
              DEF Next, Engine
  <1>. QED  BY <1>1, <1>2, <1>3

LEMMA TierImplied == ASSUME TierInv PROVE TierIsEarned
  <1>. SUFFICES ASSUME NEW t \in DOMAIN plan PROVE plan[t].tier <= past[t].rejected
    BY DEF TierIsEarned
  <1>1. plan[t].tier + RejectedNow(t) <= past[t].rejected
    BY DEF TierInv, StandingEarned
  <1>2. plan[t].tier \in Nat /\ past[t].rejected \in Nat /\ RejectedNow(t) \in 0 .. 1
    BY DEF TierInv, TypeOK, IsPlan, TaskRecord, Past, RejectedNow
  <1>. QED  BY <1>1, <1>2

\* No fault, kill, cure, steering, ruling, split or adjudication moves a task up
\* the tier ladder: every tier above the baseline is a rejection of its work.
THEOREM EveryTierIsARejection == Spec => []TierIsEarned
  <1>1. Init => TierInv
    BY InitType, InitRecalled DEF TierInv
  <1>2. TierInv /\ [Next]_vars => TierInv'
    BY TierStep
  <1>3. TierInv => TierIsEarned
    BY TierImplied
  <1>. QED  BY <1>1, <1>2, <1>3, PTL DEF Spec

(***************************************************************************)
(* The plan stays schedulable.                                             *)
(***************************************************************************)
LEMMA SoundIsSchedulable == Sound(plan) <=> Schedulable
  BY DEF Sound, Schedulable

LEMMA StatusSound ==
    ASSUME NEW p, IsPlan(p), Sound(p), NEW t, NEW s
    PROVE  Sound([p EXCEPT ![t].status = s])
  <1>. DEFINE q == [p EXCEPT ![t].status = s]
  <1>1. DOMAIN q = DOMAIN p
    OBVIOUS
  <1>2. ASSUME NEW x \in DOMAIN p PROVE q[x].deps = p[x].deps
    BY <1>2 DEF IsPlan, TaskRecord
  <1>. HIDE DEF q
  <1>3. Sound(q)
    BY <1>1, <1>2, FewerEdges
  <1>. QED  BY <1>3 DEF q

LEMMA MovedSound ==
    ASSUME NEW p, IsPlan(p), Sound(p), NEW t, NEW s, NEW vigilant, NEW restoring, NEW justified
    PROVE  Sound(Moved(p, t, s, vigilant, restoring, justified))
  BY StatusSound DEF Moved

LEMMA PutOffSound ==
    ASSUME NEW p, IsPlan(p), Sound(p), NEW t
    PROVE  Sound([p EXCEPT ![t].status = "pending", ![t].waits = TRUE])
  <1>. DEFINE q == [p EXCEPT ![t].status = "pending", ![t].waits = TRUE]
  <1>1. DOMAIN q = DOMAIN p
    OBVIOUS
  <1>2. ASSUME NEW x \in DOMAIN p PROVE q[x].deps = p[x].deps
    BY <1>2 DEF IsPlan, TaskRecord
  <1>. HIDE DEF q
  <1>3. Sound(q)
    BY <1>1, <1>2, FewerEdges
  <1>. QED  BY <1>3 DEF q

LEMMA LandsSound ==
    ASSUME NEW p, IsPlan(p), Sound(p), NEW t, NEW s, NEW touched
    PROVE  Sound(Lands(p, t, s, touched))
  <1>. DEFINE q == Reconciled(p, reopened, t, TRUE, touched)
              back == IF touched THEN {} ELSE PendingReconciliation(p, reopened, t)
  <1>1. q = [x \in DOMAIN p |->
                IF x \in back THEN Moved(p, x, reopened[x].prior, TRUE, TRUE, FALSE)[x] ELSE p[x]]
    BY DEF Reconciled
  <1>2. ASSUME NEW x \in DOMAIN p
        PROVE  Moved(p, x, reopened[x].prior, TRUE, TRUE, FALSE)[x].deps = p[x].deps
    BY <1>2 DEF Moved, IsPlan, TaskRecord
  <1>. HIDE DEF q, back
  <1>3. DOMAIN q = DOMAIN p /\ \A x \in DOMAIN p : q[x].deps = p[x].deps
    BY <1>1, <1>2
  <1>4. Sound(q)
    BY <1>3, FewerEdges
  <1>. QED  BY <1>4 DEF q, Lands

\* The children of a split wait on tasks that exist, and on each other in no ring.
LEMMA WithKidsSound ==
    ASSUME TypeOK, Sound(plan), NEW n \in 1 .. 2, SplitFits(n), NEW deps \in SplitsInto(n),
           NEW inherited, inherited \subseteq DOMAIN plan
    PROVE  Sound(WithKids(deps, inherited))
  <1>. DEFINE q == WithKids(deps, inherited)
              K == Kids(n)
  <1>1. /\ DOMAIN deps = K /\ K \cap DOMAIN plan = {}
        /\ \A k \in K : deps[k] \subseteq DOMAIN plan \cup K
        /\ Acyclic([k \in K |-> deps[k] \cap K])
    BY KidsAreFree DEF TypeOK, SplitFits, SplitsInto
  <1>2. /\ DOMAIN q = DOMAIN plan \cup K
        /\ \A k \in K : q[k].deps = deps[k] \cup inherited
        /\ \A t \in DOMAIN plan : q[t].deps = plan[t].deps
    BY <1>1 DEF WithKids, NewTask
  <1>. HIDE DEF q, K
  <1>3. Resolved(q)
    BY <1>1, <1>2 DEF Sound, Resolved
  <1>4. Acyclic(DepsOf(q))
    <2>. SUFFICES ASSUME NEW S \in SUBSET DOMAIN q, S # {}
                  PROVE  \E t \in S : q[t].deps \cap S = {}
      BY DEF Acyclic, DepsOf
    <2>1. CASE S \cap DOMAIN plan = {}
      <3>1. S \in SUBSET K
        BY <1>2, <2>1
      <3>2. PICK k \in S : deps[k] \cap K \cap S = {}
        BY <1>1, <3>1 DEF Acyclic
      <3>. QED  BY <1>2, <2>1, <3>1, <3>2
    <2>2. CASE S \cap DOMAIN plan # {}
      <3>1. PICK t \in S \cap DOMAIN plan : plan[t].deps \cap (S \cap DOMAIN plan) = {}
        BY <2>2 DEF Sound, Acyclic, DepsOf
      <3>2. plan[t].deps \subseteq DOMAIN plan
        BY DEF Sound, Resolved
      <3>. QED  BY <1>2, <3>1, <3>2
    <2>. QED  BY <2>1, <2>2
  <1>5. Sound(q)
    BY <1>3, <1>4 DEF Sound
  <1>. QED  BY <1>5 DEF q

\* Edges of one task rewritten to what validation kept.
LEMMA RewiredSound ==
    ASSUME TypeOK, Sound(plan), NEW t \in DOMAIN plan, NEW C,
           plan' = [plan EXCEPT ![t].deps = ValidEdges(DepsOf(plan), t, C)]
    PROVE  Sound(plan')
  <1>. DEFINE D == ValidEdges(DepsOf(plan), t, C)
  <1>1. plan' = [plan EXCEPT ![t].deps = D]
    OBVIOUS
  <1>. HIDE DEF D
  <1>2. /\ DOMAIN plan' = DOMAIN plan /\ plan'[t].deps = D
        /\ \A x \in DOMAIN plan : x # t => plan'[x].deps = plan[x].deps
    BY <1>1 DEF TypeOK, IsPlan, TaskRecord
  <1>. QED  BY <1>2, ValidatedEdges DEF D

LEMMA BoundarySound ==
    ASSUME TypeOK, Sound(plan), Boundary
    PROVE  Sound(plan')
  <1>. USE DEF TypeOK
  <1>1. CASE PassBegins \/ BudgetGone \/ Resteered
    BY <1>1 DEF PassBegins, BudgetGone, Resteered
  <1>2. CASE RulingReapplied
    BY <1>2, MovedSound DEF RulingReapplied
  <1>3. CASE BoundaryPassed
    <2>1. ASSUME NEW t \in DOMAIN plan PROVE plan'[t].deps = plan[t].deps
      BY <1>3, <2>1 DEF BoundaryPassed, IsPlan, TaskRecord
    <2>2. DOMAIN plan' = DOMAIN plan
      BY <1>3 DEF BoundaryPassed
    <2>. QED  BY <2>1, <2>2, FewerEdges
  <1>4. ASSUME NEW deps \in SUBSET Ids, SteerInsert(deps) PROVE Sound(plan')
    <2>. DEFINE i == FreshId(plan)
                task == NewTask("steer", ValidEdges(DepsOf(plan), i, deps), NoTask)
    <2>1. i \notin DOMAIN plan
      BY <1>4, FreshIdIsFree DEF SteerInsert, IsPlan
    <2>2. task.deps \subseteq DOMAIN plan
      BY DEF NewTask, ValidEdges, EdgeRefused, DepsOf
    <2>3. plan' = Added(plan, i, task)
      BY <1>4 DEF SteerInsert
    <2>. HIDE DEF i, task
    <2>. QED  BY <2>1, <2>2, <2>3, AddedSound
  <1>5. ASSUME NEW t \in Ids, SteerDelete(t) PROVE Sound(plan')
    <2>1. /\ DOMAIN plan' = DOMAIN plan \ {t}
          /\ \A x \in DOMAIN plan' : plan'[x].deps = plan[x].deps /\ t \notin plan[x].deps
      BY <1>5 DEF SteerDelete
    <2>2. Resolved(plan')
      BY <2>1 DEF Sound, Resolved
    <2>3. Acyclic(DepsOf(plan'))
      <3>. SUFFICES ASSUME NEW S \in SUBSET DOMAIN plan', S # {}
                    PROVE  \E x \in S : plan'[x].deps \cap S = {}
        BY DEF Acyclic, DepsOf
      <3>1. \E x \in S : plan[x].deps \cap S = {}
        BY <2>1 DEF Sound, Acyclic, DepsOf
      <3>. QED  BY <2>1, <3>1
    <2>. QED  BY <2>2, <2>3 DEF Sound
  <1>6. ASSUME NEW t \in Ids, NEW deps \in SUBSET Ids, SteerRepoint(t, deps)
        PROVE  Sound(plan')
    BY <1>6, RewiredSound DEF SteerRepoint
  <1>7. ASSUME NEW t \in Ids, NEW s \in Statuses, SteerMoves(t, s) PROVE Sound(plan')
    BY <1>7, StatusSound DEF SteerMoves
  <1>. QED  BY <1>1, <1>2, <1>3, <1>4, <1>5, <1>6, <1>7 DEF Boundary

LEMMA SelectionSound ==
    ASSUME TypeOK, Sound(plan), Selection
    PROVE  Sound(plan')
  <1>. USE DEF TypeOK
  <1>1. ASSUME NEW t \in Ids, Claim(t) PROVE Sound(plan')
    <2>1. ASSUME NEW x \in DOMAIN plan PROVE plan'[x].deps = plan[x].deps
      BY <1>1, <2>1 DEF Claim, IsPlan, TaskRecord
    <2>. QED  BY <1>1, <2>1, ClaimedIsPlan, FewerEdges
  <1>2. CASE DoomedPlan \/ Held \/ GoesToSleep \/ NoTaskToRun \/ WokenEarly
             \/ DeadlineWakes \/ HoldsOn
    BY <1>2 DEF DoomedPlan, Held, GoesToSleep, NoTaskToRun, WokenEarly, DeadlineWakes, HoldsOn
  <1>3. CASE GraphFault
    BY <1>3, FreshPlansSound DEF GraphFault
  <1>4. CASE SleepsOut
    <2>1. PICK t \in Waiting : plan' = [plan EXCEPT ![t].waits = FALSE]
      BY <1>4 DEF SleepsOut, TimerElapsed
    <2>2. ASSUME NEW x \in DOMAIN plan PROVE plan'[x].deps = plan[x].deps
      BY <2>1, <2>2 DEF IsPlan, TaskRecord
    <2>3. DOMAIN plan' = DOMAIN plan
      BY <2>1
    <2>. QED  BY <2>2, <2>3, FewerEdges
  <1>. QED  BY <1>1, <1>2, <1>3, <1>4 DEF Selection

LEMMA IterationSound ==
    ASSUME TypeOK, Sound(plan), Iteration
    PROVE  Sound(plan')
  <1>. USE DEF TypeOK
  <1>1. CASE Iterates \/ PlanComplete \/ NoVerdict
    BY <1>1 DEF Iterates, PlanComplete, NoVerdict
  <1>2. CASE SecretFound \/ Complete \/ SplitDone
    <2>1. PICK s : plan' = [plan EXCEPT ![pass.cur].status = s]
      BY <1>2 DEF SecretFound, Complete, SplitDone, ParentSuperseded
    <2>. QED  BY <2>1, StatusSound, Zenon
  <1>3. ASSUME NEW t \in Ids, Unsatisfiable(t) PROVE Sound(plan')
    BY <1>3, StatusSound DEF Unsatisfiable
  <1>4. CASE Deferred
    <2>1. plan' = [plan EXCEPT ![pass.cur].status = "pending", ![pass.cur].waits = TRUE]
      BY <1>4 DEF Deferred
    <2>. QED  BY <2>1, PutOffSound, Zenon
  <1>5. ASSUME NEW givesBack \in BOOLEAN, IterationFaulted(givesBack) PROVE Sound(plan')
    <2>1. DOMAIN plan' = DOMAIN plan
      BY <1>5 DEF IterationFaulted, GivenBack
    <2>2. ASSUME NEW x \in DOMAIN plan PROVE plan'[x].deps = plan[x].deps
      <3>1. plan[x] \in TaskRecord
        BY <2>2 DEF IsPlan
      <3>2. plan'[x] \in {plan[x], [plan[x] EXCEPT !.status = pass.from,
                              !.tier = IF pass.from = "validation-failed" THEN pass.tier ELSE @]}
        BY <1>5, <2>2 DEF IterationFaulted, GivenBack
      <3>. QED  BY <3>1, <3>2 DEF TaskRecord
    <2>. QED  BY <2>1, <2>2, FewerEdges
  <1>6. ASSUME NEW t \in Ids, NEW s \in Statuses, NEW justified, NEW touched,
               StatusReported(t, s, justified, touched)
        PROVE  Sound(plan')
    <2>. DEFINE p == [plan EXCEPT ![t].status = s]
    <2>1. IsPlan(p) /\ Sound(p)
      BY StatusWritten, StatusSound
    <2>2. plan' = Lands(p, t, s, touched)
      BY <1>6 DEF StatusReported
    <2>. HIDE DEF p
    <2>. QED  BY <2>1, <2>2, LandsSound
  <1>7. ASSUME NEW claim \in {"corroborated", "idle"}, ProgressReported(claim)
        PROVE  Sound(plan')
    BY <1>7 DEF ProgressReported
  <1>8. ASSUME NEW n \in 1 .. 2, ForcedSplit(n) PROVE Sound(plan')
    <2>1. PICK deps \in SplitsInto(n) : plan' = WithKids(deps, Inherited)
      BY <1>8 DEF ForcedSplit
    <2>2. SplitFits(n) /\ Inherited \subseteq DOMAIN plan
      BY <1>8 DEF ForcedSplit, SplitFits, Inherited, Sound, Resolved
    <2>. QED  BY <2>1, <2>2, WithKidsSound
  <1>9. ASSUME NEW n \in 1 .. 2, VoluntarySplit(n) PROVE Sound(plan')
    BY <1>9, WithKidsSound DEF VoluntarySplit
  <1>10. ASSUME NEW t \in Ids, NEW deps \in SUBSET Ids, WorkerRepoints(t, deps)
         PROVE  Sound(plan')
    BY <1>10, RewiredSound DEF WorkerRepoints, Repointable
  <1>. QED  BY <1>1, <1>2, <1>3, <1>4, <1>5, <1>6, <1>7, <1>8, <1>9, <1>10 DEF Iteration

\* A cure pass of whatever origin.
LEMMA CuresSound ==
    ASSUME TypeOK, Sound(plan), NEW finding \in ReviewFindings, NEW moved,
           Curable(finding), CuresInserted(finding, moved)
    PROVE  Sound(plan')
  BY FindingsType, CurePassLeads DEF TypeOK, Curable, CuresInserted

LEMMA VerificationSound ==
    ASSUME TypeOK, Sound(plan), Verification, ~On("replacement")
    PROVE  Sound(plan')
  <1>. USE DEF TypeOK
  <1>1. CASE VerificationListed
    <2>1. ASSUME NEW x \in DOMAIN plan PROVE Relabelled(plan)[x].deps = plan[x].deps
      BY <2>1 DEF Relabelled, IsPlan, TaskRecord
    <2>2. DOMAIN Relabelled(plan) = DOMAIN plan
      BY DEF Relabelled
    <2>3. Sound(Relabelled(plan))
      BY <2>1, <2>2, FewerEdges
    <2>. QED  BY <1>1, <2>3 DEF VerificationListed
  <1>2. CASE AdjudicationSkipped \/ Adjudicated \/ MidPlanSkipped \/ CurePassCounted
             \/ VerificationOver
    BY <1>2 DEF AdjudicationSkipped, Adjudicated, MidPlanSkipped, CurePassCounted,
                VerificationOver
  <1>3. CASE RefutedApplied
    <2>1. DOMAIN plan' = DOMAIN plan
      BY <1>3 DEF RefutedApplied
    <2>2. ASSUME NEW x \in DOMAIN plan PROVE plan'[x].deps = plan[x].deps
      <3>1. plan[x] \in TaskRecord
        BY <2>2 DEF IsPlan
      <3>2. plan'[x] \in {plan[x], [plan[x] EXCEPT !.status = "validated"],
                           [plan[x] EXCEPT !.status = "failed"]}
        BY <1>3, <2>2 DEF RefutedApplied
      <3>. QED  BY <3>1, <3>2 DEF TaskRecord
    <2>. QED  BY <2>1, <2>2, FewerEdges
  <1>4. ASSUME NEW moved, RemedyInserted(moved) PROVE Sound(plan')
    <2>. DEFINE finding == [named |-> Answered(pass.answers, "substance"), paths |-> {}]
    <2>1. Answered(pass.answers, "substance") \in SUBSET Ids
      BY AnsweredIsKnown DEF PassRecord
    <2>2. finding \in Findings /\ Room(plan, IdsTaken(finding)) /\ plan' = CurePass(plan, finding)
      BY <1>4, <2>1, PathsOfFinding DEF Findings, IdsTaken, RemedyInserted
    <2>. HIDE DEF finding
    <2>. QED  BY <2>2, CurePassLeads
  <1>5. ASSUME NEW by \in Ids \cup {NoTask}, ConfirmedApplied(by) PROVE Sound(plan')
    <2>1. by \notin DOMAIN plan
      BY <1>5, CurePassAssumption DEF ConfirmedApplied, IsPlan
    <2>2. DOMAIN plan' = DOMAIN plan
      BY <1>5 DEF ConfirmedApplied
    <2>3. ASSUME NEW x \in DOMAIN plan PROVE plan'[x].deps \subseteq plan[x].deps
      <3>1. EdgeOfVoided(plan, x, by) \subseteq plan[x].deps
        BY <2>1 DEF EdgeOfVoided
      <3>2. plan[x] \in TaskRecord
        BY <2>3 DEF IsPlan
      <3>3. plan'[x].deps = EdgeOfVoided(plan, x, by)
        BY <1>5, <2>3, <3>2 DEF ConfirmedApplied, TaskRecord
      <3>. QED  BY <3>1, <3>3
    <2>. QED  BY <2>2, <2>3, FewerEdges
  <1>6. CASE MidPlanReviewed
    BY <1>6, CuresSound DEF MidPlanReviewed
  <1>7. ASSUME NEW t \in Ids, NEW touched, VerifyPasses(t, touched) PROVE Sound(plan')
    <2>1. /\ IsPlan([plan EXCEPT ![t].status = "validated"])
          /\ Sound([plan EXCEPT ![t].status = "validated"])
      BY StatusWritten, StatusSound DEF Statuses
    <2>. QED  BY <1>7, <2>1, LandsSound DEF VerifyPasses
  <1>8. ASSUME NEW t \in Ids, VerifyRejects(t) PROVE Sound(plan')
    <2>1. PICK s : plan' = [plan EXCEPT ![t].tries = @ + 1, ![t].status = s]
      BY <1>8 DEF VerifyRejects
    <2>2. ASSUME NEW x \in DOMAIN plan PROVE plan'[x].deps = plan[x].deps
      BY <2>1, <2>2 DEF IsPlan, TaskRecord
    <2>3. DOMAIN plan' = DOMAIN plan
      BY <2>1
    <2>. QED  BY <2>2, <2>3, FewerEdges
  <1>9. ASSUME NEW t \in Ids, VerifyMute(t) PROVE Sound(plan')
    BY <1>9 DEF VerifyMute
  <1>. QED  BY <1>1, <1>2, <1>3, <1>4, <1>5, <1>6, <1>7, <1>8, <1>9 DEF Verification

LEMMA JudgementSound ==
    ASSUME TypeOK, Sound(plan), Judgement
    PROVE  Sound(plan')
  <1>. USE DEF TypeOK
  <1>1. CASE TallyApplied \/ BreakerTrips \/ TallyPassedOver \/ ReviewAnswers
             \/ ReviewUnaffordable \/ ReviewRejects \/ ReviewEnds \/ OutOfApproaches
    BY <1>1 DEF TallyApplied, BreakerTrips, TallyPassedOver, ReviewAnswers,
                ReviewUnaffordable, ReviewRejects, ReviewEnds, OutOfApproaches
  <1>2. ASSUME NEW activity, Tally(activity) PROVE Sound(plan')
    BY <1>2 DEF Tally
  <1>3. CASE BacksOff
    BY <1>3, PutOffSound DEF BacksOff
  <1>4. CASE ReviewCured
    BY <1>4, CuresSound DEF ReviewCured
  <1>5. ASSUME NEW worded, Replanned(worded) PROVE Sound(plan')
    BY <1>5, FreshPlansSound DEF Replanned
  <1>. QED  BY <1>1, <1>2, <1>3, <1>4, <1>5 DEF Judgement

LEMMA SoundStep ==
    ASSUME TypeOK, Sound(plan), [Next]_vars, ~On("replacement")
    PROVE  Sound(plan')
  <1>1. CASE Operator \/ Killed \/ Over \/ UNCHANGED vars
    BY <1>1 DEF Operator, SteeringArrives, TimeRunsOut, UndeferRequested, RulingGiven,
                Killed, Over, vars
  <1>. QED  BY <1>1, BoundarySound, SelectionSound, IterationSound, VerificationSound,
               JudgementSound
            DEF Next, Engine

\* However the plan is split, re-pointed, steered, cured, adjudicated and planned
\* anew, it never waits on itself or on a task that is not there, unless a
\* confirmed petition names a replacement: that one edge is not validated.
THEOREM NothingStarves ==
    ASSUME ~On("replacement")
    PROVE  Spec => []Schedulable
  <1>1. Init => TypeOK /\ Sound(plan)
    BY InitType, FreshPlansSound DEF Init
  <1>2. TypeOK /\ Sound(plan) /\ [Next]_vars => (TypeOK /\ Sound(plan))'
    BY TypeStep, SoundStep
  <1>3. TypeOK /\ Sound(plan) => Schedulable
    BY SoundIsSchedulable
  <1>. QED  BY <1>1, <1>2, <1>3, PTL DEF Spec

=============================================================================
