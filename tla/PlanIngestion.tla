---------------------------- MODULE PlanIngestion ----------------------------
(***************************************************************************)
(* What planning may hand over (engine/plan_ingestion.py): the lints a     *)
(* proposal is held to, the repair of a task's success criteria that is    *)
(* tried before them, and the plan an accepted proposal becomes.           *)
(*                                                                         *)
(* A success criterion is a sequence of clauses, as the splitter of the    *)
(* code cuts it, and a clause is the set of the cues the code's patterns   *)
(* find in it; the wording is left out.  A proposal is a sequence of tasks *)
(*   id, deps, orderOnly, status (the hat smuggled a status in), shaped    *)
(*   (every field is of its type), criteria, cites (tasks whose commit a   *)
(*   clause cites), stage (0: none), names (ids its text names), estimate  *)
(*   and tier (0 and "none": not annotated), remeasures (tasks whose own   *)
(*   quoted baseline and target it re-measures and stages).                *)
(***************************************************************************)
EXTENDS TaskGraph, Sequences, FiniteSetsExt

MaxCheckableClauses == 5
MaxEstimateWithoutStages == 3

UnsatisfiableShapes ==
    {"final commit", "predeclared event", "own writing commit", "empty range",
     "commit count", "notification"}
CommandForms == {"launch text", "wrapper", "cadence", "nothing else"}

\* A list of tasks; one that has the plan's shape has every field, and a list of
\* clauses.
IsSequence(s) == s \in Seq({s[i] : i \in DOMAIN s})
TaskFields ==
    {"id", "deps", "orderOnly", "status", "shaped", "criteria", "cites", "stage", "names",
     "estimate", "tier", "remeasures"}
IsProposal(tasks) ==
    /\ IsSequence(tasks)
    /\ \A i \in DOMAIN tasks :
            tasks[i].shaped => DOMAIN tasks[i] = TaskFields /\ IsSequence(tasks[i].criteria)

SomeClause(criteria, cues) == \E i \in DOMAIN criteria : cues \subseteq criteria[i]
AnyCue(criteria, cues) == \E i \in DOMAIN criteria : criteria[i] \cap cues # {}

(***************************************************************************)
(* The lints over one task's criteria.                                     *)
(***************************************************************************)
RelationalSha(criteria) == SomeClause(criteria, {"relative sha"})

\* The demand and the record's own commit may stand in different clauses.
SingleCommitConflict(criteria) ==
    SomeClause(criteria, {"single commit"}) /\ SomeClause(criteria, {"record commit"})

SelfGrowing(criteria) == SomeClause(criteria, {"own output", "grows"})

OwnOutputHolds(criteria, clause) ==
    "string" \in clause /\ SomeClause(criteria, {"own output", "carries", "string"})

\* A count at a named sha is the legal form; one of a thing that the task does
\* not grow is static.
UnscopedCount(criteria) ==
    \E i \in DOMAIN criteria :
        /\ "count" \in criteria[i] /\ "at sha" \notin criteria[i]
        /\ SelfGrowing(criteria) \/ OwnOutputHolds(criteria, criteria[i])

ScratchState(criteria) == SomeClause(criteria, {"untracked path", "content"})
Unsatisfiable(criteria) == AnyCue(criteria, UnsatisfiableShapes)

Bounded(clause) == clause \cap {"command", "members"} # {}

BoundElsewhere(criteria, i) ==
    "anaphor" \in criteria[i] /\ \E j \in DOMAIN criteria \ {i} : Bounded(criteria[j])

Unenumerated(criteria) ==
    {i \in DOMAIN criteria :
        "every" \in criteria[i] /\ ~Bounded(criteria[i]) /\ ~BoundElsewhere(criteria, i)}

Overrun(criteria) == Len(criteria) > MaxCheckableClauses

CommandForm(criteria) == AnyCue(criteria, CommandForms)

\* Captured status of a launch whose form is pinned, in one clause or in two.
LaunchWithStatus(criteria) ==
    SomeClause(criteria, {"launched as"}) /\ SomeClause(criteria, {"captured status"})

OwnTerminalState(criteria) ==
    SomeClause(criteria, {"leaves running"}) \/ SomeClause(criteria, {"terminal", "precondition"})

\* The names of the lints that refuse a task's criteria.
CriteriaLints(criteria) ==
    {l \in {"relational-sha", "single-commit", "occurrence-count", "scratch-state",
            "quantifier", "overrun", "unsatisfiable", "command-form", "launch-form"} :
        \/ l = "relational-sha" /\ RelationalSha(criteria)
        \/ l = "single-commit" /\ SingleCommitConflict(criteria)
        \/ l = "occurrence-count" /\ UnscopedCount(criteria)
        \/ l = "scratch-state" /\ ScratchState(criteria)
        \/ l = "quantifier" /\ Unenumerated(criteria) # {}
        \/ l = "overrun" /\ Overrun(criteria)
        \/ l = "unsatisfiable" /\ Unsatisfiable(criteria)
        \/ l = "command-form" /\ CommandForm(criteria)
        \/ l = "launch-form" /\ LaunchWithStatus(criteria)}

\* What a text the engine itself writes must pass (_clause_lint_refusals).
Legal(criteria) ==
    CriteriaLints(criteria) = {} /\ ~SelfGrowing(criteria) /\ ~OwnTerminalState(criteria)

(***************************************************************************)
(* The repair: bound one open quantifier at a time, then fold the clauses  *)
(* past the bound into one.  It is dropped when either has no legal form.  *)
(***************************************************************************)
NoRewrite == <<>>

\* The clause as it stands, with a command that bounds it.
BoundedClause(clause) == clause \cup {"command"}

BoundQuantifier(criteria) ==
    LET i == Min(Unenumerated(criteria))
        rewrite == BoundedClause(criteria[i])
    IN  IF Legal(<<rewrite>>) THEN [criteria EXCEPT ![i] = rewrite] ELSE NoRewrite

Folded(criteria, kept) ==
    SubSeq(criteria, 1, kept) \o <<UNION {criteria[i] : i \in kept + 1 .. Len(criteria)}>>

\* As many leading clauses as a legal fold leaves.
FoldOverrun(criteria) ==
    LET legal == {kept \in 0 .. MaxCheckableClauses - 1 : Legal(Folded(criteria, kept))}
    IN  IF legal = {} THEN NoRewrite ELSE Folded(criteria, Max(legal))

RepairPass(criteria) ==
    IF Unenumerated(criteria) # {} THEN BoundQuantifier(criteria)
    ELSE IF Overrun(criteria) THEN FoldOverrun(criteria)
    ELSE criteria

\* One pass per clause and one for the fold.
RepairOf(criteria) ==
    LET after[n \in 0 .. Len(criteria) + 1] ==
            IF n = 0 THEN criteria ELSE RepairPass(after[n - 1])
    IN  after[Len(criteria) + 1]

\* Mutant (the first form of the rewrite): what is past the bound is dropped.
RepairByDropping(criteria) ==
    LET bounded == [i \in DOMAIN criteria |->
                        IF i \in Unenumerated(criteria) THEN BoundedClause(criteria[i])
                        ELSE criteria[i]]
        r == SubSeq(bounded, 1, Min({Len(criteria), MaxCheckableClauses}))
    IN  IF Legal(r) THEN r ELSE criteria

Repaired(criteria) ==
    LET r == RepairOf(criteria)
    IN  IF r # NoRewrite /\ Legal(r) THEN r ELSE criteria

RepairedProposal(tasks) == [i \in DOMAIN tasks |-> [tasks[i] EXCEPT !.criteria = Repaired(@)]]

(***************************************************************************)
(* Staged decomposition and quoted baselines: a task against the others.   *)
(***************************************************************************)
Measurable(criteria) == AnyCue(criteria, {"target", "module group"})

\* other is tied to task: by a dependency either way, or by naming its id.
StageOf(other, task) == task.id \in other.deps \/ other.id \in task.deps \/ task.id \in other.names

Staged(tasks, i) == {j \in DOMAIN tasks : tasks[j].id # tasks[i].id /\ tasks[j].stage > 0}

\* The staged tasks tied to task i directly or through one another: the least set.
StagesOf(tasks, i) ==
    LET Tied(j, k) == StageOf(tasks[j], tasks[k]) \/ StageOf(tasks[k], tasks[j])
        Closed(S) == \A j \in Staged(tasks, i) :
                        (StageOf(tasks[j], tasks[i]) \/ \E k \in S : Tied(j, k)) => j \in S
    IN  {j \in Staged(tasks, i) : \A S \in SUBSET Staged(tasks, i) : Closed(S) => j \in S}

\* Fewer than two stages, labels not 1..N in order, a stage with no measure, or
\* one that repeats another.
StagingGap(tasks, i) ==
    LET stages == StagesOf(tasks, i)
        Place(j) == Cardinality({k \in stages : k <= j})
    IN  \/ Cardinality(stages) < 2
        \/ \E j \in stages : tasks[j].stage # Place(j) \/ ~Measurable(tasks[j].criteria)
        \/ \E j, k \in stages : j # k /\ tasks[j].criteria = tasks[k].criteria

\* A baseline of more than twice the target, and no task that re-measures it.
BaselineGap(tasks, i) ==
    /\ SomeClause(tasks[i].criteria, {"far baseline"})
    /\ ~\E j \in DOMAIN tasks \ {i} :
            /\ StageOf(tasks[j], tasks[i])
            /\ tasks[j].stage > 0 /\ tasks[i].id \in tasks[j].remeasures

(***************************************************************************)
(* The lints over a proposal; an error is the lint's name and the task.    *)
(***************************************************************************)
IdsOf(tasks) == {tasks[i].id : i \in DOMAIN tasks}

EdgesOf(tasks) == [t \in IdsOf(tasks) |-> UNION {tasks[i].deps : i \in {j \in DOMAIN tasks : tasks[j].id = t}}]

\* Only a task ordered later is refused: its commit is not there yet.
ForwardCites(tasks, i) == {c \in tasks[i].cites : \E j \in DOMAIN tasks : j > i /\ tasks[j].id = c}

\* A criterion that is missing or boilerplate is refused unread.
TaskLints(tasks, i) ==
    LET t == tasks[i]
    IN  {l \in {"duplicate", "status", "boilerplate", "forward", "staging", "baseline"} :
            \/ l = "duplicate" /\ \E j \in 1 .. i - 1 : tasks[j].id = t.id
            \/ l = "status" /\ t.status
            \/ l = "boilerplate" /\ t.criteria = <<>>
            \/ /\ t.criteria # <<>>
               /\ \/ l = "forward" /\ ForwardCites(tasks, i) # {}
                  \/ l = "staging" /\ t.estimate > MaxEstimateWithoutStages /\ StagingGap(tasks, i)
                  \/ l = "baseline" /\ BaselineGap(tasks, i)}
        \cup CriteriaLints(t.criteria)

EdgeLints(tasks, i) ==
    {l \in {"unknown", "ordering"} :
        \/ l = "unknown" /\ ~(tasks[i].deps \subseteq IdsOf(tasks))
        \/ l = "ordering" /\ ~(tasks[i].orderOnly \subseteq tasks[i].deps)}

TerminalLints(tasks, i) == IF OwnTerminalState(tasks[i].criteria) THEN {"terminal"} ELSE {}

LintErrors(tasks) ==
    (UNION {{<<l, tasks[i].id>> : l \in TaskLints(tasks, i) \cup EdgeLints(tasks, i) \cup TerminalLints(tasks, i)} :
            i \in DOMAIN tasks})
    \cup (IF Acyclic(EdgesOf(tasks)) THEN {} ELSE {<<"cycle", "plan">>})

Shaped(tasks) == \A i \in DOMAIN tasks : tasks[i].shaped

\* Absent, unreadable or of another shape: nothing further is looked at.
ProposalErrors(tasks) ==
    IF ~Shaped(tasks) THEN {<<"shape", "plan">>} ELSE LintErrors(RepairedProposal(tasks))

(***************************************************************************)
(* The plan an accepted proposal becomes.                                  *)
(***************************************************************************)
Tiers == {"trivial", "normal", "hard"}
NormalTier(tier) == IF tier \in Tiers THEN tier ELSE "normal"
NormalEstimate(estimate) == IF estimate = 0 THEN 1 ELSE estimate

\* Only the fields the plan knows pass, and every task starts pending.
Ingested(tasks) ==
    [i \in DOMAIN tasks |->
        [id |-> tasks[i].id, deps |-> tasks[i].deps,
         orderOnly |-> tasks[i].orderOnly, criteria |-> Repaired(tasks[i].criteria),
         tier |-> NormalTier(tasks[i].tier), estimate |-> NormalEstimate(tasks[i].estimate),
         status |-> "pending"]]

\* Everything the criteria of a proposal's tasks demand.
Demands(criteria) == UNION {criteria[i] : i \in DOMAIN criteria}

=============================================================================
