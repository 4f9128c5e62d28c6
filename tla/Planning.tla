------------------------------ MODULE Planning ------------------------------
(***************************************************************************)
(* From an approach to a plan its worker may take (engine/loop.py): the    *)
(* planning step and its proposals, the peer's review of the plan, the     *)
(* replan, the resume over what is on disk, and the reflection at the end. *)
(* Each hat's iteration goes through InfraRetry; a proposal goes through   *)
(* PlanIngestion.  The worker is abstract: it records work, and leaves     *)
(* done, rejected, or over a plan that cannot be scheduled.                *)
(***************************************************************************)
EXTENDS InfraRetry, PlanIngestion

CONSTANTS
    Proposals,      \* what a planning hat may submit
    Iterations,     \* the iteration budget
    MaxApproaches,
    RevisionMax,    \* peer_plan_review_max_revisions
    ContractRetryMax,
    PeerReview,     \* peer_plan_review
    Blockers,       \* signatures of what an approach is given up for
    KillMax         \* bound: kills of the engine

ASSUME PlanningAssumption ==
    /\ Iterations \in Nat /\ MaxApproaches \in Nat \ {0}
    /\ RevisionMax \in Nat /\ ContractRetryMax \in Nat
    /\ PeerReview \in BOOLEAN /\ KillMax \in Nat
    /\ \A p \in Proposals : IsProposal(p)

VARIABLES
    step,       \* "planning", "plan_review", "worker", "replan", "tail", "over"
    phase,      \* within a step: "enter", "asking", "answered", "ingested", "again"
    memory,     \* lost at a kill: approach, skip, guard, objection, fault, attempt, errors, reply
    disk,       \* tasks.json: the plan, the proposal it came from, worked (the
                \* approach that recorded work on it, 0 for none)
    record,     \* status.json: approach, revisions, settled, death, faulted,
                \* blockers, archived, reflect
    kills

planningVars == <<step, phase, memory, disk, record, kills>>
vars == <<retryVars, planningVars>>

Approaches == 1 .. MaxApproaches
NoPlan == [plan |-> <<>>, proposed |-> <<>>, worked |-> 0]

FreshMemory ==
    [approach |-> 1, skip |-> FALSE, guard |-> "none", objection |-> FALSE,
     fault |-> FALSE, attempt |-> 0, errors |-> {}, reply |-> <<>>]

Init ==
    /\ RetryInit
    /\ step = "planning" /\ phase = "enter"
    /\ memory = FreshMemory /\ disk = NoPlan /\ kills = 0
    /\ record = [approach |-> 1, revisions |-> [a \in Approaches |-> 0], settled |-> {},
                 death |-> {}, faulted |-> {}, blockers |-> [a \in Approaches |-> <<>>],
                 archived |-> {}, reflect |-> "none"]

Budget == BudgetLeft(Iterations)

\* The step hands over to another one.
Advance(next) == step' = next /\ phase' = "enter"

RetryUntouched == UNCHANGED retryVars
OnlyAt(to) ==
    /\ at' = to
    /\ UNCHANGED <<outage, wait, rateWaited, warned, clock, charged, abort, window, bells>>

\* An iteration is asked for; what it left is taken.
AskedFor == at = "idle" /\ OnlyAt("asked") /\ UNCHANGED <<result, episode>>
Answer == at = "left" /\ OnlyAt("idle") /\ result' = AbortedEnding

(***************************************************************************)
(* Planning.                                                               *)
(***************************************************************************)
\* No plan is asked for over a spent budget.
PlanningUnaffordable ==
    /\ step = "planning" /\ phase = "enter" /\ ~Budget
    /\ record' = [record EXCEPT !.approach = memory.approach]
    /\ Advance("tail")
    /\ RetryUntouched /\ UNCHANGED <<memory, disk, kills>>

\* The objection and the note on the graph are consumed as the step begins.
PlanningBegins ==
    /\ step = "planning" /\ phase = "enter" /\ Budget /\ ~memory.skip
    /\ record' = [record EXCEPT !.approach = memory.approach]
    /\ memory' = [memory EXCEPT !.objection = FALSE, !.fault = FALSE, !.attempt = 0, !.errors = {}]
    /\ phase' = "asking"
    /\ RetryUntouched /\ UNCHANGED <<step, disk, kills>>

RecordedWork == disk.worked # 0
Settled == memory.approach \in record.settled \/ RecordedWork

\* A resume over the plan on disk, reviewed only if nothing says it was.
PlanningSkipped ==
    /\ step = "planning" /\ phase = "enter" /\ Budget /\ memory.skip
    /\ record' = [record EXCEPT !.approach = memory.approach]
    /\ memory' = [memory EXCEPT !.skip = FALSE]
    /\ Advance(IF PeerReview /\ ~Settled THEN "plan_review" ELSE "worker")
    /\ RetryUntouched /\ UNCHANGED <<disk, kills>>

PlanningAsks ==
    /\ step = "planning" /\ phase = "asking" /\ Budget
    /\ AskedFor /\ phase' = "answered"
    /\ UNCHANGED <<step, memory, disk, record, kills>>

\* What the retry left unscored is scored by the step itself.
ScoredHere == IF AtOnce(result) THEN Scored(result, "infra") ELSE episode

\* Instant failures and iterations the engine cut short are asked for again.
AskAgain == Budget /\ (ScoredHere.streak > 0 \/ CutShort(result))

PlanningAsksAgain ==
    /\ step = "planning" /\ phase = "answered"
    /\ Answer /\ episode' = ScoredHere
    /\ AskAgain /\ phase' = "asking"
    /\ UNCHANGED <<step, memory, disk, record, kills>>

\* The reply points at no readable proposal, or there is none.
Unanswered == {<<"pointer", "plan">>}

\* What is wrong with a proposal, and the plan it would become.
ErrorsOf == [p \in Proposals |-> ProposalErrors(p)]
PlanOf == [p \in Proposals |-> Ingested(p)]

\* The next attempt of the contract ladder, or its end.
AttemptFails(errors) ==
    /\ memory' = [memory EXCEPT !.errors = errors, !.attempt = @ + 1]
    /\ phase' = (IF memory.attempt < ContractRetryMax THEN "asking" ELSE "ingested")

PlanningReads ==
    /\ step = "planning" /\ phase = "answered"
    /\ Answer /\ episode' = ScoredHere
    /\ ~AskAgain
    /\ \/ AttemptFails(Unanswered)
       \/ \E p \in Proposals :
            /\ result.text
            /\ \/ ErrorsOf[p] # {} /\ AttemptFails(ErrorsOf[p])
               \/ /\ ErrorsOf[p] = {}
                  /\ memory' = [memory EXCEPT !.errors = {}, !.reply = p]
                  /\ phase' = "ingested"
    /\ UNCHANGED <<step, disk, record, kills>>

\* Nobody is asked once the budget is gone.
PlanningGivesUp ==
    /\ step = "planning" /\ phase = "asking" /\ ~Budget
    /\ AttemptFails(Unanswered)
    /\ RetryUntouched /\ UNCHANGED <<step, disk, record, kills>>

\* Even a usable plan is thrown away when its iteration spent the budget.
PlanningOutlived ==
    /\ step = "planning" /\ phase = "ingested" /\ ~Budget
    /\ memory' = [memory EXCEPT !.reply = <<>>]
    /\ Advance("tail")
    /\ RetryUntouched /\ UNCHANGED <<disk, record, kills>>

\* Numbers, and so the ids of the tasks, are normalised away: what is left of
\* the errors is which lints refused, and how often.
DeathSignature ==
    {<<e[1], Cardinality({d \in memory.errors : d[1] = e[1]})>> : e \in memory.errors}

PlanningDies ==
    /\ step = "planning" /\ phase = "ingested" /\ Budget /\ memory.errors # {}
    /\ \/ /\ DeathSignature = record.death
          /\ Advance("tail") /\ UNCHANGED <<record, memory>>
       \/ /\ DeathSignature # record.death
          /\ record' = [record EXCEPT !.death = DeathSignature]
          /\ memory' = [memory EXCEPT !.guard = "empty_plan"]
          /\ Advance("replan")
    /\ RetryUntouched /\ UNCHANGED <<disk, kills>>

PlanningLands ==
    /\ step = "planning" /\ phase = "ingested" /\ Budget /\ memory.errors = {}
    /\ disk' = [plan |-> PlanOf[memory.reply], proposed |-> memory.reply, worked |-> 0]
    /\ record' = [record EXCEPT !.death = {}]
    /\ memory' = [memory EXCEPT !.reply = <<>>]
    /\ Advance(IF PeerReview THEN "plan_review" ELSE "worker")
    /\ RetryUntouched /\ UNCHANGED kills

(***************************************************************************)
(* The peer's review of the plan.                                          *)
(***************************************************************************)
ReviewUnaffordable ==
    /\ step = "plan_review" /\ phase = "enter" /\ ~Budget
    /\ Advance("tail")
    /\ RetryUntouched /\ UNCHANGED <<memory, disk, record, kills>>

ReviewAsks ==
    /\ step = "plan_review" /\ phase = "enter" /\ Budget
    /\ AskedFor /\ phase' = "answered"
    /\ UNCHANGED <<step, memory, disk, record, kills>>

\* An interrupted peer is asked once more.
Interrupted == phase = "answered" /\ result.interrupted /\ Budget

ReviewAsksAgain ==
    /\ step = "plan_review" /\ Interrupted
    /\ at = "left" /\ OnlyAt("asked") /\ UNCHANGED <<result, episode>>
    /\ phase' = "again"
    /\ UNCHANGED <<step, memory, disk, record, kills>>

PlanIsSettled == record' = [record EXCEPT !.settled = @ \cup {memory.approach}]
RevisionAvailable == record.revisions[memory.approach] < RevisionMax

ReviewApproves ==
    /\ result.text /\ PlanIsSettled /\ Advance("worker")
    /\ UNCHANGED memory

\* A revision is refused over a plan on which work is recorded: the revised plan
\* would start every task anew.
ReviewOverruled ==
    /\ ~RevisionAvailable \/ RecordedWork
    /\ PlanIsSettled /\ Advance("worker")
    /\ UNCHANGED memory

\* An objection, or a reply with no usable verdict: both spend a revision.
ReviewObjects ==
    /\ RevisionAvailable /\ ~RecordedWork
    /\ record' = [record EXCEPT !.revisions[memory.approach] = @ + 1]
    /\ memory' = [memory EXCEPT !.objection = TRUE]
    /\ Advance("planning")

ReviewReads ==
    /\ step = "plan_review" /\ phase \in {"answered", "again"} /\ ~Interrupted
    /\ Answer /\ UNCHANGED episode
    /\ ReviewApproves \/ ReviewOverruled \/ ReviewObjects
    /\ UNCHANGED <<disk, kills>>

(***************************************************************************)
(* The worker, and the replan.                                             *)
(***************************************************************************)
WorkerUnaffordable ==
    /\ step = "worker" /\ ~Budget
    /\ Advance("tail")
    /\ RetryUntouched /\ UNCHANGED <<memory, disk, record, kills>>

\* An iteration that records something on the plan; its course is Tasks'.
WorkerWorks ==
    /\ step = "worker" /\ Budget /\ disk.plan # <<>>
    /\ charged' = charged + 1
    /\ disk' = [disk EXCEPT !.worked = memory.approach]
    /\ UNCHANGED <<at, result, outage, episode, wait, rateWaited, warned, clock, abort, window, bells>>
    /\ UNCHANGED <<step, phase, memory, record, kills>>

\* The approach is given up: archived, with the signature of its blocker
\* if it left a text to take one from.
WorkerRejected ==
    /\ step = "worker" /\ Budget
    /\ \E sig \in {<<b>> : b \in Blockers} \cup {<<>>} :
        record' = [record EXCEPT !.blockers[memory.approach] = sig,
                                 !.archived = @ \cup {memory.approach}]
    /\ memory' = [memory EXCEPT !.guard = "rejected"]
    /\ Advance("replan")
    /\ RetryUntouched /\ UNCHANGED <<disk, kills>>

\* The graph cannot be scheduled: planned again for nothing, once an approach.
SelfHealGraphFault ==
    /\ step = "worker" /\ Budget
    /\ \/ /\ memory.approach \in record.faulted
          /\ Advance("tail") /\ UNCHANGED <<record, memory>>
       \/ /\ memory.approach \notin record.faulted
          /\ record' = [record EXCEPT !.faulted = @ \cup {memory.approach}]
          /\ memory' = [memory EXCEPT !.fault = TRUE, !.guard = "graph"]
          /\ Advance("replan")
    /\ RetryUntouched /\ UNCHANGED <<disk, kills>>

\* Nothing is left to do; a plan of no tasks is accepted, and is done.
WorkerDone ==
    /\ step = "worker" /\ Budget
    /\ RecordedWork \/ disk.plan = <<>>
    /\ Advance("tail")
    /\ RetryUntouched /\ UNCHANGED <<memory, disk, record, kills>>

\* Neither a planning that died nor a graph fault costs an approach.
ReplanUncharged ==
    /\ step = "replan" /\ memory.guard \in {"empty_plan", "graph"}
    /\ Advance("planning")
    /\ RetryUntouched /\ UNCHANGED <<memory, disk, record, kills>>

ApproachLeft == memory.approach < MaxApproaches

\* The same blocker twice in a row.
Stagnated ==
    /\ memory.approach > 1 /\ record.blockers[memory.approach] # <<>>
    /\ record.blockers[memory.approach] = record.blockers[memory.approach - 1]

Replan ==
    /\ step = "replan" /\ memory.guard \notin {"empty_plan", "graph"}
    /\ \/ /\ ApproachLeft /\ ~Stagnated
          /\ memory' = [memory EXCEPT !.approach = @ + 1]
          /\ Advance("planning")
       \/ /\ ~ApproachLeft \/ Stagnated
          /\ Advance("tail") /\ UNCHANGED memory
    /\ RetryUntouched /\ UNCHANGED <<disk, record, kills>>

(***************************************************************************)
(* A kill, and the resume over what is on disk.                            *)
(***************************************************************************)
\* Mutant (a plausible bug): the plan of an approach that was given up is the
\* only thing a resume looks for; planning is never skipped.
ResumedUnskipped(plan) ==
    [FreshMemory EXCEPT !.approach = IF plan = <<>> THEN 1 ELSE record.approach]

\* Where the next process takes the run up: what it remembers.
Resumed(plan) ==
    [FreshMemory EXCEPT !.approach = IF plan = <<>> THEN 1 ELSE record.approach,
                        !.skip = plan # <<>> /\ record.approach \notin record.archived]

Kill ==
    /\ kills < KillMax /\ kills' = kills + 1
    /\ step \in {"planning", "plan_review", "worker", "replan"} /\ abort = "none"
    /\ memory' = Resumed(disk.plan)
    /\ Advance(IF disk.plan # <<>> /\ record.approach \in record.archived
               THEN "replan" ELSE "planning")
    /\ at' = "idle" /\ result' = AbortedEnding /\ outage' = FALSE
    /\ episode' = NoEpisode /\ wait' = NoWait /\ rateWaited' = 0 /\ warned' = FALSE /\ clock' = FreshClock
    /\ UNCHANGED <<charged, abort, window, bells, disk, record>>

(***************************************************************************)
(* The tail: the reflection, which no outcome depends on.                  *)
(***************************************************************************)
\* It is off, or the run holds on a spent budget.
ReflectionSkipped ==
    /\ step = "tail" /\ phase = "enter"
    /\ Advance("over")
    /\ RetryUntouched /\ UNCHANGED <<memory, disk, record, kills>>

ReflectDelay == Min({Schedule[1], BackoffMax, Min({OutageBudget, ReflectBudget})})

\* The reason the run is giving up is parked, an operator's excepted; after an
\* outage the first attempt waits.
BeginReflection ==
    /\ step = "tail" /\ phase = "enter" /\ at = "idle"
    /\ episode' = NoEpisode
    /\ IF abort = "operator" THEN UNCHANGED <<window, abort>>
       ELSE window' = [open |-> TRUE, parked |-> abort] /\ abort' = "none"
    /\ IF outage /\ abort # "operator" /\ ReflectDelay > 0
       THEN at' = "delay" /\ StartWait(ReflectDelay)
       ELSE at' = "asked" /\ UNCHANGED wait
    /\ phase' = "answered"
    /\ UNCHANGED <<result, outage, rateWaited, warned, clock, charged, bells>>
    /\ UNCHANGED <<step, memory, disk, record, kills>>

\* The reason is put back; a cut iteration fails, any other is held to its contract.
ReflectionEnds ==
    /\ step = "tail" /\ phase = "answered" /\ at = "left"
    /\ at' = "idle" /\ result' = AbortedEnding /\ window' = NoWindow
    /\ abort' = (IF window.open THEN window.parked ELSE abort)
    /\ \E outcome \in {"ok", "failed"} :
          /\ CutShort(result) \/ result.error # "none" => outcome = "failed"
          /\ record' = [record EXCEPT !.reflect = outcome]
    /\ Advance("over")
    /\ UNCHANGED <<outage, episode, wait, rateWaited, warned, clock, charged, bells>>
    /\ UNCHANGED <<memory, disk, kills>>

Over == step = "over" /\ UNCHANGED vars

PlanningStep ==
    \/ PlanningUnaffordable \/ PlanningBegins \/ PlanningSkipped \/ PlanningAsks
    \/ PlanningAsksAgain \/ PlanningReads \/ PlanningGivesUp \/ PlanningOutlived
    \/ PlanningDies \/ PlanningLands
ReviewStep == ReviewUnaffordable \/ ReviewAsks \/ ReviewAsksAgain \/ ReviewReads
WorkerStep ==
    \/ WorkerUnaffordable \/ WorkerWorks \/ WorkerRejected \/ SelfHealGraphFault \/ WorkerDone
ReplanStep == ReplanUncharged \/ Replan
TailStep == ReflectionSkipped \/ BeginReflection \/ ReflectionEnds

Engine ==
    \/ PlanningStep \/ ReviewStep \/ WorkerStep \/ ReplanStep \/ TailStep
    \/ Proceed /\ UNCHANGED planningVars

Next == Engine \/ (Bell /\ UNCHANGED planningVars) \/ Kill \/ Over

Spec == Init /\ [][Next]_vars /\ WF_vars(Engine)

=============================================================================
