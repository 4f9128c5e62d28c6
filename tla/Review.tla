------------------------------- MODULE Review -------------------------------
(***************************************************************************)
(* The review of an approach, from the worker's last task to the verdict   *)
(* (engine/loop.py, _step_review): a dispatch, the contract ladder around  *)
(* its reply, fresh attempts, the judge's fault backoff, the adjudication  *)
(* of petitions with each of its durable writes, and the verdict.  The     *)
(* off-budget adjudication of a mid-run episode and the mid-plan review go *)
(* through the same ladder.  Supervisor sees a review as one action; the   *)
(* plan a ruling changes is Tasks'.                                        *)
(***************************************************************************)
EXTENDS Petitions

CONSTANTS
    Iterations,     \* iterations the run has
    JudgeRetryMax,  \* judge_retry_max
    FaultMax,       \* infra_retry_max: faults of one judge before it is spent
    CureMax,        \* cure rounds
    MaxApproaches,
    Reportable,     \* findings a reviewer may write
    Given,          \* rulings it may give
    KeyStores,      \* {TRUE}: a key store is configured
    KillMax,
    Features        \* which of ReviewFeatures happen

\* tree: the worker writes a petition into its own tree; criteria: it rewrites a
\* task's criteria; midplan: mid_plan_review; disturbed: the record is tampered
\* with, once; torn: a kill may separate the record from its witness; crossed: a
\* reply may verify over a finding about an obligation it confirms; unasked: it may
\* rule on what it was not asked.
ReviewFeatures ==
    {"tree", "criteria", "midplan", "disturbed", "torn", "crossed", "unasked"}

ASSUME ReviewAssumption ==
    /\ {Iterations, JudgeRetryMax, CureMax, KillMax} \subseteq Nat
    /\ {FaultMax, MaxApproaches} \subseteq Nat \ {0}
    /\ Reportable \subseteq Finding /\ Given \subseteq Rulings
    /\ KeyStores \subseteq BOOLEAN /\ KeyStores # {}
    /\ Features \subseteq ReviewFeatures

VARIABLES
    record,   \* petition-adjudications.json, its key and its events
    files,    \* petitions, findings.json, flagged criteria, the approach's cures
    ledger,   \* status.json: the approach, the iterations charged
    at,       \* where the step stands
    memory,   \* what the engine process remembers
    past      \* history

vars == <<record, files, ledger, at, memory, past>>

Ends == {"verified", "tail", "failed"}
Adopting == {"adopt", "witness", "remedies", "writeback", "verdict"}
Places == {"work", "review", "inflight", "replying", "settle"} \cup Adopting \cup Ends

On(feature) == feature \in Features

NoReply == [claim |-> "unreadable", sound |-> FALSE, reasoned |-> FALSE, rules |-> NoRulings]

\* seen: _petition_adjudication_seen; mode: which episode is under way; mark:
\* why the ladder gave the reply up; dead: the reply was empty throughout.
FreshMemory ==
    [auth |-> NoAuthority, seen |-> {}, attempts |-> 0, faults |-> 0,
     mode |-> "none", mark |-> "none", reply |-> NoReply]

Init ==
    /\ record \in [doc : {NoRecord}, stored : {0}, keys : {0}, witness : {<<>>},
                   flagged : {FALSE}, store : KeyStores]
    /\ files = [filings |-> [o \in Obligations |-> NotFiled], findings |-> NoFile,
                edited |-> FALSE, remedied |-> {}, granted |-> 0]
    /\ ledger = [approach |-> 1, charged |-> 0, midPlan |-> FALSE, verdict |-> "none"]
    /\ at = "work"
    /\ memory = FreshMemory
    /\ past = [confirmed |-> {}, doc |-> NoRecord, disturbed |-> FALSE, torn |-> FALSE,
               audited |-> FALSE, settled |-> 0, kills |-> 0]

\* Between episodes.
Idle(m) == [m EXCEPT !.attempts = 0, !.mode = "none", !.mark = "none", !.reply = NoReply]

\* Counts the iterations settled; no run settles more than it charges.
OneMore(n) == IF n > Iterations THEN n ELSE n + 1

BudgetLeft == ledger.charged < Iterations

(***************************************************************************)
(* Reading the record.  What reads it first also flags it, for good.       *)
(***************************************************************************)
Auth == Authority(memory.auth, record.stored)
Tampered == record.flagged \/ FoundTampered(record.doc, Auth, record.witness)
EntriesRead == Entries(record.doc, Auth, Tampered)
Flagged == [record EXCEPT !.flagged = Tampered]

OpenPetitions == OpenUnconfirmed(files.filings, EntriesRead)

\* _is_confirmation_review: the approach has taken a granted cure pass; passes
\* of kind "remedy" do not count.
ConfirmationReview == files.granted > 0

FindingsFile == FlaggedRecorded(files.findings, files.edited)
ChannelOver(file, confirmation) ==
    Channel(file, files.edited, Confirmed(EntriesRead),
            DuplicatePetitions(files.filings), confirmation)
Findings(file) == ChannelOver(file, ConfirmationReview /\ memory.mode = "review")

(***************************************************************************)
(* While the worker works.                                                 *)
(***************************************************************************)
PetitionFiled(o) ==
    /\ at = "work" /\ ~AlreadyFiled(files.filings[o])
    /\ files' = [files EXCEPT !.filings[o].run = "open"]
    /\ UNCHANGED <<record, ledger, at, memory, past>>

PetitionWrittenInTree(o) ==
    /\ On("tree") /\ at = "work" /\ ~files.filings[o].tree
    /\ files' = [files EXCEPT !.filings[o].tree = TRUE]
    /\ UNCHANGED <<record, ledger, at, memory, past>>

\* read_tasks stamps criteriaEditedAfterValidationFailure, and never clears it.
CriteriaRewritten ==
    /\ On("criteria") /\ at = "work" /\ ~files.edited
    /\ files' = [files EXCEPT !.edited = TRUE]
    /\ UNCHANGED <<record, ledger, at, memory, past>>

Charged(n) == n + 1

\* Mutant (a plausible bug): nothing is given back.
RefundForgotten(n) == n

Refunded(n) == n - 1

Dispatched(mode) ==
    /\ record' = Flagged
    /\ ledger' = [ledger EXCEPT !.charged = Charged(@),
                                !.midPlan = @ \/ mode = "midplan"]
    /\ at' = "inflight"

\* _maybe_run_midrun_adjudication_episode: once for each set of open petitions
\* this process has not seen.
MidRunAdjudication ==
    /\ at = "work" /\ BudgetLeft
    /\ OpenPetitions # {} /\ ~(OpenPetitions \subseteq memory.seen)
    /\ Dispatched("adjudication")
    /\ memory' = [memory EXCEPT !.mode = "adjudication", !.seen = @ \cup OpenPetitions]
    /\ UNCHANGED <<files, past>>

\* _maybe_run_mid_plan_review_episode: once per approach, recorded beforehand.
MidPlanReview ==
    /\ On("midplan") /\ at = "work" /\ BudgetLeft /\ ~ledger.midPlan
    /\ Dispatched("midplan")
    /\ memory' = [memory EXCEPT !.mode = "midplan"]
    /\ UNCHANGED <<files, past>>

PlanComplete ==
    /\ at = "work" /\ at' = "review"
    /\ UNCHANGED <<record, files, ledger, memory, past>>

(***************************************************************************)
(* One dispatch and the ladder around its reply.                           *)
(***************************************************************************)
\* The run ends with the approach unreviewed and nothing archived.
ReviewUnaffordable ==
    /\ at = "review" /\ ~BudgetLeft
    /\ at' = "tail"
    /\ UNCHANGED <<record, files, ledger, memory, past>>

ReviewDispatched ==
    /\ at = "review" /\ BudgetLeft
    /\ Dispatched("review")
    /\ memory' = [memory EXCEPT !.mode = "review"]
    /\ UNCHANGED <<files, past>>

\* An interrupted review is asked again and stays charged.
ReviewCut ==
    /\ at \in {"inflight", "replying"} /\ memory.mode = "review"
    /\ at' = "review"
    /\ memory' = Idle(memory)
    /\ past' = [past EXCEPT !.settled = OneMore(@)]
    /\ UNCHANGED <<record, files, ledger>>

\* Output truncated, or every reply of the ladder empty.
ReviewSaidNothing ==
    /\ at = "replying" /\ memory.mode = "review"
    /\ at' = "settle"
    /\ memory' = [memory EXCEPT !.mark = "silent", !.reply = NoReply]
    /\ UNCHANGED <<record, files, ledger, past>>

\* What a reviewer is asked to rule on; nothing holds it to that.
AskedRulings ==
    UNION {[S -> Given] : S \in SUBSET (IF On("unasked") THEN Obligations ELSE OpenPetitions)}

Replies ==
    {r \in [claim : Claims, sound : BOOLEAN,
            reasoned : BOOLEAN, rules : AskedRulings] :
        /\ r.claim = "unreadable" => ~r.sound
        /\ r.claim # "rejected" => r.reasoned}

\* How the ladder leaves `reply`: taken as it is, or given up and marked.  One
\* replaced by a re-asked reply that meets every check over the same file ends as
\* that reply would have.
MarkOf(reply, channel) ==
    CASE \/ Consistent(reply, channel)
         \/ MeetsSchema(reply) /\ ReportErrors(reply) -> "none"
      [] ~Readable(reply) -> "unrepaired"
      [] UnusableReply(reply, channel) -> "unusable"
      [] OTHER -> "none"

\* The findings file is the reviewer's to write while it runs; or it writes none
\* and leaves what lies there.
FindingsLeft ==
    {files.findings, InvalidFile, FileOf({})} \cup {FileOf({f}) : f \in Reportable}

FindingsWritten(file) ==
    /\ at = "inflight"
    /\ files' = [files EXCEPT !.findings = file]
    /\ at' = "replying"
    /\ UNCHANGED <<record, ledger, memory, past>>

Crossed(reply) ==
    \E f \in files.findings.list : f.clause \in Clauses /\ f.blocking
        /\ \E o \in About[f.clause] \cap DOMAIN reply.rules : reply.rules[o] = "confirmed"

ReviewReplies ==
    /\ at = "replying" /\ memory.mode = "review"
    /\ files' = [files EXCEPT !.findings = FindingsFile]
    /\ \E channel \in {Findings(FindingsFile)} : \E reply \in Replies :
         /\ On("crossed") \/ reply.claim # "verified" \/ ~Crossed(reply)
         /\ memory' = [memory EXCEPT !.reply = reply, !.mark = MarkOf(reply, channel)]
         /\ at' = IF MarkOf(reply, channel) = "none" THEN "adopt" ELSE "settle"
    /\ record' = Flagged
    /\ UNCHANGED <<ledger, past>>

\* A mid-run reply's verdict has no effect: only its rulings and, for the
\* mid-plan review, the findings count.  An adjudication is off-budget, cut or not.
EpisodeReplies(rules) ==
    /\ at = "replying" /\ memory.mode \in {"adjudication", "midplan"}
    /\ files' = [files EXCEPT !.findings = FindingsFile]
    /\ memory' = [memory EXCEPT !.reply = [NoReply EXCEPT !.rules = rules], !.mark = "none"]
    /\ ledger' = IF memory.mode = "midplan" THEN ledger
                 ELSE [ledger EXCEPT !.charged = Refunded(@)]
    /\ record' = Flagged
    /\ at' = "adopt"
    /\ UNCHANGED past

(***************************************************************************)
(* A reply without a usable verdict: fresh attempts, then a wait.          *)
(***************************************************************************)
\* Mutant (a plausible bug): a fresh attempt is not counted.
AttemptForgotten(n) == n

\* _judge_reply_with_retry
AttemptCounted(n) == n + 1

AskedAfresh ==
    /\ at = "settle" /\ memory.attempts < JudgeRetryMax
    /\ ledger' = [ledger EXCEPT !.charged = Charged(Refunded(@))]
    /\ record' = Flagged
    /\ at' = "inflight"
    /\ memory' = [memory EXCEPT !.attempts = AttemptCounted(@), !.mark = "none"]
    /\ UNCHANGED <<files, past>>

\* A contract fault is adopted, marked: its rulings count all the same.
FaultAdopted ==
    /\ at = "settle" /\ memory.attempts >= JudgeRetryMax
    /\ memory.mark \in {"unrepaired", "unusable"}
    /\ at' = "adopt"
    /\ UNCHANGED <<record, files, ledger, memory, past>>

\* _judge_fault_backoff: wait and ask again, off the budget, until the outage
\* budget is spent.
FaultBackoff ==
    IF memory.faults + 1 >= FaultMax
    THEN /\ at' = "tail"
         /\ memory' = [Idle(memory) EXCEPT !.faults = @ + 1]
         /\ past' = [past EXCEPT !.settled = OneMore(@)]
         /\ UNCHANGED ledger
    ELSE /\ at' = "review"
         /\ memory' = [Idle(memory) EXCEPT !.faults = @ + 1]
         /\ ledger' = [ledger EXCEPT !.charged = Refunded(@)]
         /\ UNCHANGED past

\* _park_judge_no_verdict; with no budget left it does not wait.
NoVerdictParked ==
    /\ at = "settle" /\ memory.attempts >= JudgeRetryMax /\ memory.mark = "silent"
    /\ IF BudgetLeft THEN FaultBackoff
       ELSE /\ at' = "tail"
            /\ memory' = Idle(memory)
            /\ past' = [past EXCEPT !.settled = OneMore(@)]
            /\ UNCHANGED ledger
    /\ UNCHANGED <<record, files>>

(***************************************************************************)
(* _review_verdict: the rulings, write by write, then the verdict.         *)
(***************************************************************************)
Rules == memory.reply.rules

\* The key a write is made under, created and stored when there is none.
KeyInUse == IF Auth.key # 0 THEN Auth.key ELSE record.keys + 1

\* Mutant (a plausible bug): the key is not kept.
KeyNotKept(store, key) == 0

KeyKept(store, key) == IF store THEN key ELSE 0

\* record_confirmed_adjudications; `reworded`: a refutation already on record
\* states another remedy.
RecordAdjudications(reworded) ==
    /\ at = "adopt"
    /\ reworded => \E o \in DOMAIN Rules \cap DOMAIN EntriesRead :
                      EntriesRead[o] = "refuted" /\ Rules[o] # "confirmed"
    /\ LET merged == Merged(EntriesRead, Rules)
           mac    == MacOf(KeyInUse, merged)
       IN  IF merged = EntriesRead /\ ~reworded
           THEN /\ record' = Flagged /\ at' = "remedies"
                /\ UNCHANGED <<memory, past>>
           ELSE /\ record' = [Flagged EXCEPT
                        !.doc = Record(merged, mac),
                        !.stored = IF Auth.key # 0 THEN @ ELSE KeyKept(record.store, KeyInUse),
                        !.keys = IF Auth.key # 0 THEN @ ELSE @ + 1]
                /\ memory' = [memory EXCEPT !.auth = [key |-> KeyInUse, last |-> mac]]
                /\ past' = [past EXCEPT
                        !.doc = record.doc,
                        !.confirmed = @ \cup Confirmed(Rules)]
                /\ at' = "witness"
    /\ UNCHANGED <<files, ledger>>

\* petition_adjudications_recorded
Witnessed ==
    /\ at = "witness"
    /\ record' = [record EXCEPT !.witness = memory.auth.last]
    /\ at' = "remedies"
    /\ UNCHANGED <<files, ledger, memory, past>>

\* Mutant (a plausible bug): a remedy is taken for a granted pass.
RemedyCountsAsGranted(granted) == granted + 1

\* _insert_refuted_remedy_tasks: a pass of kind "remedy" in the cure lineage.
RemedyCounts(granted) == granted

RemediesInserted ==
    /\ at = "remedies"
    /\ LET due == RemediesDue(files.filings, Rules, files.remedied)
       IN  files' = IF due = {} THEN files
                    ELSE [files EXCEPT !.remedied = @ \cup due,
                                       !.granted = RemedyCounts(@)]
    /\ at' = "writeback"
    /\ UNCHANGED <<record, ledger, memory, past>>

AnnotatedInFile ==
    /\ at = "writeback"
    /\ files' = [files EXCEPT !.filings = WrittenBack(@, Rules)]
    /\ at' = "verdict"
    /\ UNCHANGED <<record, ledger, memory, past>>

Verified == VerdictOf(memory.reply, Findings(FindingsFile))

\* _record_approach_verdict
VerdictLabel ==
    CASE Verified -> "verified"
      [] ~Verified /\ memory.mark = "unrepaired" -> "unreviewed"
      [] OTHER -> "rejected"

VerdictRecorded ==
    /\ record' = Flagged
    /\ ledger' = [ledger EXCEPT !.verdict = VerdictLabel]

Judged ==
    /\ memory' = [Idle(memory) EXCEPT !.faults = 0]
    /\ past' = [past EXCEPT !.settled = OneMore(@), !.audited = @ \/ ~ConfirmationReview]

AtVerdict == at = "verdict" /\ memory.mode = "review"
Usable == memory.mark = "none"

\* A verdict reached over a spent budget waits for a top-up.
ReviewVerified ==
    /\ AtVerdict /\ Usable /\ Verified
    /\ files' = [files EXCEPT !.findings = FindingsFile]
    /\ VerdictRecorded /\ Judged
    /\ at' = IF BudgetLeft THEN "verified" ELSE "tail"

RejectedWithBudget ==
    /\ AtVerdict /\ Usable /\ ~Verified /\ BudgetLeft
    /\ VerdictRecorded /\ Judged

CureAdmitted == CurableRejection(Findings(FindingsFile)) /\ files.granted < CureMax

ReviewCured ==
    /\ RejectedWithBudget /\ CureAdmitted
    /\ files' = [files EXCEPT !.findings = FindingsFile, !.granted = @ + 1]
    /\ at' = "work"

\* What an operator's answer, or the rejection itself, makes of it: the end or a
\* new approach, whose plan has neither cures nor flags.
ReviewRejected ==
    /\ RejectedWithBudget /\ ~CureAdmitted
    /\ files' = [files EXCEPT !.findings = FindingsFile]
    /\ at' = "tail"

ReviewReplanned ==
    /\ AtVerdict /\ Usable /\ ~Verified /\ BudgetLeft /\ ~CureAdmitted
    /\ ledger.approach < MaxApproaches
    /\ record' = Flagged
    /\ ledger' = [ledger EXCEPT !.approach = @ + 1, !.midPlan = FALSE, !.verdict = "none"]
    /\ files' = [files EXCEPT !.findings = FindingsFile, !.edited = FALSE,
                              !.remedied = {}, !.granted = 0]
    /\ memory' = [Idle(memory) EXCEPT !.faults = 0]
    /\ past' = [past EXCEPT !.settled = OneMore(@), !.audited = FALSE]
    /\ at' = "work"

RejectedOverBudget ==
    /\ AtVerdict /\ Usable /\ ~Verified /\ ~BudgetLeft
    /\ files' = [files EXCEPT !.findings = FindingsFile]
    /\ VerdictRecorded /\ Judged
    /\ at' = "tail"

\* The assertion of _review_verdict: a verdict from a reply given up as unusable
\* ends the run as an engine error.
AssertionFails ==
    /\ AtVerdict /\ memory.mark = "unusable" /\ Verified
    /\ record' = Flagged
    /\ files' = [files EXCEPT !.findings = FindingsFile]
    /\ at' = "failed"
    /\ memory' = Idle(memory)
    /\ past' = [past EXCEPT !.settled = OneMore(@)]
    /\ UNCHANGED ledger

\* _review_contract_fault
ContractFault ==
    /\ AtVerdict /\ ~Usable /\ ~(memory.mark = "unusable" /\ Verified)
    /\ record' = Flagged
    /\ files' = [files EXCEPT !.findings = FindingsFile]
    /\ FaultBackoff

\* A cure pass of the mid-plan review is a granted one.
EpisodeEnds ==
    /\ at = "verdict" /\ memory.mode \in {"adjudication", "midplan"}
    /\ LET list == Findings(FindingsFile).list
           cured == /\ memory.mode = "midplan" /\ Blocking(list) # {}
                    /\ CurableRejection(ChannelOver(FindingsFile, ConfirmationReview))
                    /\ files.granted < CureMax
       IN  files' = [files EXCEPT !.findings = FindingsFile,
                                  !.granted = IF cured THEN @ + 1 ELSE @]
    /\ record' = Flagged
    /\ past' = [past EXCEPT !.settled = IF memory.mode = "midplan" THEN OneMore(@) ELSE @]
    /\ memory' = Idle(memory)
    /\ at' = "work"
    /\ UNCHANGED ledger

(***************************************************************************)
(* A kill, and somebody else's hand on the record.                         *)
(***************************************************************************)
\* An iteration is charged and nothing has come of it yet.
Outstanding ==
    \/ at \in {"inflight", "replying"}
    \/ at \in {"settle"} \cup Adopting /\ memory.mode # "adjudication"

Kill ==
    /\ at \notin Ends /\ past.kills < KillMax
    /\ at = "witness" => On("torn")
    /\ memory' = FreshMemory
    /\ at' = "work"
    /\ past' = [past EXCEPT !.kills = @ + 1, !.torn = @ \/ at = "witness",
                            !.settled = IF Outstanding THEN OneMore(@) ELSE @]
    /\ UNCHANGED <<record, files, ledger>>

ForeignKey == -1

\* The file is lost, garbled or put back as it was; a CONFIRMED entry is written
\* into it; another run's is put in its place.
Disturbances ==
    {NoRecord, Garbled, past.doc}
    \cup {Record(Merged(record.doc.entries, [p \in {o} |-> "confirmed"]), record.doc.mac) :
              o \in Obligations}
    \cup {Record([p \in {o} |-> "confirmed"], MacOf(ForeignKey, [p \in {o} |-> "confirmed"])) :
              o \in Obligations}

RecordDisturbed(doc) ==
    /\ On("disturbed") /\ ~past.disturbed
    /\ at \in {"work", "inflight", "verdict"}
    /\ doc # record.doc
    /\ record' = [record EXCEPT !.doc = doc]
    /\ past' = [past EXCEPT !.disturbed = TRUE]
    /\ UNCHANGED <<files, ledger, at, memory>>

EngineStep ==
    \/ ReviewUnaffordable \/ ReviewDispatched \/ ReviewCut \/ ReviewSaidNothing
    \/ \E file \in FindingsLeft : FindingsWritten(file)
    \/ ReviewReplies
    \/ \E rules \in AskedRulings : EpisodeReplies(rules)
    \/ AskedAfresh \/ FaultAdopted \/ NoVerdictParked
    \/ \E reworded \in BOOLEAN : RecordAdjudications(reworded)
    \/ Witnessed \/ RemediesInserted \/ AnnotatedInFile
    \/ ReviewVerified \/ ReviewCured \/ ReviewRejected \/ ReviewReplanned
    \/ RejectedOverBudget \/ AssertionFails \/ ContractFault \/ EpisodeEnds

Next ==
    \/ EngineStep
    \/ \E o \in Obligations : PetitionFiled(o) \/ PetitionWrittenInTree(o)
    \/ CriteriaRewritten \/ MidRunAdjudication \/ MidPlanReview \/ PlanComplete
    \/ \E doc \in Disturbances : RecordDisturbed(doc)
    \/ Kill

Spec == Init /\ [][Next]_vars /\ WF_vars(EngineStep)
=============================================================================
