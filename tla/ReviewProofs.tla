---------------------------- MODULE ReviewProofs ----------------------------
(***************************************************************************)
(* The review's promises, for every value of the constants: any            *)
(* obligations, clauses, findings, rulings, budgets and features.          *)
(***************************************************************************)
EXTENDS ReviewProperties, TLAPS

\* Every file and the memory have the fields the actions assume.
Shapes ==
    /\ record = [doc |-> record.doc, stored |-> record.stored, keys |-> record.keys,
                 witness |-> record.witness, flagged |-> record.flagged,
                 store |-> record.store]
    /\ files = [filings |-> files.filings, findings |-> files.findings,
                edited |-> files.edited, remedied |-> files.remedied,
                granted |-> files.granted]
    /\ ledger = [approach |-> ledger.approach, charged |-> ledger.charged,
                 midPlan |-> ledger.midPlan, verdict |-> ledger.verdict]
    /\ memory = [auth |-> memory.auth, seen |-> memory.seen,
                 attempts |-> memory.attempts, faults |-> memory.faults,
                 mode |-> memory.mode, mark |-> memory.mark, reply |-> memory.reply]
    /\ past = [confirmed |-> past.confirmed, doc |-> past.doc,
               disturbed |-> past.disturbed, torn |-> past.torn,
               audited |-> past.audited, settled |-> past.settled, kills |-> past.kills]

LEMMA InitShapes == ASSUME Init PROVE Shapes
  <1>1. PICK s \in KeyStores :
            record = [doc |-> NoRecord, stored |-> 0, keys |-> 0, witness |-> <<>>,
                      flagged |-> FALSE, store |-> s]
    BY DEF Init
  <1>. QED  BY <1>1 DEF Init, Shapes, FreshMemory

\* What the steps write field by field keeps its fields.
LEMMA ShapesKept == ASSUME Shapes, [Next]_vars PROVE Shapes'
  <1>. USE DEF Shapes, Flagged
  <1>1. CASE MidRunAdjudication \/ MidPlanReview \/ ReviewDispatched
    BY <1>1 DEF MidRunAdjudication, MidPlanReview, ReviewDispatched, Dispatched
  <1>2. CASE ReviewCut \/ ReviewSaidNothing \/ Kill
    BY <1>2 DEF ReviewCut, ReviewSaidNothing, Kill, Idle, FreshMemory
  <1>3. CASE ReviewReplies
    BY <1>3 DEF ReviewReplies
  <1>4. CASE \E rules \in AskedRulings : EpisodeReplies(rules)
    BY <1>4 DEF EpisodeReplies
  <1>5. CASE AskedAfresh \/ FaultAdopted \/ NoVerdictParked
    BY <1>5 DEF AskedAfresh, FaultAdopted, NoVerdictParked, FaultBackoff, Idle
  <1>6. CASE \E reworded \in BOOLEAN : RecordAdjudications(reworded)
    BY <1>6 DEF RecordAdjudications
  <1>7. CASE Witnessed \/ RemediesInserted \/ AnnotatedInFile
    BY <1>7 DEF Witnessed, RemediesInserted, AnnotatedInFile
  <1>8. CASE ReviewVerified \/ ReviewCured \/ ReviewRejected \/ RejectedOverBudget
    BY <1>8 DEF ReviewVerified, ReviewCured, ReviewRejected, RejectedOverBudget,
                RejectedWithBudget, VerdictRecorded, Judged, Idle
  <1>9. CASE ReviewReplanned
    BY <1>9 DEF ReviewReplanned, Idle
  <1>10. CASE AssertionFails \/ ContractFault \/ EpisodeEnds
    BY <1>10 DEF AssertionFails, ContractFault, EpisodeEnds, FaultBackoff, Idle
  <1>11. CASE \/ \E o \in Obligations : PetitionFiled(o) \/ PetitionWrittenInTree(o)
              \/ CriteriaRewritten \/ PlanComplete \/ ReviewUnaffordable
              \/ \E file \in FindingsLeft : FindingsWritten(file)
    BY <1>11 DEF PetitionFiled, PetitionWrittenInTree, CriteriaRewritten, PlanComplete,
                 ReviewUnaffordable, FindingsWritten
  <1>12. CASE \E doc \in Disturbances : RecordDisturbed(doc)
    BY <1>12 DEF RecordDisturbed
  <1>13. CASE UNCHANGED vars
    BY <1>13 DEF vars
  <1>. QED  BY <1>1, <1>2, <1>3, <1>4, <1>5, <1>6, <1>7, <1>8, <1>9, <1>10, <1>11,
               <1>12, <1>13 DEF Next, EngineStep

(***************************************************************************)
(* The charges.                                                            *)
(***************************************************************************)
\* A judgement is settled only where one is outstanding, and never more of them
\* than there are iterations.
ChargeInv ==
    /\ at = "settle" => memory.mode = "review"
    /\ ledger.charged \in Int /\ past.settled \in Int /\ ledger.charged <= Iterations
    /\ ChargedForJudgements

LEMMA ChargedAtDispatch ==
    ASSUME Shapes, ChargeInv, BudgetLeft, at \in {"work", "review"}, UNCHANGED past,
           NEW mode, Dispatched(mode)
    PROVE  ChargeInv'
  <1>1. ledger'.charged = ledger.charged + 1 /\ at' = "inflight"
    BY DEF Dispatched, Charged, Shapes
  <1>2. ~Outstanding /\ Outstanding'
    BY <1>1 DEF Outstanding, Adopting
  <1>. QED  BY <1>1, <1>2, ReviewAssumption
            DEF ReviewAssumption, BudgetLeft, ChargeInv, ChargedForJudgements

LEMMA SettledWhereItEnds ==
    ASSUME ChargeInv, Outstanding, ~Outstanding', at' # "settle",
           past'.settled = OneMore(past.settled), ledger'.charged = ledger.charged
    PROVE  ChargeInv'
  BY ReviewAssumption DEF ReviewAssumption, ChargeInv, ChargedForJudgements, OneMore

LEMMA ChargeKept == ASSUME Shapes, ChargeInv, [Next]_vars PROVE ChargeInv'
  <1>. Iterations \in Nat
    BY ReviewAssumption DEF ReviewAssumption
  <1>. USE DEF Shapes, ChargeInv, ChargedForJudgements, Outstanding, Adopting
  <1>1. CASE MidRunAdjudication \/ MidPlanReview \/ ReviewDispatched
    BY <1>1, ChargedAtDispatch DEF MidRunAdjudication, MidPlanReview, ReviewDispatched
  <1>2. CASE ReviewCut
    BY <1>2 DEF ReviewCut, Idle, OneMore
  <1>3. CASE ReviewSaidNothing \/ (\E file \in FindingsLeft : FindingsWritten(file))
    BY <1>3 DEF ReviewSaidNothing, FindingsWritten
  <1>4. CASE ReviewReplies
    BY <1>4 DEF ReviewReplies
  <1>5. CASE \E rules \in AskedRulings : EpisodeReplies(rules)
    BY <1>5 DEF EpisodeReplies, Refunded
  <1>6. CASE AskedAfresh \/ FaultAdopted
    BY <1>6 DEF AskedAfresh, FaultAdopted, Charged, Refunded
  <1>7. CASE NoVerdictParked
    BY <1>7 DEF NoVerdictParked, FaultBackoff, Idle, OneMore, Refunded
  <1>8. CASE \E reworded \in BOOLEAN : RecordAdjudications(reworded)
    BY <1>8 DEF RecordAdjudications
  <1>9. CASE Witnessed \/ RemediesInserted \/ AnnotatedInFile
    BY <1>9 DEF Witnessed, RemediesInserted, AnnotatedInFile
  <1>10. CASE ReviewVerified \/ ReviewCured \/ ReviewRejected \/ RejectedOverBudget
    <2>1. /\ at = "verdict" /\ memory.mode = "review" /\ VerdictRecorded /\ Judged
          /\ at' \in {"verified", "tail", "work"}
      BY <1>10 DEF ReviewVerified, ReviewCured, ReviewRejected, RejectedOverBudget,
                   RejectedWithBudget, AtVerdict
    <2>2. ledger'.charged = ledger.charged /\ past'.settled = OneMore(past.settled)
      BY <2>1 DEF VerdictRecorded, Judged
    <2>. QED  BY <2>1, <2>2, SettledWhereItEnds
  <1>11. CASE ReviewReplanned
    BY <1>11 DEF ReviewReplanned, Idle, OneMore, AtVerdict
  <1>12. CASE AssertionFails
    BY <1>12 DEF AssertionFails, Idle, OneMore, AtVerdict
  <1>13. CASE ContractFault
    BY <1>13 DEF ContractFault, FaultBackoff, Idle, OneMore, Refunded, AtVerdict
  <1>14. CASE EpisodeEnds
    BY <1>14 DEF EpisodeEnds, Idle, OneMore
  <1>15. CASE Kill
    BY <1>15 DEF Kill, FreshMemory, OneMore, Ends
  <1>16. CASE \/ \E o \in Obligations : PetitionFiled(o) \/ PetitionWrittenInTree(o)
              \/ CriteriaRewritten \/ PlanComplete \/ ReviewUnaffordable
    BY <1>16 DEF PetitionFiled, PetitionWrittenInTree, CriteriaRewritten, PlanComplete,
                 ReviewUnaffordable
  <1>17. CASE \E doc \in Disturbances : RecordDisturbed(doc)
    BY <1>17 DEF RecordDisturbed
  <1>18. CASE UNCHANGED vars
    BY <1>18 DEF vars
  <1>. QED  BY <1>1, <1>2, <1>3, <1>4, <1>5, <1>6, <1>7, <1>8, <1>9, <1>10, <1>11,
               <1>12, <1>13, <1>14, <1>15, <1>16, <1>17, <1>18 DEF Next, EngineStep

\* The budget pays once for every judgement that stands and for no other
\* iteration of a judge (_judge_reply_with_retry, _judge_fault_backoff,
\* _maybe_run_midrun_adjudication_episode).
THEOREM EachJudgementOnce == Spec => []ChargedForJudgements
  <1>1. Init => Shapes /\ ChargeInv
    BY InitShapes, ReviewAssumption
    DEF ReviewAssumption, Init, ChargeInv, ChargedForJudgements, Outstanding, Adopting
  <1>2. Shapes /\ ChargeInv /\ [Next]_vars => Shapes' /\ ChargeInv'
    BY ShapesKept, ChargeKept
  <1>3. ChargeInv => ChargedForJudgements
    BY DEF ChargeInv
  <1>. QED  BY <1>1, <1>2, <1>3, PTL DEF Spec

(***************************************************************************)
(* The audit.  A pass that was granted stands for a review that was not    *)
(* confined; only the mid-plan review grants one without having been one.  *)
(***************************************************************************)
AuditInv ==
    /\ files.granted \in Nat
    /\ memory.mode # "midplan"
    /\ files.granted > 0 => past.audited
    /\ AuditedInFull

\* A step that grants no pass and reaches no verdict.
LEMMA AuditUntouched ==
    ASSUME AuditInv, memory'.mode # "midplan", files'.granted = files.granted,
           past'.audited = past.audited, at' # "verified"
    PROVE  AuditInv'
  BY DEF AuditInv, AuditedInFull

LEMMA AuditKept ==
    ASSUME "midplan" \notin Features, Shapes, AuditInv, [Next]_vars
    PROVE  AuditInv'
  <1>1. CASE MidRunAdjudication \/ MidPlanReview \/ ReviewDispatched
    <2>1. UNCHANGED <<files, past>> /\ at' = "inflight"
      BY <1>1 DEF MidRunAdjudication, MidPlanReview, ReviewDispatched, Dispatched
    <2>2. memory'.mode \in {"adjudication", "review"}
      BY <1>1 DEF MidRunAdjudication, MidPlanReview, ReviewDispatched, On, Shapes
    <2>. QED  BY <2>1, <2>2, AuditUntouched
  <1>2. CASE ReviewCut \/ ReviewSaidNothing \/ Kill
    <2>1. /\ UNCHANGED files /\ past'.audited = past.audited
          /\ at' \in {"review", "settle", "work"}
      BY <1>2 DEF ReviewCut, ReviewSaidNothing, Kill, Shapes
    <2>2. memory'.mode # "midplan"
      <3>1. CASE ReviewCut
        BY <3>1 DEF ReviewCut, Idle, Shapes
      <3>2. CASE ReviewSaidNothing
        BY <3>2 DEF ReviewSaidNothing, Shapes
      <3>3. CASE Kill
        BY <3>3 DEF Kill, FreshMemory
      <3>. QED  BY <1>2, <3>1, <3>2, <3>3
    <2>. QED  BY <2>1, <2>2, AuditUntouched
  <1>3. CASE ReviewReplies
    BY <1>3, AuditUntouched DEF ReviewReplies, Shapes, AuditInv
  <1>4. CASE \E rules \in AskedRulings : EpisodeReplies(rules)
    BY <1>4, AuditUntouched DEF EpisodeReplies, Shapes, AuditInv
  <1>5. CASE AskedAfresh \/ FaultAdopted \/ NoVerdictParked
    BY <1>5, AuditUntouched
    DEF AskedAfresh, FaultAdopted, NoVerdictParked, FaultBackoff, Idle, Shapes, AuditInv
  <1>6. CASE \E reworded \in BOOLEAN : RecordAdjudications(reworded)
    BY <1>6, AuditUntouched DEF RecordAdjudications, Shapes, AuditInv
  <1>7. CASE Witnessed \/ RemediesInserted \/ AnnotatedInFile
    BY <1>7, AuditUntouched
    DEF Witnessed, RemediesInserted, RemedyCounts, AnnotatedInFile, Shapes, AuditInv
  <1>8. CASE ReviewVerified \/ ReviewCured \/ ReviewRejected \/ RejectedOverBudget
    <2>1. Judged /\ files'.granted \in {files.granted, files.granted + 1}
      BY <1>8 DEF ReviewVerified, ReviewCured, ReviewRejected, RejectedOverBudget,
                  RejectedWithBudget, Shapes
    <2>2. past'.audited = (past.audited \/ ~ConfirmationReview) /\ memory'.mode = "none"
      BY <2>1 DEF Judged, Idle, Shapes
    <2>3. past'.audited
      BY <2>2 DEF ConfirmationReview, AuditInv
    <2>4. files'.granted \in Nat
      BY <2>1 DEF AuditInv
    <2>. QED  BY <2>2, <2>3, <2>4 DEF AuditInv, AuditedInFull
  <1>9. CASE ReviewReplanned
    BY <1>9 DEF ReviewReplanned, Idle, Shapes, AuditInv, AuditedInFull
  <1>10. CASE AssertionFails \/ ContractFault
    BY <1>10, AuditUntouched
    DEF AssertionFails, ContractFault, FaultBackoff, Idle, Shapes, AuditInv
  <1>11. CASE EpisodeEnds
    BY <1>11, AuditUntouched DEF EpisodeEnds, Idle, Shapes, AuditInv
  <1>12. CASE \/ \E o \in Obligations : PetitionFiled(o) \/ PetitionWrittenInTree(o)
              \/ CriteriaRewritten \/ PlanComplete \/ ReviewUnaffordable
              \/ \E file \in FindingsLeft : FindingsWritten(file)
    BY <1>12, AuditUntouched
    DEF PetitionFiled, PetitionWrittenInTree, CriteriaRewritten, PlanComplete,
        ReviewUnaffordable, FindingsWritten, Shapes, AuditInv
  <1>13. CASE \E doc \in Disturbances : RecordDisturbed(doc)
    BY <1>13, AuditUntouched DEF RecordDisturbed, Shapes, AuditInv
  <1>14. CASE UNCHANGED vars
    BY <1>14 DEF vars, AuditInv, AuditedInFull
  <1>. QED  BY <1>1, <1>2, <1>3, <1>4, <1>5, <1>6, <1>7, <1>8, <1>9, <1>10, <1>11,
               <1>12, <1>13, <1>14 DEF Next, EngineStep

\* Without a mid-plan review a run is only verified after a review of its last
\* approach that looked at everything (_latest_granted_cure_pass).
THEOREM VerifiedIsAudited ==
    ASSUME "midplan" \notin Features
    PROVE  Spec => []AuditedInFull
  <1>1. Init => Shapes /\ AuditInv
    BY InitShapes DEF Init, AuditInv, AuditedInFull, FreshMemory
  <1>2. Shapes /\ AuditInv /\ [Next]_vars => Shapes' /\ AuditInv'
    BY ShapesKept, AuditKept
  <1>3. AuditInv => AuditedInFull
    BY DEF AuditInv
  <1>. QED  BY <1>1, <1>2, <1>3, PTL DEF Spec

(***************************************************************************)
(* Who speaks in the record.                                               *)
(***************************************************************************)
\* A MAC is over what review confirmed, or made by somebody without the key.
Spoken(mac) ==
    mac = <<>> \/ mac[1] = ForeignKey \/ Confirmed(mac[2]) \subseteq past.confirmed

DocShape(doc) ==
    /\ doc = [is |-> doc.is, entries |-> doc.entries, mac |-> doc.mac]
    /\ doc.is \in {"none", "garbled", "record"}
    /\ doc.is = "none" => doc.entries = NoRulings

Keys ==
    /\ memory.auth = [key |-> memory.auth.key, last |-> memory.auth.last]
    /\ memory.auth.key \in Nat /\ record.stored \in Nat /\ record.keys \in Nat

\* Whoever wrote the document, what the engine reads in it review has confirmed.
SpeakerInv ==
    /\ Keys
    /\ DocShape(record.doc) /\ DocShape(past.doc)
    /\ Spoken(record.doc.mac) /\ Spoken(past.doc.mac)

LEMMA ConfirmedOfNone == Confirmed(NoRulings) = {}
  BY DEF Confirmed, NoRulings

LEMMA ConfirmedOfMerged ==
    ASSUME NEW e, NEW r
    PROVE  Confirmed(Merged(e, r)) = Confirmed(e) \cup Confirmed(r)
  <1>. DEFINE m == Merged(e, r)
  <1>1. DOMAIN m = DOMAIN e \cup DOMAIN r
    BY DEF Merged
  <1>2. ASSUME NEW o \in DOMAIN m
        PROVE  m[o] = "confirmed" <=> o \in Confirmed(e) \cup Confirmed(r)
    BY <1>2, <1>1 DEF Merged, Confirmed
  <1>. QED  BY <1>1, <1>2 DEF Confirmed

LEMMA MacIsPair ==
    ASSUME NEW k, NEW e
    PROVE  MacOf(k, e) # <<>> /\ MacOf(k, e)[1] = k /\ MacOf(k, e)[2] = e
  BY DEF MacOf

LEMMA AuthorityIsKeyed ==
    ASSUME Keys
    PROVE  Auth.key \in Nat /\ Auth = [key |-> Auth.key, last |-> Auth.last]
  BY DEF Keys, Auth, Authority, NoAuthority

LEMMA OnlyTheSpokenIsRead ==
    ASSUME SpeakerInv
    PROVE  Confirmed(EntriesRead) \subseteq past.confirmed
  <1>1. CASE Tampered \/ Auth.key = 0
    BY <1>1, ConfirmedOfNone DEF EntriesRead, Entries
  <1>2. CASE ~Tampered /\ Auth.key # 0
    <2>1. EntriesRead = record.doc.entries
      BY <1>2 DEF EntriesRead, Entries
    <2>2. CASE record.doc.is = "none"
      BY <2>1, <2>2, ConfirmedOfNone DEF SpeakerInv, DocShape
    <2>3. CASE record.doc.is = "record"
      <3>1. record.doc.mac = MacOf(Auth.key, record.doc.entries)
        BY <1>2, <2>3 DEF Tampered, FoundTampered
      <3>2. Auth.key # ForeignKey
        BY AuthorityIsKeyed DEF SpeakerInv, ForeignKey
      <3>. QED  BY <2>1, <3>1, <3>2, MacIsPair DEF SpeakerInv, Spoken
    <2>4. record.doc.is # "garbled"
      BY <1>2 DEF Tampered, FoundTampered
    <2>. QED  BY <2>2, <2>3, <2>4 DEF SpeakerInv, DocShape
  <1>. QED  BY <1>1, <1>2

\* A step that leaves the document, and what was confirmed, alone.
LEMMA SpeakerUntouched ==
    ASSUME SpeakerInv, Keys', record'.doc = record.doc, past'.doc = past.doc,
           past'.confirmed = past.confirmed
    PROVE  SpeakerInv'
  BY DEF SpeakerInv, Spoken, DocShape

LEMMA SpeakerKept == ASSUME Shapes, SpeakerInv, [Next]_vars PROVE SpeakerInv'
  <1>1. CASE MidRunAdjudication \/ MidPlanReview \/ ReviewDispatched
    BY <1>1, SpeakerUntouched
    DEF MidRunAdjudication, MidPlanReview, ReviewDispatched, Dispatched, Flagged,
        Shapes, Keys, SpeakerInv
  <1>2. CASE ReviewCut \/ ReviewSaidNothing
    BY <1>2, SpeakerUntouched
    DEF ReviewCut, ReviewSaidNothing, Idle, Shapes, Keys, SpeakerInv
  <1>14. CASE Kill
    <2>1. memory'.auth = NoAuthority /\ UNCHANGED record
      BY <1>14 DEF Kill, FreshMemory
    <2>2. past'.doc = past.doc /\ past'.confirmed = past.confirmed
      BY <1>14 DEF Kill, Shapes
    <2>3. Keys'
      BY <2>1 DEF NoAuthority, Keys, SpeakerInv
    <2>. QED  BY <2>1, <2>2, <2>3, SpeakerUntouched
  <1>3. CASE ReviewReplies
    BY <1>3, SpeakerUntouched DEF ReviewReplies, Flagged, Shapes, Keys, SpeakerInv
  <1>4. CASE \E rules \in AskedRulings : EpisodeReplies(rules)
    BY <1>4, SpeakerUntouched DEF EpisodeReplies, Flagged, Shapes, Keys, SpeakerInv
  <1>5. CASE AskedAfresh \/ FaultAdopted \/ NoVerdictParked
    BY <1>5, SpeakerUntouched
    DEF AskedAfresh, FaultAdopted, NoVerdictParked, FaultBackoff, Idle, Flagged, Shapes,
        Keys, SpeakerInv
  <1>6. ASSUME NEW reworded \in BOOLEAN, RecordAdjudications(reworded)
        PROVE  SpeakerInv'
    <2>. DEFINE merged == Merged(EntriesRead, Rules)
                mac == MacOf(KeyInUse, merged)
    <2>1. CASE /\ record' = Flagged /\ UNCHANGED <<memory, past>>
      BY <2>1, SpeakerUntouched DEF Flagged, Shapes, Keys, SpeakerInv
    <2>2. CASE /\ record'.doc = Record(merged, mac)
               /\ record'.stored = IF Auth.key # 0 THEN record.stored
                                   ELSE KeyKept(record.store, KeyInUse)
               /\ record'.keys = IF Auth.key # 0 THEN record.keys ELSE record.keys + 1
               /\ memory'.auth = [key |-> KeyInUse, last |-> mac]
               /\ past'.doc = record.doc
               /\ past'.confirmed = past.confirmed \cup Confirmed(Rules)
      <3>1. KeyInUse \in Nat
        BY AuthorityIsKeyed DEF KeyInUse, SpeakerInv, Keys
      <3>2. Keys'
        BY <2>2, <3>1 DEF Keys, SpeakerInv, KeyKept
      <3>3. Confirmed(merged) \subseteq past'.confirmed
        BY <2>2, ConfirmedOfMerged, OnlyTheSpokenIsRead
      <3>4. Spoken(record.doc.mac)'
        BY <2>2, <3>3, MacIsPair DEF Spoken, Record
      <3>5. Spoken(past.doc.mac)'
        BY <2>2 DEF Spoken, SpeakerInv
      <3>6. DocShape(record.doc)' /\ DocShape(past.doc)'
        BY <2>2 DEF DocShape, Record, SpeakerInv
      <3>. QED  BY <3>2, <3>4, <3>5, <3>6 DEF SpeakerInv
    <2>. QED  BY <1>6, <2>1, <2>2 DEF RecordAdjudications, Flagged, Shapes
  <1>7. CASE Witnessed \/ RemediesInserted \/ AnnotatedInFile
    BY <1>7, SpeakerUntouched
    DEF Witnessed, RemediesInserted, AnnotatedInFile, Shapes, Keys, SpeakerInv
  <1>8. CASE ReviewVerified \/ ReviewCured \/ ReviewRejected \/ RejectedOverBudget
    BY <1>8, SpeakerUntouched
    DEF ReviewVerified, ReviewCured, ReviewRejected, RejectedOverBudget, RejectedWithBudget,
        VerdictRecorded, Judged, Idle, Flagged, Shapes, Keys, SpeakerInv
  <1>9. CASE ReviewReplanned
    BY <1>9, SpeakerUntouched DEF ReviewReplanned, Idle, Flagged, Shapes, Keys, SpeakerInv
  <1>10. CASE AssertionFails \/ ContractFault \/ EpisodeEnds
    BY <1>10, SpeakerUntouched
    DEF AssertionFails, ContractFault, EpisodeEnds, FaultBackoff, Idle, Flagged, Shapes,
        Keys, SpeakerInv
  <1>11. CASE \/ \E o \in Obligations : PetitionFiled(o) \/ PetitionWrittenInTree(o)
              \/ CriteriaRewritten \/ PlanComplete \/ ReviewUnaffordable
              \/ \E file \in FindingsLeft : FindingsWritten(file)
    BY <1>11, SpeakerUntouched
    DEF PetitionFiled, PetitionWrittenInTree, CriteriaRewritten, PlanComplete,
        ReviewUnaffordable, FindingsWritten, Keys, SpeakerInv
  <1>12. ASSUME NEW doc \in Disturbances, RecordDisturbed(doc) PROVE SpeakerInv'
    <2>1. /\ record'.doc = doc /\ record'.stored = record.stored
          /\ record'.keys = record.keys /\ past'.doc = past.doc
          /\ past'.confirmed = past.confirmed /\ memory' = memory
      BY <1>12 DEF RecordDisturbed, Shapes
    <2>2. DocShape(doc) /\ Spoken(doc.mac)
      <3>1. CASE doc \in {NoRecord, Garbled}
        BY <3>1 DEF NoRecord, Garbled, DocShape, Spoken
      <3>2. CASE doc = past.doc
        BY <3>2 DEF SpeakerInv
      <3>3. ASSUME NEW o \in Obligations,
                   doc = Record(Merged(record.doc.entries, [p \in {o} |-> "confirmed"]),
                                record.doc.mac)
            PROVE  DocShape(doc) /\ Spoken(doc.mac)
        BY <3>3 DEF SpeakerInv, Record, DocShape
      <3>4. ASSUME NEW o \in Obligations,
                   doc = Record([p \in {o} |-> "confirmed"],
                                MacOf(ForeignKey, [p \in {o} |-> "confirmed"]))
            PROVE  DocShape(doc) /\ Spoken(doc.mac)
        BY <3>4, MacIsPair DEF Record, DocShape, Spoken
      <3>. QED  BY <3>1, <3>2, <3>3, <3>4 DEF Disturbances
    <2>3. Keys'
      BY <2>1 DEF SpeakerInv, Keys
    <2>. QED  BY <2>1, <2>2, <2>3 DEF SpeakerInv, Spoken
  <1>13. CASE UNCHANGED vars
    BY <1>13, SpeakerUntouched DEF vars, Keys, SpeakerInv
  <1>. QED  BY <1>1, <1>2, <1>3, <1>4, <1>5, <1>6, <1>7, <1>8, <1>9, <1>10, <1>11,
               <1>12, <1>13, <1>14 DEF Next, EngineStep

LEMMA InitSpeaker == ASSUME Init PROVE SpeakerInv
  <1>1. /\ record.doc = NoRecord /\ record.stored = 0 /\ record.keys = 0
        /\ memory.auth = NoAuthority /\ past.doc = NoRecord
    BY DEF Init, FreshMemory
  <1>. QED  BY <1>1 DEF SpeakerInv, Keys, DocShape, Spoken, NoRecord, NoAuthority

(***************************************************************************)
(* What a verdict exempts.                                                 *)
(***************************************************************************)
FileShape ==
    /\ files.findings = [is |-> files.findings.is, list |-> files.findings.list]
    /\ files.findings.is = "absent" => files.findings.list = {}

LEMMA FileShapeKept == ASSUME FileShape, Shapes, [Next]_vars PROVE FileShape'
  <1>1. files'.findings \in {files.findings, FindingsFile} \cup FindingsLeft
    <2>1. CASE \/ MidRunAdjudication \/ MidPlanReview \/ ReviewDispatched \/ ReviewCut
               \/ ReviewSaidNothing \/ Kill \/ PlanComplete \/ ReviewUnaffordable
               \/ AskedAfresh \/ FaultAdopted \/ NoVerdictParked \/ Witnessed
               \/ (\E reworded \in BOOLEAN : RecordAdjudications(reworded))
               \/ (\E doc \in Disturbances : RecordDisturbed(doc)) \/ UNCHANGED vars
      BY <2>1 DEF MidRunAdjudication, MidPlanReview, ReviewDispatched, ReviewCut,
                  ReviewSaidNothing, Kill, PlanComplete, ReviewUnaffordable, AskedAfresh,
                  FaultAdopted, NoVerdictParked, Witnessed, RecordAdjudications,
                  RecordDisturbed, vars
    <2>2. CASE \/ CriteriaRewritten \/ RemediesInserted \/ AnnotatedInFile
               \/ (\E o \in Obligations : PetitionFiled(o) \/ PetitionWrittenInTree(o))
      BY <2>2 DEF CriteriaRewritten, RemediesInserted, AnnotatedInFile, PetitionFiled,
                  PetitionWrittenInTree, Shapes
    <2>3. CASE \/ (\E file \in FindingsLeft : FindingsWritten(file)) \/ ReviewReplies
               \/ (\E rules \in AskedRulings : EpisodeReplies(rules))
      BY <2>3 DEF FindingsWritten, ReviewReplies, EpisodeReplies, Shapes
    <2>4. CASE ReviewVerified \/ ReviewCured \/ ReviewRejected \/ ReviewReplanned
      BY <2>4 DEF ReviewVerified, ReviewCured, ReviewRejected, ReviewReplanned, Shapes
    <2>5. CASE RejectedOverBudget \/ AssertionFails \/ ContractFault \/ EpisodeEnds
      BY <2>5 DEF RejectedOverBudget, AssertionFails, ContractFault, EpisodeEnds, Shapes
    <2>. QED  BY <2>1, <2>2, <2>3, <2>4, <2>5 DEF Next, EngineStep
  <1>2. ASSUME NEW list
        PROVE  FileOf(list) = [is |-> "valid", list |-> list]
    BY DEF FileOf
  <1>3. FindingsFile = files.findings \/ \E list : FindingsFile = FileOf(list)
    BY DEF FindingsFile, FlaggedRecorded
  <1>4. ASSUME NEW file \in FindingsLeft
        PROVE  file \in {files.findings, InvalidFile} \/ \E list : file = FileOf(list)
    BY <1>4 DEF FindingsLeft
  <1>5. InvalidFile = [is |-> "invalid", list |-> {}]
    BY DEF InvalidFile
  <1>. QED  BY <1>1, <1>2, <1>3, <1>4, <1>5 DEF FileShape

\* A channel a verdict may stand on has nothing in it that blocks.
LEMMA VerdictOverNothing ==
    ASSUME NEW reply, NEW channel, VerdictOf(reply, channel), ~channel.none
    PROVE  Blocking(channel.list) = {}
  BY DEF VerdictOf, Consistent, FindingsErrors, Contradicts, ComputeVerdict

LEMMA VerdictExempts ==
    ASSUME SpeakerInv, FileShape, memory.mode = "review", Verified,
           NEW f \in Blocking(FindingsFile.list)
    PROVE  \/ f.clause \in Clauses /\ About[f.clause] \cap past.confirmed # {}
           \/ ConfirmationReview /\ ~f.linked
  <1>. DEFINE confirmed == Confirmed(EntriesRead)
              duplicates == DuplicatePetitions(files.filings)
              raw == DowngradeConfirmedFindings(FindingsFile.list, confirmed)
                     \cup {EngineFinding(o) : o \in duplicates}
                     \cup FlaggedCriteriaFindings(files.edited, FindingsFile.list)
              channel == Findings(FindingsFile)
  <1>1. f \in FindingsFile.list /\ f.blocking
    BY DEF Blocking
  <1>2. FindingsFile.is # "absent"
    <2>1. FindingsFile = files.findings \/ FindingsFile.is = "valid"
      BY DEF FindingsFile, FlaggedRecorded, FileOf
    <2>. QED  BY <1>1, <2>1 DEF FileShape
  <1>3. ~channel.error
    BY DEF Verified, VerdictOf, Consistent, FindingsErrors
  <1>4. /\ FindingsFile.is # "invalid" /\ ~channel.none
        /\ channel.list = IF ConfirmationReview THEN ConfirmationReviewDowngrade(raw)
                          ELSE raw
    BY <1>2, <1>3 DEF Findings, ChannelOver, Channel
  <1>5. Blocking(channel.list) = {}
    BY <1>4, VerdictOverNothing DEF Verified
  <1>6. CASE f \in raw
    <2>1. ConfirmationReview
      BY <1>1, <1>4, <1>5, <1>6 DEF Blocking
    <2>2. f \in ConfirmationReviewDowngrade(raw) \/ ~f.linked
      BY <1>6 DEF ConfirmationReviewDowngrade, ConfirmationExempt
    <2>. QED  BY <1>1, <1>4, <1>5, <2>1, <2>2 DEF Blocking
  <1>7. CASE f \notin raw
    <2>1. f.clause \in Clauses /\ About[f.clause] \cap confirmed # {}
      BY <1>1, <1>7 DEF DowngradeConfirmedFindings
    <2>. QED  BY <2>1, OnlyTheSpokenIsRead
  <1>. QED  BY <1>6, <1>7

LEMMA OnlyTheVerdictVerifies ==
    ASSUME [Next]_vars, at' = "verified"
    PROVE  ReviewVerified \/ UNCHANGED vars
  <1>1. ~(\/ MidRunAdjudication \/ MidPlanReview \/ ReviewDispatched \/ ReviewCut
          \/ ReviewSaidNothing \/ Kill \/ PlanComplete \/ ReviewUnaffordable)
    BY DEF MidRunAdjudication, MidPlanReview, ReviewDispatched, Dispatched, ReviewCut,
           ReviewSaidNothing, Kill, PlanComplete, ReviewUnaffordable
  <1>2. ~(\/ AskedAfresh \/ FaultAdopted \/ NoVerdictParked \/ Witnessed
          \/ (\E reworded \in BOOLEAN : RecordAdjudications(reworded))
          \/ RemediesInserted \/ AnnotatedInFile)
    BY DEF AskedAfresh, FaultAdopted, NoVerdictParked, FaultBackoff, Witnessed,
           RecordAdjudications, RemediesInserted, AnnotatedInFile
  <1>3. ~(\/ (\E doc \in Disturbances : RecordDisturbed(doc)) \/ CriteriaRewritten
          \/ (\E o \in Obligations : PetitionFiled(o) \/ PetitionWrittenInTree(o)))
    BY DEF RecordDisturbed, CriteriaRewritten, PetitionFiled, PetitionWrittenInTree
  <1>4. ~(\/ (\E file \in FindingsLeft : FindingsWritten(file)) \/ ReviewReplies
          \/ (\E rules \in AskedRulings : EpisodeReplies(rules)))
    BY DEF FindingsWritten, ReviewReplies, EpisodeReplies
  <1>5. ~(\/ ReviewCured \/ ReviewRejected \/ ReviewReplanned \/ RejectedOverBudget
          \/ AssertionFails \/ ContractFault \/ EpisodeEnds)
    BY DEF ReviewCured, ReviewRejected, ReviewReplanned, RejectedOverBudget,
           AssertionFails, ContractFault, FaultBackoff, EpisodeEnds
  <1>. QED  BY <1>1, <1>2, <1>3, <1>4, <1>5 DEF Next, EngineStep

ExemptInv == Shapes /\ SpeakerInv /\ FileShape /\ ExemptOnlyConfirmed

LEMMA ExemptKept == ASSUME ExemptInv, [Next]_vars PROVE ExemptInv'
  <1>1. Shapes' /\ SpeakerInv' /\ FileShape'
    BY ShapesKept, SpeakerKept, FileShapeKept DEF ExemptInv
  <1>2. ExemptOnlyConfirmed'
    <2>. SUFFICES ASSUME at' = "verified" PROVE ExemptOnlyConfirmed'
      BY DEF ExemptOnlyConfirmed
    <2>1. CASE ReviewVerified
      <3>1. /\ memory.mode = "review" /\ Verified
            /\ files'.findings = FindingsFile /\ files'.granted = files.granted
            /\ past'.confirmed = past.confirmed
        BY <2>1 DEF ReviewVerified, AtVerdict, Judged, ExemptInv, Shapes
      <3>2. ConfirmationReview' = ConfirmationReview
        BY <3>1 DEF ConfirmationReview
      <3>. QED  BY <3>1, <3>2, VerdictExempts DEF ExemptInv, ExemptOnlyConfirmed
    <2>2. CASE UNCHANGED vars
      BY <2>2 DEF vars, ExemptInv, ExemptOnlyConfirmed, ConfirmationReview
    <2>. QED  BY <2>1, <2>2, OnlyTheVerdictVerifies
  <1>. QED  BY <1>1, <1>2 DEF ExemptInv

\* However often the record is lost, forged or put back, a blocking finding is
\* only outlived by what review itself confirmed, or by a confirmation review's
\* scope (_read_adjudications_record, apply_confirmed_downgrade).
THEOREM NothingElseExempts == Spec => []ExemptOnlyConfirmed
  <1>1. Init => ExemptInv
    BY InitShapes, InitSpeaker DEF Init, ExemptInv, FileShape, ExemptOnlyConfirmed, NoFile
  <1>2. ExemptInv /\ [Next]_vars => ExemptInv'
    BY ExemptKept
  <1>3. ExemptInv => ExemptOnlyConfirmed
    BY DEF ExemptInv
  <1>. QED  BY <1>1, <1>2, <1>3, PTL DEF Spec

(***************************************************************************)
(* What the record says.  An undisturbed one is kept under the last key    *)
(* made, over the entries it holds, and its MAC is the one the process     *)
(* remembers and, but for the moment between the two writes, the one the   *)
(* last event witnesses.                                                   *)
(***************************************************************************)
Unwritten ==
    /\ record.doc = NoRecord /\ record.witness = <<>> /\ record.keys = 0
    /\ memory.auth = NoAuthority /\ past.confirmed = {} /\ at # "witness"

Kept ==
    /\ record.doc.is = "record" /\ record.keys # 0
    /\ record.doc.mac = MacOf(record.keys, record.doc.entries)
    /\ memory.auth.last = IF memory.auth.key = 0 THEN <<>> ELSE record.doc.mac
    /\ IF at = "witness" THEN memory.auth.key # 0 ELSE record.witness = record.doc.mac
    /\ record.store => Confirmed(record.doc.entries) = past.confirmed

Faithful ==
    /\ ~record.flagged
    /\ record.stored = IF record.store THEN record.keys ELSE 0
    /\ memory.auth.key \in {0, record.keys}
    /\ Unwritten \/ Kept

TruthInv == ~past.disturbed /\ ~past.torn => Faithful

LEMMA FaithfulIsBelieved ==
    ASSUME SpeakerInv, Faithful, at # "witness"
    PROVE  ~Tampered /\ (record.store => Confirmed(EntriesRead) = past.confirmed)
  <1>1. CASE Unwritten
    <2>1. Auth.key = 0
      BY <1>1 DEF Unwritten, Auth, Authority, NoAuthority, Faithful
    <2>2. Auth.last = <<>> /\ record.doc.is = "none"
      BY <1>1 DEF Unwritten, Auth, Authority, NoAuthority, NoRecord
    <2>3. ~FoundTampered(record.doc, Auth, record.witness)
      BY <1>1, <2>1, <2>2 DEF Unwritten, FoundTampered
    <2>. QED  BY <1>1, <2>1, <2>3, ConfirmedOfNone
              DEF Unwritten, Faithful, Tampered, EntriesRead, Entries
  <1>2. CASE Kept
    <2>1. Auth.key \in {0, record.keys}
      BY <1>2 DEF Faithful, Kept, Auth, Authority, NoAuthority
    <2>2. Auth.last = <<>> \/ Auth.last = record.doc.mac
      BY <1>2 DEF Kept, Auth, Authority, NoAuthority
    <2>3. ~NotTheWitnessed(record.doc, Auth, record.witness)
      BY <1>2, <2>2 DEF Kept, NotTheWitnessed
    <2>4. ~FoundTampered(record.doc, Auth, record.witness)
      BY <1>2, <2>1, <2>3 DEF Kept, FoundTampered
    <2>5. record.store => Auth.key # 0
      BY <1>2 DEF Faithful, Kept, Auth, Authority, NoAuthority
    <2>6. ~Tampered
      BY <2>4 DEF Tampered, Faithful
    <2>7. record.store => EntriesRead = record.doc.entries
      BY <2>5, <2>6 DEF EntriesRead, Entries
    <2>. QED  BY <1>2, <2>6, <2>7 DEF Kept
  <1>. QED  BY <1>1, <1>2 DEF Faithful

\* A step that writes no ruling; a process that starts anew forgets its key.
LEMMA TruthUntouched ==
    ASSUME Shapes, SpeakerInv, TruthInv, at # "witness", at' # "witness",
           record' = record \/ record' = Flagged,
           memory'.auth \in {memory.auth, NoAuthority},
           past'.disturbed = past.disturbed, past'.torn = past.torn,
           past'.confirmed = past.confirmed
    PROVE  TruthInv'
  <1>. SUFFICES ASSUME ~past.disturbed, ~past.torn PROVE Faithful'
    BY DEF TruthInv
  <1>1. Faithful
    BY DEF TruthInv
  <1>2. /\ record'.doc = record.doc /\ record'.witness = record.witness
        /\ record'.keys = record.keys /\ record'.stored = record.stored
        /\ record'.store = record.store /\ ~record'.flagged
    BY <1>1, FaithfulIsBelieved DEF Flagged, Shapes, Faithful
  <1>3. Unwritten => Unwritten'
    BY <1>2 DEF Unwritten
  <1>4. Kept => Kept'
    BY <1>2 DEF Kept, NoAuthority
  <1>5. memory'.auth.key \in {0, record.keys}
    BY <1>1 DEF Faithful, NoAuthority
  <1>. QED  BY <1>1, <1>2, <1>3, <1>4, <1>5 DEF Faithful

LEMMA TruthOfRecording ==
    ASSUME Shapes, SpeakerInv, TruthInv, NEW reworded \in BOOLEAN,
           RecordAdjudications(reworded)
    PROVE  TruthInv'
  <1>. DEFINE merged == Merged(EntriesRead, Rules)
              mac == MacOf(KeyInUse, merged)
  <1>1. CASE record' = Flagged /\ at' = "remedies" /\ UNCHANGED <<memory, past>>
    BY <1>1, TruthUntouched DEF RecordAdjudications
  <1>2. CASE /\ record'.doc = Record(merged, mac)
             /\ record'.stored = IF Auth.key # 0 THEN record.stored
                                 ELSE KeyKept(record.store, KeyInUse)
             /\ record'.keys = IF Auth.key # 0 THEN record.keys ELSE record.keys + 1
             /\ record'.flagged = Tampered /\ record'.store = record.store
             /\ memory'.auth = [key |-> KeyInUse, last |-> mac]
             /\ past'.disturbed = past.disturbed /\ past'.torn = past.torn
             /\ past'.confirmed = past.confirmed \cup Confirmed(Rules)
             /\ at' = "witness"
    <2>. SUFFICES ASSUME ~past.disturbed, ~past.torn PROVE Faithful'
      BY <1>2 DEF TruthInv
    <2>1. Faithful /\ at = "adopt"
      BY DEF TruthInv, RecordAdjudications
    <2>2. ~Tampered /\ (record.store => Confirmed(EntriesRead) = past.confirmed)
      BY <2>1, FaithfulIsBelieved
    <2>3. Auth.key \in {0, record.keys} /\ record.keys \in Nat
      BY <2>1 DEF Faithful, Auth, Authority, NoAuthority, SpeakerInv, Keys
    <2>4. KeyInUse = record'.keys /\ record'.keys # 0
      BY <1>2, <2>3 DEF KeyInUse
    <2>5. record'.stored = IF record'.store THEN record'.keys ELSE 0
      BY <1>2, <2>1, <2>3, <2>4 DEF Faithful, KeyKept
    <2>6. record.store => Confirmed(merged) = past'.confirmed
      BY <1>2, <2>2, ConfirmedOfMerged
    <2>7. Kept'
      BY <1>2, <2>4, <2>6 DEF Kept, Record
    <2>. QED  BY <1>2, <2>2, <2>4, <2>5, <2>7 DEF Faithful
  <1>. QED  BY <1>1, <1>2 DEF RecordAdjudications, Flagged, Shapes

LEMMA TruthOfWitness == ASSUME Shapes, SpeakerInv, TruthInv, Witnessed PROVE TruthInv'
  <1>. SUFFICES ASSUME ~past.disturbed, ~past.torn PROVE Faithful'
    BY DEF TruthInv, Witnessed
  <1>1. Faithful /\ Kept /\ at = "witness"
    BY DEF TruthInv, Faithful, Witnessed, Unwritten
  <1>2. /\ record'.witness = memory.auth.last /\ record'.doc = record.doc
        /\ record'.keys = record.keys /\ record'.stored = record.stored
        /\ record'.store = record.store /\ record'.flagged = record.flagged
        /\ at' = "remedies" /\ UNCHANGED <<memory, past>>
    BY DEF Witnessed, Shapes
  <1>3. Kept'
    BY <1>1, <1>2 DEF Kept
  <1>. QED  BY <1>1, <1>2, <1>3 DEF Faithful

LEMMA TruthKept == ASSUME Shapes, SpeakerInv, TruthInv, [Next]_vars PROVE TruthInv'
  <1>1. CASE MidRunAdjudication \/ MidPlanReview \/ ReviewDispatched
    BY <1>1, TruthUntouched
    DEF MidRunAdjudication, MidPlanReview, ReviewDispatched, Dispatched, Shapes
  <1>2. CASE ReviewCut \/ ReviewSaidNothing
    BY <1>2, TruthUntouched DEF ReviewCut, ReviewSaidNothing, Idle, Shapes
  <1>3. CASE Kill
    <2>1. CASE at = "witness"
      BY <1>3, <2>1 DEF Kill, Shapes, TruthInv
    <2>2. CASE at # "witness"
      <3>1. /\ UNCHANGED record /\ at' = "work" /\ memory'.auth = NoAuthority
            /\ past'.disturbed = past.disturbed /\ past'.confirmed = past.confirmed
        BY <1>3 DEF Kill, FreshMemory, Shapes
      <3>2. past'.torn = (past.torn \/ at = "witness")
        BY <1>3 DEF Kill, Shapes
      <3>3. CASE past.torn
        BY <3>2, <3>3 DEF TruthInv
      <3>4. CASE ~past.torn /\ past.disturbed
        BY <3>1, <3>4 DEF TruthInv
      <3>5. CASE ~past.torn /\ ~past.disturbed
        <4>1. Faithful
          BY <3>5 DEF TruthInv
        <4>2. Unwritten => Unwritten'
          BY <3>1 DEF Unwritten
        <4>3. Kept => Kept'
          BY <2>2, <3>1 DEF Kept, NoAuthority
        <4>. QED  BY <3>1, <4>1, <4>2, <4>3 DEF Faithful, NoAuthority, TruthInv
      <3>. QED  BY <3>3, <3>4, <3>5
    <2>. QED  BY <2>1, <2>2
  <1>4. CASE ReviewReplies
    BY <1>4, TruthUntouched DEF ReviewReplies, Shapes
  <1>5. CASE \E rules \in AskedRulings : EpisodeReplies(rules)
    BY <1>5, TruthUntouched DEF EpisodeReplies, Shapes
  <1>6. CASE AskedAfresh \/ FaultAdopted \/ NoVerdictParked
    BY <1>6, TruthUntouched
    DEF AskedAfresh, FaultAdopted, NoVerdictParked, FaultBackoff, Idle, Shapes
  <1>7. CASE \E reworded \in BOOLEAN : RecordAdjudications(reworded)
    BY <1>7, TruthOfRecording
  <1>8. CASE Witnessed
    BY <1>8, TruthOfWitness
  <1>9. CASE RemediesInserted \/ AnnotatedInFile
    BY <1>9, TruthUntouched DEF RemediesInserted, AnnotatedInFile
  <1>10. CASE ReviewVerified \/ ReviewCured \/ ReviewRejected \/ RejectedOverBudget
    <2>1. /\ record' = Flagged /\ at = "verdict" /\ Judged
          /\ at' \in {"verified", "tail", "work"}
      BY <1>10 DEF ReviewVerified, ReviewCured, ReviewRejected, RejectedOverBudget,
                   RejectedWithBudget, VerdictRecorded, AtVerdict
    <2>2. /\ memory'.auth = memory.auth /\ past'.confirmed = past.confirmed
          /\ past'.disturbed = past.disturbed /\ past'.torn = past.torn
      BY <2>1 DEF Judged, Idle, Shapes
    <2>. QED  BY <2>1, <2>2, TruthUntouched
  <1>11. CASE ReviewReplanned
    BY <1>11, TruthUntouched DEF ReviewReplanned, AtVerdict, Idle, Shapes
  <1>12. CASE AssertionFails \/ ContractFault \/ EpisodeEnds
    BY <1>12, TruthUntouched
    DEF AssertionFails, ContractFault, EpisodeEnds, FaultBackoff, AtVerdict, Idle, Shapes
  <1>13. CASE \/ \E o \in Obligations : PetitionFiled(o) \/ PetitionWrittenInTree(o)
              \/ CriteriaRewritten \/ PlanComplete \/ ReviewUnaffordable
              \/ \E file \in FindingsLeft : FindingsWritten(file)
    BY <1>13, TruthUntouched
    DEF PetitionFiled, PetitionWrittenInTree, CriteriaRewritten, PlanComplete,
        ReviewUnaffordable, FindingsWritten
  <1>14. CASE \E doc \in Disturbances : RecordDisturbed(doc)
    BY <1>14 DEF RecordDisturbed, Shapes, TruthInv
  <1>15. CASE UNCHANGED vars
    BY <1>15 DEF vars, TruthInv, Faithful, Unwritten, Kept
  <1>. QED  BY <1>1, <1>2, <1>3, <1>4, <1>5, <1>6, <1>7, <1>8, <1>9, <1>10, <1>11,
               <1>12, <1>13, <1>14, <1>15 DEF Next, EngineStep

\* A record nobody else touched, whose write was not torn from its event, is
\* believed across kills; with a key store it says exactly what review ruled.
THEOREM TheRecordIsBelieved == Spec => []RecordSpeaksTrue
  <1>1. Init => Shapes /\ SpeakerInv /\ TruthInv
    <2>. SUFFICES ASSUME Init PROVE Shapes /\ SpeakerInv /\ TruthInv
      OBVIOUS
    <2>1. /\ record.doc = NoRecord /\ record.stored = 0 /\ record.keys = 0
          /\ record.witness = <<>> /\ record.flagged = FALSE
          /\ memory.auth = NoAuthority /\ past.confirmed = {} /\ at = "work"
      BY DEF Init, FreshMemory
    <2>. QED  BY <2>1, InitShapes, InitSpeaker
              DEF TruthInv, Faithful, Unwritten, NoAuthority
  <1>2. Shapes /\ SpeakerInv /\ TruthInv /\ [Next]_vars
            => Shapes' /\ SpeakerInv' /\ TruthInv'
    BY ShapesKept, SpeakerKept, TruthKept
  <1>3. Shapes /\ SpeakerInv /\ TruthInv => RecordSpeaksTrue
    BY OnlyTheSpokenIsRead, FaithfulIsBelieved DEF TruthInv, RecordSpeaksTrue
  <1>. QED  BY <1>1, <1>2, <1>3, PTL DEF Spec

=============================================================================
