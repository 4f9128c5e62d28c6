--------------------------- MODULE ReviewFindings ---------------------------
(***************************************************************************)
(* The findings channel between a reviewer and the engine (engine/         *)
(* findings.py, LoopSupervisor._review_findings_channel) and what makes a  *)
(* reviewer's reply usable (engine/transitions.py): pure definitions.      *)
(*                                                                         *)
(* The file is "absent", "invalid" or "valid"; a valid one holds a set of  *)
(* findings.  A finding's clause and an obligation match when the text of  *)
(* one contains the other's: About gives the obligations a clause matches. *)
(***************************************************************************)
EXTENDS FiniteSets, Integers

CONSTANTS
    Obligations,  \* what a petition may declare impossible
    Clauses,      \* what a finding may cite: obligations among them
    About         \* [Clauses -> SUBSET Obligations]

\* The clause of findings.flagged_criteria_findings.
CriteriaTamper == "criteria"

ASSUME FindingsAssumption ==
    /\ Obligations \subseteq Clauses
    /\ CriteriaTamper \notin Clauses
    /\ About \in [Clauses -> SUBSET Obligations]
    /\ \A o \in Obligations : o \in About[o]

\* specified: a `cured_when` that passes its checks; linked: `reopens` a cure
\* task of the latest granted pass, `regression`, or an exception by name.
Finding ==
    [clause : Clauses \cup {CriteriaTamper}, blocking : BOOLEAN, curable : BOOLEAN,
     specified : BOOLEAN, linked : BOOLEAN]

\* The engine's own findings carry no link.
EngineFinding(c) ==
    [clause |-> c, blocking |-> TRUE, curable |-> TRUE, specified |-> TRUE,
     linked |-> FALSE]

NoFile == [is |-> "absent", list |-> {}]
InvalidFile == [is |-> "invalid", list |-> {}]
FileOf(list) == [is |-> "valid", list |-> list]

Blocking(list) == {f \in list : f.blocking}
AnyCriteriaTamper(list) == \E f \in list : f.clause = CriteriaTamper
AllBlockingCurable(list) == \A f \in Blocking(list) : f.curable
ComputeVerdict(list) == IF Blocking(list) = {} THEN "verified" ELSE "rejected"
Residual(f) == [f EXCEPT !.blocking = FALSE]

\* flagged_criteria_findings, unless the list already cites the clause.
FlaggedCriteriaFindings(edited, list) ==
    IF edited /\ ~AnyCriteriaTamper(list)
    THEN {EngineFinding(CriteriaTamper)} ELSE {}

\* _record_flagged_criteria_findings: into the file itself, unless it is invalid.
FlaggedRecorded(file, edited) ==
    IF file.is = "invalid" \/ ~edited THEN file
    ELSE FileOf(file.list \cup FlaggedCriteriaFindings(edited, file.list))

DowngradeConfirmedFindings(list, confirmed) ==
    {IF f.blocking /\ f.clause \in Clauses /\ About[f.clause] \cap confirmed # {}
     THEN Residual(f) ELSE f : f \in list}

\* confirmation_review_exempt
ConfirmationExempt(f) == f.linked

\* apply_confirmation_review_downgrade: the whole list, the engine's included.
ConfirmationReviewDowngrade(list) ==
    {IF f.blocking /\ ~ConfirmationExempt(f) THEN Residual(f) ELSE f : f \in list}


\* _review_findings_channel.  `none`: no findings list at all; a petition filed
\* twice is a finding only beside a list.
Channel(file, edited, confirmed, duplicates, confirmationReview) ==
    LET raw == DowngradeConfirmedFindings(file.list, confirmed)
               \cup {EngineFinding(o) : o \in duplicates}
               \cup FlaggedCriteriaFindings(edited, file.list)
    IN  CASE file.is = "invalid" -> [none |-> TRUE, error |-> TRUE, list |-> {}]
          [] file.is = "absent"  -> [none |-> TRUE, error |-> FALSE, list |-> {}]
          [] OTHER -> [none |-> FALSE, error |-> FALSE,
                       list |-> IF confirmationReview
                                THEN ConfirmationReviewDowngrade(raw) ELSE raw]

-----------------------------------------------------------------------------
(* A reply.  `claim`: its verdict, or "unreadable"; `sound`: the rest of    *)
(* the payload meets its schema; `reasoned`: a rejection states a reason;   *)
(* `rules`: its petition_adjudications.                                     *)

\* "substance" carries its done-list; "unmarked" lacks one; "silence" states
\* no remedy at all and passes for one of substance.
Rulings == {"confirmed", "form", "substance", "unmarked", "silence"}
Refuting == Rulings \ {"confirmed"}
RulingSets == UNION {[S -> Rulings] : S \in SUBSET Obligations}
NoRulings == [o \in {} |-> "silence"]

\* A word for a rejection reads as one (normalize_negative_verdict).
Claims == {"verified", "rejected", "unreadable"}

\* parse_response, validate_against
Readable(reply) == reply.claim # "unreadable"
MeetsSchema(reply) == Readable(reply) /\ reply.sound

\* review_report_errors
ReportErrors(reply) == reply.claim = "rejected" /\ ~reply.reasoned

\* review_verdict_findings_errors
Contradicts(reply, channel) ==
    ~channel.none /\ reply.claim = "verified" /\ ComputeVerdict(channel.list) = "rejected"

\* review_cured_when_errors, review_remedy_errors
CuredWhenMissing(channel) ==
    ~channel.none /\ \E f \in Blocking(channel.list) : f.curable /\ ~f.specified
RemedyUnmarked(reply) == \E o \in DOMAIN reply.rules : reply.rules[o] = "unmarked"

\* What the ladder and the verdict test once the schema holds.
FindingsErrors(reply, channel) ==
    \/ channel.error
    \/ Contradicts(reply, channel)
    \/ CuredWhenMissing(channel)
    \/ RemedyUnmarked(reply)

\* enforce_contract's two tests: the schema, then extra_validate.
Consistent(reply, channel) ==
    /\ MeetsSchema(reply)
    /\ ~ReportErrors(reply) /\ ~FindingsErrors(reply, channel)

\* findings_channel_unusable_reply
UnusableReply(reply, channel) ==
    /\ Readable(reply)
    /\ ~MeetsSchema(reply) \/ (~ReportErrors(reply) /\ FindingsErrors(reply, channel))

\* _review_verdict: a rejection whose findings are all residual is none.
VerdictOf(reply, channel) ==
    \/ Consistent(reply, channel) /\ reply.claim = "verified"
    \/ /\ Consistent(reply, channel) /\ reply.claim = "rejected"
       /\ ~channel.none /\ ComputeVerdict(channel.list) = "verified"

\* _review_rejection_curable_findings
CurableRejection(channel) ==
    /\ ~channel.none /\ ComputeVerdict(channel.list) = "rejected"
    /\ ~AnyCriteriaTamper(channel.list)
    /\ AllBlockingCurable(channel.list)
=============================================================================
