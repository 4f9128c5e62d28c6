--------------------------- MODULE ReviewProperties ---------------------------
(***************************************************************************)
(* What the review of an approach promises.                                *)
(***************************************************************************)
EXTENDS Review

\* A run is verified only after a review of its last approach that was not
\* confined to what an earlier one had listed: remedies of petitions, which
\* are cure tasks too, never make the first review a confirmation review
\* (_latest_granted_cure_pass).
AuditedInFull == at = "verified" => past.audited

\* Nothing exempts a blocking finding from rejecting but a ruling review itself
\* gave in this run, or the bounded scope of a confirmation review: no lost,
\* older, edited or foreign record does (_read_adjudications_record).
ExemptOnlyConfirmed ==
    at = "verified" =>
        \A f \in Blocking(files.findings.list) :
            \/ f.clause \in Clauses /\ About[f.clause] \cap past.confirmed # {}
            \/ ConfirmationReview /\ ~f.linked

\* As long as nobody else touches it and its write is not torn from its event,
\* the record is believed, across kills, and says what review ruled: with a key
\* store exactly that; without one a restart reads it as empty.
RecordSpeaksTrue ==
    ~past.disturbed /\ ~past.torn /\ at # "witness" =>
        /\ ~Tampered
        /\ Confirmed(EntriesRead) \subseteq past.confirmed
        /\ record.store => Confirmed(EntriesRead) = past.confirmed

\* The budget pays for what was judged, cut, killed or given up for good, and
\* for nothing else: an attempt that is asked afresh, waited out or adjudicates
\* off the budget is given back once, and once only.
ChargedForJudgements ==
    ledger.charged = past.settled + (IF Outstanding THEN 1 ELSE 0)

\* Whatever its reviewer answers, and whenever it is cut, a review that has
\* begun comes to an end.
ReviewConcludes == at = "review" ~> at \in {"work"} \cup Ends

\* loop.py:13062 asserts that no verdict comes from a reply the ladder gave up
\* for its findings.
NoVerdictFromUnusable == at # "failed"
=============================================================================
