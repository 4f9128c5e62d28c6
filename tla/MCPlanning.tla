----------------------------- MODULE MCPlanning -----------------------------
(* Instances of Planning for TLC. *)
EXTENDS PlanningProperties

\* The harness did its work; and each way it may not.
Clean ==
    [error |-> "none", status |-> "none", limit |-> "none", failed |-> FALSE,
     interrupted |-> FALSE, timedOut |-> FALSE, noTraffic |-> FALSE, truncated |-> FALSE,
     traffic |-> TRUE, text |-> TRUE, short |-> FALSE, warns |-> FALSE]
Failing(error) ==
    [Clean EXCEPT !.error = error, !.failed = TRUE, !.text = FALSE, !.traffic = FALSE, !.short = TRUE]
Outage == [Failing("infra") EXCEPT !.failed = FALSE]
Instant == Failing("other")
NoStart == Failing("no start")
Limited == [Clean EXCEPT !.limit = "typed", !.failed = TRUE, !.error = "other", !.warns = TRUE]
Cut == [Clean EXCEPT !.interrupted = TRUE, !.failed = TRUE, !.text = FALSE]
BareAbort == [Clean EXCEPT !.error = "aborted", !.short = TRUE, !.text = FALSE]

MCEndings == {Clean, Outage, Instant, NoStart, Limited, Cut, BareAbort}
MCSchedule == <<1, 2>>
MCRateWaits == {1}

Task(id, criteria) ==
    [id |-> id, deps |-> {}, orderOnly |-> {}, status |-> FALSE, shaped |-> TRUE,
     criteria |-> criteria, cites |-> {}, stage |-> 0, names |-> {}, estimate |-> 1,
     tier |-> "none", remeasures |-> {}]

\* Six clauses, one of them over "every" of something it does not enumerate.
Repairable ==
    <<Task("1", <<{"a", "every"}, {"b"}, {"c"}, {"d"}, {"e"}, {"f"}>>),
      [Task("2", <<{"g", "every", "members"}, {"h"}>>) EXCEPT !.deps = {"1"}]>>

Cyclic ==
    <<[Task("1", <<{"a"}>>) EXCEPT !.deps = {"2"}], [Task("2", <<{"b"}>>) EXCEPT !.deps = {"1"}]>>

MCProposals == {Repairable, Cyclic}

=============================================================================
