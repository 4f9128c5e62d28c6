------------------------------ MODULE Petitions ------------------------------
(***************************************************************************)
(* Impossibility petitions and the run-scope record of their adjudication  *)
(* (engine/petitions.py): pure definitions over what lies on disk and what *)
(* one engine process remembers.                                           *)
(*                                                                         *)
(* A keyed MAC is the pair of the key and the entries it was taken over:   *)
(* two are equal when both are.  The unkeyed digest, which a matching MAC  *)
(* leaves nothing to add to, is left out.  Every obligation filed is one   *)
(* the contract or the plan still names (_obligation_is_history).          *)
(***************************************************************************)
EXTENDS ReviewFindings

\* _Authority, in memory; 0 stands for no key, <<>> for no MAC.
NoAuthority == [key |-> 0, last |-> <<>>]

\* The document: its entries, and the MAC stored beside them.  Garbled is a
\* file that parses and is no record.
NoRecord == [is |-> "none", entries |-> NoRulings, mac |-> <<>>]
Garbled  == [NoRecord EXCEPT !.is = "garbled"]
MacOf(key, entries) == <<key, entries>>
Record(entries, mac) == [is |-> "record", entries |-> entries, mac |-> mac]

\* _authority: the process's own, else the stored key's.
Authority(auth, storedKey) ==
    IF auth.key # 0 THEN auth ELSE [NoAuthority EXCEPT !.key = storedKey]

\* _read_adjudications_record, past _tamper_already_witnessed: why a record is
\* not believed.  `witness`: the MAC of the last recorded event.
NotTheWitnessed(doc, auth, witness) ==
    IF auth.last # <<>> THEN auth.last # doc.mac ELSE witness # doc.mac

\* Mutant (a plausible bug): the MAC is compared, never computed.
FoundByWitnessOnly(doc, auth, witness) ==
    \/ doc.is = "none" /\ (witness # <<>> \/ auth.last # <<>>)
    \/ doc.is = "garbled"
    \/ doc.is = "record" /\ auth.key # 0 /\ NotTheWitnessed(doc, auth, witness)

FoundTampered(doc, auth, witness) ==
    \/ doc.is = "none" /\ (witness # <<>> \/ auth.last # <<>>)
    \/ doc.is = "garbled"
    \/ /\ doc.is = "record" /\ auth.key # 0
       /\ doc.mac # MacOf(auth.key, doc.entries) \/ NotTheWitnessed(doc, auth, witness)

\* What reading yields: without a key the record is read as empty, not as
\* tampered with.
Entries(doc, auth, tampered) ==
    IF tampered \/ auth.key = 0 THEN NoRulings ELSE doc.entries

Confirmed(entries) == {o \in DOMAIN entries : entries[o] = "confirmed"}
Settled(entries) == DOMAIN entries

\* record_confirmed_adjudications: CONFIRMED is never downgraded.
Merged(entries, rules) ==
    [o \in DOMAIN entries \cup DOMAIN rules |->
        IF o \in Confirmed(entries) \/ (o \in DOMAIN rules /\ rules[o] = "confirmed")
        THEN "confirmed"
        ELSE IF o \in DOMAIN rules THEN "refuted" ELSE entries[o]]

-----------------------------------------------------------------------------
(* Filings.  `run`: the run's own petitions file; `tree`: a file the worker *)
(* wrote into the workspace.                                                *)

NotFiled == [run |-> "none", tree |-> FALSE]

\* filed_petition_for_obligation: annotated or not, in either place.
AlreadyFiled(filing) == filing # NotFiled

\* open_petitions_in_workspace: nothing ever annotates a filing in the tree.
Unannotated(filings) == {o \in Obligations : filings[o].run = "open" \/ filings[o].tree}

OpenUnconfirmed(filings, entries) == Unannotated(filings) \ Settled(entries)

DuplicatePetitions(filings) == {o \in Obligations : filings[o].run # "none" /\ filings[o].tree}

\* write_back_petition_adjudication
WrittenBack(filings, rules) ==
    [o \in Obligations |->
        IF o \in DOMAIN rules /\ filings[o].run = "open"
        THEN [filings[o] EXCEPT !.run = "annotated"] ELSE filings[o]]

\* refuted_remedy_cure_findings: one cure task per refuted obligation that is
\* filed, unannotated and has none yet.
RemediesDue(filings, rules, remedied) ==
    {o \in (DOMAIN rules \cap Unannotated(filings)) \ remedied : rules[o] = "substance"}
=============================================================================
