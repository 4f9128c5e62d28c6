--------------------------- MODULE SteeringProofs ---------------------------
(***************************************************************************)
(* Proofs, for any messages and any redelivery cap, about the life of a    *)
(* steering message.                                                       *)
(***************************************************************************)
EXTENDS Steering, TLAPS

\* No iteration is answered for after a fault, and no kill falls between two
\* writes that belong together.
Orderly == Mishaps \cap {"faulted", "killed"} = {}

LEMMA BookkeepingInit == Init => BookkeepingInv
<1> SUFFICES ASSUME Init PROVE BookkeepingInv
  OBVIOUS
<1>1. 0 \in 0 .. RedeliveryMax
  BY SteeringAssumption
<1>2. redelivered \in [Messages -> 0 .. RedeliveryMax] /\ tries \in [Messages -> Nat]
  BY <1>1 DEF Init
<1>3. TypeOK /\ OnDisk /\ HatInPlace
  BY <1>2 DEF Init, TypeOK, OnDisk, HatInPlace, Places, Hats
<1>4. NotedMessages /\ DeferredOpen /\ GivenUpSpent /\ TriesCounted /\ PendingApart
  BY DEF Init, NotedMessages, DeferredOpen, GivenUpSpent, TriesCounted,
         PendingApart
<1> QED BY <1>3, <1>4 DEF BookkeepingInv

-----------------------------------------------------------------------------
(* Up to the harness call: nothing on disk changes but by an arrival *)

LEMMA ArrivalKeeps ==
    ASSUME BookkeepingInv, NEW m \in Messages, Arrive(m)
    PROVE  BookkeepingInv'
BY DEF Arrive, Pending, memory, history, Spent, BookkeepingInv, TypeOK, OnDisk,
       HatInPlace, NotedMessages, DeferredOpen, GivenUpSpent, TriesCounted,
       PendingApart

LEMMA DispatchKeeps ==
    ASSUME BookkeepingInv, NEW h \in Hats, Dispatch(h)
    PROVE  BookkeepingInv'
<1>1. captured' \in SUBSET Messages
  BY DEF Dispatch, Pending, BookkeepingInv, TypeOK
<1>2. TypeOK' /\ OnDisk' /\ HatInPlace'
  BY <1>1 DEF Dispatch, disk, history, BookkeepingInv, TypeOK, OnDisk,
              HatInPlace, Places
<1>3. NotedMessages' /\ DeferredOpen'
  BY DEF Dispatch, disk, Pending, BookkeepingInv, NotedMessages, DeferredOpen
<1>4. GivenUpSpent' /\ TriesCounted' /\ PendingApart'
  BY DEF Dispatch, disk, history, Spent, BookkeepingInv, GivenUpSpent,
         TriesCounted, PendingApart
<1> QED BY <1>2, <1>3, <1>4 DEF BookkeepingInv

LEMMA AttemptKeeps ==
    ASSUME BookkeepingInv,
           DispatchAgain \/ GivesUp \/ Attempt \/ PutOff \/ Waited \/ WokenEarly
    PROVE  BookkeepingInv'
<1>1. UNCHANGED <<disk, history>>
  BY DEF DispatchAgain, GivesUp, Attempt, PutOff, Waited, WokenEarly
<1>2. TypeOK' /\ OnDisk'
  BY <1>1 DEF DispatchAgain, GivesUp, Attempt, PutOff, Waited, WokenEarly,
              disk, history, Pending, BookkeepingInv, TypeOK, OnDisk, Places
<1>3. HatInPlace' /\ NotedMessages'
  BY <1>1 DEF DispatchAgain, GivesUp, Attempt, PutOff, Waited, WokenEarly,
              disk, Pending, Actionable, BookkeepingInv, HatInPlace,
              NotedMessages
<1>4. DeferredOpen' /\ GivenUpSpent' /\ TriesCounted' /\ PendingApart'
  BY <1>1 DEF DispatchAgain, GivesUp, Attempt, PutOff, Waited, WokenEarly,
              disk, history, Spent, BookkeepingInv, DeferredOpen,
              GivenUpSpent, TriesCounted, PendingApart
<1> QED BY <1>2, <1>3, <1>4 DEF BookkeepingInv

-----------------------------------------------------------------------------
(* The end of an iteration *)

\* The try is counted for what was pending, and ends with it consumed.
LEMMA CleanEndKeeps ==
    ASSUME BookkeepingInv, EndsClean
    PROVE  BookkeepingInv'
<1> USE DEF BookkeepingInv
<1>1. tries' \in [Messages -> Nat]
  BY DEF EndsClean, TypeOK
<1>2. TypeOK' /\ OnDisk' /\ HatInPlace'
  BY <1>1 DEF EndsClean, TypeOK, OnDisk, HatInPlace, Places
<1>3. NotedMessages' /\ DeferredOpen'
  BY DEF EndsClean, TypeOK, HatInPlace, NotedMessages, DeferredOpen, Pending
<1>4. TriesCounted'
  BY DEF EndsClean, TypeOK, NotedMessages, DeferredOpen, TriesCounted, Pending
<1>5. GivenUpSpent' /\ PendingApart'
  BY DEF EndsClean, GivenUpSpent, PendingApart, Spent
<1> QED BY <1>2, <1>3, <1>4, <1>5

LEMMA FailureKeeps ==
    ASSUME BookkeepingInv, Orderly,
           NEW next \in {"wait", "again", "answering"}, Fails(next)
    PROVE  BookkeepingInv'
<1>1. hat = "steer" => next # "answering"
  BY DEF Fails, Orderly
<1> QED
  BY <1>1 DEF Fails, disk, history, Pending, Spent, BookkeepingInv, TypeOK,
              OnDisk, HatInPlace, NotedMessages, DeferredOpen, GivenUpSpent,
              TriesCounted, PendingApart, Places

LEMMA MarkerKeeps ==
    ASSUME BookkeepingInv, NEW next \in {"idle", "wait"}, Flush(next)
    PROVE  BookkeepingInv'
<1> USE DEF BookkeepingInv, Flush
<1>1. TypeOK' /\ OnDisk' /\ HatInPlace'
  BY DEF TypeOK, OnDisk, HatInPlace, Places
<1>2. NotedMessages' /\ DeferredOpen'
  BY DEF TypeOK, HatInPlace, NotedMessages, DeferredOpen, Pending
<1>3. GivenUpSpent' /\ TriesCounted' /\ PendingApart'
  BY DEF TypeOK, DeferredOpen, GivenUpSpent, TriesCounted, PendingApart, Spent
<1> QED BY <1>1, <1>2, <1>3

LEMMA QueueKeeps ==
    ASSUME BookkeepingInv, NEW next \in {"idle", "wait"}, Flushed(next)
    PROVE  BookkeepingInv'
<1> USE DEF BookkeepingInv, Flushed, history
<1>1. TypeOK' /\ OnDisk' /\ HatInPlace'
  BY DEF TypeOK, OnDisk, HatInPlace, Places
<1>2. NotedMessages' /\ DeferredOpen'
  BY DEF TypeOK, HatInPlace, NotedMessages, DeferredOpen, Pending
<1>3. GivenUpSpent' /\ TriesCounted' /\ PendingApart'
  BY DEF TypeOK, DeferredOpen, GivenUpSpent, TriesCounted, PendingApart, Spent
<1> QED BY <1>1, <1>2, <1>3

-----------------------------------------------------------------------------
(* What the steer hat answers *)

LEMMA AnswerKeeps ==
    ASSUME BookkeepingInv, NEW settled \in BOOLEAN, Answers(settled)
    PROVE  BookkeepingInv'
<1> USE DEF BookkeepingInv, Answers
<1>1. TypeOK' /\ OnDisk' /\ HatInPlace'
  BY DEF TypeOK, OnDisk, HatInPlace, Places
<1>2. NotedMessages' /\ DeferredOpen'
  BY DEF TypeOK, HatInPlace, NotedMessages, DeferredOpen
<1>3. GivenUpSpent' /\ TriesCounted' /\ PendingApart'
  BY DEF TypeOK, NotedMessages, GivenUpSpent, TriesCounted, PendingApart, Spent
<1> QED BY <1>1, <1>2, <1>3

LEMMA BreakKeeps == ASSUME BookkeepingInv, Breaks PROVE BookkeepingInv'
BY DEF Breaks, disk, history, Spent, BookkeepingInv, TypeOK, OnDisk,
       HatInPlace, NotedMessages, DeferredOpen, GivenUpSpent, TriesCounted,
       PendingApart, Places

LEMMA ExhaustionKeeps == ASSUME BookkeepingInv, Exhausts PROVE BookkeepingInv'
BY DEF Exhausts, Spent, BookkeepingInv, TypeOK, OnDisk, HatInPlace,
       NotedMessages, DeferredOpen, GivenUpSpent, TriesCounted, PendingApart,
       Places

\* A deferral pays for the next try.
LEMMA DeferralKeeps ==
    ASSUME BookkeepingInv, Defers
    PROVE  BookkeepingInv'
<1> USE SteeringAssumption DEF BookkeepingInv, Defers, Spent
<1>1. TypeOK' /\ OnDisk' /\ HatInPlace'
  BY DEF TypeOK, OnDisk, HatInPlace, Places
<1>2. NotedMessages' /\ DeferredOpen'
  BY DEF TypeOK, NotedMessages, DeferredOpen, GivenUpSpent
<1>3. GivenUpSpent' /\ TriesCounted'
  BY DEF TypeOK, NotedMessages, GivenUpSpent, TriesCounted
<1>4. PendingApart'
  BY DEF TypeOK, NotedMessages, PendingApart
<1> QED BY <1>1, <1>2, <1>3, <1>4

LEMMA KillKeeps == ASSUME BookkeepingInv, Orderly, Kill PROVE BookkeepingInv'
BY DEF Kill, Orderly, disk, history, Spent, BookkeepingInv, TypeOK, OnDisk,
       HatInPlace, NotedMessages, DeferredOpen, GivenUpSpent, TriesCounted,
       PendingApart, Places

-----------------------------------------------------------------------------

LEMMA BookkeepingKept ==
    ASSUME Orderly
    PROVE  BookkeepingInv /\ [Next]_vars => BookkeepingInv'
<1> SUFFICES ASSUME BookkeepingInv, [Next]_vars PROVE BookkeepingInv'
  OBVIOUS
<1>1. CASE UNCHANGED vars
  BY <1>1 DEF vars, disk, memory, history, Pending, Spent, BookkeepingInv,
              TypeOK, OnDisk, HatInPlace, NotedMessages, DeferredOpen,
              GivenUpSpent, TriesCounted, PendingApart
<1>2. CASE Next
  BY <1>2, ArrivalKeeps, DispatchKeeps, AttemptKeeps, CleanEndKeeps,
     FailureKeeps, MarkerKeeps, QueueKeeps, AnswerKeeps, BreakKeeps, ExhaustionKeeps,
     DeferralKeeps, KillKeeps DEF Next
<1> QED BY <1>1, <1>2

\* The inductive invariant of the bookkeeping, whether or not a message comes
\* late and a payload breaks its contract.
THEOREM Bookkeeping ==
    ASSUME Orderly
    PROVE  Spec => []BookkeepingInv
<1>1. Init => BookkeepingInv
  BY BookkeepingInit
<1>2. BookkeepingInv /\ [Next]_vars => BookkeepingInv'
  BY BookkeepingKept
<1> QED BY <1>1, <1>2, PTL DEF Spec

\* The steer hat answers for one message at most 1 + steer_redelivery_max times
\* (loop.py _handle_unsettled_steering).
THEOREM BoundedTries ==
    ASSUME Orderly
    PROVE  Spec => []TriesBounded
<1>1. BookkeepingInv => TriesBounded
  <2> SUFFICES ASSUME BookkeepingInv, NEW m \in Messages
               PROVE  tries[m] <= RedeliveryMax + 1
    BY DEF TriesBounded
  <2>1. redelivered[m] \in 0 .. RedeliveryMax /\ tries[m] \in Nat
    BY DEF BookkeepingInv, TypeOK
  <2>2. tries[m] <= redelivered[m] + 1
    BY DEF BookkeepingInv, TriesCounted
  <2> QED BY <2>1, <2>2, SteeringAssumption
<1> QED BY <1>1, Bookkeeping, PTL

\* A step takes only what waits for its redelivery off the marker.
LEMMA OnlyDeferredReturns ==
    ASSUME [Next]_vars
    PROVE  consumed \ consumed' \subseteq deferred
<1>1. CASE consumed' = consumed
  BY <1>1
<1>2. CASE EndsClean
  BY <1>2 DEF EndsClean
<1>3. CASE \E next \in {"idle", "wait"} : Flush(next)
  BY <1>3 DEF Flush
<1>4. CASE \E next \in {"idle", "wait"} : Flushed(next)
  BY <1>4 DEF Flushed
<1> QED
  BY <1>1, <1>2, <1>3, <1>4 DEF Next, vars, disk, memory, history, Arrive, Dispatch, DispatchAgain,
     GivesUp, Attempt, PutOff, Waited, WokenEarly, Fails, Answers, Breaks,
     Exhausts, Defers, Kill

\* A message that was consumed and settled or given up is never handed out
\* again (loop.py _flush_deferred_steering_redelivery).
THEOREM Closed ==
    ASSUME Orderly
    PROVE  Spec => ClosedStaysClosed
<1>1. BookkeepingInv /\ [Next]_vars =>
        [\A m \in Messages :
            m \in consumed /\ (claim[m] = "settled" \/ m \in exhausted)
                => m \in consumed']_vars
  BY OnlyDeferredReturns DEF BookkeepingInv, DeferredOpen
<1> QED BY <1>1, Bookkeeping, PTL DEF Spec, ClosedStaysClosed

\* A message that could not be settled comes back to the steer hat only after
\* an iteration of another hat.
THEOREM Apart ==
    ASSUME Orderly
    PROVE  Spec => RedeliveredApart
<1>1. BookkeepingInv /\ [Next]_vars =>
        [captured' # captured =>
            \A m \in captured' : claim[m] = "unsettled" => m \in apart]_vars
  <2> SUFFICES ASSUME BookkeepingInv, Next, captured' # captured,
                      NEW m \in captured', claim[m] = "unsettled"
               PROVE  m \in apart
    OBVIOUS
  <2>1. captured' \in {{}, Pending}
    BY DEF Next, memory, Arrive, Dispatch, DispatchAgain, GivesUp, Attempt,
           PutOff, Waited, WokenEarly, EndsClean, Fails, Flush, Flushed,
           Answers, Breaks, Exhausts, Defers, Kill
  <2> QED BY <2>1 DEF Pending, BookkeepingInv, TypeOK, PendingApart
<1> QED BY <1>1, Bookkeeping, PTL DEF Spec, RedeliveredApart

-----------------------------------------------------------------------------
(* Without any mishap, every message is accounted for *)

LEMMA AccountedInit == Init => HandedNoted /\ Accounted
BY DEF Init, HandedNoted, Accounted

LEMMA AccountedEngine ==
    ASSUME IInv, Mishaps = {},
           \/ \E m \in Messages : Arrive(m)
           \/ \E h \in Hats : Dispatch(h)
           \/ DispatchAgain \/ GivesUp \/ Attempt \/ PutOff \/ Waited
           \/ WokenEarly \/ Kill
    PROVE  HandedNoted' /\ Accounted'
<1> USE DEF IInv, BookkeepingInv, Pending, disk, memory, history
<1>1. CASE \E m \in Messages : Arrive(m)
  BY <1>1 DEF Arrive, OnDisk, HandedNoted, Accounted, Spent
<1>2. CASE \E h \in Hats : Dispatch(h)
  BY <1>2 DEF Dispatch, HandedNoted, Accounted
<1>3. CASE DispatchAgain \/ GivesUp \/ PutOff
  BY <1>3 DEF DispatchAgain, GivesUp, PutOff, HandedNoted, Accounted
<1>4. CASE Attempt
  BY <1>4 DEF Attempt, HandedNoted, Accounted, Actionable
<1>5. CASE Waited \/ WokenEarly
  BY <1>5 DEF Waited, WokenEarly, HandedNoted, Accounted
<1>6. CASE Kill
  BY <1>6 DEF Kill, HandedNoted, Accounted
<1> QED BY <1>1, <1>2, <1>3, <1>4, <1>5, <1>6

LEMMA AccountedEnd ==
    ASSUME IInv, Mishaps = {},
           \/ EndsClean
           \/ \E next \in {"wait", "again", "answering"} : Fails(next)
           \/ \E next \in {"idle", "wait"} : Flush(next) \/ Flushed(next)
    PROVE  HandedNoted' /\ Accounted'
<1> USE DEF IInv, BookkeepingInv, disk, memory, history
<1>1. CASE EndsClean
  BY <1>1 DEF EndsClean, HandedNoted, Accounted
<1>2. CASE \E next \in {"wait", "again", "answering"} : Fails(next)
  BY <1>2 DEF Fails, HandedNoted, Accounted
<1>3. CASE \E next \in {"idle", "wait"} : Flush(next)
  BY <1>3 DEF Flush, HandedNoted, Accounted
<1>4. CASE \E next \in {"idle", "wait"} : Flushed(next)
  BY <1>4 DEF Flushed, HandedNoted, Accounted, DeferredOpen
<1> QED BY <1>1, <1>2, <1>3, <1>4

LEMMA AccountedAnswer ==
    ASSUME IInv, Mishaps = {},
           \/ \E settled \in BOOLEAN : Answers(settled)
           \/ Breaks \/ Exhausts \/ Defers
    PROVE  HandedNoted' /\ Accounted'
<1> USE DEF IInv, BookkeepingInv, disk, memory, history
<1>1. CASE \E settled \in BOOLEAN : Answers(settled)
  BY <1>1 DEF Answers, HatInPlace, NotedMessages, HandedNoted, Accounted
<1>2. CASE Breaks
  BY <1>2 DEF Breaks, HandedNoted, Accounted
<1>3. CASE Exhausts
  BY <1>3 DEF Exhausts, TypeOK, HandedNoted, Accounted, Spent
<1>4. CASE Defers
  BY <1>4 DEF Defers, TypeOK, HandedNoted, Accounted
<1> QED BY <1>1, <1>2, <1>3, <1>4

\* The inductive invariant of a life without mishaps.
THEOREM WithoutMishaps ==
    ASSUME Mishaps = {}
    PROVE  Spec => []IInv
<1>1. Init => IInv
  BY BookkeepingInit, AccountedInit DEF IInv
<1>2. IInv /\ [Next]_vars => IInv'
  <2> SUFFICES ASSUME IInv, [Next]_vars PROVE IInv'
    OBVIOUS
  <2>1. BookkeepingInv'
    BY BookkeepingKept DEF IInv, Orderly
  <2>2. CASE UNCHANGED vars
    BY <2>1, <2>2 DEF vars, disk, memory, history, IInv, HandedNoted,
                      Accounted, Pending, Spent
  <2>3. CASE Next
    BY <2>1, <2>3, AccountedEngine, AccountedEnd, AccountedAnswer DEF Next, IInv
  <2> QED BY <2>2, <2>3
<1> QED BY <1>1, <1>2, PTL DEF Spec

\* Without a mishap, where the run may end, every message that arrived was
\* acted on, settled or given up at the cap (loop.py
\* _terminal_success_blockers).
THEOREM Heard ==
    ASSUME Mishaps = {}
    PROVE  Spec => []HeardBeforeSuccess
<1>1. IInv => HeardBeforeSuccess
  BY DEF IInv, Accounted, HeardBeforeSuccess, Unsettled, Pending
<1> QED BY <1>1, WithoutMishaps, PTL

=============================================================================
