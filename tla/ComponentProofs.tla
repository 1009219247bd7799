-------------------------- MODULE ComponentProofs ---------------------------
(***************************************************************************)
(* Proofs about three components that stand on their own: the outbox and   *)
(* its consumers, the clock of a session, and the bids of liar's dice.     *)
(*                                                                         *)
(* Outbox.  That nothing is lost is not inductive: an acknowledgement is   *)
(* right because its event was delivered by the same pass and nothing can  *)
(* commit below it any more.  LogInv says what the advisory lock gives     *)
(* (numbers commit in their order), RunInv what a pass has done for its    *)
(* batch.                                                                  *)
(*                                                                         *)
(* SessionClock.  The promise about the deadline is not inductive: it says *)
(* nothing of a paused game nor of the row a call is about to write.       *)
(* ClockInv adds both.  A call that has seen no paused time since it read  *)
(* the row writes a row that keeps the promise; one that has is a          *)
(* straddling call.                                                        *)
(*                                                                         *)
(* LiarsDice.  What ValidateBid accepts as an answer is always stronger    *)
(* than the bid it answers, so the bids of a round cannot go in circles    *)
(* however often they change between the strict and the flying mode: for   *)
(* any quantity.                                                           *)
(***************************************************************************)
EXTENDS Outbox, SessionClock, LiarsDice, FiniteSetTheorems, WellFoundedInduction, TLAPS

-----------------------------------------------------------------------------
(* The outbox.                                                             *)

\* One transaction at a time has numbers, and they are above the committed ones.
LogInv ==
    /\ \A e \in events : e < next
    /\ \A t \in Writers : \A e \in open[t] : e < next
    /\ \A t \in Writers : \A e \in open[t] : \A f \in events : f < e
    /\ \A t, u \in Writers : open[t] # {} /\ open[u] # {} => t = u

\* The offset is the number of a committed event.
RowInv == consumer.acked = 0 \/ consumer.acked \in events

\* Before an event of a batch there is only what was delivered and what is
\* in the batch too.
InBatchOrder(batch) ==
    \A e \in batch : \A f \in events \cap Subscribed : f < e => f \in delivered \cup batch

\* What a pass relies on.
RunInv(d) ==
    /\ runs[d].batch \subseteq events
    /\ runs[d].pc \in {"deliver", "acknowledge"} => runs[d].batch # {}
    /\ runs[d].pc = "acknowledge" => Min(runs[d].batch) \in delivered
    /\ InBatchOrder(runs[d].batch)

RunsInv == \A d \in Dispatchers : RunInv(d)

OutboxInv == OutboxTypeOK /\ LogInv /\ RowInv /\ AckedDelivered /\ RunsInv

\* A set of numbers that is not empty has a least one.
LEMMA MinIsLeast ==
    ASSUME NEW S \in SUBSET Nat, S # {}
    PROVE  Min(S) \in S /\ \A e \in S : Min(S) <= e
<1>1. PICK x \in S : \A y \in S : ~(<<y, x>> \in OpToRel(<, Nat))
      BY NatLessThanWellFounded, WFMin, Zenon
<1>2. \A y \in S : x <= y
  <2> SUFFICES ASSUME NEW y \in S, y < x PROVE FALSE
      OBVIOUS
  <2>1. <<y, x>> \in OpToRel(<, Nat)
        BY DEF OpToRel
  <2> QED BY <1>1, <2>1, Zenon
<1> QED BY <1>2, Zenon DEF Min

-----------------------------------------------------------------------------
(* Types.                                                                  *)

\* The event that a pass is about to deliver or to acknowledge.
LEMMA HeadInBatch ==
    ASSUME OutboxTypeOK, RunsInv, NEW d \in Dispatchers, runs[d].pc \in {"deliver", "acknowledge"}
    PROVE  /\ Min(runs[d].batch) \in runs[d].batch
           /\ Min(runs[d].batch) \in Nat \ {0}
           /\ \A e \in runs[d].batch : Min(runs[d].batch) <= e
<1>1. runs[d].batch \in SUBSET (Nat \ {0}) /\ runs[d].batch # {}
      BY DEF OutboxTypeOK, RunType, RunsInv, RunInv
<1>2. runs[d].batch \in SUBSET Nat
      BY <1>1
<1> QED BY <1>1, <1>2, MinIsLeast

\* Writers and clock keep the types.
LEMMA TypeStepLog ==
    ASSUME OutboxTypeOK,
           \/ \E t \in Writers : Insert(t) \/ Commit(t) \/ Rollback(t)
           \/ \E e \in events : BecomeAvailable(e)
           \/ ExpireLease \/ EndBackoff
    PROVE  OutboxTypeOK'
<1>1. ASSUME NEW t \in Writers, Insert(t) PROVE OutboxTypeOK'
      BY <1>1 DEF OutboxTypeOK, Insert
<1>2. ASSUME NEW t \in Writers, Commit(t) PROVE OutboxTypeOK'
  <2>1. open[t] \in SUBSET (Nat \ {0})
        BY DEF OutboxTypeOK
  <2> QED BY <1>2, <2>1, Zenon DEF OutboxTypeOK, Commit
<1>3. ASSUME NEW t \in Writers, Rollback(t) PROVE OutboxTypeOK'
      BY <1>3 DEF OutboxTypeOK, Rollback
<1>4. ASSUME NEW e \in events, BecomeAvailable(e) PROVE OutboxTypeOK'
      BY <1>4 DEF OutboxTypeOK, BecomeAvailable, log
<1>5. CASE ExpireLease
      BY <1>5 DEF OutboxTypeOK, ExpireLease, log
<1>6. CASE EndBackoff
      BY <1>6, Zenon DEF OutboxTypeOK, EndBackoff, log
<1> QED BY <1>1, <1>2, <1>3, <1>4, <1>5, <1>6

\* A dispatcher's step keeps the types.
LEMMA TypeStepPass ==
    ASSUME OutboxTypeOK, RunsInv, NEW d \in Dispatchers, Pass(d)
    PROVE  OutboxTypeOK'
<1> USE DEF log
<1>0. /\ runs[d].pc \in {"idle", "list", "deliver", "acknowledge", "retry", "release"}
      /\ runs[d].held \in ConsumerType
      /\ runs[d].batch \in SUBSET (Nat \ {0})
      /\ runs[d] \in RunType
      /\ consumer \in ConsumerType
      BY DEF OutboxTypeOK, RunType
<1>a. NoPass \in RunType
  <2>1. NewConsumer \in ConsumerType
        BY OutboxAssumption DEF NewConsumer, ConsumerType
  <2> QED BY <2>1 DEF NoPass, RunType
<1>b. ASSUME NEW r \in RunType, Go(d, r) PROVE runs' \in [Dispatchers -> RunType]
      BY <1>b DEF Go, OutboxTypeOK
<1>1. CASE Acquire(d)
  <2>1. consumer' \in ConsumerType
        BY <1>0, <1>1 DEF Acquire, ConsumerType
  <2>2. [pc |-> "list", held |-> consumer', batch |-> {}] \in RunType
        BY <2>1 DEF RunType
  <2>3. runs' \in [Dispatchers -> RunType]
        BY <1>1, <1>b, <2>2 DEF Acquire, OutboxTypeOK
  <2> QED BY <1>1, <2>1, <2>3, Zenon DEF Acquire, OutboxTypeOK
<1>2. CASE List(d)
  <2>1. Listed \in SUBSET (Nat \ {0})
        BY Zenon DEF OutboxTypeOK, Listed, Candidates, Pending
  <2>2. PICK b \in SUBSET (Nat \ {0}), p \in {"release", "deliver"} :
             Go(d, [runs[d] EXCEPT !.pc = p, !.batch = b])
        BY <1>2, <2>1, Zenon DEF List
  <2>3. [runs[d] EXCEPT !.pc = p, !.batch = b] \in RunType
        BY <1>0, Zenon DEF RunType
  <2>4. runs' \in [Dispatchers -> RunType]
        BY <1>b, <2>2, <2>3
  <2> QED BY <1>2, <2>4 DEF List, OutboxTypeOK
<1>3. CASE Deliver(d)
  <2>1. [runs[d] EXCEPT !.pc = "acknowledge"] \in RunType
        BY <1>0 DEF RunType
  <2>2. runs' \in [Dispatchers -> RunType]
        BY <1>3, <1>b, <2>1 DEF Deliver
  <2>3. Min(runs[d].batch) \in Nat \ {0}
        BY <1>3, HeadInBatch DEF Deliver
  <2> QED BY <1>3, <2>2, <2>3 DEF Deliver, OutboxTypeOK
<1>4. CASE FailDelivery(d)
  <2>1. [runs[d] EXCEPT !.pc = "retry"] \in RunType
        BY <1>0 DEF RunType
  <2>2. runs' \in [Dispatchers -> RunType]
        BY <1>4, <1>b, <2>1 DEF FailDelivery
  <2>3. Min(runs[d].batch) \in Nat \ {0}
        BY <1>4, HeadInBatch DEF FailDelivery
  <2> QED BY <1>4, <2>2, <2>3 DEF FailDelivery, OutboxTypeOK
<1>5. CASE Acknowledge(d)
  <2> DEFINE e == Min(runs[d].batch)
             rest == runs[d].batch \ {e}
  <2>1. e \in Nat
        BY <1>5, HeadInBatch DEF Acknowledge
  <2>2. consumer' \in ConsumerType
    <3>1. consumer' = [consumer EXCEPT !.acked = e, !.retries = 0]
          BY <1>5 DEF Acknowledge
    <3>2. consumer \in ConsumerType /\ 0 \in 0 .. MaxRetries
          BY <1>0, OutboxAssumption
    <3> HIDE DEF e
    <3> QED BY <2>1, <3>1, <3>2, Zenon DEF ConsumerType
  <2>3. [pc |-> IF rest = {} THEN "release" ELSE "deliver", held |-> consumer', batch |-> rest] \in RunType
        BY <1>0, <2>2 DEF RunType
  <2>4. [runs[d] EXCEPT !.pc = "release"] \in RunType
        BY <1>0 DEF RunType
  <2>5. runs' \in [Dispatchers -> RunType]
        BY <1>5, <1>b, <2>3, <2>4 DEF Acknowledge
  <2> QED BY <1>5, <2>2, <2>5, Zenon DEF Acknowledge, OutboxTypeOK
<1>6. CASE RecordRetry(d)
  <2>1. consumer' \in ConsumerType
        BY <1>0, <1>6, OutboxAssumption DEF RecordRetry, Current, ConsumerType
  <2>2. [runs[d] EXCEPT !.pc = "release", !.held = consumer'] \in RunType
        BY <1>0, <2>1, Zenon DEF RunType
  <2>3. runs' \in [Dispatchers -> RunType]
        BY <1>6, <1>a, <1>b, <2>2 DEF RecordRetry
  <2> QED BY <1>6, <2>1, <2>3 DEF RecordRetry, OutboxTypeOK
<1>7. CASE GiveUp(d) \/ RetryExhausted(d)
  <2>1. [runs[d] EXCEPT !.pc = "release"] \in RunType
        BY <1>0 DEF RunType
  <2>2. runs' \in [Dispatchers -> RunType]
        BY <1>7, <1>b, <2>1 DEF GiveUp, RetryExhausted
  <2> QED BY <1>7, <2>2 DEF GiveUp, RetryExhausted, OutboxTypeOK
<1>8. CASE Release(d)
  <2>1. consumer' \in ConsumerType
        BY <1>0, <1>8 DEF Release, ConsumerType
  <2>2. runs' \in [Dispatchers -> RunType]
        BY <1>8, <1>a, <1>b DEF Release
  <2> QED BY <1>8, <2>1, <2>2 DEF Release, OutboxTypeOK
<1>9. CASE Stop(d)
  <2>1. runs' \in [Dispatchers -> RunType]
        BY <1>9, <1>a, <1>b DEF Stop
  <2> QED BY <1>9, <2>1 DEF Stop, OutboxTypeOK
<1> QED BY <1>1, <1>2, <1>3, <1>4, <1>5, <1>6, <1>7, <1>8, <1>9 DEF Pass

\* Every step keeps the types.
LEMMA OutboxTypeStep == ASSUME OutboxTypeOK, RunsInv, [OutboxNext]_outboxVars PROVE OutboxTypeOK'
<1>1. CASE UNCHANGED outboxVars
      BY <1>1 DEF outboxVars, log, OutboxTypeOK
<1> QED BY <1>1, TypeStepLog, TypeStepPass DEF OutboxNext

-----------------------------------------------------------------------------
(* The log.                                                                *)

\* A dispatcher leaves the log alone and takes no delivery back.
LEMMA PassFrame ==
    ASSUME NEW d \in Dispatchers, Pass(d)
    PROVE  UNCHANGED <<log, ready>> /\ delivered \subseteq delivered'
BY Zenon DEF Pass, Acquire, List, Deliver, FailDelivery, Acknowledge, GiveUp, RecordRetry,
       RetryExhausted, Release, Stop

\* Numbers are committed in their order: the advisory lock is held from the
\* drawing of a number to the end of the transaction.
LEMMA LogStep == ASSUME OutboxTypeOK, LogInv, [OutboxNext]_outboxVars PROVE LogInv'
<1>1. ASSUME NEW t \in Writers, Insert(t) PROVE LogInv'
      BY <1>1 DEF OutboxTypeOK, LogInv, Insert
<1>2. ASSUME NEW t \in Writers, Commit(t) PROVE LogInv'
      BY <1>2 DEF OutboxTypeOK, LogInv, Commit
<1>3. ASSUME NEW t \in Writers, Rollback(t) PROVE LogInv'
      BY <1>3 DEF OutboxTypeOK, LogInv, Rollback
<1>4. CASE UNCHANGED log
      BY <1>4 DEF LogInv, log
<1>5. CASE \/ \E e \in events : BecomeAvailable(e)
           \/ ExpireLease \/ EndBackoff \/ UNCHANGED outboxVars
      BY <1>4, <1>5 DEF BecomeAvailable, ExpireLease, EndBackoff, outboxVars
<1> QED BY <1>1, <1>2, <1>3, <1>4, <1>5, PassFrame DEF OutboxNext

-----------------------------------------------------------------------------
(* The offset.                                                             *)

\* Only an acknowledgement changes the offset, to the head of its batch.
LEMMA OffsetStep ==
    ASSUME OutboxTypeOK, [OutboxNext]_outboxVars
    PROVE  \/ consumer'.acked = consumer.acked
           \/ \E d \in Dispatchers : Acknowledge(d)
<1>1. ASSUME NEW d \in Dispatchers, Pass(d), ~Acknowledge(d) PROVE consumer'.acked = consumer.acked
      BY <1>1, Zenon DEF Pass, Acquire, List, Deliver, FailDelivery, GiveUp, RecordRetry,
                  RetryExhausted, Release, Stop, OutboxTypeOK, ConsumerType
<1> QED BY <1>1 DEF OutboxNext, Insert, Commit, Rollback, BecomeAvailable, ExpireLease, EndBackoff, outboxVars

\* What an acknowledgement that is accepted has found in the row and the log.
LEMMA AcknowledgeFacts ==
    ASSUME OutboxInv, NEW d \in Dispatchers, Acknowledge(d)
    PROVE  /\ consumer'.acked = Min(runs[d].batch)
           /\ consumer'.acked \in events \cap delivered
           /\ consumer.acked \in Nat /\ consumer'.acked \in Nat
           /\ consumer.acked < consumer'.acked
           /\ \A f \in events \cap Subscribed : ~(consumer.acked < f /\ f < consumer'.acked)
<1> DEFINE e == Min(runs[d].batch)
<1>1. consumer' = [consumer EXCEPT !.acked = e, !.retries = 0] /\ Current(d) /\ NextInOrder(runs[d].held.acked, e)
      BY DEF Acknowledge
<1>2. e \in delivered
      BY DEF Acknowledge, OutboxInv, RunsInv, RunInv
<1>3. e \in Nat
      BY HeadInBatch DEF Acknowledge, OutboxInv
<1> HIDE DEF e
<1>4. consumer \in ConsumerType /\ ready \subseteq events
      BY DEF OutboxInv, OutboxTypeOK
<1>5. consumer'.acked = e /\ consumer.acked \in Nat
      BY <1>1, <1>4 DEF ConsumerType
<1>6. NextInOrder(consumer.acked, e)
      BY <1>1 DEF Current
<1>7. /\ e \in events /\ consumer.acked < e
      /\ \A f \in events \cap Subscribed : ~(consumer.acked < f /\ f < e)
      BY <1>4, <1>6 DEF NextInOrder
<1> QED BY <1>2, <1>3, <1>5, <1>7 DEF e

\* Committed events stay.
LEMMA EventsStay == ASSUME [OutboxNext]_outboxVars PROVE events \subseteq events'
BY PassFrame DEF OutboxNext, Insert, Commit, Rollback, BecomeAvailable, ExpireLease, EndBackoff, outboxVars, log

\* Deliveries stay.
LEMMA DeliveriesStay == ASSUME [OutboxNext]_outboxVars PROVE delivered \subseteq delivered'
BY PassFrame DEF OutboxNext, Insert, Commit, Rollback, BecomeAvailable, ExpireLease, EndBackoff, outboxVars

\* The offset stays the number of a committed event.
LEMMA RowStep == ASSUME OutboxInv, [OutboxNext]_outboxVars PROVE RowInv'
<1>1. OutboxTypeOK
      BY DEF OutboxInv
<1>2. CASE consumer'.acked = consumer.acked
      BY <1>2, EventsStay DEF OutboxInv, RowInv
<1>3. ASSUME NEW d \in Dispatchers, Acknowledge(d) PROVE RowInv'
      BY <1>3, AcknowledgeFacts, EventsStay DEF RowInv
<1> QED BY <1>1, <1>2, <1>3, OffsetStep

\* Nothing is acknowledged before it is delivered, and nothing is committed
\* below the offset.
LEMMA AckedStep == ASSUME OutboxInv, [OutboxNext]_outboxVars PROVE AckedDelivered'
<1>0. OutboxTypeOK /\ LogInv /\ RowInv /\ AckedDelivered
      BY DEF OutboxInv
<1>1. ASSUME NEW t \in Writers, Commit(t) PROVE AckedDelivered'
  <2>1. consumer.acked \in Nat /\ consumer' = consumer /\ delivered' = delivered
        BY <1>0, <1>1 DEF Commit, OutboxTypeOK, ConsumerType
  <2>2. ASSUME NEW e \in events' PROVE e \in events \/ consumer.acked < e
        BY <1>0, <1>1, <2>1 DEF Commit, LogInv, RowInv, OutboxTypeOK
  <2>3. events' \subseteq Nat
        BY <1>0, <1>1, Zenon DEF Commit, OutboxTypeOK
  <2> QED BY <1>0, <2>1, <2>2, <2>3 DEF AckedDelivered
<1>2. ASSUME NEW d \in Dispatchers, Acknowledge(d) PROVE AckedDelivered'
  <2>1. events' = events /\ delivered' = delivered /\ events \subseteq Nat
        BY <1>0, <1>2 DEF Acknowledge, log, OutboxTypeOK
  <2>2. /\ consumer'.acked \in delivered /\ consumer.acked \in Nat /\ consumer'.acked \in Nat
        /\ \A f \in events \cap Subscribed : ~(consumer.acked < f /\ f < consumer'.acked)
        BY <1>2, AcknowledgeFacts
  <2> QED BY <1>0, <2>1, <2>2 DEF AckedDelivered
<1>3. CASE consumer'.acked = consumer.acked /\ events' = events
      BY <1>0, <1>3, DeliveriesStay DEF AckedDelivered
<1>4. events' = events \/ \E t \in Writers : Commit(t)
      BY PassFrame DEF OutboxNext, Insert, Rollback, BecomeAvailable, ExpireLease, EndBackoff, outboxVars, log
<1> QED BY <1>0, <1>1, <1>2, <1>3, <1>4, OffsetStep

-----------------------------------------------------------------------------
(* The passes.                                                             *)

\* What is listed leaves no committed event out that is not delivered.
LEMMA ListedInOrder == ASSUME OutboxInv PROVE Listed \subseteq events /\ InBatchOrder(Listed)
<1>1. /\ Listed \subseteq events
      /\ Listed \subseteq Candidates /\ Candidates \subseteq Pending /\ Pending \subseteq events
      BY DEF Listed, Candidates, Pending
<1>2. /\ events \subseteq Nat /\ next \in Nat /\ consumer.acked \in Nat /\ BatchSize \in Nat
      /\ \A g \in events : g < next
      BY OutboxAssumption DEF OutboxInv, OutboxTypeOK, ConsumerType, LogInv
<1> SUFFICES ASSUME NEW e \in Listed, NEW f \in events \cap Subscribed, f < e, f \notin delivered
             PROVE  f \in Listed
    BY <1>1 DEF InBatchOrder
<1>3. f \in Pending
      BY <1>2 DEF OutboxInv, AckedDelivered, Pending
<1> DEFINE Before(g) == {h \in Pending : h < g}
<1>4. IsFiniteSet(Before(e))
  <2>1. \A h \in Pending : h \in Nat /\ h < next /\ h <= next
        BY <1>1, <1>2
  <2>2. Before(e) \in SUBSET Nat /\ \A h \in Before(e) : h <= next
        BY <2>1
  <2> QED BY <1>2, <2>2, FS_BoundedSetOfNaturals, Zenon
<1>5. Before(f) \in SUBSET Before(e)
  <2>1. e \in Nat /\ f \in Nat /\ \A h \in Pending : h \in Nat
        BY <1>1, <1>2
  <2> QED BY <2>1
<1>6. Cardinality(Before(f)) <= Cardinality(Before(e)) /\ IsFiniteSet(Before(f))
      BY <1>4, <1>5, FS_Subset
<1>7. Cardinality(Before(e)) < BatchSize
      BY <1>1 DEF Candidates
<1>8. Cardinality(Before(e)) \in Nat /\ Cardinality(Before(f)) \in Nat
      BY <1>4, <1>6, FS_CardinalityType
<1>9. Cardinality(Before(f)) < BatchSize
  <2> HIDE DEF Before
  <2> QED BY <1>2, <1>6, <1>7, <1>8
<1>10. f \in Candidates
      BY <1>3, <1>9 DEF Candidates
<1>11. \A g \in Candidates : g <= f => g \in ready
  <2> SUFFICES ASSUME NEW g \in Candidates, g <= f PROVE g \in ready
      OBVIOUS
  <2>1. g \in Nat /\ f \in Nat /\ e \in Nat
        BY <1>1, <1>2
  <2>2. g <= e
        BY <2>1
  <2> QED BY <2>2 DEF Listed
<1> QED BY <1>10, <1>11 DEF Listed

\* A pass whose batch stays, or loses only a delivered event, relies on the
\* same facts.
LEMMA BatchKept ==
    ASSUME RunsInv, NEW u \in Dispatchers, events' = events, delivered \subseteq delivered',
           runs[u].batch \ delivered \subseteq runs'[u].batch, runs'[u].batch \subseteq runs[u].batch
    PROVE  runs'[u].batch \subseteq events' /\ InBatchOrder(runs[u].batch)'
BY DEF RunsInv, RunInv, InBatchOrder

\* Every step keeps what the passes rely on.
LEMMA RunsStep == ASSUME OutboxInv, [OutboxNext]_outboxVars PROVE RunsInv'
<1>0. OutboxTypeOK /\ LogInv /\ RunsInv
      BY DEF OutboxInv
<1> SUFFICES ASSUME NEW u \in Dispatchers PROVE RunInv(u)'
    BY DEF RunsInv
<1>1. ASSUME NEW t \in Writers, Commit(t) PROVE RunInv(u)'
  <2>1. runs' = runs /\ delivered' = delivered /\ events' = events \cup open[t]
        BY <1>1 DEF Commit
  <2>2. RunInv(u) /\ events \subseteq Nat /\ open[t] \subseteq Nat
        BY <1>0 DEF RunsInv, OutboxTypeOK
  <2>3. \A e \in runs[u].batch : \A f \in open[t] : ~(f < e)
    <3>1. runs[u].batch \subseteq events
          BY <2>2 DEF RunInv
    <3>2. \A f \in open[t] : \A e \in events : e < f
          BY <1>0 DEF LogInv
    <3> SUFFICES ASSUME NEW e \in runs[u].batch, NEW f \in open[t], f < e PROVE FALSE
        OBVIOUS
    <3>3. e \in Nat /\ f \in Nat /\ e < f
          BY <2>2, <3>1, <3>2, Zenon
    <3> QED BY <3>3
  <2>4. InBatchOrder(runs[u].batch)'
        BY <2>1, <2>2, <2>3 DEF RunInv, InBatchOrder
  <2> QED BY <2>1, <2>2, <2>4 DEF RunInv
<1>2. ASSUME events' = events, delivered \subseteq delivered', runs'[u] = runs[u] PROVE RunInv(u)'
  <2>1. runs'[u].batch \subseteq events' /\ InBatchOrder(runs[u].batch)'
        BY <1>0, <1>2, BatchKept
  <2> QED BY <1>0, <1>2, <2>1 DEF RunsInv, RunInv
<1>3. CASE \/ \E t \in Writers : Insert(t) \/ Rollback(t)
           \/ \E e \in events : BecomeAvailable(e)
           \/ ExpireLease \/ EndBackoff \/ UNCHANGED outboxVars
      BY <1>2, <1>3 DEF Insert, Rollback, BecomeAvailable, ExpireLease, EndBackoff, outboxVars, log
<1>4. ASSUME NEW d \in Dispatchers, Pass(d) PROVE RunInv(u)'
  <2>0. events' = events /\ delivered \subseteq delivered'
        BY <1>4, PassFrame DEF log
  <2>a. ASSUME NEW r, Go(d, r) PROVE runs'[d] = r /\ (u # d => runs'[u] = runs[u])
        BY <1>0, <2>a DEF Go, OutboxTypeOK
  <2>1. CASE u # d
        BY <1>2, <1>4, <2>0, <2>1, <2>a, Zenon
        DEF Pass, Acquire, List, Deliver, FailDelivery, Acknowledge, GiveUp, RecordRetry,
            RetryExhausted, Release, Stop
  <2>2. CASE u = d
    <3> USE <2>2
    <3>a. ASSUME runs'[d].batch = {}, runs'[d].pc \notin {"deliver", "acknowledge"} PROVE RunInv(u)'
          BY <3>a DEF RunInv, InBatchOrder
    <3>b. ASSUME runs'[d].batch = runs[d].batch, runs'[d].pc \notin {"deliver", "acknowledge"}
          PROVE  RunInv(u)'
      <4>1. runs'[u].batch \subseteq events' /\ InBatchOrder(runs[u].batch)'
            BY <1>0, <2>0, <3>b, BatchKept
      <4> QED BY <3>b, <4>1 DEF RunInv
    <3>c. runs[d] \in RunType
          BY <1>0 DEF OutboxTypeOK
    <3>1. CASE Acquire(d)
          BY <1>2, <2>0, <2>a, <3>1, <3>a DEF Acquire
    <3>2. CASE List(d)
      <4>1. \/ runs'[d].batch = {} /\ runs'[d].pc = "release"
            \/ runs'[d].batch = Listed /\ Listed # {} /\ runs'[d].pc = "deliver"
            \/ runs'[d].batch = Listed /\ Listed = {} /\ runs'[d].pc = "release"
        <5>1. PICK b \in {{}, Listed} :
                   Go(d, [runs[d] EXCEPT !.pc = IF b = {} THEN "release" ELSE "deliver", !.batch = b])
              BY <3>2, Zenon DEF List
        <5>2. runs'[d] = [runs[d] EXCEPT !.pc = IF b = {} THEN "release" ELSE "deliver", !.batch = b]
              BY <2>a, <5>1
        <5>3. runs'[d].batch = b /\ runs'[d].pc = IF b = {} THEN "release" ELSE "deliver"
              BY <3>c, <5>2 DEF RunType
        <5> QED BY <5>1, <5>3
      <4>2. CASE runs'[d].batch = Listed /\ Listed # {} /\ runs'[d].pc = "deliver"
        <5>1. Listed \subseteq events /\ InBatchOrder(Listed)
              BY ListedInOrder
        <5>2. InBatchOrder(runs[d].batch)'
              BY <2>0, <4>2, <5>1 DEF InBatchOrder
        <5> QED BY <2>0, <4>2, <5>1, <5>2 DEF RunInv
      <4> QED BY <3>a, <4>1, <4>2
    <3>3. CASE Deliver(d)
      <4>1. /\ runs'[d].batch = runs[d].batch /\ runs'[d].pc = "acknowledge"
            /\ runs[d].batch # {} /\ delivered' = delivered \cup {Min(runs[d].batch)}
            BY <1>0, <2>a, <3>3, <3>c DEF Deliver, RunType, RunsInv, RunInv
      <4>2. runs'[u].batch \subseteq events' /\ InBatchOrder(runs[u].batch)'
            BY <1>0, <2>0, <4>1, BatchKept
      <4> QED BY <4>1, <4>2 DEF RunInv
    <3>4. CASE FailDelivery(d)
          BY <2>a, <3>4, <3>b, <3>c DEF FailDelivery, RunType
    <3>5. CASE Acknowledge(d)
      <4> DEFINE e == Min(runs[d].batch)
                 rest == runs[d].batch \ {e}
      <4>1. \/ runs'[d].batch = rest /\ runs'[d].pc = IF rest = {} THEN "release" ELSE "deliver"
            \/ runs'[d].batch = runs[d].batch /\ runs'[d].pc = "release"
            BY <2>a, <3>5, <3>c DEF Acknowledge, RunType
      <4>2. e \in delivered
            BY <1>0, <3>5 DEF Acknowledge, RunsInv, RunInv
      <4>3. CASE runs'[d].batch = rest /\ runs'[d].pc = IF rest = {} THEN "release" ELSE "deliver"
        <5>1. runs'[u].batch \subseteq events' /\ InBatchOrder(runs[u].batch)'
              BY <1>0, <2>0, <4>2, <4>3, BatchKept, Zenon
        <5> QED BY <4>3, <5>1 DEF RunInv
      <4> QED BY <3>b, <4>1, <4>3
    <3>6. CASE GiveUp(d) \/ RetryExhausted(d)
          BY <2>a, <3>6, <3>b, <3>c DEF GiveUp, RetryExhausted, RunType
    <3>7. CASE RecordRetry(d)
      <4>1. runs'[d] = [runs[d] EXCEPT !.pc = "release", !.held = consumer'] \/ runs'[d] = NoPass
            BY <2>a, <3>7 DEF RecordRetry
      <4>2. \/ runs'[d].batch = runs[d].batch /\ runs'[d].pc = "release"
            \/ runs'[d].batch = {} /\ runs'[d].pc = "idle"
        <5>1. CASE runs'[d] = [runs[d] EXCEPT !.pc = "release", !.held = consumer']
              BY <3>c, <5>1 DEF RunType
        <5>2. CASE runs'[d] = NoPass
              BY <5>2 DEF NoPass
        <5> QED BY <4>1, <5>1, <5>2
      <4> QED BY <3>a, <3>b, <4>2
    <3>8. CASE Release(d) \/ Stop(d)
          BY <2>a, <3>8, <3>a DEF Release, Stop, NoPass
    <3> QED BY <1>4, <3>1, <3>2, <3>3, <3>4, <3>5, <3>6, <3>7, <3>8 DEF Pass
  <2> QED BY <2>1, <2>2
<1> QED BY <1>1, <1>3, <1>4 DEF OutboxNext

-----------------------------------------------------------------------------
(* The theorems.                                                           *)

\* OutboxInv holds in every reachable state.
LEMMA OutboxInvariance == OutboxSpec => []OutboxInv
<1>1. OutboxInit => OutboxInv
  <2> SUFFICES ASSUME OutboxInit PROVE OutboxInv
      OBVIOUS
  <2>1. NewConsumer \in ConsumerType /\ NewConsumer.acked = 0
        BY OutboxAssumption DEF NewConsumer, ConsumerType
  <2>2. NoPass \in RunType
        BY <2>1 DEF NoPass, RunType
  <2>3. OutboxTypeOK
    <3>1. runs \in [Dispatchers -> RunType] /\ consumer \in ConsumerType
          BY <2>1, <2>2 DEF OutboxInit
    <3>2. next \in Nat \ {0} /\ open \in [Writers -> SUBSET (Nat \ {0})]
          BY DEF OutboxInit
    <3>3. expired \in BOOLEAN /\ waiting \in BOOLEAN
          BY Zenon DEF OutboxInit
    <3>4. events \subseteq Nat \ {0} /\ ready \subseteq events /\ delivered \subseteq Nat \ {0}
          BY DEF OutboxInit
    <3> QED BY <3>1, <3>2, <3>3, <3>4 DEF OutboxTypeOK
  <2>4. LogInv /\ RowInv /\ AckedDelivered
        BY <2>1 DEF OutboxInit, LogInv, RowInv, AckedDelivered
  <2>5. RunsInv
        BY DEF OutboxInit, RunsInv, RunInv, InBatchOrder, NoPass
  <2> QED BY <2>3, <2>4, <2>5 DEF OutboxInv
<1>2. OutboxInv /\ [OutboxNext]_outboxVars => OutboxInv'
      BY OutboxTypeStep, LogStep, RowStep, AckedStep, RunsStep DEF OutboxInv
<1> QED BY <1>1, <1>2, PTL DEF OutboxSpec

\* Log, row and passes keep their types; RecordRetry never counts beyond
\* MaximumRetryCount.
THEOREM OutboxTypeCorrect == OutboxSpec => []OutboxTypeOK
<1>1. OutboxInv => OutboxTypeOK
      BY DEF OutboxInv
<1> QED BY OutboxInvariance, <1>1, PTL

\* The offset of a consumer never passes an event that was not delivered,
\* whatever transactions were open and however many dispatchers ran.
THEOREM NothingLost == OutboxSpec => []AckedDelivered
<1>1. OutboxInv => AckedDelivered
      BY DEF OutboxInv
<1> QED BY OutboxInvariance, <1>1, PTL

\* A dispatcher that lost the lease cannot move the offset back.
THEOREM OffsetNeverBack == OutboxSpec => OffsetAdvances
<1>1. OutboxInv /\ [OutboxNext]_outboxVars => [consumer.acked <= consumer'.acked]_outboxVars
  <2> SUFFICES ASSUME OutboxInv, [OutboxNext]_outboxVars PROVE consumer.acked <= consumer'.acked
      OBVIOUS
  <2>1. OutboxTypeOK /\ consumer.acked \in Nat
        BY DEF OutboxInv, OutboxTypeOK, ConsumerType
  <2>2. ASSUME NEW d \in Dispatchers, Acknowledge(d) PROVE consumer.acked <= consumer'.acked
        BY <2>2, AcknowledgeFacts
  <2> QED BY <2>1, <2>2, OffsetStep
<1> QED BY OutboxInvariance, <1>1, PTL DEF OutboxSpec, OffsetAdvances

\* The events reach the deliverer in the order of their numbers: the first
\* delivery of one comes after those of all committed before it.
THEOREM InOrder == OutboxSpec => DeliveredInOrder
<1> DEFINE Ordered == \A e \in delivered' \ delivered :
                         \A f \in events \cap Subscribed : f < e => f \in delivered
<1>1. OutboxInv /\ [OutboxNext]_outboxVars => [Ordered]_outboxVars
  <2> SUFFICES ASSUME OutboxInv, [OutboxNext]_outboxVars,
                      NEW e \in delivered' \ delivered, NEW f \in events \cap Subscribed, f < e
               PROVE  f \in delivered
      OBVIOUS
  <2>1. PICK d \in Dispatchers : Deliver(d) \/ FailDelivery(d)
        BY Zenon DEF OutboxNext, Pass, Insert, Commit, Rollback, BecomeAvailable, ExpireLease, EndBackoff,
               Acquire, List, Acknowledge, GiveUp, RecordRetry, RetryExhausted, Release, Stop, outboxVars
  <2>2. e = Min(runs[d].batch) /\ runs[d].pc = "deliver"
        BY <2>1 DEF Deliver, FailDelivery
  <2>3. e \in runs[d].batch /\ e \in Nat /\ \A g \in runs[d].batch : e <= g
        BY <2>2, HeadInBatch DEF OutboxInv
  <2>4. f \in delivered \cup runs[d].batch
        BY <2>3 DEF OutboxInv, RunsInv, RunInv, InBatchOrder
  <2>5. f \in Nat
        BY DEF OutboxInv, OutboxTypeOK
  <2> QED BY <2>3, <2>4, <2>5
<1> QED BY OutboxInvariance, <1>1, PTL DEF OutboxSpec, DeliveredInOrder

-----------------------------------------------------------------------------
(* The clock.                                                              *)


\* No time that is stored or about to be stored lies in the future.
TimesPast ==
    /\ row.suspendedAt <= now
    /\ \A w \in Workers : calls[w] # Idle =>
          calls[w].at <= now /\ calls[w].after.suspendedAt <= now

TypeInv == TypeOK /\ TimesPast

\* The deadline while the game is paused: the time of this pause is missing.
PausedDeadline ==
    row.status = "suspended" =>
        row.due + row.rest + (now - row.suspendedAt) = row.start + Delay + paused

\* What a call will write keeps the promise as of the time it read the row.
CallKeeps(c) ==
    c.kind \in {"action", "timer"} =>
        /\ c.after.status = "active"
        /\ c.after.due + c.after.rest = c.after.start + Delay + c.resumed

Promise ==
    /\ DeadlineKept
    /\ PausedDeadline
    /\ \A w \in Workers : calls[w] # Idle => CallKeeps(calls[w])

ClockInv == TypeInv /\ (straddled \/ Promise)

-----------------------------------------------------------------------------
\* The row that begins a phase is a row.
LEMMA NewPhaseType ==
    ASSUME ClockAssumption, NEW v \in Nat \ {0}, NEW at \in Nat, NEW rest \in Nat
    PROVE  /\ NewPhase(v, at, rest) \in RowType
           /\ NewPhase(v, at, rest).suspendedAt = 0
BY DEF ClockAssumption, NewPhase, RowType, Statuses

\* A call that computed a row from the stored one is a call.
LEMMA ComputedType ==
    ASSUME TypeOK, NEW kind \in {"scan", "action", "timer"}, NEW after \in RowType
    PROVE  Computed(kind, after) \in CallType
BY DEF Computed, CallType, TypeOK

\* No call is mistaken for the absence of one.
LEMMA IdleIsNoCall == \A c \in CallType : c # Idle
BY DEF CallType, Idle

\* A held call that is not idle is a call.
LEMMA HeldIsCall == ASSUME TypeOK, NEW w \in Workers, calls[w] # Idle PROVE calls[w] \in CallType
BY DEF TypeOK

\* A load keeps the types when the row it computed is one, of past times.
LEMMA HoldType ==
    ASSUME TypeInv, NEW w \in Workers, NEW kind \in {"scan", "action", "timer"},
           NEW after \in RowType, after.suspendedAt <= now, Hold(w, Computed(kind, after))
    PROVE  TypeInv'
<1>1. Computed(kind, after) \in CallType
      BY ComputedType DEF TypeInv
<1>2. Computed(kind, after).at = now /\ Computed(kind, after).after = after
      BY DEF Computed
<1>3. TypeOK'
      BY <1>1 DEF Hold, TypeOK, TypeInv
<1>4. TimesPast'
  <2>1. (row.suspendedAt <= now)'
        BY DEF TypeInv, TimesPast, Hold
  <2>2. ASSUME NEW v \in Workers, (calls[v] # Idle)'
        PROVE  (calls[v].at <= now /\ calls[v].after.suspendedAt <= now)'
    <3>1. CASE v = w
          BY <1>2, <3>1 DEF Hold, TypeInv, TypeOK
    <3>2. CASE v # w
          BY <2>2, <3>2 DEF Hold, TypeInv, TypeOK, TimesPast
    <3> QED BY <3>1, <3>2
  <2> QED BY <2>1, <2>2 DEF TimesPast
<1> QED BY <1>3, <1>4 DEF TypeInv

\* A commit keeps the types: it writes a row that the call holds.
LEMMA PersistType ==
    ASSUME TypeInv, NEW w \in Workers, calls[w] # Idle, Persist(w) PROVE TypeInv'
<1>1. calls[w] \in CallType
      BY HeldIsCall DEF TypeInv
<1>2. calls[w].after \in RowType /\ calls[w].resumed \in Nat /\ calls[w].after.suspendedAt <= now
      BY <1>1 DEF CallType, TypeInv, TimesPast
<1>3. TypeOK'
      BY <1>2 DEF Persist, TypeOK, TypeInv
<1>4. TimesPast'
      BY <1>2 DEF Persist, TypeOK, TypeInv, TimesPast
<1> QED BY <1>3, <1>4 DEF TypeInv

\* Every step keeps the types.
LEMMA TypeStep == ASSUME ClockAssumption, TypeInv, [Next]_vars PROVE TypeInv'
<1>0. row \in RowType /\ now \in Nat /\ paused \in Nat
      BY DEF TypeInv, TypeOK
<1>1. CASE Tick
  <2>1. TypeOK'
        BY <1>1 DEF Tick, TypeOK, TypeInv
  <2>2. \A w \in Workers : calls[w] # Idle => calls[w].at \in Nat /\ calls[w].after.suspendedAt \in Nat
        BY HeldIsCall DEF TypeInv, CallType, RowType
  <2>3. TimesPast'
        BY <1>0, <1>1, <2>2 DEF Tick, TypeInv, TimesPast, RowType
  <2> QED BY <2>1, <2>3 DEF TypeInv
<1>2. CASE Pause
  <2>1. TypeOK'
        BY <1>0, <1>2, Zenon DEF Pause, TypeOK, TypeInv, RowType, Statuses
  <2> QED BY <1>0, <1>2, <2>1 DEF Pause, TypeInv, TimesPast, RowType
<1>3. CASE Resume
  <2>1. Shifted(row) \in Nat
        BY <1>0 DEF Shifted, TypeInv, TimesPast, RowType
  <2>2. TypeOK'
        BY <1>0, <1>3, <2>1, Zenon DEF Resume, TypeOK, TypeInv, RowType, Statuses
  <2> QED BY <1>0, <1>3, <2>2 DEF Resume, TypeInv, TimesPast, RowType
<1>4. ASSUME NEW w \in Workers, LoadAction(w) PROVE TypeInv'
  <2>1. PICK after \in {[row EXCEPT !.version = @ + 1], NewPhase(row.version + 1, now, paused)} :
            Hold(w, Computed("action", after))
        BY <1>4 DEF LoadAction
  <2>2. after \in RowType /\ after.suspendedAt <= now
    <3>1. CASE after = [row EXCEPT !.version = @ + 1]
          BY <1>0, <3>1 DEF RowType, TypeInv, TimesPast
    <3>2. CASE after = NewPhase(row.version + 1, now, paused)
          BY <1>0, <3>2, NewPhaseType DEF RowType
    <3> QED BY <2>1, <3>1, <3>2
  <2> QED BY <2>1, <2>2, HoldType
<1>5. ASSUME NEW w \in Workers, Scan(w) PROVE TypeInv'
      BY <1>0, <1>5, HoldType DEF Scan, TypeInv, TimesPast
<1>6. ASSUME NEW w \in Workers, LoadTimer(w) PROVE TypeInv'
  <2>1. row.version + 1 \in Nat \ {0}
        BY <1>0 DEF RowType
  <2>2. NewPhase(row.version + 1, now, paused) \in RowType
        /\ NewPhase(row.version + 1, now, paused).suspendedAt <= now
        BY <1>0, <2>1, NewPhaseType
  <2> QED BY <1>6, <2>2, HoldType DEF LoadTimer
<1>7. ASSUME NEW w \in Workers, CommitAction(w) \/ CommitTimer(w) PROVE TypeInv'
      BY <1>7, PersistType DEF CommitAction, CommitTimer, Idle
<1>8. ASSUME NEW w \in Workers, Fail(w) PROVE TypeInv'
      BY <1>8 DEF Fail, Hold, TypeInv, TypeOK, TimesPast
<1>9. CASE UNCHANGED vars
      BY <1>9 DEF vars, TypeInv, TypeOK, TimesPast
<1> QED BY <1>1, <1>2, <1>3, <1>4, <1>5, <1>6, <1>7, <1>8, <1>9 DEF Next

\* The clock starts with everything of its type.
LEMMA TypeInit == ASSUME ClockAssumption, Init PROVE TypeInv
<1>1. row \in RowType /\ row.suspendedAt = 0
      BY NewPhaseType DEF Init
<1>2. calls \in [Workers -> {Idle} \cup CallType] /\ \A w \in Workers : calls[w] = Idle
      BY DEF Init
<1>3. now = 0 /\ paused = 0 /\ straddled \in BOOLEAN
      BY Zenon DEF Init
<1> QED BY <1>1, <1>2, <1>3 DEF TypeInv, TypeOK, TimesPast

\* Clock, row and calls of SessionClock always have their types.
THEOREM TypeCorrect == ASSUME ClockAssumption PROVE Spec => []TypeOK
<1>1. Init => TypeInv
      BY TypeInit
<1>2. TypeInv /\ [Next]_vars => TypeInv'
      BY TypeStep
<1>3. TypeInv => TypeOK
      BY DEF TypeInv
<1> QED BY <1>1, <1>2, <1>3, PTL DEF Spec
-----------------------------------------------------------------------------
\* A load keeps the promise when the row it computed keeps it.
LEMMA HoldKeeps ==
    ASSUME TypeInv, Promise, NEW w \in Workers, NEW c \in CallType, CallKeeps(c), Hold(w, c)
    PROVE  Promise'
<1>1. DeadlineKept' /\ PausedDeadline'
      BY DEF Promise, Hold, DeadlineKept, PausedDeadline
<1>2. ASSUME NEW v \in Workers, (calls[v] # Idle)' PROVE CallKeeps(calls[v])'
  <2>1. CASE v = w
        BY <2>1 DEF Hold, CallKeeps, TypeInv, TypeOK
  <2>2. CASE v # w
        BY <1>2, <2>2 DEF Promise, Hold, CallKeeps, TypeInv, TypeOK
  <2> QED BY <2>1, <2>2
<1> QED BY <1>1, <1>2 DEF Promise

\* A row computed from an active row that keeps the promise keeps it.
LEMMA ComputedKeeps ==
    ASSUME ClockAssumption, TypeInv, DeadlineKept, row.status = "active",
           NEW kind \in {"scan", "action", "timer"},
           NEW after \in {[row EXCEPT !.version = @ + 1], NewPhase(row.version + 1, now, paused)}
    PROVE  CallKeeps(Computed(kind, after))
<1>0. row \in RowType /\ now \in Nat /\ paused \in Nat /\ Delay \in Nat
      BY DEF ClockAssumption, TypeInv, TypeOK
<1>1. after.status = "active" /\ after.due + after.rest = after.start + Delay + paused
  <2>1. CASE after = [row EXCEPT !.version = @ + 1]
        BY <1>0, <2>1 DEF DeadlineKept, RowType
  <2>2. CASE after = NewPhase(row.version + 1, now, paused)
        BY <1>0, <2>2 DEF NewPhase
  <2> QED BY <2>1, <2>2
<1> QED BY <1>1 DEF CallKeeps, Computed

\* A commit keeps the promise, or straddles a pause.
LEMMA PersistKeeps ==
    ASSUME TypeInv, Promise, NEW w \in Workers, calls[w].kind \in {"action", "timer"},
           Persist(w)
    PROVE  straddled' \/ Promise'
<1>0. calls[w] # Idle
      BY DEF Idle
<1>1. CASE paused # calls[w].resumed
      BY <1>1, Zenon DEF Persist
<1>2. CASE paused = calls[w].resumed
  <2>1. row' = calls[w].after /\ paused' = paused /\ now' = now
        BY DEF Persist
  <2>2. calls[w].after.status = "active"
        /\ calls[w].after.due + calls[w].after.rest = calls[w].after.start + Delay + paused
        BY <1>0, <1>2 DEF Promise, CallKeeps
  <2>3. DeadlineKept' /\ PausedDeadline'
        BY <2>1, <2>2 DEF DeadlineKept, PausedDeadline
  <2>4. ASSUME NEW v \in Workers, (calls[v] # Idle)' PROVE CallKeeps(calls[v])'
        BY <2>4 DEF Promise, Persist, CallKeeps, TypeInv, TypeOK
  <2> QED BY <2>3, <2>4 DEF Promise
<1> QED BY <1>1, <1>2

\* Every step keeps the promise until some commit straddles a pause.
LEMMA PromiseStep ==
    ASSUME ClockAssumption, TypeInv, Promise, [Next]_vars PROVE straddled' \/ Promise'
<1>0. /\ row \in RowType /\ now \in Nat /\ paused \in Nat /\ Delay \in Nat
      /\ row.suspendedAt <= now
      BY DEF ClockAssumption, TypeInv, TypeOK, TimesPast
<1>1. CASE Tick
  <2>1. DeadlineKept' /\ PausedDeadline'
    <3>1. CASE row.status = "suspended"
          BY <1>0, <1>1, <3>1 DEF Tick, Promise, DeadlineKept, PausedDeadline, RowType
    <3>2. CASE row.status = "active"
          BY <1>0, <1>1, <3>2 DEF Tick, Promise, DeadlineKept, PausedDeadline, RowType
    <3> QED BY <1>0, <3>1, <3>2 DEF RowType, Statuses
  <2> QED BY <1>1, <2>1 DEF Tick, Promise, CallKeeps
<1>2. CASE Pause
  <2>1. DeadlineKept' /\ PausedDeadline'
        BY <1>0, <1>2 DEF Pause, Promise, DeadlineKept, PausedDeadline, RowType
  <2> QED BY <1>2, <2>1 DEF Pause, Promise, CallKeeps
<1>3. CASE Resume
  <2>1. DeadlineKept' /\ PausedDeadline'
        BY <1>0, <1>3 DEF Resume, Shifted, Promise, DeadlineKept, PausedDeadline, RowType
  <2> QED BY <1>3, <2>1 DEF Resume, Promise, CallKeeps
<1>4. ASSUME NEW w \in Workers, LoadAction(w) PROVE Promise'
  <2>1. PICK after \in {[row EXCEPT !.version = @ + 1], NewPhase(row.version + 1, now, paused)} :
            Hold(w, Computed("action", after))
        BY <1>4 DEF LoadAction
  <2>2. CallKeeps(Computed("action", after))
        BY <1>4, ComputedKeeps DEF LoadAction, Promise
  <2>3. row.version + 1 \in Nat \ {0}
        BY <1>0 DEF RowType
  <2>4. after \in RowType
    <3>1. CASE after = [row EXCEPT !.version = @ + 1]
          BY <1>0, <3>1 DEF RowType
    <3>2. CASE after = NewPhase(row.version + 1, now, paused)
          BY <1>0, <2>3, <3>2, NewPhaseType
    <3> QED BY <3>1, <3>2
  <2>5. Computed("action", after) \in CallType
        BY <2>4, ComputedType DEF TypeInv
  <2> QED BY <2>1, <2>2, <2>5, HoldKeeps
<1>5. ASSUME NEW w \in Workers, Scan(w) PROVE Promise'
  <2>1. Computed("scan", row) \in CallType /\ CallKeeps(Computed("scan", row))
        BY <1>0, ComputedType DEF TypeInv, CallKeeps, Computed
  <2> QED BY <1>5, <2>1, HoldKeeps DEF Scan
<1>6. ASSUME NEW w \in Workers, LoadTimer(w) PROVE Promise'
  <2>1. CallKeeps(Computed("timer", NewPhase(row.version + 1, now, paused)))
        BY <1>6, ComputedKeeps DEF LoadTimer, Promise
  <2>2. row.version + 1 \in Nat \ {0}
        BY <1>0 DEF RowType
  <2>3. Computed("timer", NewPhase(row.version + 1, now, paused)) \in CallType
        BY <1>0, <2>2, NewPhaseType, ComputedType DEF TypeInv
  <2> QED BY <1>6, <2>1, <2>3, HoldKeeps DEF LoadTimer
<1>7. ASSUME NEW w \in Workers, CommitAction(w) \/ CommitTimer(w) PROVE straddled' \/ Promise'
      BY <1>7, PersistKeeps DEF CommitAction, CommitTimer
<1>8. ASSUME NEW w \in Workers, Fail(w) PROVE Promise'
  <2>1. DeadlineKept' /\ PausedDeadline'
        BY <1>8 DEF Fail, Hold, Promise, DeadlineKept, PausedDeadline
  <2> QED BY <1>8, <2>1 DEF Fail, Hold, Promise, CallKeeps, TypeInv, TypeOK
<1>9. CASE UNCHANGED vars
      BY <1>9 DEF vars, Promise, DeadlineKept, PausedDeadline, CallKeeps
<1> QED BY <1>1, <1>2, <1>3, <1>4, <1>5, <1>6, <1>7, <1>8, <1>9 DEF Next

\* A straddled history stays straddled.
LEMMA StraddledStays == ASSUME straddled, [Next]_vars PROVE straddled'
<1>1. ASSUME NEW w \in Workers, CommitAction(w) \/ CommitTimer(w) PROVE straddled'
      BY <1>1, Zenon DEF CommitAction, CommitTimer, Persist
<1> QED BY <1>1, Zenon DEF Next, vars, Tick, Pause, Resume, LoadAction, Scan, LoadTimer, Fail, Hold

\* ClockInv holds in every reachable state.
LEMMA Invariance == ASSUME ClockAssumption PROVE Spec => []ClockInv
<1>1. Init => ClockInv
  <2> SUFFICES ASSUME Init PROVE ClockInv
      OBVIOUS
  <2>1. DeadlineKept /\ PausedDeadline
        BY DEF ClockAssumption, Init, NewPhase, DeadlineKept, PausedDeadline
  <2>2. Promise
        BY <2>1 DEF Init, Promise
  <2> QED BY <2>2, TypeInit DEF ClockInv
<1>2. ClockInv /\ [Next]_vars => ClockInv'
      BY TypeStep, PromiseStep, StraddledStays DEF ClockInv
<1> QED BY <1>1, <1>2, PTL DEF Spec

\* Resume keeps its promise: the deadline counts the time that the game was
\* not paused, unless a call was committed across a pause.
THEOREM DeadlineKeptHolds == ASSUME ClockAssumption PROVE Spec => []DeadlineKeptByCalls
<1>1. ClockInv => DeadlineKeptByCalls
      BY DEF ClockInv, Promise, DeadlineKeptByCalls
<1> QED BY Invariance, <1>1, PTL

\* A timeout is committed only when the players had the whole delay of their
\* phase, unless a call was committed across a pause before.
THEOREM FullThinkingTimeHolds == ASSUME ClockAssumption PROVE Spec => FullThinkingTime
<1> DEFINE Full == \A w \in Workers : CommitTimer(w) =>
                      straddled \/ row.start + Delay + paused <= now + row.rest
<1>1. ClockInv /\ [Next]_vars => [Full]_vars
  <2> SUFFICES ASSUME ClockInv, NEW w \in Workers, CommitTimer(w), ~straddled
               PROVE  row.start + Delay + paused <= now + row.rest
      OBVIOUS
  <2>1. calls[w] # Idle
        BY DEF CommitTimer, Idle
  <2>2. calls[w] \in CallType
        BY <2>1, HeldIsCall DEF ClockInv, TypeInv
  <2>3. calls[w].at <= now /\ calls[w].at \in Nat
        BY <2>1, <2>2 DEF ClockInv, TypeInv, TimesPast, CallType
  <2>4. row.due + row.rest = row.start + Delay + paused /\ row.due <= calls[w].at
        BY DEF ClockInv, Promise, DeadlineKept, CommitTimer, CurrentTransition, TimerStillDue
  <2>5. row \in RowType /\ now \in Nat /\ paused \in Nat /\ Delay \in Nat
        BY DEF ClockAssumption, ClockInv, TypeInv, TypeOK
  <2> QED BY <2>3, <2>4, <2>5 DEF RowType
<1> QED BY Invariance, <1>1, PTL DEF Spec, FullThinkingTime

-----------------------------------------------------------------------------
(* Bids.                                                                   *)


AnyBid == [quantity : Nat \ {0}, face : 1 .. 6, mode : {"flying", "strict"}]

\* In one mode a higher bid is a stronger one (bidAtLeast without equality).
LEMMA SameModeAdvances ==
    ASSUME NEW previous \in AnyBid, NEW answer \in AnyBid,
           previous.mode = answer.mode, bidAtLeast(answer, previous, FALSE)
    PROVE  Strength(answer) > Strength(previous)
  <1>1. CASE answer.mode = "strict"
    BY <1>1, SMT DEF AnyBid, bidAtLeast, Strength
  <1>2. CASE answer.mode = "flying"
    BY <1>2, SMT DEF AnyBid, bidAtLeast, Strength
  <1> QED
    BY <1>1, <1>2 DEF AnyBid

\* Leaving the strict mode takes twice the quantity (ConversionAnchor).
LEMMA LeavingStrictAdvances ==
    ASSUME NEW previous \in AnyBid, NEW answer \in AnyBid,
           previous.mode = "strict", answer.mode = "flying",
           bidAtLeast(answer, ConversionAnchor(previous), TRUE)
    PROVE  Strength(answer) > Strength(previous)
  BY SMT DEF AnyBid, bidAtLeast, ConversionAnchor, Strength

\* Entering the strict mode takes more than half the quantity (ConversionAnchor).
LEMMA EnteringStrictAdvances ==
    ASSUME NEW previous \in AnyBid, NEW answer \in AnyBid,
           previous.mode = "flying", answer.mode = "strict",
           bidAtLeast(answer, ConversionAnchor(previous), TRUE)
    PROVE  Strength(answer) > Strength(previous)
  <1>1. answer.quantity >= previous.quantity \div 2 + 1
    BY SMT DEF AnyBid, bidAtLeast, ConversionAnchor
  <1>2. previous.quantity \in Nat /\ answer.quantity \in Nat
    BY DEF AnyBid
  <1>3. 2 * answer.quantity >= previous.quantity + 1
    BY <1>1, <1>2, SMT
  <1>4. answer.face >= 1 /\ answer.face <= 6 /\ previous.face <= 6 /\ previous.face >= 1
        /\ answer.face \in Int /\ previous.face \in Int
    BY SMT DEF AnyBid
  <1> QED
    BY <1>2, <1>3, <1>4, SMT DEF Strength

\* Every bid that ValidateBid accepts after another bid of the round is stronger
\* than it, for every configuration and every quantity: a round of bids has no
\* cycle, in particular not one made of changes between the two modes.
THEOREM AcceptedBidIsStronger ==
    ASSUME NEW config, NEW previous \in AnyBid, NEW answer \in AnyBid,
           ValidateBid(config, previous, answer)
    PROVE  Strength(answer) > Strength(previous)
  <1>1. previous # NoBid
    BY SMT DEF AnyBid, NoBid
  <1>2. \/ previous.mode = answer.mode /\ bidAtLeast(answer, previous, FALSE)
        \/ previous.mode # answer.mode /\ bidAtLeast(answer, ConversionAnchor(previous), TRUE)
    BY <1>1, Zenon DEF ValidateBid
  <1>3. CASE previous.mode = answer.mode /\ bidAtLeast(answer, previous, FALSE)
    BY <1>3, SameModeAdvances, Zenon
  <1>4. CASE previous.mode # answer.mode /\ bidAtLeast(answer, ConversionAnchor(previous), TRUE)
    <2>1. previous.mode \in {"flying", "strict"} /\ answer.mode \in {"flying", "strict"}
      BY DEF AnyBid
    <2>2. CASE previous.mode = "strict" /\ answer.mode = "flying"
      BY <1>4, <2>2, LeavingStrictAdvances, Zenon
    <2>3. CASE previous.mode = "flying" /\ answer.mode = "strict"
      BY <1>4, <2>3, EnteringStrictAdvances, Zenon
    <2> QED
      BY <1>4, <2>1, <2>2, <2>3
  <1> QED
    BY <1>2, <1>3, <1>4, Zenon
=============================================================================
