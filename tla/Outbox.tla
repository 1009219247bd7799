------------------------------- MODULE Outbox -------------------------------
(***************************************************************************)
(* The transactional outbox: transactions append events, and dispatchers   *)
(* in several processes deliver the ones a consumer subscribes to, in the  *)
(* order of their sequence numbers, under a lease on the consumer's row.   *)
(* The fanout, the revocation and the checkpoint dispatcher are the same   *)
(* program with another consumer and another delivery.                     *)
(*                                                                         *)
(* An event is its sequence number.  Numbers of rolled back transactions   *)
(* are never used again, so the numbers have gaps.                         *)
(***************************************************************************)
EXTENDS Naturals, FiniteSets, FiniteSetsExt

CONSTANTS
    Writers,        \* transactions that can be open at once
    Dispatchers,    \* processes that run the consumer's dispatcher
    NoOwner,        \* lease_owner IS NULL
    Subscribed,     \* sequence numbers of the events of a subscribed type
    BatchSize,      \* events one pass lists
    MaxRetries,     \* MaximumRetryCount
    MaxSequence     \* bound on the sequence numbers

ASSUME OutboxAssumption ==
    /\ NoOwner \notin Dispatchers
    /\ BatchSize \in Nat \ {0}
    /\ MaxRetries \in Nat
    /\ MaxSequence \in Nat

VARIABLES
    next,       \* next value of the identity column
    open,       \* writer -> events its open transaction has inserted
    events,     \* committed events
    ready,      \* committed events whose available_at has passed
    consumer,   \* the consumer's row in outbox_consumers
    expired,    \* lease_until of the row has passed
    waiting,    \* next_attempt_at of the row has not passed
    runs,       \* dispatcher -> its pass
    delivered   \* history: events whose delivery took effect

log == <<next, open, events>>
outboxVars == <<log, ready, consumer, expired, waiting, runs, delivered>>

\* owner    lease_owner
\* acked    last_acked_sequence
\* retries  retry_count
NewConsumer == [owner |-> NoOwner, acked |-> 0, retries |-> 0]

\* pc     the next step of RunOnce
\* held   the consumer as the last transition of the pass left it
\* batch  listed events that the pass has not acknowledged
NoPass == [pc |-> "idle", held |-> NewConsumer, batch |-> {}]

OutboxInit ==
    /\ next = 1
    /\ open = [t \in Writers |-> {}]
    /\ events = {}
    /\ ready = {}
    /\ consumer = NewConsumer
    /\ expired = FALSE
    /\ waiting = FALSE
    /\ runs = [d \in Dispatchers |-> NoPass]
    /\ delivered = {}

-----------------------------------------------------------------------------
(* The transactions that append.                                           *)

\* Faulty variant: nobody else has to wait for the end of the transaction.
InsertUnlocked(t) ==
    /\ next <= MaxSequence
    /\ open' = [open EXCEPT ![t] = @ \cup {next}]
    /\ next' = next + 1
    /\ UNCHANGED <<events, ready, consumer, expired, waiting, runs, delivered>>

\* CreateOutboxEvent: the advisory lock is taken before the number is drawn
\* and kept until the transaction ends.
Insert(t) ==
    /\ next <= MaxSequence
    /\ \A other \in Writers \ {t} : open[other] = {}
    /\ open' = [open EXCEPT ![t] = @ \cup {next}]
    /\ next' = next + 1
    /\ UNCHANGED <<events, ready, consumer, expired, waiting, runs, delivered>>

Commit(t) ==
    /\ open[t] # {}
    /\ events' = events \cup open[t]
    /\ open' = [open EXCEPT ![t] = {}]
    /\ UNCHANGED <<next, ready, consumer, expired, waiting, runs, delivered>>

Rollback(t) ==
    /\ open[t] # {}
    /\ open' = [open EXCEPT ![t] = {}]
    /\ UNCHANGED <<next, events, ready, consumer, expired, waiting, runs, delivered>>

-----------------------------------------------------------------------------
(* The database clock.                                                     *)

BecomeAvailable(e) ==
    /\ e \in events \ ready
    /\ ready' = ready \cup {e}
    /\ UNCHANGED <<log, consumer, expired, waiting, runs, delivered>>

ExpireLease ==
    /\ consumer.owner # NoOwner /\ ~expired
    /\ expired' = TRUE
    /\ UNCHANGED <<log, ready, consumer, waiting, runs, delivered>>

EndBackoff ==
    /\ waiting
    /\ waiting' = FALSE
    /\ UNCHANGED <<log, ready, consumer, expired, runs, delivered>>

-----------------------------------------------------------------------------
(* A pass of a dispatcher.                                                 *)

Go(d, run) == runs' = [runs EXCEPT ![d] = run]

\* Faulty variant: a lease that its owner never released is never taken over.
LeaseFree == consumer.owner = NoOwner

\* Consumer.AcquireLease and AcquireOutboxConsumerLeaseCAS.
LeaseAvailable == consumer.owner = NoOwner \/ expired

\* acquire.  The answer can be lost.
Acquire(d) ==
    /\ runs[d].pc = "idle"
    /\ LeaseAvailable
    /\ ~waiting
    /\ consumer' = [consumer EXCEPT !.owner = d]
    /\ expired' = FALSE
    /\ \/ Go(d, [pc |-> "list", held |-> consumer', batch |-> {}])
       \/ UNCHANGED runs
    /\ UNCHANGED <<log, ready, waiting, delivered>>

Pending == {e \in events \cap Subscribed : consumer.acked < e}

\* The subquery of ListOutboxEventsForConsumer.
Candidates == {e \in Pending : Cardinality({f \in Pending : f < e}) < BatchSize}

\* Faulty variant: an event that is not available yet is passed over.
AvailableCandidates == Candidates \cap ready

\* An event is listed only behind available ones.
Listed == {e \in Candidates : \A f \in Candidates : f <= e => f \in ready}

\* list.  Nothing is listed for a dispatcher that lost the lease.
List(d) ==
    LET batch == IF consumer.owner = d /\ ~expired /\ ~waiting THEN Listed ELSE {}
    IN  /\ runs[d].pc = "list"
        /\ Go(d, [runs[d] EXCEPT !.pc = IF batch = {} THEN "release" ELSE "deliver",
                                 !.batch = batch])
        /\ UNCHANGED <<log, ready, consumer, expired, waiting, delivered>>

\* deliver, with the event that is next.
Deliver(d) ==
    /\ runs[d].pc = "deliver"
    /\ delivered' = delivered \cup {Min(runs[d].batch)}
    /\ Go(d, [runs[d] EXCEPT !.pc = "acknowledge"])
    /\ UNCHANGED <<log, ready, consumer, expired, waiting>>

\* A delivery that fails, or whose answer is lost.
FailDelivery(d) ==
    /\ runs[d].pc = "deliver"
    /\ delivered' \in {delivered, delivered \cup {Min(runs[d].batch)}}
    /\ Go(d, [runs[d] EXCEPT !.pc = "retry"])
    /\ UNCHANGED <<log, ready, consumer, expired, waiting>>

\* Faulty variant: a pass that lost the lease writes what it computed from
\* the row it read.
CurrentUnchecked(d) == TRUE

\* The condition of every transition under a lease: the row is the one the
\* pass holds, and the lease has not run out.
Current(d) == consumer = runs[d].held /\ ~expired

\* The last conditions of AckOutboxConsumerOffsetCAS.
NextInOrder(acked, e) ==
    /\ e \in ready \cap Subscribed
    /\ acked < e
    /\ \A f \in events \cap Subscribed : ~(acked < f /\ f < e)

\* acknowledge.  When the answer is lost the pass goes on to the release with
\* the consumer as it was.
Acknowledge(d) ==
    LET e == Min(runs[d].batch)
        rest == runs[d].batch \ {e}
    IN  /\ runs[d].pc = "acknowledge"
        /\ Current(d)
        /\ NextInOrder(runs[d].held.acked, e)
        /\ consumer' = [consumer EXCEPT !.acked = e, !.retries = 0]
        /\ waiting' = FALSE
        /\ \/ Go(d, [pc |-> IF rest = {} THEN "release" ELSE "deliver",
                     held |-> consumer', batch |-> rest])
           \/ Go(d, [runs[d] EXCEPT !.pc = "release"])
        /\ UNCHANGED <<log, ready, expired, delivered>>

\* A list or an acknowledgement that fails, or a delivery that is cut short
\* because the process shuts down.
GiveUp(d) ==
    /\ runs[d].pc \in {"list", "acknowledge", "retry"}
    /\ Go(d, [runs[d] EXCEPT !.pc = "release"])
    /\ UNCHANGED <<log, ready, consumer, expired, waiting, delivered>>

\* recordRetryAndRelease, its first transaction.
RecordRetry(d) ==
    /\ runs[d].pc = "retry"
    /\ runs[d].held.retries < MaxRetries
    /\ Current(d)
    /\ consumer' = [consumer EXCEPT !.retries = @ + 1]
    /\ waiting' = TRUE
    /\ \/ Go(d, [runs[d] EXCEPT !.pc = "release", !.held = consumer'])
       \/ Go(d, NoPass)
    /\ UNCHANGED <<log, ready, expired, delivered>>

\* ErrRetryExhausted: released without a delay.
RetryExhausted(d) ==
    /\ runs[d].pc = "retry"
    /\ runs[d].held.retries = MaxRetries
    /\ Go(d, [runs[d] EXCEPT !.pc = "release"])
    /\ UNCHANGED <<log, ready, consumer, expired, waiting, delivered>>

Release(d) ==
    /\ runs[d].pc = "release"
    /\ Current(d)
    /\ consumer' = [consumer EXCEPT !.owner = NoOwner]
    /\ Go(d, NoPass)
    /\ UNCHANGED <<log, ready, expired, waiting, delivered>>

\* A transition that is refused, or a process that dies and comes back.
Stop(d) ==
    /\ runs[d].pc # "idle"
    /\ Go(d, NoPass)
    /\ UNCHANGED <<log, ready, consumer, expired, waiting, delivered>>

-----------------------------------------------------------------------------
Pass(d) ==
    \/ Acquire(d) \/ List(d) \/ Deliver(d) \/ FailDelivery(d) \/ Acknowledge(d)
    \/ GiveUp(d) \/ RecordRetry(d) \/ RetryExhausted(d) \/ Release(d) \/ Stop(d)

OutboxNext ==
    \/ \E t \in Writers : Insert(t) \/ Commit(t) \/ Rollback(t)
    \/ \E e \in events : BecomeAvailable(e)
    \/ ExpireLease \/ EndBackoff
    \/ \E d \in Dispatchers : Pass(d)

OutboxSpec == OutboxInit /\ [][OutboxNext]_outboxVars

\* Time passes, transactions end, and a pass does not stand still.  Processes
\* may die and calls fail again and again, but an acquisition, a delivery
\* within the lease and an acknowledgement that become possible over and over
\* succeed in the end.
OutboxFairness ==
    /\ WF_outboxVars(ExpireLease) /\ WF_outboxVars(EndBackoff)
    /\ \A e \in 1 .. MaxSequence : WF_outboxVars(BecomeAvailable(e))
    /\ \A d \in Dispatchers : WF_outboxVars(Stop(d) \/ List(d) \/ Release(d))
    /\ SF_outboxVars(\E d \in Dispatchers : Acquire(d) /\ runs[d]'.pc = "list")
    /\ SF_outboxVars(\E d \in Dispatchers : List(d) /\ runs[d]'.pc = "deliver")
    /\ SF_outboxVars(\E d \in Dispatchers : Current(d) /\ Deliver(d))
    /\ SF_outboxVars(\E d \in Dispatchers : Acknowledge(d))

FairOutboxSpec == OutboxSpec /\ OutboxFairness

-----------------------------------------------------------------------------
ConsumerType == [owner : Dispatchers \cup {NoOwner}, acked : Nat, retries : 0 .. MaxRetries]
RunType == [pc : {"idle", "list", "deliver", "acknowledge", "retry", "release"},
            held : ConsumerType, batch : SUBSET (Nat \ {0})]

\* Log, row and passes have their types.
OutboxTypeOK ==
    /\ next \in Nat \ {0}
    /\ open \in [Writers -> SUBSET (Nat \ {0})]
    /\ events \subseteq Nat \ {0}
    /\ ready \subseteq events
    /\ consumer \in ConsumerType
    /\ expired \in BOOLEAN /\ waiting \in BOOLEAN
    /\ runs \in [Dispatchers -> RunType]
    /\ delivered \subseteq Nat \ {0}

\* Nothing is lost: an event at or below the offset has been delivered, also
\* one whose transaction was open while later numbers were acknowledged.
AckedDelivered ==
    \A e \in events \cap Subscribed : e <= consumer.acked => e \in delivered

\* An event is delivered for the first time only after every earlier one,
\* whichever process delivers it, with or without a valid lease.
DeliveredInOrder ==
    [][\A e \in delivered' \ delivered :
          \A f \in events \cap Subscribed : f < e => f \in delivered]_outboxVars

\* The offset never goes back, although processes that lost the lease go on
\* with their pass.
OffsetAdvances == [][consumer.acked <= consumer'.acked]_outboxVars

\* Every committed event is acknowledged in the end, in spite of owners that
\* die, answers that are lost and retries that are exhausted.
EventuallyAcked ==
    \A e \in 1 .. MaxSequence : e \in events \cap Subscribed ~> e <= consumer.acked
=============================================================================
