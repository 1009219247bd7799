------------------------- MODULE SubscriptionProofs -------------------------
(***************************************************************************)
(* The safety half of Subscription for any number of connections, any      *)
(* queue and any number of changes and failures: the table shows each      *)
(* transition once and in order, and a viewer who may not see the game any *)
(* more gets at most the update that was being made.                       *)
(***************************************************************************)
EXTENDS Subscription, SequenceTheorems, TLAPS

Frames == [kind : {"projection", "delta"}, from : Nat, base : Nat, to : Nat]

\* The events of a frame are those after the version it says it continues.
HonestFrames == {f \in Frames : f.base = f.from /\ f.from <= f.to}

Refreshed == [kind : {"snapshot", "events"}, room : Nat]
Updates == [kind : {"projection", "delta"}, room : Nat, to : Nat]
Nexts == {None} \cup Refreshed \cup Updates
Cursors == [room : Nat, cursor : Nat]
FrameSeqs == Seq(HonestFrames)

Steps == {"free", "hello", "accepted", "gone"} \cup Registered
Causes == {"none", "open", "done", "canceled", "hub_closed", "unauthorized", "failed", "slow"}
Closes == {"none", "retry", "draining", "unauthorized"}
Phases == {"reconnecting", "opening", "opened", "online", "failed"}

Conns ==
    [pc : Steps, peer : BOOLEAN, cause : Causes, wake : BOOLEAN,
     auth : Cursors, next : Nexts, cursor : Nat, queue : FrameSeqs, sink : Causes,
     wire : FrameSeqs, close : Closes, told : Nat,
     missed : Nat, late : Nat]

\* One connection, given whether the viewer may see the game.  The cursors of
\* the worker and of the writer agree whenever a frame can be made, and a worker
\* that is past its refresh has not made a late update before.
Good(c, viewable) ==
    /\ c \in Conns
    /\ c.pc = "refreshed" => c.next \in Refreshed
    /\ c.pc = "projected" => c.next \in Updates
    /\ c.pc \in {"accepted", "idle", "refreshed", "projected"} => c.cursor = c.auth.cursor
    /\ viewable => c.late = 0
    /\ c.pc \in {"refreshed", "projected"} => c.late = 0
    /\ c.late <= 1

Clients == [phase : Phases, slot : Nat, version : Nat, view : Seq(Nat), opened : Nat,
            heard : Nat]

ClientInv ==
    /\ client \in Clients
    /\ client.phase = "online" => client.slot \in Slots
    /\ ViewInOrder

RowInv ==
    /\ session \in [version : Nat, ended : BOOLEAN]
    /\ room \in [version : Nat, member : BOOLEAN]
    /\ fetch = None \/ fetch \in [kind : {"projection"}, to : Nat]

ConnInv ==
    /\ conn \in [Slots -> Conns]
    /\ \A i \in Slots : Good(conn[i], Viewable)

Inv == RowInv /\ ClientInv /\ ConnInv

-----------------------------------------------------------------------------
(* The operators. *)

\* A full view is the sequence of the versions up to its own.
LEMMA ViewType == ASSUME NEW v \in Nat PROVE View(v) \in Seq(Nat) /\ Len(View(v)) = v
BY DEF View

\* A delta that continues a view makes the view of its last version.
LEMMA ViewContinues ==
    ASSUME NEW v \in Nat, NEW w \in Nat, v <= w
    PROVE  View(v) \o EventsAfter(v, w) = View(w)
<1> DEFINE a == View(v)
           b == EventsAfter(v, w)
<1>1. a \in Seq(Nat) /\ Len(a) = v /\ \A k \in 1 .. v : a[k] = k
    BY DEF View
<1>2. b \in Seq(Nat) /\ Len(b) = w - v /\ \A k \in 1 .. w - v : b[k] = v + k
    BY DEF EventsAfter
<1> HIDE DEF a, b
<1>3. a \o b \in Seq(Nat) /\ Len(a \o b) = w
  <2>1. a \o b \in Seq(Nat) /\ Len(a \o b) = Len(a) + Len(b)
    BY <1>1, <1>2, ConcatProperties, Zenon
  <2> QED
    BY <2>1, <1>1, <1>2
<1>4. \A k \in 1 .. w : (a \o b)[k] = k
    BY <1>1, <1>2, SMTT(30)
<1>5. View(w) \in Seq(Nat) /\ Len(View(w)) = w /\ \A k \in 1 .. w : View(w)[k] = k
    BY DEF View
<1>6. a \o b = View(w)
    BY <1>3, <1>4, <1>5, SMTT(30)
<1> QED
    BY <1>6 DEF a, b

\* A slot nobody uses is in order.
LEMMA FreeGood == ASSUME NEW v \in BOOLEAN PROVE Good(FreeConn, v)
<1>1. None \in Nexts /\ <<>> \in FrameSeqs /\ [room |-> 0, cursor |-> 0] \in Cursors
    BY DEF Nexts, FrameSeqs, Cursors
<1>2. FreeConn \in Conns
    BY <1>1 DEF FreeConn, Conns, Steps, Causes, Closes
<1> QED
    BY <1>2 DEF Good, FreeConn

LEMMA SettledGood ==
    ASSUME NEW v \in BOOLEAN, NEW c, Good(c, v) PROVE Good(Settled(c), v)
BY FreeGood DEF Settled

\* The end of a worker keeps its connection in order.
LEMMA EndedGood ==
    ASSUME NEW v \in BOOLEAN, NEW err \in Causes, NEW c \in Conns, Good(c, v)
    PROVE  Good(Ended(c, err), v)
<1>1. First(c.cause, err) \in Causes
    BY DEF Conns, First
<1>2. None \in Nexts
    BY DEF Nexts
<1>3. Ended(c, err) \in Conns
    BY <1>1, <1>2, Zenon DEF Conns, Ended, Steps, Registered
<1> QED
    BY <1>3 DEF Good, Conns, Ended

\* What is left of a connection when the process is gone is in order.
LEMMA LeftGood ==
    ASSUME NEW v \in BOOLEAN, NEW c \in Conns, Good(c, v), NEW close \in Closes
    PROVE  Good([FreeConn EXCEPT !.pc = "gone", !.peer = c.peer, !.wire = c.wire,
                                 !.late = c.late, !.close = close], v)
<1>1. FreeConn \in Conns
    BY FreeGood DEF Good
<1> QED
    BY <1>1, ZenonT(40) DEF Good, Conns, FreeConn, Steps

-----------------------------------------------------------------------------
(* The connections. *)

LEMMA ViewableType == RowInv => Viewable \in BOOLEAN
BY DEF RowInv, Viewable

\* One connection is replaced while the rows stay as they are.
LEMMA SetKeeps ==
    ASSUME Inv, NEW STATE i, i \in Slots, NEW STATE c, Good(c, Viewable), Set(i, c),
           UNCHANGED <<session, room>>
    PROVE  ConnInv'
<1>1. Viewable' = Viewable /\ Viewable \in BOOLEAN
    BY ViewableType DEF Viewable, Inv
<1>2. Good(Settled(c), Viewable)
    BY <1>1, SettledGood
<1>3. Settled(c) \in Conns
    BY <1>2 DEF Good
<1>4. conn' \in [Slots -> Conns]
    BY <1>3 DEF Set, Inv, ConnInv
<1>5. \A j \in Slots : Good(conn'[j], Viewable)
    BY <1>2 DEF Set, Inv, ConnInv
<1> QED
    BY <1>1, <1>4, <1>5 DEF ConnInv

\* A viewer who is refused stays refused, and a connection stays in order.
LEMMA RefusalKeeps ==
    ASSUME Inv, RowInv', Viewable' => Viewable, UNCHANGED conn
    PROVE  ConnInv'
<1>1. Viewable \in BOOLEAN /\ Viewable' \in BOOLEAN
    BY ViewableType DEF Inv, RowInv, Viewable
<1> QED
    BY <1>1 DEF Inv, ConnInv, Good

\* The handler of a connection.
LEMMA HandlerKeeps ==
    ASSUME Inv, NEW i \in Slots, Handler(i)
    PROVE  ConnInv' /\ UNCHANGED <<session, room, client, fetch>>
<1> DEFINE c == conn[i]
<1>1. c \in Conns /\ Good(c, Viewable) /\ Viewable \in BOOLEAN
    BY ViewableType DEF Inv, ConnInv
<1>2. CASE Accept(i)
  <2>1. CASE Viewable
    <3> DEFINE m == IF c.told = room.version THEN 0 ELSE room.version
               d == [c EXCEPT !.pc = "accepted", !.sink = "open", !.missed = m,
                              !.auth = [room |-> room.version, cursor |-> c.cursor]]
    <3>1. [room |-> room.version, cursor |-> c.cursor] \in Cursors /\ m \in Nat
        BY <1>1 DEF Cursors, Conns, Inv, RowInv
    <3>2. d \in Conns
        BY <1>1, <3>1, Zenon DEF Conns, Steps, Causes
    <3>3. Good(d, Viewable)
        BY <1>1, <3>2 DEF Good, Conns
    <3>4. Set(i, d)
        BY <1>2, <2>1 DEF Accept
    <3> HIDE DEF d
    <3> QED
        BY <1>2, <3>3, <3>4, SetKeeps DEF Accept
  <2>2. CASE ~Viewable
    <3> DEFINE d == [c EXCEPT !.pc = "gone", !.close = "retry"]
    <3>1. d \in Conns
        BY <1>1, Zenon DEF Conns, Steps, Closes
    <3>2. Good(d, Viewable)
        BY <1>1, <3>1 DEF Good, Conns
    <3>3. Set(i, d)
        BY <1>2, <2>2 DEF Accept
    <3> HIDE DEF d
    <3> QED
        BY <1>2, <3>2, <3>3, SetKeeps DEF Accept
  <2> QED
    BY <2>1, <2>2
<1>3. CASE AcceptFails(i)
  <2> DEFINE d == [c EXCEPT !.pc = "gone", !.close = "retry"]
  <2>1. d \in Conns
    BY <1>1, Zenon DEF Conns, Steps, Closes
  <2>2. Good(d, Viewable)
    BY <1>1, <2>1 DEF Good, Conns
  <2>3. Set(i, d)
    BY <1>3 DEF AcceptFails
  <2> HIDE DEF d
  <2> QED
    BY <1>3, <2>2, <2>3, SetKeeps DEF AcceptFails
<1>4. CASE Register(i)
  <2> DEFINE d == IF hub.closed # "none"
                  THEN [c EXCEPT !.pc = "gone", !.sink = "done", !.close = "draining"]
                  ELSE [c EXCEPT !.pc = "idle", !.wake = TRUE]
  <2>1. d \in Conns
    BY <1>1, ZenonT(40) DEF Conns, Steps, Registered, Causes, Closes
  <2>2. Good(d, Viewable)
    BY <1>1, <1>4, <2>1 DEF Good, Conns, Register
  <2>3. Set(i, d)
    BY <1>4 DEF Register
  <2> HIDE DEF d
  <2> QED
    BY <1>4, <2>2, <2>3, SetKeeps DEF Register
<1>5. CASE ReadFails(i)
  <2> DEFINE d == [c EXCEPT !.cause = "canceled"]
  <2>1. d \in Conns
    BY <1>1 DEF Conns, Causes
  <2>2. Good(d, Viewable)
    BY <1>1, <2>1 DEF Good, Conns
  <2>3. Set(i, d)
    BY <1>5 DEF ReadFails
  <2> HIDE DEF d
  <2> QED
    BY <1>5, <2>2, <2>3, SetKeeps DEF ReadFails
<1> QED
    BY <1>2, <1>3, <1>4, <1>5 DEF Handler

\* The worker of a connection.
LEMMA WorkerKeeps ==
    ASSUME Inv, NEW i \in Slots, Worker(i)
    PROVE  ConnInv' /\ UNCHANGED <<session, room, client, fetch>>
<1> DEFINE c == conn[i]
           asleep == [c EXCEPT !.wake = FALSE]
<1>1. c \in Conns /\ Good(c, Viewable) /\ Viewable \in BOOLEAN
    BY ViewableType DEF Inv, ConnInv
<1>2. room.version \in Nat /\ session.version \in Nat
    BY DEF Inv, RowInv
<1>3. asleep \in Conns /\ Good(asleep, Viewable)
    BY <1>1, Zenon DEF Good, Conns
<1>4. \A err \in Causes : Good(Ended(c, err), Viewable) /\ Good(Ended(asleep, err), Viewable)
    BY <1>1, <1>3, EndedGood
<1>5. {"unauthorized", "failed", "canceled", "slow"} \subseteq Causes
    BY DEF Causes
<1>6. CASE Refresh(i)
  <2>1. CASE Viewable
    <3> DEFINE n == [kind |-> IF room.version # c.auth.room THEN "snapshot" ELSE "events",
                     room |-> room.version]
               d == [c EXCEPT !.pc = "refreshed", !.wake = FALSE, !.next = n]
    <3>1. n \in Refreshed /\ n \in Nexts
        BY <1>2 DEF Refreshed, Nexts
    <3> HIDE DEF n
    <3>2. d \in Conns
        BY <1>1, <3>1, Zenon DEF Conns, Steps, Registered
    <3>3. Good(d, Viewable)
        BY <1>1, <1>6, <2>1, <3>1, <3>2 DEF Good, Conns, Refresh
    <3>4. Set(i, d)
        BY <1>6, <2>1 DEF Refresh, n
    <3> HIDE DEF d
    <3> QED
        BY <1>6, <3>3, <3>4, SetKeeps DEF Refresh
  <2>2. CASE ~Viewable
    <3> DEFINE d == Ended(asleep, "unauthorized")
    <3>1. Good(d, Viewable)
        BY <1>4, <1>5, Zenon
    <3>2. Set(i, d)
        BY <1>6, <2>2 DEF Refresh
    <3> HIDE DEF d
    <3> QED
        BY <1>6, <3>1, <3>2, SetKeeps DEF Refresh
  <2> QED
    BY <2>1, <2>2
<1>7. CASE RefreshFails(i)
  <2> DEFINE d == Ended(asleep, "unauthorized")
  <2>1. Good(d, Viewable)
    BY <1>4, <1>5, Zenon
  <2>2. Set(i, d)
    BY <1>7 DEF RefreshFails
  <2> HIDE DEF d
  <2> QED
    BY <1>7, <2>1, <2>2, SetKeeps DEF RefreshFails
<1>8. CASE Project(i)
  <2>1. ASSUME Set(i, [c EXCEPT !.pc = "idle", !.next = None, !.auth.room = c.next.room])
        PROVE  ConnInv'
    <3> DEFINE d == [c EXCEPT !.pc = "idle", !.next = None, !.auth.room = c.next.room]
    <3>1. c.next \in Refreshed /\ None \in Nexts /\ c.auth \in Cursors
        BY <1>1, <1>8, Zenon DEF Good, Conns, Project, Nexts
    <3>2. c.next.room \in Nat
        BY <3>1 DEF Refreshed
    <3>3. d.auth \in Cursors /\ d.auth.cursor = c.auth.cursor
        BY <1>1, <3>1, <3>2 DEF Conns, Cursors
    <3>4. d \in Conns
        BY <1>1, <3>1, <3>2, <3>3, Zenon DEF Conns, Cursors, Steps, Registered
    <3>5. Good(d, Viewable)
        BY <1>1, <1>8, <3>3, <3>4, Zenon DEF Good, Conns, Project
    <3>6. Set(i, d)
        BY <2>1
    <3> HIDE DEF d
    <3> QED
        BY <1>8, <3>5, <3>6, SetKeeps, Zenon DEF Project
  <2>2. ASSUME NEW kind \in {"projection", "delta"},
               Set(i, [c EXCEPT !.pc = "projected",
                          !.next = [kind |-> kind, room |-> c.next.room, to |-> session.version]])
        PROVE  ConnInv'
    <3> DEFINE n == [kind |-> kind, room |-> c.next.room, to |-> session.version]
               d == [c EXCEPT !.pc = "projected", !.next = n]
    <3>1. c.next.room \in Nat
        BY <1>1, <1>8, Zenon DEF Good, Project, Refreshed
    <3>2. n \in Updates /\ n \in Nexts
        BY <1>2, <3>1 DEF Updates, Nexts
    <3>3. Set(i, d)
        BY <2>2
    <3> HIDE DEF n
    <3>4. d \in Conns
        BY <1>1, <3>2, Zenon DEF Conns, Steps, Registered
    <3>5. Good(d, Viewable)
        BY <1>1, <1>8, <3>2, <3>4, Zenon DEF Good, Conns, Project
    <3> HIDE DEF d
    <3> QED
        BY <1>8, <3>3, <3>5, SetKeeps, Zenon DEF Project
  <2> QED
    BY <1>8, <2>1, <2>2, Zenon DEF Project
<1>9. CASE ProjectFails(i)
  <2> DEFINE d == Ended(c, "failed")
  <2>1. Good(d, Viewable)
    BY <1>4, <1>5
  <2>2. Set(i, d)
    BY <1>9 DEF ProjectFails
  <2> HIDE DEF d
  <2> QED
    BY <1>9, <2>1, <2>2, SetKeeps DEF ProjectFails
<1>10. CASE Send(i)
  <2>1. ASSUME NEW err \in {"failed", "slow"}, Set(i, Ended(c, err))
        PROVE  ConnInv'
    <3> DEFINE d == Ended(c, err)
    <3>1. Good(d, Viewable)
        BY <1>4, <1>5
    <3>2. Set(i, d)
        BY <2>1
    <3> HIDE DEF d
    <3> QED
        BY <1>10, <3>1, <3>2, SetKeeps DEF Send
  <2>2. ASSUME c.cursor <= c.next.to, Set(i, Sent(c))
        PROVE  ConnInv'
    <3> DEFINE f == Frame(c)
               n == c.next
               q == Append(c.queue, f)
               a == [room |-> n.room, cursor |-> n.to]
               t == IF n.kind = "projection" THEN n.room ELSE c.told
               m == IF n.kind = "projection" THEN 0 ELSE c.missed
               l == IF Viewable THEN c.late ELSE c.late + 1
               e == [c EXCEPT !.pc = "idle", !.next = None, !.queue = q]
               d == [e EXCEPT !.cursor = n.to, !.auth = a, !.told = t, !.missed = m, !.late = l]
    <3>1. c.pc = "projected"
        BY <1>10 DEF Send
    <3>2. /\ n \in Updates /\ c.cursor = c.auth.cursor /\ c.late = 0
          /\ c.cursor \in Nat /\ c.queue \in FrameSeqs /\ c.told \in Nat /\ c.missed \in Nat
        BY <1>1, <3>1 DEF Good, Conns
    <3>3. n.room \in Nat /\ n.to \in Nat /\ n.kind \in {"projection", "delta"}
        BY <3>2 DEF Updates
    <3>4. f \in HonestFrames
        BY <2>2, <3>2, <3>3 DEF HonestFrames, Frames, Frame
    <3>5. q \in FrameSeqs
        BY <3>2, <3>4 DEF FrameSeqs
    <3>6. a \in Cursors /\ a.cursor = n.to /\ t \in Nat /\ m \in Nat /\ l \in {0, 1} /\ None \in Nexts
        BY <3>2, <3>3 DEF Cursors, Nexts
    <3>7. Viewable => l = 0
        BY <3>2
    <3>8. Set(i, d)
        BY <2>2 DEF Sent
    <3> HIDE DEF f, n, q, a, t, m, l
    <3>9. /\ d \in Conns /\ d.pc = "idle" /\ d.cursor = n.to
          /\ d.auth = a /\ d.late = l
      <4>1. e \in Conns /\ e.pc = "idle"
        BY <1>1, <3>5, <3>6, Zenon DEF Conns, Steps, Registered
      <4>2. l \in Nat
        BY <3>6
      <4> HIDE DEF e
      <4> QED
        BY <4>1, <4>2, <3>3, <3>6, Zenon DEF Conns
    <3> HIDE DEF d
    <3>10. Good(d, Viewable)
        BY <3>6, <3>7, <3>9 DEF Good
    <3> QED
        BY <1>10, <3>8, <3>10, SetKeeps DEF Send
  <2>3. c.cursor \in Nat /\ c.next.to \in Nat
    BY <1>1, <1>10 DEF Good, Conns, Send, Updates
  <2> QED
    BY <1>10, <2>1, <2>2, <2>3 DEF Send
<1>11. CASE WorkerCancelled(i)
  <2> DEFINE d == Ended(c, "canceled")
  <2>1. Good(d, Viewable)
    BY <1>4, <1>5
  <2>2. Set(i, d)
    BY <1>11 DEF WorkerCancelled
  <2> HIDE DEF d
  <2> QED
    BY <1>11, <2>1, <2>2, SetKeeps DEF WorkerCancelled
<1>12. CASE WorkerDone(i)
  <2> DEFINE d == [c EXCEPT !.pc = "gone"]
  <2>1. d \in Conns
    BY <1>1 DEF Conns, Steps
  <2>2. Good(d, Viewable)
    BY <1>1, <2>1 DEF Good, Conns
  <2>3. Set(i, d)
    BY <1>12 DEF WorkerDone
  <2> HIDE DEF d
  <2> QED
    BY <1>12, <2>2, <2>3, SetKeeps DEF WorkerDone
<1> QED
    BY <1>6, <1>7, <1>8, <1>9, <1>10, <1>11, <1>12 DEF Worker

\* The writer of a connection.
LEMMA WriterKeeps ==
    ASSUME Inv, NEW i \in Slots, Writer(i)
    PROVE  ConnInv' /\ UNCHANGED <<session, room, client, fetch>>
<1> DEFINE c == conn[i]
<1>1. c \in Conns /\ Good(c, Viewable) /\ c.queue \in FrameSeqs
    BY DEF Inv, ConnInv, Conns
<1>2. <<>> \in FrameSeqs
    BY DEF FrameSeqs
<1>3. CASE WriteFrame(i)
  <2> DEFINE h == <<Head(c.queue)>>
             r == Tail(c.queue)
             d == [c EXCEPT !.queue = r, !.wire = h]
  <2>1. h \in FrameSeqs /\ r \in FrameSeqs
    BY <1>1, <1>3 DEF FrameSeqs, WriteFrame
  <2>2. Set(i, d)
    BY <1>3 DEF WriteFrame
  <2> HIDE DEF h, r
  <2>3. d \in Conns
    BY <1>1, <2>1, Zenon DEF Conns
  <2>4. Good(d, Viewable)
    BY <1>1, <2>3 DEF Good, Conns
  <2> HIDE DEF d
  <2> QED
    BY <1>3, <2>2, <2>4, SetKeeps DEF WriteFrame
<1>4. CASE WriteFails(i)
  <2> DEFINE d == [c EXCEPT !.sink = "done", !.queue = <<>>, !.close = "retry"]
  <2>1. d \in Conns
    BY <1>1, <1>2, Zenon DEF Conns, Causes, Closes
  <2>2. Good(d, Viewable)
    BY <1>1, <2>1 DEF Good, Conns
  <2>3. Set(i, d)
    BY <1>4 DEF WriteFails
  <2> HIDE DEF d
  <2> QED
    BY <1>4, <2>2, <2>3, SetKeeps DEF WriteFails
<1>5. CASE Finish(i)
  <2> DEFINE e == CloseSemantics(c.sink)
             d == [c EXCEPT !.sink = "done", !.queue = <<>>, !.close = e]
  <2>1. e \in Closes
    BY DEF CloseSemantics, Closes
  <2>2. Set(i, d)
    BY <1>5 DEF Finish
  <2> HIDE DEF e
  <2>3. d \in Conns
    BY <1>1, <1>2, <2>1, Zenon DEF Conns, Causes
  <2>4. Good(d, Viewable)
    BY <1>1, <2>3 DEF Good, Conns
  <2> HIDE DEF d
  <2> QED
    BY <1>5, <2>2, <2>4, SetKeeps DEF Finish
<1> QED
    BY <1>3, <1>4, <1>5 DEF Writer

\* The hub changes every connection at once.
LEMMA HubKeeps ==
    ASSUME Inv, UNCHANGED <<session, room>>,
           \/ conn' = Woken
           \/ conn' = Vanished
           \/ \E cause \in {"canceled", "hub_closed"} : BeginClose(cause)
    PROVE  ConnInv'
<1>1. Viewable' = Viewable /\ Viewable \in BOOLEAN
    BY ViewableType DEF Viewable, Inv
<1>2. SUFFICES ASSUME NEW i \in Slots PROVE Good(conn'[i], Viewable)
  <2>1. conn' = [i \in Slots |-> conn'[i]]
    BY Zenon DEF Woken, Vanished, BeginClose
  <2>2. \A i \in Slots : conn'[i] \in Conns
    BY <1>2 DEF Good
  <2> QED
    BY <1>1, <1>2, <2>1, <2>2 DEF ConnInv
<1> DEFINE c == conn[i]
<1>3. c \in Conns /\ Good(c, Viewable)
    BY DEF Inv, ConnInv
<1>4. CASE conn' = Woken
  <2> DEFINE d == [c EXCEPT !.wake = TRUE]
  <2>1. d \in Conns
    BY <1>3, Zenon DEF Conns
  <2>2. Good(d, Viewable)
    BY <1>3, <2>1 DEF Good, Conns
  <2>3. conn'[i] = d \/ conn'[i] = c
    BY <1>4 DEF Woken
  <2> QED
    BY <1>3, <2>2, <2>3
<1>5. CASE conn' = Vanished
  <2> DEFINE close == IF c.close = "none" THEN "retry" ELSE c.close
             d == [FreeConn EXCEPT !.pc = "gone", !.peer = c.peer, !.wire = c.wire,
                                   !.late = c.late, !.close = close]
  <2>1. close \in Closes
    BY <1>3 DEF Conns, Closes
  <2>2. conn'[i] = Settled(d) \/ conn'[i] = c
    BY <1>5, Zenon DEF Vanished
  <2> HIDE DEF close
  <2>3. Good(d, Viewable)
    BY <1>1, <1>3, <2>1, LeftGood, Zenon
  <2> HIDE DEF d
  <2>4. Good(Settled(d), Viewable)
    BY <1>1, <2>3, SettledGood
  <2> QED
    BY <1>3, <2>2, <2>4
<1>6. ASSUME NEW cause \in {"canceled", "hub_closed"}, BeginClose(cause)
      PROVE  Good(conn'[i], Viewable)
  <2> DEFINE f == First(c.cause, cause)
             d == [c EXCEPT !.cause = f]
  <2>1. f \in Causes
    BY <1>3 DEF Conns, Causes, First
  <2>2. conn'[i] = d \/ conn'[i] = c
    BY <1>6 DEF BeginClose
  <2> HIDE DEF f
  <2>3. d \in Conns
    BY <1>3, <2>1 DEF Conns
  <2>4. Good(d, Viewable)
    BY <1>3, <2>3 DEF Good, Conns
  <2> QED
    BY <1>3, <2>2, <2>4
<1> QED
    BY <1>4, <1>5, <1>6

-----------------------------------------------------------------------------
(* The client. *)

\* A full projection replaces the view and its version together, or neither.
LEMMA ShowInOrder ==
    ASSUME NEW c \in Clients, c.view = View(c.version), NEW v \in Nat
    PROVE  LET d == ShowProjection(c, v)
           IN  /\ d \in Clients /\ d.view = View(d.version)
               /\ d.phase = c.phase /\ d.slot = c.slot
<1>1. View(v) \in Seq(Nat)
    BY ViewType
<1> QED
    BY <1>1, Zenon DEF Clients, ShowProjection

\* Leaving a connection touches neither the view nor its version.
LEMMA LeaveKeeps ==
    ASSUME Inv, NEW STATE phase, phase \in {"reconnecting", "failed"}, client.phase = "online",
           Leave(phase), UNCHANGED <<session, room>>
    PROVE  ConnInv' /\ ClientInv'
<1> DEFINE i == client.slot
           c == conn[i]
           d == [c EXCEPT !.peer = FALSE, !.wire = <<>>]
<1>1. i \in Slots /\ c \in Conns /\ Good(c, Viewable)
    BY DEF Inv, ClientInv, ConnInv
<1>2. <<>> \in FrameSeqs
    BY DEF FrameSeqs
<1>3. d \in Conns
    BY <1>1, <1>2, Zenon DEF Conns
<1>4. Good(d, Viewable)
    BY <1>1, <1>3 DEF Good, Conns
<1>5. Set(i, d)
    BY DEF Leave
<1>6. ConnInv'
  <2> HIDE DEF d, i
  <2> QED
    BY <1>1, <1>4, <1>5, SetKeeps
<1>7. ClientInv'
    BY Zenon DEF Inv, ClientInv, Leave, ViewInOrder, Phases, Clients
<1> QED
    BY <1>6, <1>7

\* A connection of the client and what it shows, at its opening.
LEMMA ConnectKeeps ==
    ASSUME Inv, Connect
    PROVE  ConnInv' /\ ClientInv'
<1> DEFINE i == CHOOSE j \in Slots : conn[j].pc = "free"
           o == client.opened
           c == ShowProjection(client, o)
           d == [FreeConn EXCEPT !.pc = "hello", !.peer = TRUE, !.cursor = o,
                                !.told = client.heard]
<1>1. i \in Slots /\ i \in Nat
    BY BoundsAssumption DEF Connect
<1>2. /\ conn' = [conn EXCEPT ![i] = d]
      /\ client' = [c EXCEPT !.phase = "online", !.slot = i, !.opened = 0, !.heard = 0]
    BY DEF Connect
<1>3. client \in Clients /\ client.view = View(client.version) /\ o \in Nat /\ client.heard \in Nat
    BY DEF Inv, ClientInv, ViewInOrder, Clients
<1>4. c \in Clients /\ c.view = View(c.version)
    BY <1>3, ShowInOrder
<1>5. ClientInv'
  <2> HIDE DEF c, i
  <2> QED
    BY <1>1, <1>2, <1>4, Zenon DEF ClientInv, Clients, ViewInOrder, Phases
<1>6. FreeConn \in Conns
    BY FreeGood, Zenon DEF Good
<1>7. d \in Conns
    BY <1>3, <1>6, Zenon DEF Conns, Steps
<1>8. Good(d, Viewable)
    BY <1>7 DEF Good, FreeConn
<1>9. Viewable' = Viewable
    BY DEF Connect, Viewable
<1>10. ConnInv'
  <2> HIDE DEF d, i
  <2>1. conn' \in [Slots -> Conns] /\ \A j \in Slots : conn'[j] = IF j = i THEN d ELSE conn[j]
    BY <1>1, <1>2, <1>7 DEF Inv, ConnInv
  <2> QED
    BY <1>8, <1>9, <2>1 DEF Inv, ConnInv
<1> QED
    BY <1>5, <1>10

\* A frame arrives: the one step that appends to the view.
LEMMA ReceiveKeeps ==
    ASSUME Inv, Receive
    PROVE  ConnInv' /\ ClientInv'
<1> DEFINE i == client.slot
           c == conn[i]
           f == Head(c.wire)
           d == [c EXCEPT !.wire = <<>>]
           taken == [conn EXCEPT ![i].wire = <<>>]
<1>1. client.phase = "online" /\ i \in Slots /\ c \in Conns /\ Good(c, Viewable)
    BY Zenon DEF Receive, Inv, ClientInv, ConnInv
<1>2. c.wire \in FrameSeqs /\ c.wire # <<>> /\ <<>> \in FrameSeqs
    BY <1>1 DEF Receive, Conns, FrameSeqs
<1>3. f \in HonestFrames
    BY <1>2 DEF FrameSeqs
<1>4. f.from \in Nat /\ f.to \in Nat /\ f.base = f.from /\ f.from <= f.to
    BY <1>3 DEF HonestFrames, Frames
<1>5. d \in Conns
    BY <1>1, <1>2 DEF Conns
<1>6. Good(d, Viewable)
    BY <1>1, <1>5 DEF Good, Conns
<1>7. Viewable' = Viewable
    BY Zenon DEF Receive, Viewable
<1>8. ASSUME conn' = taken PROVE ConnInv'
  <2>1. conn' = [conn EXCEPT ![i] = d]
    BY <1>1, <1>8
  <2> HIDE DEF d, i
  <2>2. conn' \in [Slots -> Conns] /\ \A j \in Slots : conn'[j] = IF j = i THEN d ELSE conn[j]
    BY <1>1, <1>5, <2>1 DEF Inv, ConnInv
  <2> QED
    BY <1>6, <1>7, <2>2 DEF Inv, ConnInv
<1>9. client \in Clients /\ client.view = View(client.version) /\ client.version \in Nat
    BY DEF Inv, ClientInv, ViewInOrder, Clients
<1>10. CASE client' = ShowProjection(client, f.to) /\ conn' = taken
  <2>1. ClientInv'
    BY <1>1, <1>4, <1>9, <1>10, ShowInOrder, Zenon DEF ClientInv, ViewInOrder
  <2> QED
    BY <1>8, <1>10, <2>1
<1>11. CASE UNCHANGED client /\ conn' = taken
    BY <1>8, <1>11 DEF Inv, ClientInv, ViewInOrder
<1>12. CASE /\ f.from = client.version
            /\ client' = [client EXCEPT !.version = f.to,
                                        !.view = @ \o EventsAfter(f.base, f.to)]
            /\ conn' = taken
  <2>1. client.view \o EventsAfter(f.base, f.to) = View(f.to)
    <3> DEFINE v == client.version
               w == f.to
    <3>1. v \in Nat /\ w \in Nat /\ v <= w /\ f.base = v
        BY <1>4, <1>9, <1>12, Zenon
    <3> HIDE DEF v, w
    <3>2. View(v) \o EventsAfter(v, w) = View(w)
        BY <3>1, ViewContinues, Zenon
    <3> QED
        BY <1>9, <3>1, <3>2, Zenon DEF v, w
  <2>2. View(f.to) \in Seq(Nat)
    BY <1>4, ViewType
  <2> DEFINE e == EventsAfter(f.base, f.to)
  <2>3. client' = [client EXCEPT !.version = f.to, !.view = @ \o e]
    BY <1>12
  <2> HIDE DEF f, e
  <2>4. /\ client'.view = client.view \o e /\ client'.version = f.to
        /\ client'.phase = client.phase /\ client'.slot = client.slot
        /\ client.view \o e \in Seq(Nat) => client' \in Clients
    BY <1>4, <1>9, <2>3, Zenon DEF Clients
  <2>5. client.view \o e = View(f.to)
    BY <2>1 DEF e
  <2>6. ClientInv'
    BY <1>1, <2>2, <2>4, <2>5 DEF ClientInv, ViewInOrder
  <2> QED
    BY <1>8, <1>12, <2>6
<1>13. CASE Leave("reconnecting")
    BY <1>1, <1>13, LeaveKeeps, Zenon DEF Receive
<1> QED
    BY <1>10, <1>11, <1>12, <1>13, Zenon DEF Receive

-----------------------------------------------------------------------------
(* The theorems. *)

LEMMA InitInv == Init => Inv
<1> SUFFICES ASSUME Init PROVE Inv
    OBVIOUS
<1>1. RowInv
    BY DEF Init, RowInv
<1>2. ClientInv
  <2>1. View(0) \in Seq(Nat) /\ Len(View(0)) = 0
    BY ViewType
  <2>2. View(0) = <<>>
    BY <2>1
  <2>3. client \in Clients
    BY DEF Init, Clients, Phases
  <2> QED
    BY <2>2, <2>3 DEF Init, ClientInv, ViewInOrder
<1>3. ConnInv
  <2>1. Viewable \in BOOLEAN
    BY <1>1, ViewableType
  <2>2. Good(FreeConn, Viewable) /\ FreeConn \in Conns
    BY <2>1, FreeGood DEF Good
  <2> HIDE DEF FreeConn
  <2> QED
    BY <2>2 DEF Init, ConnInv
<1> QED
    BY <1>1, <1>2, <1>3 DEF Inv

\* Every step of the viewer, the service and the rows keeps the invariant.
LEMMA StepInv == Inv /\ [Next]_vars => Inv'
<1> SUFFICES ASSUME Inv, [Next]_vars PROVE Inv'
    OBVIOUS
<1>a. ASSUME UNCHANGED <<session, room, fetch>> PROVE RowInv'
    BY <1>a DEF Inv, RowInv
<1>b. ASSUME UNCHANGED client PROVE ClientInv'
    BY <1>b DEF Inv, ClientInv, ViewInOrder
<1>c. ASSUME UNCHANGED <<session, room, conn>> PROVE ConnInv'
    BY <1>c DEF Inv, ConnInv, Viewable
<1>1. CASE Move \/ EndSession \/ RoomChanges \/ RemoveViewer
  <2>1. RowInv'
    <3>1. CASE Move
        BY <3>1 DEF Inv, RowInv, Move
    <3>2. CASE EndSession
      <4>1. session' \in [version : Nat, ended : BOOLEAN]
        BY <3>2, Zenon DEF Inv, RowInv, EndSession
      <4>2. room' \in [version : Nat, member : BOOLEAN]
        BY <3>2 DEF Inv, RowInv, EndSession
      <4> QED
        BY <3>2, <4>1, <4>2 DEF Inv, RowInv, EndSession
    <3>3. CASE RoomChanges
        BY <3>3 DEF Inv, RowInv, RoomChanges
    <3>4. CASE RemoveViewer
        BY <3>4 DEF Inv, RowInv, RemoveViewer
    <3> QED
        BY <1>1, <3>1, <3>2, <3>3, <3>4
  <2>2. (Viewable' => Viewable) /\ UNCHANGED <<conn, client>>
    BY <1>1 DEF Inv, RowInv, Viewable, Move, EndSession, RoomChanges, RemoveViewer
  <2>3. ConnInv'
    BY <2>1, <2>2, RefusalKeeps
  <2> QED
    BY <1>b, <2>1, <2>2, <2>3 DEF Inv
<1>2. ASSUME NEW i \in Slots, Handler(i) \/ Worker(i) \/ Writer(i) PROVE Inv'
  <2>1. ConnInv' /\ UNCHANGED <<session, room, client, fetch>>
    BY <1>2, HandlerKeeps, WorkerKeeps, WriterKeeps
  <2> QED
    BY <1>a, <1>b, <2>1 DEF Inv
<1>3. CASE Notify \/ NotifyAll \/ Shutdown \/ Crash
  <2>1. UNCHANGED <<session, room, client, fetch>>
    BY <1>3 DEF Notify, NotifyAll, Shutdown, BeginClose, Exit, Crash
  <2>2. \/ conn' = Woken
        \/ conn' = Vanished
        \/ \E cause \in {"canceled", "hub_closed"} : BeginClose(cause)
    BY <1>3 DEF Notify, NotifyAll, Shutdown, Exit, Crash
  <2>3. ConnInv'
    BY <2>1, <2>2, HubKeeps
  <2> QED
    BY <1>a, <1>b, <2>1, <2>3 DEF Inv
<1>4. CASE Stop
    BY <1>a, <1>b, <1>c, <1>4 DEF Inv, Stop
<1>5. CASE Browser
  <2>1. UNCHANGED <<session, room, fetch>>
    BY <1>5, Zenon DEF Browser, OpenSubscription, IssueTicket, Connect, OpenFails, Receive,
                CloseSeen, ConnectionLost
  <2>2. CASE OpenSubscription \/ IssueTicket \/ OpenFails
    <3>1. session.version \in Nat
        BY DEF Inv, RowInv
    <3>2. ClientInv'
      <4>1. client \in Clients /\ client.view = View(client.version)
        BY DEF Inv, ClientInv, ViewInOrder
      <4>2. CASE OpenSubscription
        <5> DEFINE phase == IF Viewable THEN "opening" ELSE "failed"
                   heard == IF Viewable THEN room.version ELSE 0
        <5>1. /\ client' = [client EXCEPT !.phase = phase, !.heard = heard]
              /\ phase \in Phases /\ phase # "online" /\ heard \in Nat
            BY <4>2 DEF OpenSubscription, Phases, Inv, RowInv
        <5> HIDE DEF phase, heard
        <5> QED
            BY <4>1, <5>1, Zenon DEF ClientInv, ViewInOrder, Clients
      <4>3. CASE IssueTicket
        BY <3>1, <4>1, <4>3, Zenon DEF ClientInv, ViewInOrder, Clients, Phases, IssueTicket
      <4>4. CASE OpenFails
        BY <4>1, <4>4, Zenon DEF ClientInv, ViewInOrder, Clients, Phases, OpenFails
      <4> QED
        BY <2>2, <4>2, <4>3, <4>4
    <3>3. UNCHANGED conn
        BY <2>2 DEF OpenSubscription, IssueTicket, OpenFails
    <3> QED
        BY <1>a, <1>c, <2>1, <3>2, <3>3 DEF Inv
  <2>3. CASE Connect
    BY <1>a, <2>1, <2>3, ConnectKeeps DEF Inv
  <2>4. CASE Receive
    BY <1>a, <2>1, <2>4, ReceiveKeeps DEF Inv
  <2>5. CASE CloseSeen
    <3> DEFINE phase == IF conn[client.slot].close = "unauthorized" THEN "failed"
                        ELSE "reconnecting"
    <3>1. Leave(phase) /\ client.phase = "online" /\ phase \in {"reconnecting", "failed"}
        BY <2>5 DEF CloseSeen
    <3> HIDE DEF phase
    <3> QED
        BY <1>a, <2>1, <3>1, LeaveKeeps DEF Inv
  <2>6. CASE ConnectionLost
    <3> DEFINE phase == "reconnecting"
    <3>1. Leave(phase) /\ client.phase = "online" /\ phase \in {"reconnecting", "failed"}
        BY <2>6 DEF ConnectionLost
    <3> HIDE DEF phase
    <3> QED
        BY <1>a, <2>1, <3>1, LeaveKeeps DEF Inv
  <2> QED
    BY <1>5, <2>2, <2>3, <2>4, <2>5, <2>6 DEF Browser
<1>6. CASE FetchProjection
  <2>1. RowInv'
    BY <1>6 DEF Inv, RowInv, FetchProjection
  <2> QED
    BY <1>b, <1>c, <1>6, <2>1 DEF Inv, FetchProjection
<1>7. CASE FetchAnswered
  <2>1. RowInv'
    BY <1>7 DEF Inv, RowInv, FetchAnswered
  <2>2. fetch.to \in Nat /\ client' = ShowProjection(client, fetch.to)
    BY <1>7 DEF Inv, RowInv, FetchAnswered
  <2>3. client \in Clients /\ client.view = View(client.version)
    BY DEF Inv, ClientInv, ViewInOrder
  <2>4. ClientInv'
    BY <2>2, <2>3, ShowInOrder DEF Inv, ClientInv, ViewInOrder
  <2> QED
    BY <1>c, <1>7, <2>1, <2>4 DEF Inv, FetchAnswered
<1>8. CASE UNCHANGED vars
    BY <1>a, <1>b, <1>c, <1>8 DEF Inv, vars
<1> QED
    BY <1>1, <1>2, <1>3, <1>4, <1>5, <1>6, <1>7, <1>8 DEF Next, Http

\* The invariant holds in every state of the specification.
THEOREM Invariance == Spec => []Inv
BY InitInv, StepInv, PTL DEF Spec

\* The table shows every transition up to its version once and in order: the
\* cursors of worker and writer agree, so a delta that continues the version
\* shown also carries the events after it (acceptDelta, serverFrameForUpdate).
THEOREM ViewsInOrder == Spec => []ViewInOrder
<1>1. Inv => ViewInOrder
    BY DEF Inv, ClientInv
<1> QED
    BY <1>1, Invariance, PTL

\* A removed viewer, or one whose game ended, gets at most one more update on a
\* connection: the worker asks again before it makes another (Refresh).
THEOREM RefusedAfterOneUpdate == Spec => []OneUpdateAfterRefusal
<1>1. Inv => OneUpdateAfterRefusal
    BY Zenon DEF Inv, ConnInv, Good, OneUpdateAfterRefusal
<1> QED
    BY <1>1, Invariance, PTL
=============================================================================
