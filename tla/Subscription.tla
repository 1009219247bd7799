---------------------------- MODULE Subscription ----------------------------
(***************************************************************************)
(* How one viewer of a running game stays up to date: the browser client   *)
(* (the reconnecting runner and the state it shows), the API calls that    *)
(* open a subscription or fetch a projection, and in the realtime service  *)
(* the handler, the hub's worker and the bounded writer of each WebSocket  *)
(* connection, against a session that advances, a room that changes, a     *)
(* viewer who is removed, lost wake-ups, failures and a draining service.  *)
(*                                                                         *)
(* The room's row counts for its version: the host and the memberships a   *)
(* connection tells its client change only with it.  A state is the list   *)
(* of the transitions that made it, so that a view shows what was applied. *)
(***************************************************************************)
EXTENDS Naturals, Sequences

CONSTANTS
    Slots,          \* connections the service may hold for this viewer at a time
    QueueCapacity,  \* Config.QueueCapacity of the writer
    MaxChanges,     \* bound on the transitions of the session and the room together
    MaxFaults       \* bound on failed calls, reads, writes and crashes

ASSUME BoundsAssumption ==
    /\ Slots \subseteq Nat \ {0}
    /\ QueueCapacity \in Nat \ {0}
    /\ MaxChanges \in Nat /\ MaxFaults \in Nat

VARIABLES
    session,    \* the stored session: its state version and whether it ended
    room,       \* the stored room: its version and whether the viewer is a member
    hub,        \* whether the service is stopping, and why the hub closed
    conn,       \* the connections of the viewer, by slot
    client,     \* the viewer's browser: phase of the runner, connection, state shown
    fetch,      \* a projection the client asked for over HTTP
    budget      \* failures left, and whether a read of a refresh failed

vars == <<session, room, hub, conn, client, fetch, budget>>

None == [kind |-> "none"]

\* Project and ProjectEvents: a full view, and the events after a version.
View(version) == [k \in 1 .. version |-> k]
EventsAfter(base, version) == [k \in 1 .. version - base |-> base + k]

\* AuthorizeLiveViewer: the room still plays this session, which has not ended,
\* and the viewer is still a member of it.  authorizeCurrent reads the session
\* first; what that read can refuse, the later read of the room refuses too.
Viewable == room.member /\ ~session.ended

FreeConn ==
    [pc |-> "free", peer |-> FALSE, cause |-> "none", wake |-> FALSE,
     auth |-> [room |-> 0, cursor |-> 0], next |-> None, cursor |-> 0,
     queue |-> <<>>, sink |-> "none", wire |-> <<>>, close |-> "none", told |-> 0, missed |-> 0,
     late |-> 0]

Registered == {"idle", "refreshed", "projected", "ending"}

\* A slot is free again when the service and the client are both done with it.
Settled(c) == IF c.pc = "gone" /\ ~c.peer THEN FreeConn ELSE c
Set(i, c) == conn' = [conn EXCEPT ![i] = Settled(c)]

\* context.WithCancelCause: the first cause stays.
First(cause, new) == IF cause = "none" THEN new ELSE cause

Fault == budget.left > 0 /\ budget' = [budget EXCEPT !.left = @ - 1]

Init ==
    /\ session = [version |-> 1, ended |-> FALSE]
    /\ room = [version |-> 1, member |-> TRUE]
    /\ hub = [stopping |-> FALSE, closed |-> "none"]
    /\ conn = [i \in Slots |-> FreeConn]
    /\ client = [phase |-> "reconnecting", slot |-> 0, version |-> 0, view |-> <<>>,
                 opened |-> 0, heard |-> 0]
    /\ fetch = None
    /\ budget = [left |-> MaxFaults, unread |-> FALSE]

-----------------------------------------------------------------------------
(* The authoritative rows. *)

MayChange == session.version + room.version < MaxChanges + 2

\* A move or a timer stores the next state.
Move ==
    /\ ~session.ended /\ MayChange
    /\ session' = [session EXCEPT !.version = @ + 1]
    /\ UNCHANGED <<room, hub, conn, client, fetch, budget>>

\* The final move or a cancellation ends the session and the room's game at once.
EndSession ==
    /\ ~session.ended /\ MayChange
    /\ session' = [session EXCEPT !.ended = TRUE]
    /\ room' = [room EXCEPT !.version = @ + 1]
    /\ UNCHANGED <<hub, conn, client, fetch, budget>>

\* A change of host, a pause, another member: a new version of the room.
RoomChanges ==
    /\ MayChange
    /\ room' = [room EXCEPT !.version = @ + 1]
    /\ UNCHANGED <<session, hub, conn, client, fetch, budget>>

RemoveViewer ==
    /\ room.member /\ MayChange
    /\ room' = [version |-> room.version + 1, member |-> FALSE]
    /\ UNCHANGED <<session, hub, conn, client, fetch, budget>>

-----------------------------------------------------------------------------
(* The connection: handler, worker and writer of one WebSocket. *)

\* Accept: the one-time grant becomes the authorization of the connection, with
\* the room as it is now and the cursor of the grant; otherwise it is rejected.
\* Nothing is sent: a room that changed since the grant was made is missed.
Accept(i) ==
    /\ conn[i].pc = "hello"
    /\ IF Viewable
       THEN Set(i, [conn[i] EXCEPT !.pc = "accepted", !.sink = "open",
                                   !.missed = IF conn[i].told = room.version THEN 0
                                              ELSE room.version,
                                   !.auth = [room |-> room.version, cursor |-> conn[i].cursor]])
       ELSE Set(i, [conn[i] EXCEPT !.pc = "gone", !.close = "retry"])
    /\ UNCHANGED <<session, room, hub, client, fetch, budget>>

\* The ticket expired, or Redis or a read failed.
AcceptFails(i) ==
    /\ conn[i].pc = "hello"
    /\ Fault
    /\ Set(i, [conn[i] EXCEPT !.pc = "gone", !.close = "retry"])
    /\ UNCHANGED <<session, room, hub, client, fetch>>

\* Register: a closed hub refuses, and the handler closes the writer with that;
\* otherwise the worker starts with a wake-up of its own.
Register(i) ==
    /\ conn[i].pc = "accepted"
    /\ Set(i, IF hub.closed # "none"
              THEN [conn[i] EXCEPT !.pc = "gone", !.sink = "done", !.close = "draining"]
              ELSE [conn[i] EXCEPT !.pc = "idle", !.wake = TRUE])
    /\ UNCHANGED <<session, room, hub, client, fetch, budget>>

\* The read loop ends with the socket: the client left or the writer closed it.
ReadFails(i) ==
    /\ conn[i].pc \in Registered /\ conn[i].cause = "none"
    /\ ~conn[i].peer \/ conn[i].sink = "done"
    /\ Set(i, [conn[i] EXCEPT !.cause = "canceled"])
    /\ UNCHANGED <<session, room, hub, client, fetch, budget>>

\* run returns: the context keeps its first cause and the writer is told it.
Ended(c, err) ==
    LET cause == First(c.cause, err)
    IN  [c EXCEPT !.pc = "ending", !.cause = cause, !.next = None,
                  !.sink = IF @ = "open" THEN cause ELSE @]

\* Faulty variant: a viewer once accepted is not asked for again.
RefreshTrusting(i) ==
    /\ conn[i].pc = "idle" /\ conn[i].wake
    /\ Set(i, [conn[i] EXCEPT !.pc = "refreshed", !.wake = FALSE,
                  !.next = [kind |-> IF room.version # conn[i].auth.room
                                     THEN "snapshot" ELSE "events",
                            room |-> room.version]])
    /\ UNCHANGED <<session, room, hub, client, fetch, budget>>

\* Faulty variant: a refused viewer is left alone instead of being closed.
RefreshLingering(i) ==
    /\ conn[i].pc = "idle" /\ conn[i].wake
    /\ Set(i, IF Viewable
              THEN [conn[i] EXCEPT !.pc = "refreshed", !.wake = FALSE,
                       !.next = [kind |-> IF room.version # conn[i].auth.room
                                          THEN "snapshot" ELSE "events",
                                 room |-> room.version]]
              ELSE [conn[i] EXCEPT !.wake = FALSE])
    /\ UNCHANGED <<session, room, hub, client, fetch, budget>>

\* Refresh: the authorization is renewed from the room as it is now; a room of
\* another version calls for a full projection.
Refresh(i) ==
    /\ conn[i].pc = "idle" /\ conn[i].wake
    /\ Set(i, IF Viewable
              THEN [conn[i] EXCEPT !.pc = "refreshed", !.wake = FALSE,
                       !.next = [kind |-> IF room.version # conn[i].auth.room
                                          THEN "snapshot" ELSE "events",
                                 room |-> room.version]]
              ELSE Ended([conn[i] EXCEPT !.wake = FALSE], "unauthorized"))
    /\ UNCHANGED <<session, room, hub, client, fetch, budget>>

\* A read of the refresh fails or times out, which is joined to "unauthorized";
\* once the worker is cancelled its reads may fail at no cost.
RefreshFails(i) ==
    /\ conn[i].pc = "idle" /\ conn[i].wake
    /\ IF conn[i].cause # "none" THEN UNCHANGED budget
       ELSE /\ budget.left > 0
            /\ budget' = [budget EXCEPT !.left = @ - 1, !.unread = TRUE]
    /\ Set(i, Ended([conn[i] EXCEPT !.wake = FALSE], "unauthorized"))
    /\ UNCHANGED <<session, room, hub, client, fetch>>

\* Faulty variant: an unchanged state version ends the reconciliation even when
\* the room has changed.
ProjectSkipsSnapshot(i) ==
    /\ conn[i].pc = "refreshed"
    /\ LET c       == conn[i]
           version == session.version
           update(kind) == [kind |-> kind, room |-> c.next.room, to |-> version]
       IN  IF version = c.auth.cursor
           THEN Set(i, [c EXCEPT !.pc = "idle", !.next = None, !.auth.room = c.next.room])
           ELSE \E kind \in IF c.next.kind = "snapshot" THEN {"projection"}
                            ELSE {"projection", "delta"} :
                    Set(i, [c EXCEPT !.pc = "projected", !.next = update(kind)])
    /\ UNCHANGED <<session, room, hub, client, fetch, budget>>

\* reconcile's projection of the session as it is now: all of it, or the events
\* after the cursor, for which all of it may stand in, or nothing new.
Project(i) ==
    /\ conn[i].pc = "refreshed"
    /\ LET c       == conn[i]
           version == session.version
           update(kind) == [kind |-> kind, room |-> c.next.room, to |-> version]
       IN  IF c.next.kind = "events" /\ version = c.auth.cursor
           THEN Set(i, [c EXCEPT !.pc = "idle", !.next = None, !.auth.room = c.next.room])
           ELSE \E kind \in IF c.next.kind = "snapshot" THEN {"projection"}
                            ELSE {"projection", "delta"} :
                    Set(i, [c EXCEPT !.pc = "projected", !.next = update(kind)])
    /\ UNCHANGED <<session, room, hub, client, fetch, budget>>

ProjectFails(i) ==
    /\ conn[i].pc = "refreshed"
    /\ IF conn[i].cause # "none" THEN UNCHANGED budget ELSE Fault
    /\ Set(i, Ended(conn[i], "failed"))
    /\ UNCHANGED <<session, room, hub, client, fetch>>

\* serverFrameForUpdate: the frame says which version it continues, by the
\* writer's cursor; its events are those after the worker's cursor.
Frame(c) ==
    [kind |-> c.next.kind, from |-> c.cursor, base |-> c.auth.cursor, to |-> c.next.to]

\* Faulty variant: the worker's cursor stays behind what it sent.
SentKeepsCursor(c) ==
    [c EXCEPT !.pc = "idle", !.next = None, !.queue = Append(@, Frame(c)),
              !.cursor = c.next.to, !.auth.room = c.next.room,
              !.told = IF c.next.kind = "projection" THEN c.next.room ELSE @,
              !.missed = IF c.next.kind = "projection" THEN 0 ELSE @,
              !.late = IF Viewable THEN @ ELSE @ + 1]

\* told, missed and late are kept for the properties: the version of the room
\* behind the last full projection, the version at the acceptance when that was
\* newer, and the updates made for a viewer who may not see them any more.
Sent(c) ==
    [c EXCEPT !.pc = "idle", !.next = None, !.queue = Append(@, Frame(c)),
              !.cursor = c.next.to, !.auth = [room |-> c.next.room, cursor |-> c.next.to],
              !.told = IF c.next.kind = "projection" THEN c.next.room ELSE @,
              !.missed = IF c.next.kind = "projection" THEN 0 ELSE @,
              !.late = IF Viewable THEN @ ELSE @ + 1]

\* Send never waits: the frame fits the queue, the writer or the worker is
\* cancelled, the client is too slow, or, as a rare fault, the frame too large.
Send(i) ==
    /\ conn[i].pc = "projected"
    /\ LET c     == conn[i]
           valid == c.cursor < c.next.to \/ (c.next.kind = "projection" /\ c.cursor = c.next.to)
           space == Len(c.queue) < QueueCapacity
           over  == c.cause # "none" \/ c.sink # "open"
       IN  \/ ~valid /\ Set(i, Ended(c, "failed")) /\ UNCHANGED budget
           \/ valid /\ space /\ Set(i, Sent(c)) /\ UNCHANGED budget
           \/ valid /\ over /\ Set(i, Ended(c, "failed")) /\ UNCHANGED budget
           \/ valid /\ ~space /\ ~over /\ Set(i, Ended(c, "slow")) /\ UNCHANGED budget
           \/ valid /\ Fault /\ Set(i, Ended(c, "failed"))
    /\ UNCHANGED <<session, room, hub, client, fetch>>

\* run meets its cancelled context between two wake-ups.
WorkerCancelled(i) ==
    /\ conn[i].pc = "idle" /\ conn[i].cause # "none"
    /\ Set(i, Ended(conn[i], "canceled"))
    /\ UNCHANGED <<session, room, hub, client, fetch, budget>>

\* The deferred calls: the writer is done, and the hub forgets the worker.
WorkerDone(i) ==
    /\ conn[i].pc = "ending" /\ conn[i].sink = "done"
    /\ Set(i, [conn[i] EXCEPT !.pc = "gone"])
    /\ UNCHANGED <<session, room, hub, client, fetch, budget>>

\* closeSemantics, as the client can tell the causes apart.
CloseSemantics(cause) ==
    CASE cause = "hub_closed"   -> "draining"
      [] cause = "unauthorized" -> "unauthorized"
      [] OTHER                  -> "retry"

Writing(c) == c.sink \notin {"none", "done"} /\ c.pc \in Registered

\* The writer's loop takes a frame as long as it has not noticed the end.
WriteFrame(i) ==
    /\ Writing(conn[i]) /\ conn[i].queue # <<>> /\ conn[i].wire = <<>> /\ conn[i].peer
    /\ Set(i, [conn[i] EXCEPT !.queue = Tail(@), !.wire = <<Head(conn[i].queue)>>])
    /\ UNCHANGED <<session, room, hub, client, fetch, budget>>

\* A write or a ping fails: the writer ends with the connection, by itself.
WriteFails(i) ==
    /\ Writing(conn[i])
    /\ IF ~conn[i].peer THEN UNCHANGED budget ELSE Fault
    /\ Set(i, [conn[i] EXCEPT !.sink = "done", !.queue = <<>>, !.close = "retry"])
    /\ UNCHANGED <<session, room, hub, client, fetch>>

\* finish: the closing frame and code; what is still queued is dropped.
Finish(i) ==
    /\ Writing(conn[i]) /\ conn[i].sink # "open"
    /\ Set(i, [conn[i] EXCEPT !.sink = "done", !.queue = <<>>,
                              !.close = CloseSemantics(conn[i].sink)])
    /\ UNCHANGED <<session, room, hub, client, fetch, budget>>

-----------------------------------------------------------------------------
(* The hub: wake-ups and the end of the service. *)

Woken == [i \in Slots |-> IF conn[i].pc \in Registered THEN [conn[i] EXCEPT !.wake = TRUE]
                          ELSE conn[i]]

\* Notify: the notification of a committed version arrives at any later time,
\* or is lost.  A wake-up joins the one that may be pending already.
Notify ==
    /\ session.version > 1 /\ hub.closed = "none"
    /\ conn' = Woken
    /\ UNCHANGED <<session, room, hub, client, fetch, budget>>

\* Run's ticker.
NotifyAll ==
    /\ hub.closed = "none"
    /\ conn' = Woken
    /\ UNCHANGED <<session, room, hub, client, fetch, budget>>

\* A signal reaches the service: its context ends.
Stop ==
    /\ ~hub.stopping /\ Fault
    /\ hub' = [hub EXCEPT !.stopping = TRUE]
    /\ UNCHANGED <<session, room, conn, client, fetch>>

\* beginClose: every worker's context is cancelled with the first cause, which
\* is that of Run's context or that of the application's Close.
BeginClose(cause) ==
    /\ hub.stopping /\ hub.closed = "none"
    /\ hub' = [hub EXCEPT !.closed = cause]
    /\ conn' = [i \in Slots |-> IF conn[i].pc \in Registered
                                THEN [conn[i] EXCEPT !.cause = First(@, cause)] ELSE conn[i]]
    /\ UNCHANGED <<session, room, client, fetch, budget>>

\* The process is gone, and its sockets with it.
Vanished == [i \in Slots |-> IF conn[i].pc \in {"free", "gone"} THEN conn[i]
                             ELSE Settled([FreeConn EXCEPT !.pc = "gone", !.peer = conn[i].peer,
                                              !.wire = conn[i].wire, !.late = conn[i].late,
                                              !.close = IF conn[i].close = "none" THEN "retry"
                                                        ELSE conn[i].close])]

\* Close has waited for every worker; the next process takes its place.
Exit ==
    /\ hub.closed # "none"
    /\ \A i \in Slots : conn[i].pc \notin Registered
    /\ conn' = Vanished
    /\ hub' = [stopping |-> FALSE, closed |-> "none"]
    /\ UNCHANGED <<session, room, client, fetch, budget>>

Crash ==
    /\ Fault
    /\ conn' = Vanished
    /\ hub' = [stopping |-> FALSE, closed |-> "none"]
    /\ UNCHANGED <<session, room, client, fetch>>

-----------------------------------------------------------------------------
(* The client. *)

\* acceptProjection: never back, though an equal version is taken.
ShowProjection(c, version) ==
    IF version < c.version THEN c ELSE [c EXCEPT !.version = version, !.view = View(version)]

\* OpenSubscription's authorization; a refusal ends the runner.  The room read
\* here decides whether the answer calls the viewer the host.
OpenSubscription ==
    /\ client.phase = "reconnecting"
    /\ client' = [client EXCEPT !.phase = IF Viewable THEN "opening" ELSE "failed",
                                !.heard = IF Viewable THEN room.version ELSE 0]
    /\ UNCHANGED <<session, room, hub, conn, fetch, budget>>

\* Its projection, whose version the grant carries as the cursor.
IssueTicket ==
    /\ client.phase = "opening"
    /\ client' = [client EXCEPT !.phase = "opened", !.opened = session.version]
    /\ UNCHANGED <<session, room, hub, conn, fetch, budget>>

\* The socket opens: the hello goes out, and the projection that came with the
\* ticket is the first update.
Connect ==
    /\ client.phase = "opened"
    /\ \E i \in Slots : conn[i].pc = "free"
    /\ LET i == CHOOSE j \in Slots : conn[j].pc = "free"
       IN  /\ conn' = [conn EXCEPT ![i] = [FreeConn EXCEPT !.pc = "hello", !.peer = TRUE,
                                                           !.cursor = client.opened,
                                                           !.told = client.heard]]
           /\ client' = [ShowProjection(client, client.opened) EXCEPT
                            !.phase = "online", !.slot = i, !.opened = 0, !.heard = 0]
    /\ UNCHANGED <<session, room, hub, fetch, budget>>

OpenFails ==
    /\ client.phase \in {"opening", "opened"}
    /\ Fault
    /\ client' = [client EXCEPT !.phase = "reconnecting", !.opened = 0, !.heard = 0]
    /\ UNCHANGED <<session, room, hub, conn, fetch>>

\* The iterator ends: the socket is closed, and what was on the wire is lost.
Leave(phase) ==
    /\ Set(client.slot, [conn[client.slot] EXCEPT !.peer = FALSE, !.wire = <<>>])
    /\ client' = [client EXCEPT !.phase = phase, !.slot = 0]

\* acceptDelta: what is known already is dropped, a delta that does not continue
\* the state shown is a cursor gap and ends the connection.
Receive ==
    /\ client.phase = "online" /\ conn[client.slot].wire # <<>>
    /\ LET frame == Head(conn[client.slot].wire)
           taken == [conn EXCEPT ![client.slot].wire = <<>>]
       IN  \/ /\ frame.kind = "projection"
              /\ client' = ShowProjection(client, frame.to)
              /\ conn' = taken
           \/ /\ frame.kind = "delta" /\ frame.to <= client.version
              /\ conn' = taken /\ UNCHANGED client
           \/ /\ frame.kind = "delta" /\ frame.to > client.version
              /\ frame.from = client.version
              /\ client' = [client EXCEPT !.version = frame.to,
                                          !.view = @ \o EventsAfter(frame.base, frame.to)]
              /\ conn' = taken
           \/ /\ frame.kind = "delta" /\ frame.to > client.version
              /\ frame.from # client.version
              /\ Leave("reconnecting")
    /\ UNCHANGED <<session, room, hub, fetch, budget>>

\* The socket closed: the runner stops if it was told "unauthorized" and
\* retries otherwise.
CloseSeen ==
    /\ client.phase = "online"
    /\ conn[client.slot].wire = <<>> /\ conn[client.slot].close # "none"
    /\ Leave(IF conn[client.slot].close = "unauthorized" THEN "failed" ELSE "reconnecting")
    /\ UNCHANGED <<session, room, hub, fetch, budget>>

\* The network fails, or the browser's own queue is full.
ConnectionLost ==
    /\ client.phase = "online"
    /\ Fault
    /\ Leave("reconnecting")
    /\ UNCHANGED <<session, room, hub, fetch>>

\* A projection over HTTP, after a move or to align the table with the room:
\* read, then answered at some later time.
FetchProjection ==
    /\ fetch = None /\ Viewable
    /\ client.phase # "failed"
    /\ fetch' = [kind |-> "projection", to |-> session.version]
    /\ Fault
    /\ UNCHANGED <<session, room, hub, conn, client>>

FetchAnswered ==
    /\ fetch # None
    /\ client' = ShowProjection(client, fetch.to)
    /\ fetch' = None
    /\ UNCHANGED <<session, room, hub, conn, budget>>

-----------------------------------------------------------------------------
Handler(i) == Accept(i) \/ AcceptFails(i) \/ Register(i) \/ ReadFails(i)
Worker(i) ==
    \/ Refresh(i) \/ RefreshFails(i) \/ Project(i) \/ ProjectFails(i)
    \/ Send(i) \/ WorkerCancelled(i) \/ WorkerDone(i)
Writer(i) == WriteFrame(i) \/ WriteFails(i) \/ Finish(i)
Shutdown == BeginClose("canceled") \/ BeginClose("hub_closed") \/ Exit
Browser ==
    \/ OpenSubscription \/ IssueTicket \/ Connect \/ OpenFails
    \/ Receive \/ CloseSeen \/ ConnectionLost
Http == FetchAnswered

Next ==
    \/ Move \/ EndSession \/ RoomChanges \/ RemoveViewer
    \/ \E i \in Slots : Handler(i) \/ Worker(i) \/ Writer(i)
    \/ Notify \/ NotifyAll
    \/ Stop \/ Shutdown \/ Crash
    \/ Browser \/ FetchProjection \/ Http

\* Goroutines and the browser's event loop are scheduled, the ticker of Run
\* ticks, and every call has a timeout.  Nothing is assumed of the players, of
\* Redis or of failures.
Fairness ==
    /\ \A i \in Slots : WF_vars(Handler(i)) /\ WF_vars(Worker(i)) /\ WF_vars(Writer(i))
    /\ WF_vars(NotifyAll) /\ WF_vars(Shutdown) /\ WF_vars(Browser) /\ WF_vars(Http)

Spec == Init /\ [][Next]_vars /\ Fairness

-----------------------------------------------------------------------------
\* What the table shows is the result of every transition up to its version,
\* each applied once and in order, whatever full projections over HTTP overtake
\* the frames of a connection (acceptDelta, and the cursors of worker and writer).
ViewInOrder == client.view = View(client.version)

\* A viewer who is removed, or whose game ended, may get the update that was
\* being made, and none after it: every reconciliation asks again (Refresh
\* before the projection).
OneUpdateAfterRefusal == \A i \in Slots : conn[i].late <= 1

\* Through lost notifications, full queues, cursor gaps, lost connections,
\* crashes and a drained service, a viewer of a running game comes to see its
\* latest state, and to know the present room: a change of the room after the
\* connection was accepted is pushed, with or without a move.  Two cases are
\* excepted.  A change between the reply that opened the subscription and the
\* acceptance is not pushed until the room changes again.  A read that fails
\* during a refresh is taken for a refusal, and the runner stops.
CaughtUp ==
    <>[](Viewable =>
            \/ client.phase = "failed" /\ budget.unread
            \/ /\ client.phase = "online" /\ client.version = session.version
               /\ room.version \in {conn[client.slot].told, conn[client.slot].missed}
               /\ conn[client.slot].queue = <<>> /\ conn[client.slot].wire = <<>>)

\* Nobody waits for ever: a hub that closes gets rid of its workers and the
\* service exits, and the connections of a viewer who was removed, or whose game
\* ended, go away (run's deferred calls, sink.Close waiting for the writer).
ConnectionsEnd ==
    /\ hub.closed # "none" ~> hub.closed = "none"
    /\ ~Viewable ~> \A i \in Slots : conn[i].pc = "free"
=============================================================================
