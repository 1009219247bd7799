--------------------------- MODULE CountdownProofs --------------------------
(***************************************************************************)
(* A countdown starts one game at most, and the game it announced: for any *)
(* number of handlers, countdowns, edits, users and games.                 *)
(*                                                                         *)
(* A start may commit because the room's version identifies the room that  *)
(* the countdown announced (Announced), and with rules no older than the   *)
(* answered edits because an edit that looks for a countdown after the     *)
(* start was let through finds the one that it was let through for         *)
(* (Prepared).                                                             *)
(***************************************************************************)
EXTENDS Countdown, TLAPS

-----------------------------------------------------------------------------
(* What the proof needs of the room: each command moves it to a new version. *)

RoomFields ==
    {"status", "host", "participantAdmission", "spectatorAdmission", "members", "session",
     "lastFinished", "request", "pause", "selected", "roomVersion", "membershipVersion", "epoch"}

Shape(r) == DOMAIN r = RoomFields /\ r.roomVersion \in Nat /\ r.selected \in Games

\* A command went from one room to the other.
Moved(r, next) == Shape(next) /\ next.roomVersion = r.roomVersion + 1

\* Both ways of counting up move a room whose version a command left alone.
LEMMA Bumps ==
    ASSUME NEW r, NEW q, Shape(r), DOMAIN q = RoomFields, q.roomVersion = r.roomVersion, q.selected \in Games
    PROVE  Moved(r, BumpVersions(q)) /\ Moved(r, BumpMembership(q))
BY DEF Moved, Shape, BumpVersions, BumpMembership, RoomFields

\* Every command of RoomLedger that Countdown takes a step with moves the room.
LEMMA LedgerMoves ==
    ASSUME Shape(room),
           \/ JoinRoom \/ SetRoomAdmission \/ SelectRoomGame \/ ApproveMember
           \/ RequestRoomPause \/ RejectRoomPause \/ PauseRoom \/ ResumeRoom
           \/ TransferRoomHost \/ CloseRoom \/ RemoveRoomMember
           \/ StartGame \/ FinishGame \/ CancelGame \/ CancelGameAndClose
    PROVE  Moved(room, room')
<1> DEFINE Kept(q) == DOMAIN q = RoomFields /\ q.roomVersion = room.roomVersion /\ q.selected \in Games
<1>0. \A q : Kept(q) => Moved(room, BumpVersions(q)) /\ Moved(room, BumpMembership(q))
    BY Bumps
<1>1. CASE JoinRoom
    <2>1. PICK u \in Users, i \in Intents : room' = Join(room, u, i)
        BY <1>1 DEF JoinRoom, Write
    <2>2. Kept([room EXCEPT !.members[u] = JoinedMember(room, u, i)])
        BY DEF Shape, RoomFields
    <2> QED BY <2>1, <2>2, <1>0, Zenon DEF Join
<1>2. CASE SetRoomAdmission
    <2>1. PICK p, s \in Modes : room' = SetAdmission(room, p, s)
        BY <1>2 DEF SetRoomAdmission, Write
    <2>2. Kept([room EXCEPT !.participantAdmission = p, !.spectatorAdmission = s])
        BY DEF Shape, RoomFields
    <2> QED BY <2>1, <2>2, <1>0, Zenon DEF SetAdmission
<1>3. CASE SelectRoomGame
    <2>1. PICK g \in Games : room' = SelectGame(room, g)
        BY <1>3 DEF SelectRoomGame, Write
    <2>2. Kept([room EXCEPT !.selected = g])
        BY DEF Shape, RoomFields
    <2> QED BY <2>1, <2>2, <1>0, Zenon DEF SelectGame
<1>4. CASE ApproveMember
    <2>1. PICK u \in Users : room' = ApproveWaiting(room, u)
        BY <1>4 DEF ApproveMember, Write
    <2> DEFINE requested == room.members[u].requested
               q == [room EXCEPT !.members[u] = [@ EXCEPT
                        !.role = requested, !.requested = NoRole,
                        !.seat = IF requested = "participant" THEN NextSeat(room) ELSE 0]]
    <2>2. Kept(q)
        BY DEF Shape, RoomFields
    <2>3. room' = BumpMembership(q)
        BY <2>1 DEF ApproveWaiting
    <2> QED BY <2>2, <2>3, <1>0, Zenon
<1>5. CASE RequestRoomPause
    <2>1. PICK u \in Users : room' = RequestPause(room, u, room.session)
        BY <1>5 DEF RequestRoomPause, Write
    <2> DEFINE q == [room EXCEPT !.request = [id |-> room.roomVersion + 1, session |-> room.session, by |-> u]]
    <2>2. Kept(q)
        BY DEF Shape, RoomFields
    <2>3. room' = BumpVersions(q)
        BY <2>1 DEF RequestPause
    <2> QED BY <2>2, <2>3, <1>0, Zenon
<1>6. CASE RejectRoomPause
    <2>1. Kept([room EXCEPT !.request = NoRequest])
        BY DEF Shape, RoomFields
    <2> QED BY <1>6, <2>1, <1>0, Zenon DEF RejectRoomPause, RejectPause, Write
<1>7. CASE PauseRoom
    <2>1. PICK id : room' = Pause(room, room.host, room.session, id)
        BY <1>7 DEF PauseRoom, Write
    <2>2. \A x : Kept([room EXCEPT !.request = NoRequest, !.pause = x])
        BY DEF Shape, RoomFields
    <2> QED BY <2>1, <2>2, <1>0, Zenon DEF Pause
<1>8. CASE ResumeRoom
    <2>1. Kept([room EXCEPT !.pause = NoPause])
        BY DEF Shape, RoomFields
    <2> QED BY <1>8, <2>1, <1>0, Zenon DEF ResumeRoom, Resume, Write
<1>9. CASE TransferRoomHost
    <2>1. PICK u \in Users : room' = TransferHost(room, u)
        BY <1>9 DEF TransferRoomHost, Write
    <2> DEFINE q == [room EXCEPT !.host = u, !.epoch = @ + 1,
                                 !.request = IF @.by = u THEN NoRequest ELSE @]
    <2>2. Kept(q)
        BY DEF Shape, RoomFields
    <2>3. room' = BumpVersions(q)
        BY <2>1 DEF TransferHost
    <2> QED BY <2>2, <2>3, <1>0, Zenon
<1>10. CASE CloseRoom
    <2>1. Kept([room EXCEPT !.status = "closed", !.participantAdmission = "closed",
                            !.spectatorAdmission = "closed", !.request = NoRequest, !.pause = NoPause])
        BY DEF Shape, RoomFields
    <2> QED BY <1>10, <2>1, <1>0, Zenon DEF CloseRoom, Close, Write
<1>11. CASE RemoveRoomMember
    <2>1. PICK u \in Users : room' = RemoveMember(room, u)
        BY <1>11 DEF RemoveRoomMember, Remove
    <2> DEFINE q == [room EXCEPT !.members[u] = NoMember,
                                 !.request = IF @.by = u THEN NoRequest ELSE @]
    <2>2. Kept(q)
        BY DEF Shape, RoomFields
    <2>3. room' = BumpMembership(q)
        BY <2>1 DEF RemoveMember
    <2> QED BY <2>2, <2>3, <1>0, Zenon
<1>12. CASE StartGame
    <2>1. \A x : Kept([room EXCEPT !.status = "playing", !.session = x,
                                   !.participantAdmission = "closed", !.lastFinished = NoSession])
        BY DEF Shape, RoomFields
    <2> QED BY <1>12, <2>1, <1>0, Zenon DEF StartGame, StartSession
<1>13. CASE FinishGame
    <2>1. \A x : Kept([room EXCEPT !.status = "post_game", !.session = NoSession, !.lastFinished = x,
                                   !.participantAdmission = "closed", !.request = NoRequest, !.pause = NoPause])
        BY DEF Shape, RoomFields
    <2> QED BY <1>13, <2>1, <1>0, Zenon DEF FinishGame, EndGame, FinishSession
<1>14. CASE CancelGame
    <2>1. Kept([room EXCEPT !.status = "lobby", !.session = NoSession, !.lastFinished = NoSession,
                            !.participantAdmission = "closed", !.request = NoRequest, !.pause = NoPause])
        BY DEF Shape, RoomFields
    <2> QED BY <1>14, <2>1, <1>0, Zenon DEF CancelGame, EndGame, CancelSession
<1>15. CASE CancelGameAndClose
    <2>1. Kept([room EXCEPT !.status = "closed", !.session = NoSession, !.lastFinished = NoSession,
                            !.participantAdmission = "closed", !.spectatorAdmission = "closed",
                            !.request = NoRequest, !.pause = NoPause])
        BY DEF Shape, RoomFields
    <2> QED BY <1>15, <2>1, <1>0, Zenon DEF CancelGameAndClose, EndGame, CancelSessionAndClose
<1> QED
    BY <1>1, <1>2, <1>3, <1>4, <1>5, <1>6, <1>7, <1>8, <1>9, <1>10, <1>11, <1>12, <1>13, <1>14, <1>15, Zenon

-----------------------------------------------------------------------------
(* The inductive invariant.                                                *)

CountdownFields == {"state", "due", "game", "revision", "fence", "seats"}

CountdownShape(c) ==
    /\ DOMAIN c = CountdownFields
    /\ c.state \in {"active", "cancelled", "consumed"}
    /\ c.game \in Games /\ c.revision \in Nat /\ c.fence.room \in Nat

CallShape(c) ==
    /\ c.pc \in {"idle", "find", "cancel", "begin", "start"}
    /\ c.pc \in {"find", "cancel"} =>
          /\ c.edit.revision \in Nat
          /\ c.edit # NoEdit => c.edit.game \in Games
    /\ c.pc \in {"cancel", "begin", "start"} => c.id \in Ids
    /\ c.pc = "begin" => c.game \in Games /\ c.revision \in Nat /\ c.fence.room \in Nat

Types ==
    /\ Shape(room)
    /\ drawn \in Nat
    /\ drafts \in [Games -> Nat]
    /\ honoured \in [Games -> Nat]
    /\ DOMAIN countdowns = Ids
    /\ \A i \in Ids : countdowns[i] = NoCountdown \/ CountdownShape(countdowns[i])
    /\ DOMAIN calls = Handlers
    /\ \A h \in Handlers : CallShape(calls[h])

\* An identifier belongs to one call until its countdown is stored, and calls
\* name countdowns that are stored.
IdsFresh ==
    /\ \A i \in Stored : i <= drawn
    /\ \A h \in Handlers : calls[h].pc = "begin" =>
          /\ calls[h].id <= drawn /\ calls[h].id \notin Stored
          /\ \A k \in Handlers : calls[k].pc = "begin" /\ calls[k].id = calls[h].id => k = h
    /\ \A h \in Handlers : calls[h].pc \in {"cancel", "start"} => calls[h].id \in Stored

\* A countdown, or one about to be stored, that bears the room's version bears
\* its host, game and seats, and was not consumed.
Announced ==
    /\ \A i \in Stored :
          LET c == countdowns[i]
          IN  /\ c.fence.room <= room.roomVersion
              /\ c.fence.room = room.roomVersion =>
                    /\ c.fence = Fence(room) /\ c.game = room.selected /\ c.seats = SeatsOf(room)
                    /\ c.state # "consumed"
    /\ \A h \in Handlers : calls[h].pc = "begin" =>
          /\ calls[h].fence.room <= room.roomVersion
          /\ calls[h].fence.room = room.roomVersion =>
                calls[h].fence = Fence(room) /\ calls[h].game = room.selected

\* A countdown that started a game is consumed.
StartedConsumed ==
    \A p \in started : p[2] \in Stored /\ countdowns[p[2]].state = "consumed"

\* Edits, answered or not, are in the draft.
EditsStored ==
    /\ \A g \in Games : honoured[g] <= drafts[g]
    /\ \A h \in Handlers : calls[h].pc \in {"find", "cancel"} /\ calls[h].edit # NoEdit =>
          calls[h].edit.revision <= drafts[calls[h].edit.game]

\* A countdown that a start was let through for, and that nobody cancelled, is
\* still the latest one, so an edit that looks for a countdown finds it; its
\* rules are no older than the answered edits, nor than the edits that are about
\* to cancel another one.
Prepared ==
    \A h \in Handlers : calls[h].pc = "start" /\ Active(calls[h].id) =>
        LET c == countdowns[calls[h].id]
        IN  /\ Latest(calls[h].id)
            /\ c.revision >= honoured[c.game]
            /\ \A k \in Handlers :
                  calls[k].pc = "cancel" /\ calls[k].edit # NoEdit
                  /\ calls[k].edit.game = c.game /\ calls[k].id # calls[h].id =>
                      c.revision >= calls[k].edit.revision

Inv ==
    /\ Types
    /\ IdsFresh
    /\ Announced
    /\ StartedConsumed
    /\ EditsStored
    /\ Prepared
    /\ CountdownStartsOnce

-----------------------------------------------------------------------------
(* Steps that take something away: countdowns are cancelled, calls end.    *)

\* No countdown changed but to be cancelled, or to be due.
Weakened ==
    /\ DOMAIN countdowns' = Ids
    /\ \A i \in Ids \ Stored : countdowns'[i] = countdowns[i]
    /\ \A i \in Stored :
          /\ CountdownShape(countdowns'[i])
          /\ countdowns'[i].game = countdowns[i].game
          /\ countdowns'[i].revision = countdowns[i].revision
          /\ countdowns'[i].fence = countdowns[i].fence
          /\ countdowns'[i].seats = countdowns[i].seats
          /\ \/ countdowns'[i].state = countdowns[i].state
             \/ countdowns'[i].state = "cancelled" /\ countdowns[i].state # "consumed"

\* What a handler's step does to the calls (the local state of handlers).
LEMMA GoSets ==
    ASSUME DOMAIN calls = Handlers, NEW h \in Handlers, NEW c, Go(h, c)
    PROVE  /\ DOMAIN calls' = Handlers
           /\ calls'[h] = c
           /\ \A k \in Handlers : k # h => calls'[k] = calls[k]
BY DEF Go

\* Cancelling countdowns that are stored and not consumed (CancelRoomPendingStart,
\* ExpireRoomPendingStarts, CancelActiveRoomPendingStarts).
LEMMA CancelledWeakens ==
    ASSUME Types, NEW ids, ids \subseteq Stored, \A i \in ids : countdowns[i].state # "consumed",
           countdowns' = Cancelled(ids)
    PROVE  Weakened /\ \A i \in ids : countdowns'[i].state = "cancelled"
BY DEF Types, Weakened, Cancelled, Stored, CountdownShape, CountdownFields, NoCountdown

\* Stored countdowns stay stored, and nothing becomes active.
LEMMA WeakenedStored ==
    ASSUME Types, Weakened
    PROVE  /\ Stored' = Stored
           /\ \A i \in Ids : Active(i)' => Active(i)
           /\ \A i \in Ids : Latest(i)' <=> Latest(i)
<1>1. \A i \in Ids : countdowns'[i].state # "none" <=> countdowns[i].state # "none"
    BY Zenon DEF Types, Weakened, Stored, CountdownShape, NoCountdown
<1>2. Stored' = Stored
    BY <1>1 DEF Stored
<1>3. \A i \in Ids : Active(i)' => Active(i)
    BY <1>1 DEF Active, Weakened, Stored
<1> QED BY <1>2, <1>3 DEF Latest

\* The invariant survives such a step, with or without a command on the room,
\* and with or without the answer to an edit: no start that is still let
\* through may have older rules than an answered edit.
LEMMA AnsweredStep ==
    ASSUME Inv, Weakened, room' = room \/ Moved(room, room'),
           UNCHANGED <<drafts, drawn, started>>,
           DOMAIN calls' = Handlers,
           \A k \in Handlers : \/ calls'[k] = calls[k]
                               \/ calls'[k] = Idle
                               \/ calls'[k] = [pc |-> "find", edit |-> NoEdit],
           honoured' \in [Games -> Nat],
           \A g \in Games : honoured'[g] <= drafts[g],
           \A k \in Handlers : calls'[k].pc = "start" /\ countdowns'[calls[k].id].state = "active" =>
               countdowns[calls[k].id].revision >= honoured'[countdowns[calls[k].id].game]
    PROVE  Inv'
<1>1. /\ Stored' = Stored
      /\ \A i \in Ids : Active(i)' => Active(i)
      /\ \A i \in Ids : Latest(i)' <=> Latest(i)
    BY WeakenedStored, Zenon DEF Inv
<1>2. \A k \in Handlers : calls'[k].pc \notin {"idle", "find"} => calls'[k] = calls[k]
    BY DEF Idle
<1>3. Types'
    <2>1. \A h \in Handlers : CallShape(calls'[h])
        BY DEF Inv, Types, CallShape, Idle, NoEdit
    <2>2. \A i \in Ids : countdowns'[i] = NoCountdown \/ CountdownShape(countdowns'[i])
        BY Zenon DEF Inv, Types, Weakened
    <2> QED BY <2>1, <2>2, Zenon DEF Inv, Types, Moved, Weakened, CallShape, CountdownShape
<1>4. IdsFresh'
    BY <1>1, <1>2 DEF Inv, IdsFresh
<1>5. Announced'
    BY <1>1, <1>2 DEF Inv, Types, Announced, Weakened, Moved, Shape, CountdownShape, CallShape, Stored
<1>6. StartedConsumed'
    BY <1>1 DEF Inv, StartedConsumed, Weakened
<1>7. EditsStored'
    BY DEF Inv, EditsStored, Idle
<1>8. Prepared'
    <2> SUFFICES ASSUME NEW k \in Handlers, NEW i, calls'[k].pc = "start", calls'[k].id = i, Active(i)'
                 PROVE  /\ Latest(i)'
                        /\ countdowns'[i].revision >= honoured'[countdowns'[i].game]
                        /\ \A l \in Handlers :
                              calls'[l].pc = "cancel" /\ calls'[l].edit # NoEdit
                              /\ calls'[l].edit.game = countdowns'[i].game /\ calls'[l].id # i =>
                                  countdowns'[i].revision >= calls'[l].edit.revision
        BY Zenon DEF Prepared
    <2>1. calls'[k] = calls[k] /\ i \in Stored /\ i \in Ids
        BY <1>2, Zenon DEF Inv, IdsFresh, Stored
    <2>2. countdowns'[i].game = countdowns[i].game /\ countdowns'[i].revision = countdowns[i].revision
        BY <2>1, Zenon DEF Weakened
    <2>3. Active(i) /\ Latest(i)'
        BY <1>1, <2>1, Zenon DEF Inv, Prepared
    <2>4. countdowns[i].revision >= honoured'[countdowns[i].game]
        BY <2>1, Zenon DEF Active
    <2> QED BY <1>2, <2>1, <2>2, <2>3, <2>4, SMTT(30) DEF Inv, Prepared
<1>9. CountdownStartsOnce'
    BY Zenon DEF Inv, CountdownStartsOnce
<1> QED BY <1>3, <1>4, <1>5, <1>6, <1>7, <1>8, <1>9, Zenon DEF Inv

\* The same of a step that answers no edit.
LEMMA QuietStep ==
    ASSUME Inv, Weakened, room' = room \/ Moved(room, room'),
           UNCHANGED <<drafts, drawn, started, honoured>>,
           DOMAIN calls' = Handlers,
           \A k \in Handlers : \/ calls'[k] = calls[k]
                               \/ calls'[k] = Idle
                               \/ calls'[k] = [pc |-> "find", edit |-> NoEdit]
    PROVE  Inv'
<1>1. honoured' \in [Games -> Nat] /\ \A g \in Games : honoured'[g] <= drafts[g]
    BY Zenon DEF Inv, Types, EditsStored
<1>2. ASSUME NEW k \in Handlers, calls'[k].pc = "start", countdowns'[calls[k].id].state = "active"
      PROVE  countdowns[calls[k].id].revision >= honoured'[countdowns[calls[k].id].game]
    <2>1. calls'[k] = calls[k] /\ calls[k].id \in Stored /\ calls[k].id \in Ids
        BY <1>2 DEF Idle, Inv, IdsFresh, Stored
    <2>2. Active(calls[k].id)
        BY <1>2, <2>1, Zenon DEF Weakened, Active
    <2> QED BY <1>2, <2>1, <2>2, Zenon DEF Inv, Prepared
<1> QED BY <1>1, <1>2, AnsweredStep, Zenon

\* Commands on the room, failures and deadlines are such steps.
LEMMA QuietActions ==
    ASSUME Inv,
           \/ \E h \in Handlers : RoomCommand(h) \/ TransferCommand(h) \/ Fail(h)
           \/ OtherCommand
           \/ \E i \in Ids : Elapse(i)
    PROVE  Inv'
<1>0. UNCHANGED countdowns => Weakened
    BY DEF Inv, Types, Weakened, Stored, NoCountdown
<1>1. ASSUME NEW h \in Handlers, RoomCommand(h) PROVE Inv'
    <2>1. Moved(room, room')
        BY <1>1, LedgerMoves, Zenon DEF RoomCommand, Inv, Types
    <2>2. /\ DOMAIN calls' = Handlers
          /\ calls'[h] = [pc |-> "find", edit |-> NoEdit]
          /\ \A k \in Handlers : k # h => calls'[k] = calls[k]
        BY <1>1, GoSets, Zenon DEF RoomCommand, Inv, Types
    <2> QED BY <1>0, <1>1, <2>1, <2>2, QuietStep, Zenon DEF RoomCommand
<1>2. ASSUME NEW h \in Handlers, TransferCommand(h) PROVE Inv'
    <2>1. Moved(room, room')
        BY <1>2, LedgerMoves, Zenon DEF TransferCommand, Inv, Types
    <2>2. /\ DOMAIN calls' = Handlers
          /\ calls'[h] = [pc |-> "find", edit |-> NoEdit]
          /\ \A k \in Handlers : k # h => calls'[k] = calls[k]
        BY <1>2, GoSets, Zenon DEF TransferCommand, Inv, Types
    <2>3. Weakened
        <3> DEFINE ids == {i \in Ids : Active(i) /\ countdowns[i].fence.epoch = room.epoch}
        <3>1. ids \subseteq Stored /\ \A i \in ids : countdowns[i].state # "consumed"
            BY DEF Active, Stored
        <3>2. countdowns' = Cancelled(ids)
            BY <1>2, Zenon DEF TransferCommand
        <3> QED BY <3>1, <3>2, CancelledWeakens, Zenon DEF Inv
    <2> QED BY <1>2, <2>1, <2>2, <2>3, QuietStep, Zenon DEF TransferCommand
<1>3. ASSUME NEW h \in Handlers, Fail(h) PROVE Inv'
    <2>1. /\ DOMAIN calls' = Handlers
          /\ calls'[h] = Idle
          /\ \A k \in Handlers : k # h => calls'[k] = calls[k]
        BY <1>3, GoSets, Zenon DEF Fail, Inv, Types
    <2> QED BY <1>0, <1>3, <2>1, QuietStep, Zenon DEF Fail, vars
<1>4. CASE OtherCommand
    <2>1. Moved(room, room')
        BY <1>4, LedgerMoves, Zenon DEF OtherCommand, Inv, Types
    <2> QED BY <1>0, <1>4, <2>1, QuietStep, Zenon DEF OtherCommand, Inv, Types
<1>5. ASSUME NEW i \in Ids, Elapse(i) PROVE Inv'
    <2>1. Weakened
        BY <1>5 DEF Elapse, Active, Inv, Types, Weakened, Stored, CountdownShape, CountdownFields, NoCountdown
    <2> QED BY <1>5, <2>1, QuietStep, Zenon DEF Elapse, vars, Inv, Types
<1> QED BY <1>1, <1>2, <1>3, <1>4, <1>5

-----------------------------------------------------------------------------
(* Steps that change what one handler is at.                               *)

\* Drafts and the identifiers drawn go up, and nothing else changes but calls.
OnlyReads ==
    /\ UNCHANGED <<room, countdowns, started, honoured>>
    /\ drafts' \in [Games -> Nat] /\ \A g \in Games : drafts[g] <= drafts'[g]
    /\ drawn' \in Nat /\ drawn <= drawn'

\* The call that a handler goes on to has what the invariant wants of it.
Fits(h, c) ==
    /\ CallShape(c)
    /\ c.pc = "begin" =>
          /\ c.id <= drawn' /\ c.id \notin Stored
          /\ \A k \in Handlers : k # h /\ calls[k].pc = "begin" => calls[k].id # c.id
          /\ c.fence = Fence(room) /\ c.game = room.selected
    /\ c.pc \in {"cancel", "start"} => c.id \in Stored
    /\ c.pc \in {"find", "cancel"} /\ c.edit # NoEdit => c.edit.revision <= drafts'[c.edit.game]
    /\ c.pc = "cancel" /\ c.edit # NoEdit => Latest(c.id)
    /\ c.pc = "start" => Latest(c.id) /\ countdowns[c.id].revision = drafts[countdowns[c.id].game]

\* The invariant survives a step to such a call.
LEMMA CallStep ==
    ASSUME Inv, NEW h \in Handlers, NEW c, Go(h, c), Fits(h, c), OnlyReads
    PROVE  Inv'
<1>1. /\ DOMAIN calls' = Handlers
      /\ calls'[h] = c
      /\ \A k \in Handlers : k # h => calls'[k] = calls[k]
    BY GoSets DEF Inv, Types
<1>2. Stored' = Stored /\ \A j \in Ids : (Active(j)' <=> Active(j)) /\ (Latest(j)' <=> Latest(j))
    BY DEF OnlyReads, Stored, Active, Latest
<1>3. Types'
    <2>1. \A k \in Handlers : CallShape(calls'[k])
        BY <1>1, Zenon DEF Inv, Types, Fits
    <2> QED BY <1>1, <2>1, Zenon DEF Inv, Types, OnlyReads, CountdownShape
<1>4. IdsFresh'
    <2>1. \A i \in Stored : i <= drawn'
        <3>1. \A i \in Stored : i \in Nat /\ i <= drawn
            BY DEF Inv, IdsFresh, Stored, Ids
        <3> QED BY <3>1 DEF Inv, Types, OnlyReads
    <2>2. \A k \in Handlers : calls[k].pc = "begin" => calls[k].id <= drawn'
        <3>1. \A k \in Handlers : calls[k].pc = "begin" => calls[k].id \in Nat /\ calls[k].id <= drawn
            BY DEF Inv, IdsFresh, Types, CallShape, Ids
        <3> QED BY <3>1 DEF Inv, Types, OnlyReads
    <2> QED BY <1>1, <1>2, <2>1, <2>2 DEF Inv, IdsFresh, Fits
<1>5. Announced'
    <2>1. c.pc = "begin" => c.fence.room <= room.roomVersion
        BY DEF Fits, Fence, Inv, Types, Shape
    <2> QED BY <1>1, <1>2, <2>1 DEF Inv, Announced, Fits, OnlyReads
<1>6. StartedConsumed' /\ CountdownStartsOnce'
    BY <1>2, Zenon DEF Inv, StartedConsumed, CountdownStartsOnce, OnlyReads
<1>7. EditsStored'
    <2>1. \A g \in Games : honoured[g] <= drafts'[g]
        BY DEF Inv, Types, EditsStored, OnlyReads
    <2>2. ASSUME NEW k \in Handlers, calls[k].pc \in {"find", "cancel"}, calls[k].edit # NoEdit
          PROVE  calls[k].edit.revision <= drafts'[calls[k].edit.game]
        <3>1. calls[k].edit.game \in Games /\ calls[k].edit.revision \in Nat
              /\ calls[k].edit.revision <= drafts[calls[k].edit.game]
            BY <2>2, Zenon DEF Inv, Types, CallShape, EditsStored
        <3> QED BY <3>1 DEF Inv, Types, OnlyReads
    <2> QED BY <1>1, <2>1, <2>2 DEF EditsStored, Fits, OnlyReads
<1>8. Prepared'
    <2> SUFFICES ASSUME NEW k \in Handlers, NEW j \in Ids,
                        calls'[k].pc = "start", calls'[k].id = j, Active(j)
                 PROVE  /\ Latest(j)
                        /\ countdowns[j].revision >= honoured[countdowns[j].game]
                        /\ \A l \in Handlers :
                              calls'[l].pc = "cancel" /\ calls'[l].edit # NoEdit
                              /\ calls'[l].edit.game = countdowns[j].game /\ calls'[l].id # j =>
                                  countdowns[j].revision >= calls'[l].edit.revision
        BY <1>2, <1>3, Zenon DEF Prepared, Types, CallShape, OnlyReads
    <2>1. CASE k = h
        <3>1. c.pc = "start" /\ c.id = j /\ Latest(j)
            BY <1>1, <2>1, Zenon DEF Fits
        <3>2. countdowns[j].game \in Games /\ countdowns[j].revision = drafts[countdowns[j].game]
            BY <3>1 DEF Fits, Latest, Stored, NoCountdown, Inv, Types, CountdownShape
        <3>3. countdowns[j].revision >= honoured[countdowns[j].game]
            BY <3>2, Zenon DEF Inv, Types, EditsStored
        <3>4. \A l \in Handlers :
                calls[l].pc = "cancel" /\ calls[l].edit # NoEdit /\ calls[l].edit.game = countdowns[j].game =>
                    countdowns[j].revision >= calls[l].edit.revision
            BY <3>2, Zenon DEF Inv, Types, CallShape, EditsStored
        <3> QED BY <1>1, <3>1, <3>3, <3>4
    <2>2. CASE k # h
        <3>1. calls[k].pc = "start" /\ calls[k].id = j /\ Latest(j)
              /\ countdowns[j].revision >= honoured[countdowns[j].game]
            BY <1>1, <2>2, Zenon DEF Inv, Prepared
        <3>2. c.pc = "cancel" /\ c.edit # NoEdit => c.id = j
            BY <3>1 DEF Fits, Latest, Stored, Ids
        <3>3. \A l \in Handlers \ {h} :
                calls[l].pc = "cancel" /\ calls[l].edit # NoEdit
                /\ calls[l].edit.game = countdowns[j].game /\ calls[l].id # j =>
                    countdowns[j].revision >= calls[l].edit.revision
            BY <3>1, Zenon DEF Inv, Prepared
        <3> QED BY <1>1, <3>1, <3>2, <3>3
    <2> QED BY <2>1, <2>2, Zenon
<1> QED BY <1>3, <1>4, <1>5, <1>6, <1>7, <1>8 DEF Inv

\* A call that found the latest countdown active, or was told which to cancel.
LEMMA FindStep ==
    ASSUME Inv, NEW h \in Handlers, FindPending(h) \/ CancelGameStart(h)
    PROVE  Inv'
<1>1. PICK i \in Stored, e \in {NoEdit, calls[h].edit} :
        /\ Go(h, [pc |-> "cancel", edit |-> e, id |-> i])
        /\ e = NoEdit \/ (e = calls[h].edit /\ calls[h].pc = "find" /\ Latest(i) /\ Active(i))
    BY Zenon DEF FindPending, CancelGameStart, Latest
<1> DEFINE c == [pc |-> "cancel", edit |-> e, id |-> i]
<1>2. UNCHANGED <<room, drafts, drawn, countdowns, started, honoured>>
    BY Zenon DEF FindPending, CancelGameStart, vars
<1>3. c.pc = "cancel" /\ c.id = i /\ c.edit = e
    OBVIOUS
<1>4. CallShape(c)
    BY <1>1 DEF CallShape, Inv, Types, NoEdit, Stored
<1>5. e # NoEdit => e.revision <= drafts[e.game]
    BY <1>1, Zenon DEF Inv, EditsStored
<1>6. drafts \in [Games -> Nat] /\ drawn \in Nat
    BY DEF Inv, Types
<1>7. Go(h, c)
    BY <1>1
<1> HIDE DEF c
<1>8. Fits(h, c)
    BY <1>1, <1>2, <1>3, <1>4, <1>5, Zenon DEF Fits
<1> QED BY <1>2, <1>6, <1>7, <1>8, CallStep DEF OnlyReads

\* An edit raises the draft's revision and has still to look for a countdown.
LEMMA EditStep ==
    ASSUME Inv, NEW h \in Handlers, UpdateGameConfig(h)
    PROVE  Inv'
<1> DEFINE g == room.selected
           edit == [game |-> g, revision |-> drafts[g] + 1]
           c == [pc |-> "find", edit |-> edit]
<1>1. g \in Games /\ drawn \in Nat
    BY DEF Inv, Types, Shape
<1>2. /\ drafts' \in [Games -> Nat]
      /\ drafts'[g] = drafts[g] + 1 /\ drafts'[g] \in Nat
      /\ \A f \in Games : drafts[f] <= drafts'[f]
    BY <1>1 DEF UpdateGameConfig, Inv, Types
<1>3. UNCHANGED <<room, drawn, countdowns, started, honoured>> /\ Go(h, c)
    BY DEF UpdateGameConfig, vars
<1>4. c.pc = "find" /\ c.edit.game = g /\ c.edit.revision = drafts'[g]
    BY <1>2, Zenon
<1> HIDE DEF c
<1>5. CallShape(c)
    BY <1>1, <1>2, <1>4, Zenon DEF CallShape
<1>6. Fits(h, c) /\ OnlyReads
    BY <1>1, <1>2, <1>3, <1>4, <1>5 DEF Fits, OnlyReads
<1> QED BY <1>3, <1>6, CallStep

\* The identifier that BeginGameStart draws is nobody else's.
LEMMA BeginStep ==
    ASSUME Inv, NEW h \in Handlers, BeginGameStart(h)
    PROVE  Inv'
<1> DEFINE g == room.selected
           revision == IF drafts[g] = 0 THEN 1 ELSE drafts[g]
           c == [pc |-> "begin", id |-> drawn + 1, game |-> g, revision |-> revision,
                 fence |-> Fence(room), overdue |-> {i \in Ids : countdowns[i].due}]
<1>1. g \in Games /\ room.roomVersion \in Nat /\ drawn \in Nat
    BY DEF Inv, Types, Shape
<1>2. /\ drafts' \in [Games -> Nat]
      /\ \A f \in Games : drafts[f] <= drafts'[f]
      /\ revision \in Nat
    BY <1>1 DEF BeginGameStart, Inv, Types
<1>3. UNCHANGED <<room, countdowns, started, honoured>> /\ Go(h, c)
    BY Zenon DEF BeginGameStart, vars
<1>4. drawn' = drawn + 1 /\ drawn' \in Nat /\ drawn <= drawn' /\ drawn + 1 \in Ids
    BY <1>1, CountdownAssumption DEF BeginGameStart, Ids
<1>5. /\ c.pc = "begin" /\ c.id = drawn' /\ c.game = g /\ c.revision \in Nat
      /\ c.fence = Fence(room) /\ c.fence.room = room.roomVersion
    BY <1>2, <1>4, Zenon DEF Fence
<1> HIDE DEF c
<1>6. CallShape(c)
    BY <1>1, <1>4, <1>5 DEF CallShape
<1>7. c.id \notin Stored
    <2>1. \A i \in Stored : i \in Nat /\ i <= drawn
        BY DEF Inv, IdsFresh, Stored, Ids
    <2> QED BY <1>1, <1>4, <1>5, <2>1
<1>8. \A k \in Handlers : calls[k].pc = "begin" => calls[k].id # c.id
    <2>1. \A k \in Handlers : calls[k].pc = "begin" => calls[k].id \in Nat /\ calls[k].id <= drawn
        BY DEF Inv, IdsFresh, Types, CallShape, Ids
    <2> QED BY <1>1, <1>4, <1>5, <2>1
<1>9. Fits(h, c) /\ OnlyReads
    BY <1>1, <1>2, <1>3, <1>4, <1>5, <1>6, <1>7, <1>8 DEF Fits, OnlyReads
<1> QED BY <1>3, <1>9, CallStep

\* prepareStart lets a start through with the draft's own revision.
LEMMA PrepareStep ==
    ASSUME Inv, NEW h \in Handlers, PrepareStart(h)
    PROVE  Inv'
<1>1. PICK i \in Ids : Preparable(i) /\ Go(h, [pc |-> "start", id |-> i])
    BY DEF PrepareStart
<1> DEFINE c == [pc |-> "start", id |-> i]
<1>2. UNCHANGED <<room, drafts, drawn, countdowns, started, honoured>>
    BY DEF PrepareStart, vars
<1>3. i \in Stored /\ Latest(i) /\ countdowns[i].revision = drafts[countdowns[i].game]
    BY <1>1 DEF Preparable, Latest
<1>4. c.pc = "start" /\ c.id = i /\ Go(h, c)
    BY <1>1
<1> HIDE DEF c
<1>5. CallShape(c)
    BY <1>4 DEF CallShape
<1>6. drafts \in [Games -> Nat] /\ drawn \in Nat
    BY DEF Inv, Types
<1>7. Fits(h, c) /\ OnlyReads
    BY <1>2, <1>3, <1>4, <1>5, <1>6 DEF Fits, OnlyReads
<1> QED BY <1>4, <1>7, CallStep

-----------------------------------------------------------------------------
(* Steps that write a countdown.                                           *)

\* The step that answers an edit, after which no start that was let through may
\* commit with older rules: the one it found is cancelled, there was none, or
\* another was let through after the edit.
LEMMA AnswerStep ==
    ASSUME Inv, NEW h \in Handlers, NothingPending(h) \/ CancelPendingStart(h)
    PROVE  Inv'
<1> DEFINE edit == calls[h].edit
<1>1. /\ DOMAIN calls' = Handlers
      /\ calls'[h] = Idle
      /\ \A k \in Handlers : k # h => calls'[k] = calls[k]
    BY GoSets, Zenon DEF NothingPending, CancelPendingStart, Answer, Inv, Types
<1>2. UNCHANGED <<room, drafts, drawn, started>>
    BY DEF NothingPending, CancelPendingStart, vars
<1>3. calls[h].pc \in {"find", "cancel"}
    BY DEF NothingPending, CancelPendingStart
<1>4. /\ honoured' \in [Games -> Nat]
      /\ \A g \in Games : \/ honoured'[g] = honoured[g]
                          \/ edit # NoEdit /\ g = edit.game /\ honoured'[g] = edit.revision
    <2>1. edit.revision \in Nat /\ (edit # NoEdit => edit.game \in Games) /\ honoured \in [Games -> Nat]
        BY <1>3, Zenon DEF Inv, Types, CallShape
    <2>2. honoured' = IF edit = NoEdit THEN honoured
                      ELSE [honoured EXCEPT ![edit.game] = IF edit.revision > @ THEN edit.revision ELSE @]
        BY Zenon DEF NothingPending, CancelPendingStart, Answer
    <2> HIDE DEF edit
    <2>3. CASE edit = NoEdit
        BY <2>1, <2>2, <2>3
    <2>4. CASE edit # NoEdit
        <3> DEFINE r == IF edit.revision > honoured[edit.game] THEN edit.revision ELSE honoured[edit.game]
        <3>1. honoured' = [honoured EXCEPT ![edit.game] = r]
            BY <2>2, <2>4
        <3>2. r \in Nat /\ r \in {edit.revision, honoured[edit.game]}
            BY <2>1, <2>4
        <3> HIDE DEF r
        <3> QED BY <2>1, <2>4, <3>1, <3>2
    <2> QED BY <2>3, <2>4
<1>5. /\ Weakened
      /\ calls[h].pc = "cancel" => countdowns'[calls[h].id].state # "active"
    <2>1. CASE NothingPending(h)
        BY <2>1 DEF NothingPending, Inv, Types, Weakened, Stored, NoCountdown
    <2>2. CASE CancelPendingStart(h)
        <3> DEFINE ids == {calls[h].id} \ {i \in Ids : countdowns[i].state = "consumed"}
        <3>1. calls[h].id \in Stored /\ calls[h].id \in Ids
            BY <2>2, Zenon DEF CancelPendingStart, Inv, IdsFresh, Stored
        <3>2. ids \subseteq Stored /\ \A i \in ids : countdowns[i].state # "consumed"
            BY <3>1, Zenon DEF Stored
        <3>3. countdowns' = Cancelled(ids)
            BY <2>2 DEF CancelPendingStart
        <3>4. Weakened /\ \A i \in ids : countdowns'[i].state = "cancelled"
            BY <3>2, <3>3, CancelledWeakens, Zenon DEF Inv
        <3> QED BY <3>1, <3>4, Zenon DEF Weakened
    <2> QED BY <2>1, <2>2, Zenon
<1>6. \A g \in Games : honoured'[g] <= drafts[g]
    BY <1>3, <1>4, Zenon DEF Inv, EditsStored
<1>7. ASSUME NEW k \in Handlers, calls'[k].pc = "start", countdowns'[calls[k].id].state = "active"
      PROVE  countdowns[calls[k].id].revision >= honoured'[countdowns[calls[k].id].game]
    <2> DEFINE i == calls[k].id
    <2>1. k # h /\ calls'[k] = calls[k] /\ calls[k].pc = "start" /\ i \in Stored /\ i \in Ids
        BY <1>1, <1>7 DEF Idle, Inv, IdsFresh, Stored
    <2>2. Active(i)
        BY <1>5, <1>7, <2>1, Zenon DEF Weakened, Active
    <2>3. Latest(i) /\ countdowns[i].revision >= honoured[countdowns[i].game]
        BY <2>1, <2>2, Zenon DEF Inv, Prepared
    <2>4. calls[h].pc = "cancel" /\ calls[h].id # i
        BY <1>5, <1>7, <2>1, <2>2, <2>3, Zenon DEF NothingPending, CancelPendingStart
    <2>5. edit # NoEdit /\ edit.game = countdowns[i].game => countdowns[i].revision >= edit.revision
        BY <2>1, <2>2, <2>4, Zenon DEF Inv, Prepared
    <2>6. countdowns[i].game \in Games
        BY <2>1 DEF Inv, Types, Stored, NoCountdown, CountdownShape
    <2> HIDE DEF i, edit
    <2>7. \/ honoured'[countdowns[i].game] = honoured[countdowns[i].game]
          \/ edit # NoEdit /\ countdowns[i].game = edit.game /\ honoured'[countdowns[i].game] = edit.revision
        BY <1>4, <2>6, Zenon
    <2>8. countdowns[i].revision >= honoured'[countdowns[i].game]
        BY <2>3, <2>5, <2>7, Zenon
    <2> QED BY <2>8, Zenon DEF i
<1> HIDE DEF edit
<1> QED BY <1>1, <1>2, <1>4, <1>5, <1>6, <1>7, AnsweredStep, Zenon

\* The countdown that BeginPendingStart stores is the only active one: those
\* that starts were let through for are no longer active.
LEMMA StoreStep ==
    ASSUME Inv, NEW h \in Handlers, BeginPendingStart(h)
    PROVE  Inv'
<1> DEFINE call == calls[h]
           overdue == {i \in call.overdue : Active(i)}
           new == [state |-> "active", due |-> FALSE, game |-> call.game, revision |-> call.revision,
                   fence |-> call.fence, seats |-> SeatsOf(room)]
<1>1. /\ call.pc = "begin" /\ call.id \in Ids /\ call.id \notin Stored /\ call.id <= drawn
      /\ call.game \in Games /\ call.revision \in Nat /\ call.fence.room \in Nat
      /\ call.fence = Fence(room) /\ call.game = room.selected
    <2>1. calls[h].pc = "begin" /\ calls[h].fence = Fence(room)
        BY Zenon DEF BeginPendingStart
    <2>2. calls[h].fence.room = room.roomVersion
        BY <2>1 DEF Fence
    <2>3. CallShape(calls[h])
        BY DEF Inv, Types
    <2>4. calls[h].id \notin Stored /\ calls[h].id <= drawn
        BY <2>1, Zenon DEF Inv, IdsFresh
    <2>5. calls[h].game = room.selected
        BY <2>1, <2>2, Zenon DEF Inv, Announced
    <2> QED BY <2>1, <2>3, <2>4, <2>5, Zenon DEF CallShape
<1>2. /\ DOMAIN calls' = Handlers
      /\ calls'[h] = Idle
      /\ \A k \in Handlers : k # h => calls'[k] = calls[k]
    <2>1. Go(h, Idle)
        BY Zenon DEF BeginPendingStart
    <2> QED BY <2>1, GoSets DEF Inv, Types
<1>3. UNCHANGED <<room, drafts, drawn, started, honoured>>
    BY Zenon DEF BeginPendingStart, vars
<1>4. \A i \in Ids : Active(i) => i \in overdue
    BY Zenon DEF BeginPendingStart
<1>5. /\ DOMAIN countdowns' = Ids
      /\ countdowns'[call.id] = new
      /\ \A i \in Ids \ {call.id} : countdowns'[i] = Cancelled(overdue)[i]
    BY <1>1, Zenon DEF BeginPendingStart, Cancelled
<1>6. \A i \in Ids \ {call.id} :
        /\ countdowns'[i] = NoCountdown <=> countdowns[i] = NoCountdown
        /\ countdowns'[i].state # "active"
        /\ i \in Stored =>
              /\ CountdownShape(countdowns'[i])
              /\ countdowns'[i].game = countdowns[i].game
              /\ countdowns'[i].fence = countdowns[i].fence
              /\ countdowns'[i].seats = countdowns[i].seats
              /\ countdowns'[i].state = "consumed" <=> countdowns[i].state = "consumed"
    BY <1>4, <1>5 DEF Cancelled, Active, Stored, Inv, Types, CountdownShape, CountdownFields, NoCountdown
<1>7. new.state = "active" /\ CountdownShape(new) /\ new.game = call.game /\ new.fence = call.fence
      /\ new.seats = SeatsOf(room)
    BY <1>1, Zenon DEF CountdownShape, CountdownFields
<1> HIDE DEF new, overdue
<1>8. Stored' = Stored \cup {call.id}
    <2>1. \A i \in Ids \ {call.id} : countdowns'[i].state # "none" <=> countdowns[i].state # "none"
        BY <1>6 DEF Stored, NoCountdown, CountdownShape, Inv, Types
    <2> QED BY <1>1, <1>5, <1>7, <2>1, Zenon DEF Stored
<1>9. Types'
    <2>1. \A i \in Ids : countdowns'[i] = NoCountdown \/ CountdownShape(countdowns'[i])
        BY <1>5, <1>6, <1>7, Zenon DEF Inv, Types, Stored, CountdownShape
    <2> QED BY <1>2, <1>3, <1>5, <2>1 DEF Inv, Types, CallShape, CountdownShape, Idle
<1>10. IdsFresh'
    <2>1. \A i \in Stored' : i <= drawn'
        BY <1>1, <1>3, <1>8, Zenon DEF Inv, IdsFresh
    <2>2. \A k \in Handlers : calls'[k].pc # "idle" => k # h /\ calls'[k] = calls[k]
        BY <1>2 DEF Idle
    <2>3. \A k \in Handlers : calls'[k].pc \in {"cancel", "start"} => calls'[k].id \in Stored'
        BY <1>8, <2>2, Zenon DEF Inv, IdsFresh
    <2>4. \A k \in Handlers : calls'[k].pc = "begin" =>
            /\ calls'[k].id <= drawn' /\ calls'[k].id \notin Stored'
            /\ \A l \in Handlers : calls'[l].pc = "begin" /\ calls'[l].id = calls'[k].id => l = k
        BY <1>1, <1>3, <1>8, <2>2 DEF Inv, IdsFresh
    <2> QED BY <2>1, <2>3, <2>4, Zenon DEF IdsFresh
<1>11. Announced'
    <2>1. \A i \in Stored : i \in Ids \ {call.id}
        BY <1>1, Zenon DEF Stored
    <2>2. room.roomVersion \in Nat /\ new.fence = Fence(room) /\ new.state # "consumed"
        BY <1>1, <1>7 DEF Inv, Types, Shape
    <2>3. new.fence.room <= room.roomVersion
        BY <2>2 DEF Fence
    <2>4. \A k \in Handlers : calls'[k].pc = "begin" => calls'[k] = calls[k]
        BY <1>2 DEF Idle
    <2>5. ASSUME NEW i \in Stored'
          PROVE  /\ countdowns'[i].fence.room <= room.roomVersion
                 /\ countdowns'[i].fence.room = room.roomVersion =>
                       /\ countdowns'[i].fence = Fence(room) /\ countdowns'[i].game = room.selected
                       /\ countdowns'[i].seats = SeatsOf(room) /\ countdowns'[i].state # "consumed"
        <3>1. CASE i = call.id
            BY <1>1, <1>5, <1>7, <2>2, <2>3, <3>1, Zenon
        <3>2. CASE i # call.id
            <4>1. i \in Stored
                BY <1>8, <3>2, Zenon
            <4> QED BY <1>6, <2>1, <4>1, Zenon DEF Inv, Announced
        <3> QED BY <3>1, <3>2
    <2> QED BY <1>3, <2>4, <2>5, Zenon DEF Inv, Announced
<1>12. StartedConsumed' /\ CountdownStartsOnce'
    <2>1. \A i \in Stored : i \in Ids \ {call.id}
        BY <1>1, Zenon DEF Stored
    <2> QED BY <1>3, <1>6, <1>8, <2>1, Zenon DEF Inv, StartedConsumed, CountdownStartsOnce
<1>13. EditsStored'
    BY <1>2, <1>3 DEF Inv, EditsStored, Idle
<1>14. Prepared'
    <2>1. ASSUME NEW k \in Handlers, calls'[k].pc = "start"
          PROVE  countdowns'[calls'[k].id].state # "active"
        <3>1. calls'[k] = calls[k]
            BY <1>2, <2>1 DEF Idle
        <3>2. calls[k].id \in Ids \ {call.id}
            BY <1>1, <2>1, <3>1, Zenon DEF Inv, IdsFresh, Stored
        <3> QED BY <1>6, <3>1, <3>2, Zenon
    <2> QED BY <2>1, Zenon DEF Prepared, Active
<1> QED BY <1>9, <1>10, <1>11, <1>12, <1>13, <1>14 DEF Inv

\* What a start knows when it commits: the room is the one announced, so the
\* countdown was not consumed before, and it is still active.
LEMMA StartKnows ==
    ASSUME Inv, NEW h \in Handlers, StartFromCountdown(h)
    PROVE  LET i == calls[h].id
               c == countdowns[i]
           IN  /\ i \in Ids /\ i \in Stored /\ Active(i) /\ CountdownShape(c)
               /\ c.fence = Fence(room) /\ c.game = room.selected /\ c.seats = SeatsOf(room)
               /\ c.revision >= honoured[c.game]
<1> DEFINE i == calls[h].id
<1>1. i \in Stored /\ i \in Ids /\ CountdownShape(countdowns[i])
    BY DEF StartFromCountdown, Inv, IdsFresh, Stored, Types, NoCountdown
<1>2. countdowns[i].fence = Fence(room) /\ countdowns[i].fence.room = room.roomVersion
    BY DEF StartFromCountdown, RoomAsAnnounced, Fence
<1>3. countdowns[i].game = room.selected /\ countdowns[i].seats = SeatsOf(room) /\ countdowns[i].state # "consumed"
    BY <1>1, <1>2, Zenon DEF Inv, Announced
<1>4. Active(i)
    BY <1>1, <1>3, Zenon DEF StartFromCountdown, CountdownShape, Active
<1>5. countdowns[i].revision >= honoured[countdowns[i].game]
    BY <1>4, Zenon DEF StartFromCountdown, Inv, Prepared
<1> QED BY <1>1, <1>2, <1>3, <1>4, <1>5, Zenon

\* The start consumes its countdown and leaves the version it was for.
LEMMA StartStep ==
    ASSUME Inv, NEW h \in Handlers, StartFromCountdown(h)
    PROVE  Inv'
<1> DEFINE i == calls[h].id
<1>1. i \in Ids /\ i \in Stored /\ Active(i) /\ CountdownShape(countdowns[i])
    BY StartKnows, Zenon
<1>2. /\ DOMAIN calls' = Handlers
      /\ calls'[h] = Idle
      /\ \A k \in Handlers : k # h => calls'[k] = calls[k]
    BY GoSets, Zenon DEF StartFromCountdown, Inv, Types
<1>3. Moved(room, room') /\ UNCHANGED <<drafts, drawn, honoured>>
    BY LedgerMoves, Zenon DEF StartFromCountdown, Inv, Types
<1>4. /\ DOMAIN countdowns' = Ids
      /\ \A j \in Ids \ {i} : countdowns'[j] = countdowns[j]
      /\ CountdownShape(countdowns'[i]) /\ countdowns'[i].state = "consumed"
      /\ countdowns'[i].fence = countdowns[i].fence
    BY <1>1, Zenon DEF StartFromCountdown, Inv, Types, CountdownShape, CountdownFields
<1>5. started' = started \cup {<<room'.session, i>>}
    BY Zenon DEF StartFromCountdown
<1> HIDE DEF i
<1>6. /\ Stored' = Stored
      /\ \A j \in Ids : Active(j)' => Active(j) /\ j # i
      /\ \A j \in Ids : Latest(j)' <=> Latest(j)
    <2>1. Stored' = Stored
        BY <1>1, <1>4 DEF Stored
    <2> QED BY <1>4, <2>1 DEF Active, Latest
<1>7. Types'
    <2>1. \A j \in Ids : countdowns'[j] = NoCountdown \/ CountdownShape(countdowns'[j])
        BY <1>4, Zenon DEF Inv, Types
    <2> QED BY <1>2, <1>3, <1>4, <2>1 DEF Inv, Types, Moved, CallShape, CountdownShape, Idle
<1>8. IdsFresh'
    <2>1. \A k \in Handlers : calls'[k].pc \in {"begin", "cancel", "start"} => calls'[k] = calls[k]
        BY <1>2 DEF Idle
    <2>2. \A k \in Handlers : calls'[k].pc = "begin" => calls'[k] = calls[k]
        BY <2>1
    <2> QED BY <1>3, <1>6, <2>1, <2>2, Zenon DEF Inv, IdsFresh
<1>9. Announced'
    <2>1. \A j \in Stored : j \in Ids /\ countdowns'[j].fence = countdowns[j].fence
        BY <1>4 DEF Stored
    <2>2. \A j \in Stored : countdowns[j].fence.room \in Nat
        BY DEF Inv, Types, Stored, NoCountdown, CountdownShape
    <2>3. \A k \in Handlers : calls[k].pc = "begin" => calls[k].fence.room \in Nat
        BY Zenon DEF Inv, Types, CallShape
    <2>4. room.roomVersion \in Nat /\ room'.roomVersion = room.roomVersion + 1
        BY <1>3 DEF Inv, Types, Shape, Moved
    <2>5. \A j \in Stored : countdowns'[j].fence.room < room'.roomVersion
        BY <2>1, <2>2, <2>4 DEF Inv, Announced
    <2>6. \A k \in Handlers : calls'[k].pc = "begin" => calls'[k].fence.room < room'.roomVersion
        BY <1>2, <2>3, <2>4 DEF Inv, Announced, Idle
    <2>7. /\ \A j \in Stored : countdowns'[j].fence.room \in Nat
          /\ \A k \in Handlers : calls'[k].pc = "begin" => calls'[k].fence.room \in Nat
        BY <1>2, <2>1, <2>2, <2>3 DEF Idle
    <2> QED BY <1>6, <2>4, <2>5, <2>6, <2>7 DEF Announced
<1>10. StartedConsumed'
    BY <1>1, <1>4, <1>5, <1>6 DEF Inv, StartedConsumed, Stored
<1>11. CountdownStartsOnce'
    <2>1. \A p \in started : p[2] # i
        BY <1>1 DEF Inv, StartedConsumed, Active
    <2> QED BY <1>5, <2>1 DEF Inv, CountdownStartsOnce
<1>12. EditsStored'
    <2>1. \A k \in Handlers : calls'[k].pc # "idle" => calls'[k] = calls[k]
        BY <1>2 DEF Idle
    <2> QED BY <1>3, <2>1, Zenon DEF Inv, EditsStored
<1>13. Prepared'
    <2> SUFFICES ASSUME NEW k \in Handlers, NEW j \in Ids,
                        calls'[k].pc = "start", calls'[k].id = j, Active(j)'
                 PROVE  /\ Latest(j)'
                        /\ countdowns'[j].revision >= honoured'[countdowns'[j].game]
                        /\ \A l \in Handlers :
                              calls'[l].pc = "cancel" /\ calls'[l].edit # NoEdit
                              /\ calls'[l].edit.game = countdowns'[j].game /\ calls'[l].id # j =>
                                  countdowns'[j].revision >= calls'[l].edit.revision
        BY <1>7, Zenon DEF Prepared, Types, CallShape
    <2>1. calls'[k] = calls[k] /\ Active(j) /\ countdowns'[j] = countdowns[j]
        BY <1>2, <1>4, <1>6 DEF Idle
    <2> QED BY <1>2, <1>3, <1>6, <2>1 DEF Inv, Prepared, Idle
<1> QED BY <1>7, <1>8, <1>9, <1>10, <1>11, <1>12, <1>13 DEF Inv

-----------------------------------------------------------------------------
(* The theorems.                                                           *)

\* The inductive invariant holds: handlers interleave in any way, on a room that
\* commands and the runtime change underneath them.
THEOREM Invariance == StartSpec => []Inv
<1>1. StartInit => Inv
    <2> SUFFICES ASSUME StartInit PROVE Inv
        OBVIOUS
    <2>1. Shape(room)
        <3>1. PICK u \in Users, p, s \in Modes, g \in Games : room = NewWithAdmission(u, p, s, g)
            BY DEF StartInit, Init
        <3> QED BY <3>1, Zenon DEF NewWithAdmission, Shape, RoomFields
    <2>2. Stored = {}
        BY DEF StartInit, Stored, NoCountdown
    <2>3. \A h \in Handlers : calls[h] = Idle
        BY DEF StartInit
    <2>4. Types
        BY <2>1, Zenon DEF StartInit, Types, CallShape, Idle, NoCountdown
    <2>5. IdsFresh /\ Announced /\ Prepared
        BY <2>2, <2>3 DEF IdsFresh, Announced, Prepared, Idle
    <2>6. EditsStored /\ StartedConsumed /\ CountdownStartsOnce
        BY <2>3 DEF StartInit, EditsStored, StartedConsumed, CountdownStartsOnce, Idle
    <2> QED BY <2>4, <2>5, <2>6 DEF Inv
<1>2. Inv /\ [StartNext]_startVars => Inv'
    <2> SUFFICES ASSUME Inv, [StartNext]_startVars PROVE Inv'
        OBVIOUS
    <2>1. CASE OtherCommand
        BY <2>1, QuietActions
    <2>2. ASSUME NEW i \in Ids, Elapse(i) PROVE Inv'
        BY <2>2, QuietActions
    <2>3. ASSUME NEW h \in Handlers, Handler(h) PROVE Inv'
        <3>1. CASE RoomCommand(h) \/ TransferCommand(h) \/ Fail(h)
            BY <3>1, QuietActions
        <3>2. CASE UpdateGameConfig(h)
            BY <3>2, EditStep
        <3>3. CASE FindPending(h) \/ CancelGameStart(h)
            BY <3>3, FindStep
        <3>4. CASE NothingPending(h) \/ CancelPendingStart(h)
            BY <3>4, AnswerStep
        <3>5. CASE BeginGameStart(h)
            BY <3>5, BeginStep
        <3>6. CASE BeginPendingStart(h)
            BY <3>6, StoreStep
        <3>7. CASE PrepareStart(h)
            BY <3>7, PrepareStep
        <3>8. CASE StartFromCountdown(h)
            BY <3>8, StartStep
        <3> QED BY <2>3, <3>1, <3>2, <3>3, <3>4, <3>5, <3>6, <3>7, <3>8, Zenon DEF Handler
    <2>4. CASE UNCHANGED startVars
        <3>1. UNCHANGED <<room, drafts, drawn, countdowns, calls, started, honoured>>
            BY <2>4 DEF startVars, vars
        <3>2. Weakened /\ DOMAIN calls' = Handlers
            BY <3>1 DEF Inv, Types, Weakened, Stored, NoCountdown
        <3> QED BY <3>1, <3>2, QuietStep
    <2> QED BY <2>1, <2>2, <2>3, <2>4 DEF StartNext
<1> QED BY <1>1, <1>2, PTL DEF StartSpec

\* A countdown starts one game at most (ConsumeRoomPendingStart accepts a
\* consumed countdown, the room's version does not).
THEOREM StartsOnce == StartSpec => []CountdownStartsOnce
<1>1. Inv => CountdownStartsOnce
    BY DEF Inv
<1> QED BY <1>1, Invariance, PTL

\* The game that starts from a countdown has the host, the seats and the game it
\* announced, and rules no older than any answered edit (prepareStart,
\* cancelPendingForRoom).
THEOREM AnnouncedGameStarts == StartSpec => StartsAsAnnounced
<1> DEFINE Kept ==
        \A p \in started' \ started :
            LET c == countdowns[p[2]]
            IN  /\ c.seats = frozen'
                /\ c.fence.host = room'.host
                /\ c.game = room'.selected
                /\ c.revision >= honoured[c.game]
<1> HIDE DEF Kept
<1>1. Inv /\ [StartNext]_startVars => [Kept]_startVars
    <2> SUFFICES ASSUME Inv, StartNext PROVE Kept
        OBVIOUS
    <2>1. ASSUME NEW h \in Handlers, StartFromCountdown(h) PROVE Kept
        <3> DEFINE i == calls[h].id
        <3>1. /\ countdowns[i].fence = Fence(room) /\ countdowns[i].game = room.selected
              /\ countdowns[i].seats = SeatsOf(room)
              /\ countdowns[i].revision >= honoured[countdowns[i].game]
            BY <2>1, StartKnows, Zenon
        <3>2. countdowns[i].fence.host = room.host
            BY <3>1 DEF Fence
        <3>3. frozen' = SeatsOf(room) /\ room' = StartSession(room, room.roomVersion + 1)
            BY <2>1, Zenon DEF StartFromCountdown, StartGame
        <3>4. room'.host = room.host /\ room'.selected = room.selected
            BY <3>3 DEF StartSession, BumpVersions, Inv, Types, Shape, RoomFields
        <3>5. started' = started \cup {<<room'.session, i>>}
            BY <2>1, Zenon DEF StartFromCountdown
        <3> HIDE DEF i
        <3> QED BY <3>1, <3>2, <3>3, <3>4, <3>5 DEF Kept
    <2>2. (\A h \in Handlers : ~StartFromCountdown(h)) => started' = started
        BY Zenon DEF StartNext, Handler, OtherCommand, Elapse, RoomCommand, TransferCommand, UpdateGameConfig,
               NothingPending, FindPending, CancelGameStart, CancelPendingStart, BeginGameStart,
               BeginPendingStart, PrepareStart, Fail
    <2>3. started' = started => Kept
        BY Zenon DEF Kept
    <2> QED BY <2>1, <2>2, <2>3, Zenon
<1> QED BY <1>1, Invariance, PTL DEF StartSpec, StartsAsAnnounced, Kept
=============================================================================
