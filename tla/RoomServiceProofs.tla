------------------------- MODULE RoomServiceProofs --------------------------
(***************************************************************************)
(* Handlers that load a row, compute and write later change the row as if  *)
(* each command ran alone on it: for any number of handlers, users, seats  *)
(* and games.                                                              *)
(*                                                                         *)
(* That a version identifies the row is not inductive: nothing in it says  *)
(* what the other handlers are about to write.  ServiceInv adds that       *)
(* versions which handlers hold are no newer than the row's, and that what *)
(* a handler holds is a command's result on the row it loaded.             *)
(***************************************************************************)
EXTENDS RoomService, TLAPS

-----------------------------------------------------------------------------
(* The inductive invariant.                                                *)

RoomFields ==
    {"status", "host", "participantAdmission", "spectatorAdmission", "members", "session",
     "lastFinished", "request", "pause", "selected", "roomVersion", "membershipVersion", "epoch"}

\* The results that handlers write by UpdateCAS.
Plain(r, next) ==
    \/ \E u \in Users, i \in Intents : CanJoin(r, u, i) /\ next = Join(r, u, i)
    \/ \E p, s \in Modes : CanSetAdmission(r) /\ next = SetAdmission(r, p, s)
    \/ \E g \in Games : CanSelectGame(r, g) /\ next = SelectGame(r, g)
    \/ \E u \in Users : CanApproveWaiting(r, u) /\ next = ApproveWaiting(r, u)
    \/ \E u \in Users : CanRequestPause(r, u, r.session) /\ next = RequestPause(r, u, r.session)
    \/ CanRejectPause(r, r.request.id) /\ next = RejectPause(r)
    \/ \E u \in Users : CanTransferHost(r, u) /\ next = TransferHost(r, u)
    \/ CanClose(r) /\ next = Close(r)
    \/ \E u \in Users : CanRemoveMember(r, u) /\ ~ParticipantRevoked(r, u) /\ next = RemoveMember(r, u)

\* The results that the runtime writes, with the command's name.
Runtime(r, op, next) ==
    \/ op = "start" /\ CanStartSession(r, MinPlayers, MaxPlayers)
       /\ next = StartSession(r, r.roomVersion + 1)
    \/ op = "pause" /\ \E id \in {0, r.request.id} :
          CanPause(r, r.session, id) /\ next = Pause(r, r.host, r.session, id)
    \/ op = "resume" /\ CanResume(r, r.session) /\ next = Resume(r)
    \/ op = "finish" /\ CanEndSession(r, r.session) /\ next = FinishSession(r, r.session)
    \/ op = "cancel" /\ CanEndSession(r, r.session) /\ next = CancelSession(r)
    \/ op = "cancel_close" /\ CanEndSession(r, r.session) /\ next = CancelSessionAndClose(r)

Computed(c) ==
    \/ c.path = "cas" /\ Plain(c.loaded, c.next)
    \/ c.path = "removal" /\ c.target \in Users
       /\ CanRemoveMember(c.loaded, c.target) /\ ParticipantRevoked(c.loaded, c.target)
       /\ c.next = RemoveMember(c.loaded, c.target)
    \/ c.path = "exact" /\ Runtime(c.loaded, c.op, c.next)

\* A result of a command on the row that was loaded.  Where the command edited
\* the loaded room too, it edited its members only.
Held(c) ==
    /\ c.loaded.roomVersion \in Nat /\ c.loaded.roomVersion < MaxRoomVersion
    /\ c.before.roomVersion = c.loaded.roomVersion
    /\ c.before.session = c.loaded.session
    /\ DOMAIN c.next = RoomFields
    /\ Computed(c)

Fresh(c) ==
    /\ c.loaded.roomVersion <= room.roomVersion
    /\ c.loaded.roomVersion = room.roomVersion => c.loaded = room

ServiceInv ==
    /\ DOMAIN room = RoomFields /\ room.roomVersion \in Nat
    /\ DOMAIN inflight = Handlers
    /\ \A h \in Handlers : Busy(h) => Held(inflight[h]) /\ Fresh(inflight[h])

-----------------------------------------------------------------------------
(* Loading.                                                                *)

\* Commands return a room.
LEMMA PlainRoom ==
    ASSUME NEW r, DOMAIN r = RoomFields, NEW next, Plain(r, next)
    PROVE  DOMAIN next = RoomFields
<1>1. \A q : DOMAIN q = RoomFields => /\ DOMAIN BumpVersions(q) = RoomFields
                                      /\ DOMAIN BumpMembership(q) = RoomFields
  BY DEF BumpVersions, BumpMembership, RoomFields
<1>2. \A u, i : DOMAIN Join(r, u, i) = RoomFields
  BY <1>1 DEF Join
<1>3. \A p, s : DOMAIN SetAdmission(r, p, s) = RoomFields
  BY <1>1, Zenon DEF SetAdmission
<1>4. \A g : DOMAIN SelectGame(r, g) = RoomFields
  BY <1>1 DEF SelectGame
<1>5. \A u : DOMAIN ApproveWaiting(r, u) = RoomFields
  BY <1>1 DEF ApproveWaiting
<1>6. \A u, s : DOMAIN RequestPause(r, u, s) = RoomFields
  BY <1>1 DEF RequestPause
<1>7. DOMAIN RejectPause(r) = RoomFields /\ DOMAIN Close(r) = RoomFields
  BY <1>1, Zenon DEF RejectPause, Close
<1>8. \A u : DOMAIN TransferHost(r, u) = RoomFields /\ DOMAIN RemoveMember(r, u) = RoomFields
  BY <1>1, Zenon DEF TransferHost, RemoveMember
<1> QED  BY <1>2, <1>3, <1>4, <1>5, <1>6, <1>7, <1>8 DEF Plain

\* So do the commands of the runtime.
LEMMA RuntimeRoom ==
    ASSUME NEW r, DOMAIN r = RoomFields, NEW op, NEW next, Runtime(r, op, next)
    PROVE  DOMAIN next = RoomFields
<1>1. \A q : DOMAIN q = RoomFields => DOMAIN BumpVersions(q) = RoomFields
  BY DEF BumpVersions, RoomFields
<1>2. \A s : DOMAIN StartSession(r, s) = RoomFields
  BY <1>1, Zenon DEF StartSession
<1>3. \A u, s, id : DOMAIN Pause(r, u, s, id) = RoomFields
  BY <1>1, Zenon DEF Pause
<1>4. DOMAIN Resume(r) = RoomFields
  BY <1>1 DEF Resume
<1>5. \A s : DOMAIN FinishSession(r, s) = RoomFields
  BY <1>1, Zenon DEF FinishSession
<1>6. DOMAIN CancelSession(r) = RoomFields /\ DOMAIN CancelSessionAndClose(r) = RoomFields
  BY <1>1, Zenon DEF CancelSession, CancelSessionAndClose
<1> QED  BY <1>2, <1>3, <1>4, <1>5, <1>6 DEF Runtime

\* A handler that loads the row as it is holds a fresh one.
LEMMA HoldStep ==
    ASSUME ServiceInv, NEW h \in Handlers, NEW path, NEW op, NEW actor, NEW target, NEW before, NEW next,
           Hold(h, path, op, actor, target, before, next),
           before.roomVersion = room.roomVersion, before.session = room.session,
           DOMAIN next = RoomFields,
           \/ path = "cas" /\ Plain(room, next)
           \/ path = "removal" /\ target \in Users
              /\ CanRemoveMember(room, target) /\ ParticipantRevoked(room, target)
              /\ next = RemoveMember(room, target)
           \/ path = "exact" /\ Runtime(room, op, next)
    PROVE  ServiceInv' /\ UNCHANGED vars
<1> DEFINE c == [path |-> path, op |-> op, actor |-> actor, target |-> target,
                 loaded |-> room, before |-> before, next |-> next]
<1>1. inflight' = [inflight EXCEPT ![h] = c] /\ UNCHANGED vars /\ room.roomVersion < MaxRoomVersion
    BY DEF Hold, Bounded
<1>2. /\ c.path = path /\ c.op = op /\ c.target = target
      /\ c.loaded = room /\ c.before = before /\ c.next = next
    OBVIOUS
<1> HIDE DEF c
<1>3. room' = room
    BY <1>1 DEF vars
<1>4. Held(c)
    <2>1. Computed(c)
        BY <1>2 DEF Computed
    <2> QED BY <1>1, <1>2, <2>1 DEF Held, ServiceInv
<1>5. c.loaded.roomVersion <= room.roomVersion /\ c.loaded = room
    BY <1>2 DEF ServiceInv
<1>6. /\ DOMAIN inflight' = Handlers
      /\ inflight'[h] = c
      /\ \A k \in Handlers : k # h => inflight'[k] = inflight[k]
    BY <1>1 DEF ServiceInv
<1>7. \A k \in Handlers : Busy(k)' => Held(inflight'[k]) /\ Fresh(inflight[k])'
    BY <1>3, <1>4, <1>5, <1>6 DEF ServiceInv, Busy, Fresh
<1> QED BY <1>1, <1>3, <1>6, <1>7 DEF ServiceInv

\* Every handler's first transaction is such a step.
LEMMA LoadStep ==
    ASSUME ServiceInv, NEW h \in Handlers,
           \/ HandleJoinRoom(h) \/ HandleSetRoomAdmission(h) \/ HandleSelectRoomGame(h)
           \/ HandleApproveMember(h) \/ HandleRequestRoomPause(h) \/ HandleRejectRoomPause(h)
           \/ HandleTransferRoomHost(h) \/ HandleCloseRoom(h) \/ HandleRemoveRoomMember(h)
           \/ HandleStartGame(h) \/ HandlePauseRoom(h) \/ HandleResumeRoom(h)
           \/ HandleFinishGame(h) \/ HandleCancelGame(h) \/ HandleCancelGameAndClose(h)
    PROVE  ServiceInv' /\ UNCHANGED vars
<1>0. DOMAIN room = RoomFields
    BY DEF ServiceInv
<1>1. \A u, m : LET before == [room EXCEPT !.members[u] = m]
               IN  before.roomVersion = room.roomVersion /\ before.session = room.session
    BY <1>0 DEF RoomFields
<1>2. ASSUME NEW op, NEW actor, NEW next, Plain(room, next), Update(h, op, actor, next)
      PROVE  ServiceInv' /\ UNCHANGED vars
    BY <1>0, <1>2, PlainRoom, HoldStep DEF Update
<1>3. ASSUME NEW op, NEW actor, NEW next, Runtime(room, op, next), Exact(h, op, actor, next)
      PROVE  ServiceInv' /\ UNCHANGED vars
    BY <1>0, <1>3, RuntimeRoom, HoldStep DEF Exact
<1>4. CASE HandleJoinRoom(h)
    <2>1. PICK u \in Users, i \in Intents :
            /\ CanJoin(room, u, i)
            /\ Hold(h, "cas", "join", u, NoUser,
                    IF QueuesSpectator(room, u, i) THEN AliasMember(u, Join(room, u, i)) ELSE room,
                    Join(room, u, i))
        BY <1>4 DEF HandleJoinRoom
    <2> DEFINE before == IF QueuesSpectator(room, u, i) THEN AliasMember(u, Join(room, u, i)) ELSE room
    <2>2. before.roomVersion = room.roomVersion /\ before.session = room.session
        BY <1>1 DEF AliasMember
    <2>3. Plain(room, Join(room, u, i))
        BY <2>1 DEF Plain
    <2>4. Hold(h, "cas", "join", u, NoUser, before, Join(room, u, i))
        BY <2>1
    <2> HIDE DEF before
    <2> QED BY <1>0, <2>2, <2>3, <2>4, PlainRoom, HoldStep
<1>5. CASE HandleSetRoomAdmission(h)
    <2>1. PICK p, s \in Modes, actor \in {room.host, Operator} :
            CanSetAdmission(room) /\ Update(h, "admission", actor, SetAdmission(room, p, s))
        BY <1>5 DEF HandleSetRoomAdmission
    <2>2. Plain(room, SetAdmission(room, p, s))
        BY <2>1 DEF Plain
    <2> QED BY <1>2, <2>1, <2>2
<1>6. CASE HandleSelectRoomGame(h)
    <2>1. PICK g \in Games : CanSelectGame(room, g) /\ Update(h, "select", room.host, SelectGame(room, g))
        BY <1>6 DEF HandleSelectRoomGame
    <2>2. Plain(room, SelectGame(room, g))
        BY <2>1 DEF Plain
    <2> QED BY <1>2, <2>1, <2>2
<1>7. CASE HandleApproveMember(h)
    <2>1. PICK u \in Users :
            /\ CanApproveWaiting(room, u)
            /\ Hold(h, "cas", "approve", room.host, NoUser,
                    AliasMember(u, ApproveWaiting(room, u)), ApproveWaiting(room, u))
        BY <1>7 DEF HandleApproveMember
    <2> DEFINE before == AliasMember(u, ApproveWaiting(room, u))
    <2>2. before.roomVersion = room.roomVersion /\ before.session = room.session
        BY <1>1 DEF AliasMember
    <2>3. Plain(room, ApproveWaiting(room, u))
        BY <2>1 DEF Plain
    <2> QED BY <1>0, <2>1, <2>2, <2>3, PlainRoom, HoldStep
<1>8. CASE HandleRequestRoomPause(h)
    <2>1. PICK u \in Users : /\ CanRequestPause(room, u, room.session)
                            /\ Update(h, "request", u, RequestPause(room, u, room.session))
        BY <1>8 DEF HandleRequestRoomPause
    <2>2. Plain(room, RequestPause(room, u, room.session))
        BY <2>1 DEF Plain
    <2> QED BY <1>2, <2>1, <2>2
<1>9. CASE HandleRejectRoomPause(h)
    <2>1. Plain(room, RejectPause(room)) /\ Update(h, "reject", room.host, RejectPause(room))
        BY <1>9 DEF HandleRejectRoomPause, Plain
    <2> QED BY <1>2, <2>1
<1>10. CASE HandleTransferRoomHost(h)
    <2>1. PICK u \in Users : CanTransferHost(room, u) /\ Update(h, "transfer", room.host, TransferHost(room, u))
        BY <1>10 DEF HandleTransferRoomHost
    <2>2. Plain(room, TransferHost(room, u))
        BY <2>1 DEF Plain
    <2> QED BY <1>2, <2>1, <2>2
<1>11. CASE HandleCloseRoom(h)
    <2>1. PICK actor \in {room.host, Operator} : CanClose(room) /\ Update(h, "close", actor, Close(room))
        BY <1>11 DEF HandleCloseRoom
    <2>2. Plain(room, Close(room))
        BY <2>1 DEF Plain
    <2> QED BY <1>2, <2>1, <2>2
<1>12. CASE HandleRemoveRoomMember(h)
    <2>1. PICK u \in Users, actor \in {room.host, Operator} :
            /\ CanRemoveMember(room, u)
            /\ Hold(h, IF ParticipantRevoked(room, u) THEN "removal" ELSE "cas", "remove", actor, u,
                    AliasRemoval(u), RemoveMember(room, u))
        BY <1>12 DEF HandleRemoveRoomMember
    <2>2. AliasRemoval(u).roomVersion = room.roomVersion /\ AliasRemoval(u).session = room.session
        BY <1>1 DEF AliasRemoval
    <2>3. DOMAIN RemoveMember(room, u) = RoomFields
        BY <1>0 DEF RemoveMember, BumpMembership, RoomFields
    <2>4. CASE ParticipantRevoked(room, u)
        <3>1. Hold(h, "removal", "remove", actor, u, AliasRemoval(u), RemoveMember(room, u))
            BY <2>1, <2>4
        <3> QED BY <2>1, <2>2, <2>3, <2>4, <3>1, HoldStep
    <2>5. CASE ~ParticipantRevoked(room, u)
        <3>1. Hold(h, "cas", "remove", actor, u, AliasRemoval(u), RemoveMember(room, u))
            BY <2>1, <2>5
        <3>2. Plain(room, RemoveMember(room, u))
            BY <2>1, <2>5 DEF Plain
        <3> QED BY <2>2, <2>3, <3>1, <3>2, HoldStep
    <2> QED BY <2>4, <2>5
<1>13. CASE HandleStartGame(h)
    <2> DEFINE next == StartSession(room, room.roomVersion + 1)
    <2>1. Runtime(room, "start", next) /\ Exact(h, "start", room.host, next)
        BY <1>13 DEF HandleStartGame, Runtime
    <2> QED BY <1>3, <2>1
<1>14. CASE HandlePauseRoom(h)
    <2>1. PICK id \in {0, room.request.id} :
            /\ CanPause(room, room.session, id)
            /\ Exact(h, "pause", room.host, Pause(room, room.host, room.session, id))
        BY <1>14 DEF HandlePauseRoom
    <2>2. Runtime(room, "pause", Pause(room, room.host, room.session, id))
        BY <2>1 DEF Runtime
    <2> QED BY <1>3, <2>1, <2>2
<1>15. CASE HandleResumeRoom(h)
    <2>1. Runtime(room, "resume", Resume(room)) /\ Exact(h, "resume", room.host, Resume(room))
        BY <1>15 DEF HandleResumeRoom, Runtime
    <2> QED BY <1>3, <2>1
<1>16. CASE HandleFinishGame(h)
    <2> DEFINE next == FinishSession(room, room.session)
    <2>1. Runtime(room, "finish", next) /\ Exact(h, "finish", Operator, next)
        BY <1>16 DEF HandleFinishGame, Runtime
    <2> QED BY <1>3, <2>1
<1>17. CASE HandleCancelGame(h)
    <2>1. Runtime(room, "cancel", CancelSession(room)) /\ Exact(h, "cancel", Operator, CancelSession(room))
        BY <1>17 DEF HandleCancelGame, Runtime
    <2> QED BY <1>3, <2>1
<1>18. CASE HandleCancelGameAndClose(h)
    <2> DEFINE next == CancelSessionAndClose(room)
    <2>1. Runtime(room, "cancel_close", next) /\ Exact(h, "cancel_close", room.host, next)
        BY <1>18 DEF HandleCancelGameAndClose, Runtime
    <2> QED BY <1>3, <2>1
<1> QED BY <1>4, <1>5, <1>6, <1>7, <1>8, <1>9, <1>10, <1>11, <1>12, <1>13, <1>14, <1>15, <1>16, <1>17, <1>18

-----------------------------------------------------------------------------
(* Writing.                                                                *)

\* A write of a newer version leaves every other handler with an older one.
LEMMA WriteStep ==
    ASSUME ServiceInv, NEW h \in Handlers, Busy(h),
           room.roomVersion = inflight[h].before.roomVersion,
           RoomTransition(inflight[h].before, inflight[h].next),
           room' = inflight[h].next, Answer(h)
    PROVE  ServiceInv' /\ inflight[h].loaded = room
<1>1. Held(inflight[h]) /\ inflight[h].loaded = room
    BY DEF ServiceInv, Held, Fresh
<1>2. DOMAIN room' = RoomFields /\ room'.roomVersion = room.roomVersion + 1 /\ room.roomVersion \in Nat
    BY <1>1 DEF Held, RoomTransition, ServiceInv
<1>3. /\ DOMAIN inflight' = Handlers
      /\ inflight'[h] = Idle
      /\ \A k \in Handlers : k # h => inflight'[k] = inflight[k]
    BY DEF Answer, ServiceInv
<1>4. ASSUME NEW k \in Handlers, Busy(k)'
      PROVE  /\ Held(inflight'[k])
             /\ inflight'[k].loaded.roomVersion < room'.roomVersion
             /\ inflight'[k].loaded.roomVersion \in Nat
    <2>1. inflight'[k] = inflight[k] /\ Busy(k)
        BY <1>3, <1>4 DEF Busy
    <2>2. Held(inflight[k]) /\ inflight[k].loaded.roomVersion <= room.roomVersion
        BY <2>1 DEF ServiceInv, Fresh
    <2>3. inflight[k].loaded.roomVersion \in Nat
        BY <2>2 DEF Held
    <2> QED BY <1>2, <2>1, <2>2, <2>3
<1>5. \A k \in Handlers : Busy(k)' => Held(inflight[k])' /\ Fresh(inflight[k])'
    <2>1. ASSUME NEW k \in Handlers, Busy(k)' PROVE Held(inflight[k])' /\ Fresh(inflight[k])'
        <3>1. /\ Held(inflight'[k])
              /\ inflight'[k].loaded.roomVersion < room'.roomVersion
              /\ inflight'[k].loaded.roomVersion \in Nat
            BY <1>4, <2>1
        <3>2. Fresh(inflight[k])'
            BY <1>2, <3>1 DEF Fresh
        <3>3. Held(inflight[k])'
            BY <3>1
        <3> QED BY <3>2, <3>3
    <2> QED BY <2>1
<1> QED BY <1>1, <1>2, <1>3, <1>5 DEF ServiceInv

\* What UpdateCAS writes over the row it was computed from is a command.
LEMMA PlainIsCommand ==
    ASSUME Plain(room, room'), Bounded, UNCHANGED <<frozen, revocations>>
    PROVE  Next
<1>1. ASSUME NEW u \in Users, NEW i \in Intents, CanJoin(room, u, i), room' = Join(room, u, i)
      PROVE  Next
    BY <1>1 DEF Next, JoinRoom, Write
<1>2. ASSUME NEW p \in Modes, NEW s \in Modes, CanSetAdmission(room), room' = SetAdmission(room, p, s)
      PROVE  Next
    BY <1>2 DEF Next, SetRoomAdmission, Write
<1>3. ASSUME NEW g \in Games, CanSelectGame(room, g), room' = SelectGame(room, g)
      PROVE  Next
    BY <1>3 DEF Next, SelectRoomGame, Write
<1>4. ASSUME NEW u \in Users, CanApproveWaiting(room, u), room' = ApproveWaiting(room, u)
      PROVE  Next
    BY <1>4 DEF Next, ApproveMember, Write
<1>5. ASSUME NEW u \in Users, CanRequestPause(room, u, room.session),
             room' = RequestPause(room, u, room.session)
      PROVE  Next
    BY <1>5 DEF Next, RequestRoomPause, Write
<1>6. ASSUME CanRejectPause(room, room.request.id), room' = RejectPause(room)
      PROVE  Next
    BY <1>6 DEF Next, RejectRoomPause, Write
<1>7. ASSUME NEW u \in Users, CanTransferHost(room, u), room' = TransferHost(room, u)
      PROVE  Next
    BY <1>7 DEF Next, TransferRoomHost, Write
<1>8. ASSUME CanClose(room), room' = Close(room)
      PROVE  Next
    BY <1>8 DEF Next, CloseRoom, Write
<1>9. ASSUME NEW u \in Users, CanRemoveMember(room, u), ~ParticipantRevoked(room, u),
             room' = RemoveMember(room, u)
      PROVE  Next
    BY <1>9 DEF Next, RemoveRoomMember, Remove
<1> QED BY <1>1, <1>2, <1>3, <1>4, <1>5, <1>6, <1>7, <1>8, <1>9 DEF Plain

\* So is what the runtime writes, with the seats of the game beside it.
LEMMA RuntimeIsCommand ==
    ASSUME DOMAIN room = RoomFields, NEW op, Runtime(room, op, room'), Bounded, UNCHANGED revocations,
           frozen' = CASE op = "start" -> SeatsOf(room')
                       [] op \in Endings -> {}
                       [] OTHER -> frozen
    PROVE  Next
<1>1. CASE op = "start" /\ CanStartSession(room, MinPlayers, MaxPlayers)
           /\ room' = StartSession(room, room.roomVersion + 1)
    <2>1. room'.members = room.members
        BY <1>1 DEF StartSession, BumpVersions, RoomFields
    <2>2. SeatsOf(room') = SeatsOf(room)
        BY <2>1 DEF SeatsOf, Participants, Participant
    <2>3. frozen' = SeatsOf(room)
        BY <1>1, <2>2 DEF Endings
    <2> QED BY <1>1, <2>3 DEF Next, StartGame
<1>2. ASSUME op = "pause", NEW id \in {0, room.request.id}, CanPause(room, room.session, id),
             room' = Pause(room, room.host, room.session, id)
      PROVE  Next
    <2>1. frozen' = frozen
        BY <1>2 DEF Endings
    <2> QED BY <1>2, <2>1 DEF Next, PauseRoom, Write
<1>3. CASE op = "resume" /\ CanResume(room, room.session) /\ room' = Resume(room)
    <2>1. frozen' = frozen
        BY <1>3 DEF Endings
    <2> QED BY <1>3, <2>1 DEF Next, ResumeRoom, Write
<1>4. CASE op \in Endings /\ CanEndSession(room, room.session)
           /\ room' \in {FinishSession(room, room.session), CancelSession(room), CancelSessionAndClose(room)}
    <2>1. frozen' = {}
        BY <1>4 DEF Endings
    <2> QED BY <1>4, <2>1 DEF Next, FinishGame, CancelGame, CancelGameAndClose, EndGame
<1> QED BY <1>1, <1>2, <1>3, <1>4 DEF Runtime, Endings

\* Every accepted write keeps the invariant and is a command on the row.
LEMMA CommitStep ==
    ASSUME ServiceInv, NEW h \in Handlers, UpdateCAS(h) \/ CommitRemoval(h) \/ CommitExact(h)
    PROVE  ServiceInv' /\ Next
<1> DEFINE c == inflight[h]
<1>1. Busy(h)
    BY DEF UpdateCAS, CommitRemoval, CommitExact, Busy, Idle
<1>2. /\ room.roomVersion = c.before.roomVersion
      /\ RoomTransition(c.before, c.next)
      /\ room' = c.next /\ Answer(h)
    BY DEF UpdateCAS, CommitRemoval, CommitExact, RoomCAS, SameRoomSnapshot
<1>3. ServiceInv' /\ c.loaded = room
    BY <1>1, <1>2, WriteStep
<1>4. Held(c)
    BY <1>1 DEF ServiceInv
<1>5. Bounded /\ c.before.session = room.session
    BY <1>3, <1>4 DEF Held, Bounded
<1>6. CASE UpdateCAS(h)
    <2>1. c.path = "cas" /\ UNCHANGED <<frozen, revocations>>
        BY <1>6 DEF UpdateCAS
    <2>2. Plain(room, room')
        BY <1>2, <1>3, <1>4, <2>1 DEF Held, Computed
    <2> QED BY <1>3, <1>5, <2>1, <2>2, PlainIsCommand
<1>7. CASE CommitRemoval(h)
    <2>1. c.path = "removal" /\ revocations' = revocations \cup {<<room.session, c.target>>}
          /\ UNCHANGED frozen
        BY <1>5, <1>7 DEF CommitRemoval
    <2>2. /\ c.target \in Users /\ CanRemoveMember(room, c.target) /\ ParticipantRevoked(room, c.target)
          /\ room' = RemoveMember(room, c.target)
        BY <1>2, <1>3, <1>4, <2>1 DEF Held, Computed
    <2>3. Remove(c.target)
        BY <1>5, <2>1, <2>2 DEF Remove
    <2> QED BY <1>3, <2>2, <2>3 DEF Next, RemoveRoomMember
<1>8. CASE CommitExact(h)
    <2>1. c.path = "exact" /\ UNCHANGED revocations
        BY <1>8 DEF CommitExact
    <2>2. frozen' = CASE c.op = "start" -> SeatsOf(room')
                      [] c.op \in Endings -> {}
                      [] OTHER -> frozen
        BY <1>2, <1>8 DEF CommitExact
    <2>3. Runtime(room, c.op, room') /\ DOMAIN room = RoomFields
        BY <1>2, <1>3, <1>4, <2>1 DEF Held, Computed, ServiceInv
    <2> HIDE DEF c
    <2> QED BY <1>3, <1>5, <2>1, <2>2, <2>3, RuntimeIsCommand
<1> QED BY <1>6, <1>7, <1>8

\* Handlers that go on holding what they hold, or give up, disturb nothing.
LEMMA StillHeld ==
    ASSUME ServiceInv, room' = room, DOMAIN inflight' = Handlers,
           \A k \in Handlers : inflight'[k] \in {Idle, inflight[k]}
    PROVE  ServiceInv'
<1>1. ASSUME NEW k \in Handlers, Busy(k)' PROVE Held(inflight[k])' /\ Fresh(inflight[k])'
    <2>1. inflight'[k] = inflight[k] /\ Busy(k)
        BY <1>1 DEF Busy
    <2>2. Held(inflight[k]) /\ Fresh(inflight[k])
        BY <2>1 DEF ServiceInv
    <2>3. Held(inflight[k])'
        BY <2>1, <2>2
    <2> QED BY <2>1, <2>2, <2>3 DEF Fresh
<1> QED BY <1>1 DEF ServiceInv

\* A request that fails leaves nothing behind.
LEMMA FailStep ==
    ASSUME ServiceInv, NEW h \in Handlers, Fail(h)
    PROVE  ServiceInv' /\ UNCHANGED vars
<1>1. UNCHANGED vars /\ room' = room
    BY DEF Fail, vars
<1>2. /\ DOMAIN inflight' = Handlers
      /\ \A k \in Handlers : inflight'[k] \in {Idle, inflight[k]}
    BY DEF Fail, Answer, ServiceInv
<1> QED BY <1>1, <1>2, StillHeld

-----------------------------------------------------------------------------
(* The theorems.                                                           *)

\* Every step of the service keeps the invariant and is at most one command.
LEMMA ServiceStep ==
    ASSUME ServiceInv, [ServiceNext]_serviceVars
    PROVE  ServiceInv' /\ [Next]_vars
<1>1. CASE UNCHANGED serviceVars
    <2>1. UNCHANGED <<room, inflight>> /\ UNCHANGED vars
        BY <1>1 DEF serviceVars, vars
    <2>2. DOMAIN inflight' = Handlers
        BY <2>1 DEF ServiceInv
    <2> QED BY <2>1, <2>2, StillHeld
<1>2. CASE ServiceNext
    BY <1>2, LoadStep, CommitStep, FailStep DEF ServiceNext
<1> QED BY <1>1, <1>2

\* The inductive invariant holds.
THEOREM ServiceInvariance == ServiceSpec => []ServiceInv
<1>1. ServiceInit => ServiceInv
    <2> SUFFICES ASSUME ServiceInit PROVE ServiceInv
        OBVIOUS
    <2>1. DOMAIN room = RoomFields /\ room.roomVersion = 1
        BY DEF ServiceInit, Init, NewWithAdmission, RoomFields
    <2>2. DOMAIN inflight = Handlers /\ \A h \in Handlers : ~Busy(h)
        BY DEF ServiceInit, Busy
    <2> QED BY <2>1, <2>2 DEF ServiceInv
<1>2. ServiceInv /\ [ServiceNext]_serviceVars => ServiceInv'
    BY ServiceStep
<1> QED BY <1>1, <1>2, PTL DEF ServiceSpec

\* A handler that finds its versions in the row finds the row it loaded: what
\* UpdatePartyRoomCAS compares is enough, for any number of handlers.
THEOREM VersionsIdentify == ServiceSpec => []VersionIdentifiesRow
<1>1. ServiceInv => VersionIdentifiesRow
    BY DEF ServiceInv, VersionIdentifiesRow, RoomCAS, Fresh
<1> QED BY <1>1, ServiceInvariance, PTL

\* The handlers' loads and writes, in any order, are the ledger's commands one
\* at a time: no update is lost, and the seats of a session and the revocation
\* of a removed player are written with the row.
THEOREM ServiceIsLedger == ServiceSpec => ImplementsLedger
<1>1. ServiceInit => Init
    BY DEF ServiceInit
<1>2. ServiceInv /\ [ServiceNext]_serviceVars => [Next]_vars
    BY ServiceStep
<1> QED BY <1>1, <1>2, ServiceInvariance, PTL DEF ServiceSpec, ImplementsLedger, Spec
=============================================================================
