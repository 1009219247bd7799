----------------------------- MODULE RoomService ----------------------------
(***************************************************************************)
(* Concurrent handlers of one room.  A handler loads the row (GetByID),    *)
(* runs one command of the aggregate on it, and writes the result in a     *)
(* later transaction that accepts it only if the row still is the one that *)
(* was loaded.  Between the two steps other handlers run.                  *)
(*                                                                         *)
(* Three write paths exist.  UpdateCAS compares the two versions and the   *)
(* ownership epoch.  CommitRemoval does so too, after checking that the    *)
(* transition removes a player.  The runtime's room transitions (start,    *)
(* pause, resume, finish, cancel) lock the row and compare all of it.      *)
(*                                                                         *)
(* The commands that edit the member slice in place also edit the room     *)
(* they were called on, which the write path then takes for the room as    *)
(* it was loaded.                                                          *)
(***************************************************************************)
EXTENDS RoomLedger

CONSTANTS
    Handlers,       \* requests that can be under way at once
    Operator        \* the actor of operator commands and of the runtime

ASSUME ServiceAssumption == Operator \notin Users

VARIABLE inflight       \* handler -> what it holds between its two transactions

serviceVars == <<vars, inflight>>

\* path    the write path the command will take
\* op      the command
\* actor   who asked for it
\* target  the member it removes
\* loaded  the row as GetByID returned it
\* before  the same Go value when it reaches the write path
\* next    the room the command returned
Idle == [path |-> "idle"]
Busy(h) == inflight[h] # Idle

-----------------------------------------------------------------------------
ServiceInit == Init /\ inflight = [h \in Handlers |-> Idle]

Hold(h, path, op, actor, target, before, next) ==
    /\ ~Busy(h)
    /\ Bounded
    /\ inflight' = [inflight EXCEPT ![h] =
           [path |-> path, op |-> op, actor |-> actor, target |-> target,
            loaded |-> room, before |-> before, next |-> next]]
    /\ UNCHANGED vars

Update(h, op, actor, next) == Hold(h, "cas", op, actor, NoUser, room, next)
Exact(h, op, actor, next) == Hold(h, "exact", op, actor, NoUser, room, next)

\* A command that assigns to an element of next.Members assigns to the
\* receiver's slice as well.
AliasMember(u, next) == [room EXCEPT !.members[u] = next.members[u]]

\* append(Members[:i], Members[i+1:]...) shifts the receiver's later members
\* down by one: the removed one is overwritten unless it is listed last.
AliasRemoval(u) ==
    IF LastListed(room, u) THEN room ELSE [room EXCEPT !.members[u] = NoMember]

HandleJoinRoom(h) == \E u \in Users, i \in Intents :
    /\ CanJoin(room, u, i)
    /\ LET next == Join(room, u, i)
       IN  Hold(h, "cas", "join", u, NoUser,
                IF QueuesSpectator(room, u, i) THEN AliasMember(u, next) ELSE room, next)

HandleSetRoomAdmission(h) == \E p, s \in Modes, actor \in {room.host, Operator} :
    /\ CanSetAdmission(room)
    /\ actor = Operator => <<p, s>> # <<room.participantAdmission, room.spectatorAdmission>>
    /\ Update(h, "admission", actor, SetAdmission(room, p, s))

HandleSelectRoomGame(h) == \E g \in Games :
    /\ CanSelectGame(room, g)
    /\ Update(h, "select", room.host, SelectGame(room, g))

HandleApproveMember(h) == \E u \in Users :
    /\ CanApproveWaiting(room, u)
    /\ LET next == ApproveWaiting(room, u)
       IN  Hold(h, "cas", "approve", room.host, NoUser, AliasMember(u, next), next)

HandleRequestRoomPause(h) == \E u \in Users :
    /\ CanRequestPause(room, u, room.session)
    /\ Update(h, "request", u, RequestPause(room, u, room.session))

HandleRejectRoomPause(h) ==
    /\ CanRejectPause(room, room.request.id)
    /\ Update(h, "reject", room.host, RejectPause(room))

HandleTransferRoomHost(h) == \E u \in Users :
    /\ CanTransferHost(room, u)
    /\ Update(h, "transfer", room.host, TransferHost(room, u))

HandleCloseRoom(h) == \E actor \in {room.host, Operator} :
    /\ CanClose(room)
    /\ Update(h, "close", actor, Close(room))

HandleRemoveRoomMember(h) == \E u \in Users, actor \in {room.host, Operator} :
    /\ CanRemoveMember(room, u)
    /\ Hold(h, IF ParticipantRevoked(room, u) THEN "removal" ELSE "cas", "remove", actor, u,
            AliasRemoval(u), RemoveMember(room, u))

HandleStartGame(h) ==
    /\ CanStartSession(room, MinPlayers, MaxPlayers)
    /\ Exact(h, "start", room.host, StartSession(room, room.roomVersion + 1))

HandlePauseRoom(h) == \E id \in {0, room.request.id} :
    /\ CanPause(room, room.session, id)
    /\ Exact(h, "pause", room.host, Pause(room, room.host, room.session, id))

HandleResumeRoom(h) ==
    /\ CanResume(room, room.session)
    /\ Exact(h, "resume", room.host, Resume(room))

HandleFinishGame(h) ==
    /\ CanEndSession(room, room.session)
    /\ Exact(h, "finish", Operator, FinishSession(room, room.session))

HandleCancelGame(h) ==
    /\ CanEndSession(room, room.session)
    /\ Exact(h, "cancel", Operator, CancelSession(room))

HandleCancelGameAndClose(h) ==
    /\ CanEndSession(room, room.session)
    /\ Exact(h, "cancel_close", room.host, CancelSessionAndClose(room))

-----------------------------------------------------------------------------
(* The second transaction.                                                 *)

\* Faulty variant: the room version is not compared.
RoomCASMembershipOnly(before) == room.membershipVersion = before.membershipVersion

\* WHERE clause of UpdatePartyRoomCAS.
RoomCAS(before) ==
    /\ room.roomVersion = before.roomVersion
    /\ room.membershipVersion = before.membershipVersion
    /\ room.epoch = before.epoch

\* validateRoomTransition.
RoomTransition(before, next) ==
    /\ next.roomVersion = before.roomVersion + 1
    /\ next.membershipVersion \in {before.membershipVersion, before.membershipVersion + 1}
    /\ next.epoch \in {before.epoch, before.epoch + 1}

RemovedParticipantTransition(before, next, u) ==
    /\ before.status = "playing"
    /\ before.session # NoSession
    /\ next.membershipVersion = before.membershipVersion + 1
    /\ Participant(before, u)
    /\ ~Member(next, u)

Answer(h) == inflight' = [inflight EXCEPT ![h] = Idle]

UpdateCAS(h) ==
    /\ inflight[h].path = "cas"
    /\ RoomTransition(inflight[h].before, inflight[h].next)
    /\ RoomCAS(inflight[h].before)
    /\ room' = inflight[h].next
    /\ Answer(h)
    /\ UNCHANGED <<frozen, revocations>>

CommitRemoval(h) ==
    /\ inflight[h].path = "removal"
    /\ RoomTransition(inflight[h].before, inflight[h].next)
    /\ RemovedParticipantTransition(inflight[h].before, inflight[h].next, inflight[h].target)
    /\ RoomCAS(inflight[h].before)
    /\ room' = inflight[h].next
    /\ revocations' = revocations \cup {<<inflight[h].before.session, inflight[h].target>>}
    /\ Answer(h)
    /\ UNCHANGED frozen

\* validateRoomGameSessionTermination expects the room after an ending to be
\* the one before it but for status, session, admissions and version, so the
\* pause fields that an ending clears must have been clear.
Endings == {"finish", "cancel", "cancel_close"}
TerminationExpected(before, next) == before.request = next.request /\ before.pause = next.pause

\* Faulty variant: only the room's session is compared.
SameRoomSession(before) == room.session = before.session

\* sameRoomSnapshot, on the locked row.
SameRoomSnapshot(before) == room = before

\* The runtime repository locks the row and compares the whole snapshot.
CommitExact(h) ==
    /\ inflight[h].path = "exact"
    /\ RoomTransition(inflight[h].before, inflight[h].next)
    /\ inflight[h].op \in Endings => TerminationExpected(inflight[h].before, inflight[h].next)
    /\ SameRoomSnapshot(inflight[h].before)
    /\ room' = inflight[h].next
    /\ frozen' = CASE inflight[h].op = "start" -> SeatsOf(inflight[h].next)
                   [] inflight[h].op \in Endings -> {}
                   [] OTHER -> frozen
    /\ Answer(h)
    /\ UNCHANGED revocations

\* A conflict, a refused transition, a lost connection or a cancelled request.
Fail(h) ==
    /\ Busy(h)
    /\ Answer(h)
    /\ UNCHANGED vars

ServiceNext == \E h \in Handlers :
    \/ HandleJoinRoom(h) \/ HandleSetRoomAdmission(h) \/ HandleSelectRoomGame(h) \/ HandleApproveMember(h)
    \/ HandleRequestRoomPause(h) \/ HandleRejectRoomPause(h) \/ HandleTransferRoomHost(h) \/ HandleCloseRoom(h)
    \/ HandleRemoveRoomMember(h) \/ HandleStartGame(h) \/ HandlePauseRoom(h) \/ HandleResumeRoom(h)
    \/ HandleFinishGame(h) \/ HandleCancelGame(h) \/ HandleCancelGameAndClose(h)
    \/ UpdateCAS(h) \/ CommitRemoval(h) \/ CommitExact(h) \/ Fail(h)

ServiceSpec == ServiceInit /\ [][ServiceNext]_serviceVars

-----------------------------------------------------------------------------
\* The compare-and-swap rests on this: a handler that finds its versions in
\* the row finds the row it loaded.  No pair of commands lets the row change
\* and come back to, or stay at, a version some handler still holds.
VersionIdentifiesRow ==
    \A h \in Handlers : Busy(h) /\ RoomCAS(inflight[h].loaded) => inflight[h].loaded = room

\* Whatever the interleaving of the handlers' loads and writes, the row
\* changes as if each command ran alone on the row it found, with the session
\* seats and the revocation written beside it: no update is lost.
ImplementsLedger == Spec

\* A removal of a player that was computed from the row as it stands is
\* accepted by CommitRemoval, so that a revocation is left for the runtime.
RemovalAccepted ==
    \A h \in Handlers : Busy(h) /\ inflight[h].path = "removal" /\ inflight[h].loaded = room =>
        RemovedParticipantTransition(inflight[h].before, inflight[h].next, inflight[h].target)
=============================================================================
