----------------------------- MODULE RoomLedger -----------------------------
(***************************************************************************)
(* What one stored room promises: its row changes by one whole command at  *)
(* a time, each applied to the row as it stands.  RoomService shows that   *)
(* the handlers, which read a row, compute and write later, implement it.  *)
(*                                                                         *)
(* Beside the row the module keeps the two facts that room transactions    *)
(* write for the game: the seats frozen when a session starts, and the     *)
(* revocations left for the runtime by the removal of a player.            *)
(***************************************************************************)
EXTENDS Room

CONSTANTS
    Modes,                      \* the admission modes that requests name
    MinPlayers, MaxPlayers,     \* player limits of a game's manifest
    MaxRoomVersion              \* bound: commands stop at this room version

ASSUME LedgerAssumption ==
    /\ Modes \subseteq Admissions
    /\ MinPlayers \in Nat \ {0}
    /\ MaxPlayers \in Nat
    /\ MinPlayers <= MaxPlayers
    /\ MaxRoomVersion \in Nat \ {0}

VARIABLES
    room,           \* party_rooms row and its room_members
    frozen,         \* <<user, seat>> pairs of the active session's participants
    revocations     \* <<session, user>> pairs in outbox and runtime inbox

vars == <<room, frozen, revocations>>

SeatsOf(r) == {<<u, r.members[u].seat>> : u \in Participants(r)}

-----------------------------------------------------------------------------
\* Create stores the row that NewWithAdmission built.
Init ==
    /\ \E u \in Users, p, s \in Modes, g \in Games : room = NewWithAdmission(u, p, s, g)
    /\ frozen = {}
    /\ revocations = {}

Bounded == room.roomVersion < MaxRoomVersion

\* A command that leaves sessions alone.
Write(next) == Bounded /\ room' = next /\ UNCHANGED <<frozen, revocations>>

JoinRoom ==
    \E u \in Users, i \in Intents : CanJoin(room, u, i) /\ Write(Join(room, u, i))

\* The host, or an operator by SetAdmissionByAdmin.
SetRoomAdmission ==
    \E p, s \in Modes : CanSetAdmission(room) /\ Write(SetAdmission(room, p, s))

SelectRoomGame ==
    \E g \in Games : CanSelectGame(room, g) /\ Write(SelectGame(room, g))

ApproveMember ==
    \E u \in Users : CanApproveWaiting(room, u) /\ Write(ApproveWaiting(room, u))

RequestRoomPause ==
    \E u \in Users : CanRequestPause(room, u, room.session) /\ Write(RequestPause(room, u, room.session))

RejectRoomPause ==
    CanRejectPause(room, room.request.id) /\ Write(RejectPause(room))

PauseRoom ==
    \E id \in {0, room.request.id} :
        CanPause(room, room.session, id) /\ Write(Pause(room, room.host, room.session, id))

ResumeRoom ==
    CanResume(room, room.session) /\ Write(Resume(room))

TransferRoomHost ==
    \E u \in Users : CanTransferHost(room, u) /\ Write(TransferHost(room, u))

CloseRoom == CanClose(room) /\ Write(Close(room))

\* Start creates the session with the participants of the room in the same
\* transaction.  The session's identifier is the room version it starts at.
StartGame ==
    /\ Bounded
    /\ CanStartSession(room, MinPlayers, MaxPlayers)
    /\ room' = StartSession(room, room.roomVersion + 1)
    /\ frozen' = SeatsOf(room)
    /\ UNCHANGED revocations

EndGame(next) ==
    /\ Bounded
    /\ CanEndSession(room, room.session)
    /\ room' = next
    /\ frozen' = {}
    /\ UNCHANGED revocations

FinishGame == EndGame(FinishSession(room, room.session))
CancelGame == EndGame(CancelSession(room))
CancelGameAndClose == EndGame(CancelSessionAndClose(room))

\* CommitRemoval writes the row, the outbox event and the runtime inbox entry
\* together; other removals are plain updates.
Remove(u) ==
    /\ Bounded
    /\ CanRemoveMember(room, u)
    /\ room' = RemoveMember(room, u)
    /\ revocations' = IF ParticipantRevoked(room, u)
                      THEN revocations \cup {<<room.session, u>>} ELSE revocations
    /\ UNCHANGED frozen

RemoveRoomMember == \E u \in Users : Remove(u)

Next ==
    \/ JoinRoom \/ SetRoomAdmission \/ SelectRoomGame \/ ApproveMember
    \/ RequestRoomPause \/ RejectRoomPause \/ PauseRoom \/ ResumeRoom
    \/ TransferRoomHost \/ CloseRoom \/ RemoveRoomMember
    \/ StartGame \/ FinishGame \/ CancelGame \/ CancelGameAndClose

Spec == Init /\ [][Next]_vars

-----------------------------------------------------------------------------
MemberType == [role : Roles \cup {NoRole}, requested : Intents \cup {NoRole},
               seat : 0 .. Capacity - 1, joined : Nat]
RequestType == [id : Nat, session : Nat, by : Users \cup {NoUser}]
PauseType == [id : Nat, session : Nat, source : {"none", "host", "approved_request"},
              by : Users \cup {NoUser}, host : Users \cup {NoUser}]
RoomType ==
    [status : Statuses, host : Users,
     participantAdmission : Admissions, spectatorAdmission : Admissions,
     members : [Users -> MemberType],
     session : Nat, lastFinished : Nat,
     request : RequestType, pause : PauseType, selected : Games,
     roomVersion : Nat \ {0}, membershipVersion : Nat \ {0}, epoch : Nat \ {0}]

\* No sequence of commands leads to a row that Restore refuses.  The code ends
\* every command with Restore of its result and the model leaves that out, so
\* this says that the closing check never fails: a command that passes its own
\* checks is carried out, whatever status, session, admission, seats, host,
\* capacity, pause request and pause the earlier ones left.
RoomRestorable == room \in RoomType /\ Restorable(room)

\* While a game runs, nobody holds a seat that was not frozen for them at the
\* start, and a frozen player who has left the room left a revocation for the
\* runtime behind and does not come back to the seat: no join, approval,
\* transfer or removal puts the room and the session's participants at odds.
FrozenSeatsKept ==
    room.status = "playing" =>
        /\ SeatsOf(room) \subseteq frozen
        /\ \A pair \in frozen : pair \in SeatsOf(room) <=> <<room.session, pair[1]>> \notin revocations
=============================================================================
