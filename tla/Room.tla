-------------------------------- MODULE Room --------------------------------
(***************************************************************************)
(* The PartyRoom aggregate (platform/room/model.go, admin.go).             *)
(*                                                                         *)
(* A command of the code takes a room value and returns the next one, or   *)
(* an error.  Here each has a guard CanX (the checks that return an error) *)
(* and a result X.  Every command compares the client's expected version   *)
(* with the room it read; a command whose expectation differs fails        *)
(* without effect, so the expected version is not a parameter.             *)
(* The Restore that ends every command, and could only refuse its result,  *)
(* is left out: RoomRestorable says that it has nothing to refuse.         *)
(*                                                                         *)
(* Times are left out but for the order of joining, which lists members:   *)
(* a member's "joined" is the membership version that created it.  A pause *)
(* and a pause request get as identifier the room version that created     *)
(* them, where the code draws a UUID.  A session identifier is a number,   *)
(* and an active or finished game identifier is set exactly when its       *)
(* session identifier is, so only the latter is kept.                      *)
(***************************************************************************)
EXTENDS Naturals, FiniteSets

CONSTANTS
    Users,      \* user identifiers
    NoUser,     \* the zero user identifier
    Games,      \* game identifiers a room can select
    Capacity    \* participant capacity of the room

ASSUME RoomAssumption ==
    /\ NoUser \notin Users
    /\ IsFiniteSet(Users)
    /\ Capacity \in Nat \ {0}
    /\ Games # {}

Statuses == {"lobby", "playing", "post_game", "closed"}
Admissions == {"open", "approval", "closed"}
Roles == {"participant", "spectator", "waiting"}
Intents == {"participant", "spectator"}
NoRole == "none"
NoSession == 0

NoMember == [role |-> NoRole, requested |-> NoRole, seat |-> 0, joined |-> 0]
NoRequest == [id |-> 0, session |-> NoSession, by |-> NoUser]
NoPause == [id |-> 0, session |-> NoSession, source |-> "none", by |-> NoUser, host |-> NoUser]

\* NewWithAdmission: the host sits on seat zero.
NewWithAdmission(host, participant, spectator, game) ==
    [status |-> "lobby", host |-> host,
     participantAdmission |-> participant, spectatorAdmission |-> spectator,
     members |-> [u \in Users |->
         IF u = host THEN [role |-> "participant", requested |-> NoRole, seat |-> 0, joined |-> 1]
                     ELSE NoMember],
     session |-> NoSession, lastFinished |-> NoSession,
     request |-> NoRequest, pause |-> NoPause, selected |-> game,
     roomVersion |-> 1, membershipVersion |-> 1, epoch |-> 1]

-----------------------------------------------------------------------------
(* Reading a room.                                                         *)

Member(r, u) == r.members[u].role # NoRole
Participant(r, u) == r.members[u].role = "participant"
Participants(r) == {u \in Users : Participant(r, u)}
AdmissionMutable(r) == r.status \in {"lobby", "post_game"}

FreeSeats(r) == (0 .. Capacity - 1) \ {r.members[u].seat : u \in Participants(r)}
NextSeat(r) == CHOOSE s \in FreeSeats(r) : \A t \in FreeSeats(r) : s <= t

\* ListRoomMembers orders by join time, and a removal shifts what follows.
LastListed(r, u) == \A v \in Users : Member(r, v) => r.members[v].joined <= r.members[u].joined

\* validatePauseGovernance.
PauseGovernanceValid(r) ==
    /\ r.request = NoRequest \/ r.pause = NoPause
    /\ r.request # NoRequest =>
          /\ r.status = "playing"
          /\ r.request.session = r.session
          /\ r.request.by \in Participants(r) \ {r.host}
    /\ r.pause # NoPause =>
          /\ r.status = "playing"
          /\ r.pause.session = r.session
          /\ r.pause.host # NoUser
          /\ (r.pause.source = "host") <=> (r.pause.by = NoUser)

StatusValid(r) ==
    /\ (r.status = "playing") <=> (r.session # NoSession)
    /\ r.status = "playing" => r.participantAdmission = "closed"
    /\ r.status \in {"lobby", "playing"} => r.lastFinished = NoSession
    /\ r.status = "post_game" => r.lastFinished # NoSession
    /\ r.status = "closed" => r.participantAdmission = "closed" /\ r.spectatorAdmission = "closed"

MembersValid(r) ==
    /\ \A u, v \in Participants(r) : u # v => r.members[u].seat # r.members[v].seat
    /\ \A u \in Users :
          /\ (r.members[u].role = "waiting") <=> (r.members[u].requested # NoRole)
          /\ ~Participant(r, u) => r.members[u].seat = 0
    /\ r.host \in Participants(r)
    /\ Cardinality(Participants(r)) <= Capacity

\* Restore: what a stored row must satisfy to be read back.
Restorable(r) == StatusValid(r) /\ MembersValid(r) /\ PauseGovernanceValid(r)

-----------------------------------------------------------------------------
(* Writing a room.                                                         *)

BumpVersions(r) == [r EXCEPT !.roomVersion = @ + 1]
BumpMembership(r) == [r EXCEPT !.roomVersion = @ + 1, !.membershipVersion = @ + 1]

\* Join returns an existing member as it is, but for a spectator of a running
\* game who asks for a seat and is queued for the next one.
QueuesSpectator(r, u, intent) ==
    /\ r.status = "playing"
    /\ intent = "participant"
    /\ r.members[u].role = "spectator"

\* Admits a newcomer: nobody becomes a participant of a running game.
JoinQueued(r, intent) == r.status = "playing" /\ intent = "participant"
JoinAdmission(r, intent) ==
    IF intent = "spectator" THEN r.spectatorAdmission ELSE r.participantAdmission

CanJoin(r, u, intent) ==
    \/ QueuesSpectator(r, u, intent)
    \/ /\ ~Member(r, u)
       /\ r.status # "closed"
       /\ \/ JoinQueued(r, intent)
          \/ JoinAdmission(r, intent) = "approval"
          \/ /\ JoinAdmission(r, intent) = "open"
             /\ intent = "participant" => FreeSeats(r) # {}

JoinedMember(r, u, intent) ==
    LET base == IF Member(r, u) THEN r.members[u]
                ELSE [NoMember EXCEPT !.joined = r.membershipVersion + 1]
    IN  IF JoinQueued(r, intent) \/ JoinAdmission(r, intent) = "approval"
        THEN [base EXCEPT !.role = "waiting", !.requested = intent]
        ELSE [base EXCEPT !.role = intent,
                          !.seat = IF intent = "participant" THEN NextSeat(r) ELSE 0]

Join(r, u, intent) ==
    BumpMembership([r EXCEPT !.members[u] = JoinedMember(r, u, intent)])

CanSetAdmission(r) == AdmissionMutable(r)
SetAdmission(r, participant, spectator) ==
    BumpVersions([r EXCEPT !.participantAdmission = participant, !.spectatorAdmission = spectator])

\* Selecting the selected game changes nothing and is not written.
CanSelectGame(r, g) == AdmissionMutable(r) /\ r.selected # g
SelectGame(r, g) == BumpVersions([r EXCEPT !.selected = g])

\* Faulty variant: a waiting member may be seated while a game runs.
CanApproveAnytime(r, u) ==
    /\ r.members[u].role = "waiting"
    /\ r.members[u].requested = "participant" => FreeSeats(r) # {}

CanApproveWaiting(r, u) ==
    /\ AdmissionMutable(r)
    /\ r.members[u].role = "waiting"
    /\ r.members[u].requested = "participant" => FreeSeats(r) # {}
ApproveWaiting(r, u) ==
    LET requested == r.members[u].requested
    IN  BumpMembership([r EXCEPT !.members[u] =
            [@ EXCEPT !.role = requested, !.requested = NoRole,
                      !.seat = IF requested = "participant" THEN NextSeat(r) ELSE 0]])

CanStartSession(r, minimum, maximum) ==
    /\ r.status \in {"lobby", "post_game"}
    /\ r.session = NoSession
    /\ Cardinality(Participants(r)) \in minimum .. maximum
StartSession(r, s) ==
    BumpVersions([r EXCEPT !.status = "playing", !.session = s,
                           !.participantAdmission = "closed", !.lastFinished = NoSession])

CanRequestPause(r, u, s) ==
    /\ r.status = "playing" /\ r.session = s
    /\ r.pause = NoPause /\ r.request = NoRequest
    /\ Participant(r, u) /\ u # r.host
RequestPause(r, u, s) ==
    BumpVersions([r EXCEPT !.request = [id |-> r.roomVersion + 1, session |-> s, by |-> u]])

CanRejectPause(r, id) == r.request.id = id /\ id # 0
RejectPause(r) == BumpVersions([r EXCEPT !.request = NoRequest])

\* The host pauses on its own account (id zero) or approves the request.
CanPause(r, s, id) ==
    /\ r.status = "playing" /\ r.session = s
    /\ r.pause = NoPause
    /\ id # 0 => r.request.id = id /\ r.request.session = s
Pause(r, host, s, id) ==
    BumpVersions([r EXCEPT
        !.request = NoRequest,
        !.pause = [id |-> r.roomVersion + 1, session |-> s, host |-> host,
                   source |-> IF id = 0 THEN "host" ELSE "approved_request",
                   by |-> IF id = 0 THEN NoUser ELSE r.request.by]])

CanResume(r, s) ==
    /\ r.status = "playing" /\ r.session = s
    /\ r.pause # NoPause /\ r.pause.session = s
Resume(r) == BumpVersions([r EXCEPT !.pause = NoPause])

\* A request of the new host is dropped with the transfer.
CanTransferHost(r, target) ==
    /\ r.status # "closed"
    /\ Participant(r, target)
    /\ target # r.host
\* Faulty variant: the new host keeps its own pause request.
TransferHostKeepingRequest(r, target) ==
    BumpVersions([r EXCEPT !.host = target, !.epoch = @ + 1])

TransferHost(r, target) ==
    BumpVersions([r EXCEPT !.host = target, !.epoch = @ + 1,
                           !.request = IF @.by = target THEN NoRequest ELSE @])

\* FinishSession and the two cancellations share this guard; the one that
\* also closes the room is the host's.
CanEndSession(r, s) == r.status = "playing" /\ r.session = s
FinishSession(r, s) ==
    BumpVersions([r EXCEPT !.status = "post_game", !.session = NoSession, !.lastFinished = s,
                           !.participantAdmission = "closed",
                           !.request = NoRequest, !.pause = NoPause])
CancelSession(r) ==
    BumpVersions([r EXCEPT !.status = "lobby", !.session = NoSession, !.lastFinished = NoSession,
                           !.participantAdmission = "closed",
                           !.request = NoRequest, !.pause = NoPause])
CancelSessionAndClose(r) ==
    BumpVersions([r EXCEPT !.status = "closed", !.session = NoSession, !.lastFinished = NoSession,
                           !.participantAdmission = "closed", !.spectatorAdmission = "closed",
                           !.request = NoRequest, !.pause = NoPause])

CanRemoveMember(r, u) == Member(r, u) /\ u # r.host
RemoveMember(r, u) ==
    BumpMembership([r EXCEPT !.members[u] = NoMember,
                             !.request = IF @.by = u THEN NoRequest ELSE @])
ParticipantRevoked(r, u) == r.status = "playing" /\ Participant(r, u)

\* Closing a closed room changes nothing and is not written.
CanClose(r) == r.status \in {"lobby", "post_game"}
Close(r) ==
    BumpVersions([r EXCEPT !.status = "closed",
                           !.participantAdmission = "closed", !.spectatorAdmission = "closed",
                           !.request = NoRequest, !.pause = NoPause])
=============================================================================
