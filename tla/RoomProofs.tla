----------------------------- MODULE RoomProofs -----------------------------
(***************************************************************************)
(* Proofs about the room and its ledger, for any number of users, seats,   *)
(* games and commands.                                                     *)
(*                                                                         *)
(* RoomRestorable is inductive: Restore checks what the next command       *)
(* relies on.  FrozenSeatsKept is not.  LedgerInv adds RevocationsPast,    *)
(* that sessions and revocations are no younger than the room, so that a   *)
(* new game starts without revocations.                                    *)
(***************************************************************************)
EXTENDS RoomLedger, FiniteSetTheorems, NaturalsInduction, WellFoundedInduction, TLAPS

-----------------------------------------------------------------------------
(* Seats and members.                                                      *)

\* A free seat has a lowest one, which nextSeat returns.
LEMMA NextSeatFree ==
    ASSUME NEW r, FreeSeats(r) # {}
    PROVE  NextSeat(r) \in FreeSeats(r)
<1>1. FreeSeats(r) \subseteq Nat
    BY RoomAssumption DEF FreeSeats
<1>2. PICK s \in FreeSeats(r) : \A t \in FreeSeats(r) : ~(<<t, s>> \in OpToRel(<, Nat))
    BY <1>1, NatLessThanWellFounded, WFMin, Zenon
<1>3. \A t \in FreeSeats(r) : s <= t
    <2> SUFFICES ASSUME NEW t \in FreeSeats(r), t < s PROVE FALSE
        BY <1>1
    <2>1. <<t, s>> \in OpToRel(<, Nat)
        BY <1>1 DEF OpToRel
    <2> QED BY <1>2, <2>1, Zenon
<1> QED BY <1>3 DEF NextSeat

\* Members who sit on seats of their own fit the room's capacity.
LEMMA SeatsFit ==
    ASSUME NEW r, NEW members \in [Users -> MemberType], r.members = members,
           \A u, v \in Participants(r) : u # v => members[u].seat # members[v].seat
    PROVE  Cardinality(Participants(r)) <= Capacity
<1> DEFINE seat == [u \in Participants(r) |-> members[u].seat]
<1>1. seat \in [Participants(r) -> 0 .. Capacity - 1]
    BY DEF Participants, MemberType
<1>2. seat \in Injection(Participants(r), 0 .. Capacity - 1)
    BY <1>1 DEF Injection, IsInjective
<1>3. Capacity \in Nat /\ Capacity > 0
    BY RoomAssumption
<1>4. IsFiniteSet(0 .. Capacity - 1) /\ Cardinality(0 .. Capacity - 1) = Capacity
    BY <1>3, FS_Interval
<1> QED BY <1>2, <1>4, FS_Injection

-----------------------------------------------------------------------------
(* Commands.  Each keeps a row restorable and counts its version up.       *)

Good(r) == r \in RoomType /\ Restorable(r)
Follows(r, next) == Good(next) /\ next.roomVersion = r.roomVersion + 1

\* A command that leaves the members and the host alone leaves them valid.
LEMMA MembersKept ==
    ASSUME NEW r, NEW q, MembersValid(r), q.members = r.members, q.host = r.host
    PROVE  MembersValid(q)
BY SMTT(30) DEF MembersValid, Participants, Participant

\* Counting up changes nothing that Restore looks at.
LEMMA BumpFollows ==
    ASSUME NEW r, NEW q, Good(q), q.roomVersion = r.roomVersion
    PROVE  Follows(r, BumpVersions(q)) /\ Follows(r, BumpMembership(q))
<1>1. \A b \in {BumpVersions(q), BumpMembership(q)} :
        /\ b.roomVersion = r.roomVersion + 1
        /\ b.status = q.status /\ b.session = q.session /\ b.lastFinished = q.lastFinished
        /\ b.participantAdmission = q.participantAdmission /\ b.spectatorAdmission = q.spectatorAdmission
        /\ b.members = q.members /\ b.host = q.host /\ b.request = q.request /\ b.pause = q.pause
    BY ZenonT(40) DEF Good, RoomType, BumpVersions, BumpMembership
<1>2. \A p \in RoomType : BumpVersions(p) \in RoomType
    BY DEF RoomType, BumpVersions
<1>3. BumpMembership(q) \in RoomType
    <2>1. q.membershipVersion + 1 \in Nat \ {0}
        BY DEF Good, RoomType
    <2>2. [q EXCEPT !.membershipVersion = q.membershipVersion + 1] \in RoomType
        BY <2>1 DEF Good, RoomType
    <2>3. BumpMembership(q) = BumpVersions([q EXCEPT !.membershipVersion = q.membershipVersion + 1])
        BY Zenon DEF BumpMembership, BumpVersions, Good, RoomType
    <2> QED BY <1>2, <2>2, <2>3
<1>4. ASSUME NEW b \in {BumpVersions(q), BumpMembership(q)} PROVE Restorable(b)
    <2>1. StatusValid(b)
        BY <1>1 DEF Good, Restorable, StatusValid
    <2>2. MembersValid(b)
        BY <1>1, MembersKept DEF Good, Restorable
    <2>3. PauseGovernanceValid(b)
        BY <1>1, Zenon DEF Good, Restorable, PauseGovernanceValid, Participants, Participant
    <2> QED BY <2>1, <2>2, <2>3 DEF Restorable
<1> QED BY <1>1, <1>2, <1>3, <1>4 DEF Follows, Good

\* A newcomer is a member, on a free seat if it is a participant.
LEMMA JoinedMemberType ==
    ASSUME NEW r, Good(r), NEW u \in Users, NEW intent \in Intents, CanJoin(r, u, intent)
    PROVE  LET m == JoinedMember(r, u, intent)
           IN  /\ m \in MemberType
               /\ m.role = "participant" => m.seat \in FreeSeats(r) /\ r.status # "playing"
               /\ (m.role = "waiting") <=> (m.requested # NoRole)
               /\ m.role # "participant" => m.seat = 0
               /\ ~Participant(r, u)
<1> DEFINE base == IF Member(r, u) THEN r.members[u] ELSE [NoMember EXCEPT !.joined = r.membershipVersion + 1]
           m == JoinedMember(r, u, intent)
<1>1. base \in MemberType /\ base.role \in {NoRole, "spectator"} /\ base.requested = NoRole /\ base.seat = 0
    BY RoomAssumption DEF Good, RoomType, CanJoin, QueuesSpectator, Member, Participant, MemberType, NoMember, NoRole,
          Roles, Intents, Restorable, MembersValid
<1>2. ~Participant(r, u)
    BY Zenon DEF CanJoin, QueuesSpectator, Member, Participant, NoRole
<1> HIDE DEF base
<1>3. CASE JoinQueued(r, intent) \/ JoinAdmission(r, intent) = "approval"
    <2>1. m = [base EXCEPT !.role = "waiting", !.requested = intent]
        BY <1>3 DEF JoinedMember, base
    <2> QED BY <1>1, <1>2, <2>1, Zenon DEF MemberType, Roles, Intents, NoRole
<1>4. CASE ~(JoinQueued(r, intent) \/ JoinAdmission(r, intent) = "approval")
    <2>1. m = [base EXCEPT !.role = intent, !.seat = IF intent = "participant" THEN NextSeat(r) ELSE 0]
        BY <1>4 DEF JoinedMember, base
    <2>2. intent = "participant" => NextSeat(r) \in FreeSeats(r) /\ r.status # "playing"
        BY <1>4, NextSeatFree DEF CanJoin, QueuesSpectator, JoinQueued
    <2>3. FreeSeats(r) \subseteq 0 .. Capacity - 1
        BY DEF FreeSeats
    <2> HIDE DEF m
    <2> QED BY <1>1, <1>2, <2>1, <2>2, <2>3, Zenon DEF MemberType, Roles, Intents, NoRole, m
<1> QED BY <1>3, <1>4

\* Whoever is not a participant may become a member of another kind, or a
\* participant on a free seat.
LEMMA MemberSet ==
    ASSUME NEW r, Good(r), NEW u \in Users, ~Participant(r, u), NEW m \in MemberType,
           m.role = "participant" => m.seat \in FreeSeats(r) /\ r.status # "playing",
           (m.role = "waiting") <=> (m.requested # NoRole),
           m.role # "participant" => m.seat = 0
    PROVE  LET q == [r EXCEPT !.members = [r.members EXCEPT ![u] = m]]
           IN  Good(q) /\ q.roomVersion = r.roomVersion
<1> DEFINE members == [r.members EXCEPT ![u] = m]
           q == [r EXCEPT !.members = members]
<1>1. members \in [Users -> MemberType]
    BY DEF Good, RoomType
<1>2. /\ Participants(q) \subseteq Participants(r) \cup {u}
      /\ Participants(r) \subseteq Participants(q)
      /\ \A v \in Users : v # u => q.members[v] = r.members[v]
      /\ q.members[u] = m
    BY <1>1 DEF Participants, Participant, Good, RoomType
<1>3. q \in RoomType /\ q.roomVersion = r.roomVersion
    BY <1>1 DEF Good, RoomType
<1>4. StatusValid(q)
    BY Zenon DEF Good, RoomType, Restorable, StatusValid
<1>5. PauseGovernanceValid(q)
    BY <1>2 DEF Good, RoomType, Restorable, PauseGovernanceValid
<1>6. MembersValid(q)
    <2>1. \A v, w \in Participants(q) : v # w => q.members[v].seat # q.members[w].seat
        BY <1>2 DEF Good, Restorable, MembersValid, FreeSeats, Participants, Participant
    <2>2. q.members = members
        BY DEF Good, RoomType
    <2>3. Cardinality(Participants(q)) <= Capacity
        <3> HIDE DEF q, members
        <3> QED BY <1>1, <2>1, <2>2, SeatsFit
    <2> QED BY <1>2, <2>1, <2>3, Zenon DEF Good, RoomType, Restorable, MembersValid, Participant
<1> QED BY <1>3, <1>4, <1>5, <1>6 DEF Good, Restorable

\* Join admits a newcomer, seated or waiting (Room.Join).
LEMMA JoinFollows ==
    ASSUME NEW r, Good(r), NEW u \in Users, NEW intent \in Intents, CanJoin(r, u, intent)
    PROVE  Follows(r, Join(r, u, intent))
<1> DEFINE m == JoinedMember(r, u, intent)
           q == [r EXCEPT !.members = [r.members EXCEPT ![u] = m]]
<1>1. Good(q) /\ q.roomVersion = r.roomVersion
    <2> HIDE DEF q
    <2> QED BY JoinedMemberType, MemberSet DEF q
<1>2. Join(r, u, intent) = BumpMembership(q)
    BY DEF Join, Good, RoomType
<1> QED BY <1>1, <1>2, BumpFollows, Zenon

\* ApproveWaiting seats a participant on the lowest free seat, or on none.
LEMMA ApproveWaitingFollows ==
    ASSUME NEW r, Good(r), NEW u \in Users, CanApproveWaiting(r, u)
    PROVE  Follows(r, ApproveWaiting(r, u))
<1> DEFINE requested == r.members[u].requested
           seat == IF requested = "participant" THEN NextSeat(r) ELSE 0
           m == [r.members[u] EXCEPT !.role = requested, !.requested = NoRole, !.seat = seat]
           q == [r EXCEPT !.members = [r.members EXCEPT ![u] = m]]
<1>1. r.members[u] \in MemberType /\ requested \in Intents /\ ~Participant(r, u)
    BY DEF Good, RoomType, MemberType, CanApproveWaiting, Restorable, MembersValid, Participant
<1>2. /\ requested = "participant" => seat \in FreeSeats(r) /\ r.status # "playing"
      /\ requested # "participant" => seat = 0
    BY NextSeatFree DEF CanApproveWaiting, AdmissionMutable
<1>3. seat \in 0 .. Capacity - 1
    BY <1>2, RoomAssumption DEF FreeSeats
<1> HIDE DEF seat, requested
<1>4. m \in MemberType /\ m.role = requested /\ m.seat = seat /\ m.requested = NoRole
    BY <1>1, <1>3, Zenon DEF MemberType, Roles, Intents
<1>5. ApproveWaiting(r, u) = BumpMembership(q)
    BY DEF ApproveWaiting, requested, seat, Good, RoomType
<1>6. Good(q) /\ q.roomVersion = r.roomVersion
    <2> HIDE DEF m
    <2> QED BY <1>1, <1>2, <1>4, MemberSet, Zenon DEF Intents, NoRole
<1> QED BY <1>5, <1>6, BumpFollows, Zenon

\* Commands that leave members and host alone.
LEMMA QuietCommand ==
    ASSUME NEW r, Good(r), NEW q, q \in RoomType, q.members = r.members, q.host = r.host,
           q.roomVersion = r.roomVersion, StatusValid(q), PauseGovernanceValid(q)
    PROVE  Follows(r, BumpVersions(q))
BY BumpFollows, MembersKept DEF Good, Restorable

\* No pause and no pause request are a pause and a request.
LEMMA NoneTypes == NoRequest \in RequestType /\ NoPause \in PauseType
BY DEF NoRequest, NoPause, RequestType, PauseType, NoSession

\* A room that is not playing has neither, and no session.
LEMMA IdleRoom ==
    ASSUME NEW r, Good(r), r.status # "playing"
    PROVE  r.request = NoRequest /\ r.pause = NoPause /\ r.session = NoSession
BY DEF Good, Restorable, StatusValid, PauseGovernanceValid

\* SetAdmission is refused while a game runs, when Restore wants it closed.
LEMMA SetAdmissionFollows ==
    ASSUME NEW r, Good(r), NEW p \in Modes, NEW s \in Modes, CanSetAdmission(r)
    PROVE  Follows(r, SetAdmission(r, p, s))
<1> DEFINE q == [r EXCEPT !.participantAdmission = p, !.spectatorAdmission = s]
<1>1. q \in RoomType
    BY LedgerAssumption, Zenon DEF Good, RoomType
<1>2. StatusValid(q) /\ PauseGovernanceValid(q)
    BY IdleRoom, Zenon DEF Good, RoomType, Restorable, StatusValid, PauseGovernanceValid, CanSetAdmission, AdmissionMutable
<1>3. q.members = r.members /\ q.host = r.host /\ q.roomVersion = r.roomVersion
    BY DEF Good, RoomType
<1> QED BY <1>1, <1>2, <1>3, QuietCommand, Zenon DEF SetAdmission

\* SelectGame changes nothing that Restore relates to the rest of the row.
LEMMA SelectGameFollows ==
    ASSUME NEW r, Good(r), NEW g \in Games, CanSelectGame(r, g)
    PROVE  Follows(r, SelectGame(r, g))
<1> DEFINE q == [r EXCEPT !.selected = g]
<1>1. q \in RoomType
    BY DEF Good, RoomType
<1>2. StatusValid(q) /\ PauseGovernanceValid(q)
    BY IdleRoom DEF Good, RoomType, Restorable, StatusValid, PauseGovernanceValid, CanSelectGame, AdmissionMutable
<1>3. q.members = r.members /\ q.host = r.host /\ q.roomVersion = r.roomVersion
    BY DEF Good, RoomType
<1> QED BY <1>1, <1>2, <1>3, QuietCommand, Zenon DEF SelectGame

\* StartSession closes the admission of participants and forgets the last game.
LEMMA StartSessionFollows ==
    ASSUME NEW r, Good(r), CanStartSession(r, MinPlayers, MaxPlayers)
    PROVE  Follows(r, StartSession(r, r.roomVersion + 1))
<1> DEFINE s == r.roomVersion + 1
           q == [r EXCEPT !.status = "playing", !.session = s,
                          !.participantAdmission = "closed", !.lastFinished = NoSession]
<1>1. s \in Nat /\ s # 0
    BY DEF Good, RoomType
<1> HIDE DEF s
<1>2. q \in RoomType
    BY <1>1, Zenon DEF Good, RoomType, Statuses, Admissions, NoSession
<1>3. StatusValid(q) /\ PauseGovernanceValid(q)
    BY <1>1, IdleRoom DEF Good, RoomType, StatusValid, PauseGovernanceValid, CanStartSession, NoSession
<1>4. q.members = r.members /\ q.host = r.host /\ q.roomVersion = r.roomVersion
    BY DEF Good, RoomType
<1>5. StartSession(r, r.roomVersion + 1) = BumpVersions(q)
    BY DEF StartSession, s
<1> HIDE DEF q
<1> QED BY <1>2, <1>3, <1>4, <1>5, QuietCommand

\* A request for a pause names the running session and a participant who is not the host.
LEMMA RequestPauseFollows ==
    ASSUME NEW r, Good(r), NEW u \in Users, CanRequestPause(r, u, r.session)
    PROVE  Follows(r, RequestPause(r, u, r.session))
<1> DEFINE request == [id |-> r.roomVersion + 1, session |-> r.session, by |-> u]
           q == [r EXCEPT !.request = request]
<1>1. request \in RequestType /\ request.session = r.session /\ request.by = u
    BY DEF Good, RoomType, RequestType
<1>2. RequestPause(r, u, r.session) = BumpVersions(q)
    BY DEF RequestPause
<1> HIDE DEF request
<1>3. q \in RoomType
    BY <1>1 DEF Good, RoomType
<1>4. StatusValid(q)
    BY DEF Good, RoomType, Restorable, StatusValid
<1>5. PauseGovernanceValid(q)
    BY <1>1, Zenon DEF Good, RoomType, PauseGovernanceValid, CanRequestPause, Participants, Participant
<1>6. q.members = r.members /\ q.host = r.host /\ q.roomVersion = r.roomVersion
    BY DEF Good, RoomType
<1> HIDE DEF q
<1> QED BY <1>2, <1>3, <1>4, <1>5, <1>6, QuietCommand

\* RejectPause drops the request.
LEMMA RejectPauseFollows ==
    ASSUME NEW r, Good(r)
    PROVE  Follows(r, RejectPause(r))
<1> DEFINE q == [r EXCEPT !.request = NoRequest]
<1>1. q \in RoomType
    BY NoneTypes DEF Good, RoomType
<1>2. StatusValid(q) /\ PauseGovernanceValid(q)
    BY DEF Good, RoomType, Restorable, StatusValid, PauseGovernanceValid
<1>3. q.members = r.members /\ q.host = r.host /\ q.roomVersion = r.roomVersion
    BY DEF Good, RoomType
<1> QED BY <1>1, <1>2, <1>3, QuietCommand, Zenon DEF RejectPause

\* Pause takes the place of the request that it approves.
LEMMA PauseFollows ==
    ASSUME NEW r, Good(r), NEW id \in {0, r.request.id}, CanPause(r, r.session, id)
    PROVE  Follows(r, Pause(r, r.host, r.session, id))
<1> DEFINE pause == [id |-> r.roomVersion + 1, session |-> r.session, host |-> r.host,
                     source |-> IF id = 0 THEN "host" ELSE "approved_request",
                     by |-> IF id = 0 THEN NoUser ELSE r.request.by]
           q == [r EXCEPT !.request = NoRequest, !.pause = pause]
<1>1. id # 0 => r.request.by \in Users
    BY DEF Good, Restorable, PauseGovernanceValid, CanPause, NoRequest, Participants
<1>2. /\ pause \in PauseType
      /\ pause.session = r.session /\ pause.host # NoUser
      /\ (pause.source = "host") <=> (pause.by = NoUser)
    BY <1>1, RoomAssumption DEF Good, RoomType, PauseType
<1>3. Pause(r, r.host, r.session, id) = BumpVersions(q)
    BY Zenon DEF Pause
<1> HIDE DEF pause
<1>4. q \in RoomType
    BY <1>2, NoneTypes, Zenon DEF Good, RoomType
<1>5. StatusValid(q)
    BY DEF Good, RoomType, Restorable, StatusValid
<1>6. PauseGovernanceValid(q)
    BY <1>2 DEF Good, RoomType, PauseGovernanceValid, CanPause
<1>7. q.members = r.members /\ q.host = r.host /\ q.roomVersion = r.roomVersion
    BY DEF Good, RoomType
<1> HIDE DEF q
<1> QED BY <1>3, <1>4, <1>5, <1>6, <1>7, QuietCommand

\* Resume ends the pause.
LEMMA ResumeFollows ==
    ASSUME NEW r, Good(r)
    PROVE  Follows(r, Resume(r))
<1> DEFINE q == [r EXCEPT !.pause = NoPause]
<1>1. q \in RoomType
    BY NoneTypes DEF Good, RoomType
<1>2. StatusValid(q)
    BY DEF Good, RoomType, Restorable, StatusValid
<1>3. PauseGovernanceValid(q)
    BY DEF Good, RoomType, Restorable, PauseGovernanceValid, Participants, Participant
<1>4. q.members = r.members /\ q.host = r.host /\ q.roomVersion = r.roomVersion
    BY DEF Good, RoomType
<1> QED BY <1>1, <1>2, <1>3, <1>4, QuietCommand, Zenon DEF Resume

\* A request of the new host is dropped, so nobody asks themselves for a pause.
LEMMA TransferHostFollows ==
    ASSUME NEW r, Good(r), NEW u \in Users, CanTransferHost(r, u)
    PROVE  Follows(r, TransferHost(r, u))
<1> DEFINE request == IF r.request.by = u THEN NoRequest ELSE r.request
           q == [r EXCEPT !.host = u, !.epoch = r.epoch + 1, !.request = request]
<1>1. request \in RequestType /\ (request # NoRequest => request = r.request /\ r.request.by # u)
    BY NoneTypes DEF Good, RoomType
<1>2. TransferHost(r, u) = BumpVersions(q)
    BY DEF TransferHost, Good, RoomType
<1> HIDE DEF request
<1>3. q \in RoomType
    <2>1. r.epoch + 1 \in Nat \ {0}
        BY DEF Good, RoomType
    <2> QED BY <1>1, <2>1, Zenon DEF Good, RoomType
<1>4. StatusValid(q)
    BY Zenon DEF Good, RoomType, Restorable, StatusValid
<1>5. Participants(q) = Participants(r) /\ q.members = r.members /\ q.host = u
    BY DEF Good, RoomType, Participants, Participant
<1>6. PauseGovernanceValid(q)
    BY <1>1, <1>5, Zenon DEF Good, RoomType, Restorable, PauseGovernanceValid
<1>7. MembersValid(q)
    BY <1>5, SMTT(30) DEF Good, Restorable, MembersValid, CanTransferHost, Participants, Participant
<1>8. q.roomVersion = r.roomVersion
    BY DEF Good, RoomType
<1> HIDE DEF q
<1> QED BY <1>2, <1>3, <1>4, <1>6, <1>7, <1>8, BumpFollows, Zenon DEF Good, Restorable

\* However a session ends, the pause and the request for one end with it.
LEMMA EndFollows ==
    ASSUME NEW r, Good(r), CanEndSession(r, r.session)
    PROVE  /\ Follows(r, FinishSession(r, r.session))
           /\ Follows(r, CancelSession(r))
           /\ Follows(r, CancelSessionAndClose(r))
<1> DEFINE f == [r EXCEPT !.status = "post_game", !.session = NoSession, !.lastFinished = r.session,
                          !.participantAdmission = "closed", !.request = NoRequest, !.pause = NoPause]
           c == [r EXCEPT !.status = "lobby", !.session = NoSession, !.lastFinished = NoSession,
                          !.participantAdmission = "closed", !.request = NoRequest, !.pause = NoPause]
           d == [r EXCEPT !.status = "closed", !.session = NoSession, !.lastFinished = NoSession,
                          !.participantAdmission = "closed", !.spectatorAdmission = "closed",
                          !.request = NoRequest, !.pause = NoPause]
<1>1. r.session # NoSession
    BY DEF Good, Restorable, StatusValid, CanEndSession
<1>2. f \in RoomType
    BY NoneTypes, Zenon DEF Good, RoomType, Statuses, Admissions, NoSession
<1>3. c \in RoomType
    BY NoneTypes, Zenon DEF Good, RoomType, Statuses, Admissions, NoSession
<1>4. d \in RoomType
    BY NoneTypes, Zenon DEF Good, RoomType, Statuses, Admissions, NoSession
<1>5. \A q \in {f, c, d} :
        /\ q.members = r.members /\ q.host = r.host /\ q.roomVersion = r.roomVersion
        /\ q.request = NoRequest /\ q.pause = NoPause
    BY ZenonT(40) DEF Good, RoomType
<1>6. \A q \in {f, c, d} : PauseGovernanceValid(q)
    BY <1>5, Zenon DEF PauseGovernanceValid
<1>7. StatusValid(f)
    BY <1>1 DEF Good, RoomType, StatusValid
<1>8. StatusValid(c)
    BY DEF Good, RoomType, StatusValid
<1>9. StatusValid(d)
    BY DEF Good, RoomType, StatusValid
<1> HIDE DEF f, c, d
<1>10. \A q \in {f, c, d} : Follows(r, BumpVersions(q))
    BY <1>2, <1>3, <1>4, <1>5, <1>6, <1>7, <1>8, <1>9, QuietCommand
<1> QED BY <1>10, Zenon DEF FinishSession, CancelSession, CancelSessionAndClose, f, c, d

\* Close leaves a room with its members, and both admissions closed.
LEMMA CloseFollows ==
    ASSUME NEW r, Good(r), CanClose(r)
    PROVE  Follows(r, Close(r))
<1> DEFINE q == [r EXCEPT !.status = "closed", !.participantAdmission = "closed",
                          !.spectatorAdmission = "closed", !.request = NoRequest, !.pause = NoPause]
<1>1. q \in RoomType
    BY NoneTypes, Zenon DEF Good, RoomType, Statuses, Admissions
<1>2. StatusValid(q) /\ PauseGovernanceValid(q)
    BY IdleRoom DEF Good, RoomType, StatusValid, PauseGovernanceValid, CanClose
<1>3. q.members = r.members /\ q.host = r.host /\ q.roomVersion = r.roomVersion
    BY DEF Good, RoomType
<1> QED BY <1>1, <1>2, <1>3, QuietCommand, Zenon DEF Close

\* Whoever leaves takes seat and pause request along.
LEMMA RemoveMemberFollows ==
    ASSUME NEW r, Good(r), NEW u \in Users, CanRemoveMember(r, u)
    PROVE  Follows(r, RemoveMember(r, u))
<1> DEFINE request == IF r.request.by = u THEN NoRequest ELSE r.request
           members == [r.members EXCEPT ![u] = NoMember]
           q == [r EXCEPT !.members = members, !.request = request]
<1>1. request \in RequestType /\ (request # NoRequest => request = r.request /\ r.request.by # u)
    BY NoneTypes, Zenon DEF Good, RoomType
<1>2. RemoveMember(r, u) = BumpMembership(q)
    BY DEF RemoveMember, Good, RoomType
<1> HIDE DEF request
<1>3. NoMember \in MemberType
    BY RoomAssumption DEF NoMember, MemberType
<1>4. members \in [Users -> MemberType]
    BY <1>3 DEF Good, RoomType
<1>5. q \in RoomType /\ q.roomVersion = r.roomVersion /\ q.members = members
    BY <1>1, <1>4, Zenon DEF Good, RoomType
<1>6. /\ Participants(q) = Participants(r) \ {u}
      /\ \A v \in Users : v # u => q.members[v] = r.members[v]
      /\ q.members[u] = NoMember
    BY <1>5 DEF Participants, Participant, Good, RoomType, NoMember, NoRole
<1>7. StatusValid(q)
    BY DEF Good, RoomType, Restorable, StatusValid
<1>8. PauseGovernanceValid(q)
    BY <1>1, <1>6 DEF Good, RoomType, Restorable, PauseGovernanceValid
<1>9. MembersValid(q)
    <2>1. \A v, w \in Participants(q) : v # w => q.members[v].seat # q.members[w].seat
        BY <1>6 DEF Good, Restorable, MembersValid, Participants
    <2>2. Cardinality(Participants(q)) <= Capacity
        <3> HIDE DEF q, members
        <3> QED BY <1>4, <1>5, <2>1, SeatsFit, Zenon
    <2>3. q.host = r.host /\ r.host # u
        BY DEF Good, RoomType, CanRemoveMember
    <2> QED BY <1>6, <2>1, <2>2, <2>3 DEF Good, Restorable, MembersValid, Participant, NoMember, NoRole
<1> HIDE DEF q
<1> QED BY <1>2, <1>5, <1>7, <1>8, <1>9, BumpFollows DEF Good, Restorable

-----------------------------------------------------------------------------
(* The ledger.                                                             *)

\* Every step of the ledger keeps the row restorable and counts it up.
LEMMA LedgerFollows ==
    ASSUME RoomRestorable, Next
    PROVE  Follows(room, room')
<1>0. Good(room)
    BY DEF RoomRestorable, Good
<1>1. CASE JoinRoom
    BY <1>0, <1>1, JoinFollows DEF JoinRoom, Write
<1>2. CASE SetRoomAdmission
    BY <1>0, <1>2, SetAdmissionFollows DEF SetRoomAdmission, Write
<1>3. CASE SelectRoomGame
    BY <1>0, <1>3, SelectGameFollows DEF SelectRoomGame, Write
<1>4. CASE ApproveMember
    BY <1>0, <1>4, ApproveWaitingFollows DEF ApproveMember, Write
<1>5. CASE RequestRoomPause
    BY <1>0, <1>5, RequestPauseFollows, Zenon DEF RequestRoomPause, Write
<1>6. CASE RejectRoomPause
    BY <1>0, <1>6, RejectPauseFollows, Zenon DEF RejectRoomPause, Write
<1>7. CASE PauseRoom
    BY <1>0, <1>7, PauseFollows, Zenon DEF PauseRoom, Write
<1>8. CASE ResumeRoom
    BY <1>0, <1>8, ResumeFollows, Zenon DEF ResumeRoom, Write
<1>9. CASE TransferRoomHost
    BY <1>0, <1>9, TransferHostFollows, Zenon DEF TransferRoomHost, Write
<1>10. CASE CloseRoom
    BY <1>0, <1>10, CloseFollows, Zenon DEF CloseRoom, Write
<1>11. CASE RemoveRoomMember
    BY <1>0, <1>11, RemoveMemberFollows, Zenon DEF RemoveRoomMember, Remove
<1>12. CASE StartGame
    BY <1>0, <1>12, StartSessionFollows DEF StartGame
<1>13. CASE FinishGame \/ CancelGame \/ CancelGameAndClose
    BY <1>0, <1>13, EndFollows DEF FinishGame, CancelGame, CancelGameAndClose, EndGame
<1> QED BY <1>1, <1>2, <1>3, <1>4, <1>5, <1>6, <1>7, <1>8, <1>9, <1>10, <1>11, <1>12, <1>13, Zenon DEF Next

\* The row that Create stores.
LEMMA InitRestorable == Init => RoomRestorable
<1> SUFFICES ASSUME NEW host \in Users, NEW p \in Modes, NEW s \in Modes, NEW g \in Games
             PROVE  LET r == NewWithAdmission(host, p, s, g) IN r \in RoomType /\ Restorable(r)
    BY DEF Init, RoomRestorable
<1> DEFINE r == NewWithAdmission(host, p, s, g)
           members == [u \in Users |->
             IF u = host THEN [role |-> "participant", requested |-> NoRole, seat |-> 0, joined |-> 1] ELSE NoMember]
<1>1. members \in [Users -> MemberType]
    BY RoomAssumption DEF MemberType, NoMember, NoRole, Roles, Intents
<1>2. r.members = members /\ r.host = host /\ r.request = NoRequest /\ r.pause = NoPause
    BY DEF NewWithAdmission
<1> HIDE DEF members
<1>3. r \in RoomType
    BY <1>1, NoneTypes, LedgerAssumption DEF NewWithAdmission, members, RoomType, Statuses, NoSession
<1>4. StatusValid(r) /\ PauseGovernanceValid(r)
    BY DEF NewWithAdmission, StatusValid, PauseGovernanceValid
<1>5. Participants(r) = {host}
    BY <1>2 DEF members, Participants, Participant, NoMember, NoRole
<1>6. \A u, v \in Participants(r) : u # v => members[u].seat # members[v].seat
    BY <1>5
<1> HIDE DEF r
<1>7. Cardinality(Participants(r)) <= Capacity
    BY <1>1, <1>2, <1>6, SeatsFit
<1>8. MembersValid(r)
    BY <1>2, <1>5, <1>7 DEF MembersValid, members, Participant, NoMember, NoRole
<1> QED BY <1>3, <1>4, <1>8 DEF Restorable, r

\* No sequence of commands leads to a row that Restore refuses (model.go): the
\* checks that each command makes of the room it is given are enough, and the
\* Restore it ends with never fails.
THEOREM RowsRestorable == Spec => []RoomRestorable
<1>1. RoomRestorable /\ [Next]_vars => RoomRestorable'
    BY LedgerFollows DEF Follows, Good, RoomRestorable, vars
<1> QED BY <1>1, InitRestorable, PTL DEF Spec

-----------------------------------------------------------------------------
(* Frozen seats.                                                           *)

\* A running game's session and revocations are no newer than the room, so a
\* game that starts finds no revocation of its own.
RevocationsPast ==
    /\ room.session <= room.roomVersion
    /\ revocations \subseteq Nat \X Users
    /\ \A pair \in revocations : pair[1] <= room.roomVersion

LedgerInv == RoomRestorable /\ RevocationsPast /\ FrozenSeatsKept

\* A running game goes on with the same seats.
SameGame(r, next) ==
    next.status = "playing" =>
        r.status = "playing" /\ next.session = r.session /\ SeatsOf(next) = SeatsOf(r)

\* Seats depend on the members only.
LEMMA SameMembersSameSeats ==
    ASSUME NEW r, NEW next, next.members = r.members
    PROVE  SeatsOf(next) = SeatsOf(r)
BY DEF SeatsOf, Participants, Participant

\* While a game runs nobody joins or is approved as a participant.
LEMMA JoinSameGame ==
    ASSUME NEW r, Good(r), NEW u \in Users, NEW intent \in Intents, CanJoin(r, u, intent)
    PROVE  SameGame(r, Join(r, u, intent))
<1> DEFINE m == JoinedMember(r, u, intent)
           next == Join(r, u, intent)
<1>1. /\ m.role = "participant" => r.status # "playing"
      /\ ~Participant(r, u)
    BY JoinedMemberType
<1>2. /\ next.status = r.status /\ next.session = r.session
      /\ \A v \in Users : next.members[v] = IF v = u THEN m ELSE r.members[v]
    BY DEF Join, BumpMembership, Good, RoomType
<1> HIDE DEF m, next
<1>3. r.status = "playing" => Participants(next) = Participants(r)
    BY <1>1, <1>2 DEF Participants, Participant
<1>4. r.status = "playing" => SeatsOf(next) = SeatsOf(r)
    <2>1. \A v \in Participants(r) : next.members[v].seat = r.members[v].seat
        BY <1>1, <1>2 DEF Participants
    <2> QED BY <1>3, <2>1 DEF SeatsOf
<1> QED BY <1>2, <1>4 DEF SameGame, next

\* A removal takes a seat away, and leaves a revocation if a game runs.
LEMMA RemoveSeats ==
    ASSUME NEW r, Good(r), NEW u \in Users, CanRemoveMember(r, u)
    PROVE  LET next == RemoveMember(r, u)
           IN  /\ next.status = r.status /\ next.session = r.session
               /\ SeatsOf(next) = {pair \in SeatsOf(r) : pair[1] # u}
<1> DEFINE next == RemoveMember(r, u)
<1>1. /\ next.status = r.status /\ next.session = r.session
      /\ \A v \in Users : next.members[v] = IF v = u THEN NoMember ELSE r.members[v]
    BY DEF RemoveMember, BumpMembership, Good, RoomType
<1> HIDE DEF next
<1>2. Participants(next) = Participants(r) \ {u}
    BY <1>1 DEF Participants, Participant, NoMember, NoRole
<1>3. SeatsOf(next) = {pair \in SeatsOf(r) : pair[1] # u}
    BY <1>1, <1>2 DEF SeatsOf, Participants
<1> QED BY <1>1, <1>3 DEF next

\* The commands that are one write of the row.
LEMMA WriteSameGame ==
    ASSUME RoomRestorable,
           \/ JoinRoom \/ SetRoomAdmission \/ SelectRoomGame \/ ApproveMember
           \/ RequestRoomPause \/ RejectRoomPause \/ PauseRoom \/ ResumeRoom
           \/ TransferRoomHost \/ CloseRoom
    PROVE  SameGame(room, room') /\ UNCHANGED <<frozen, revocations>>
<1>0. Good(room)
    BY DEF RoomRestorable, Good
<1>1. CASE JoinRoom
    BY <1>0, <1>1, JoinSameGame DEF JoinRoom, Write
<1>2. CASE SetRoomAdmission \/ SelectRoomGame \/ CloseRoom
    <2>1. room'.status # "playing"
        BY <1>0, <1>2, Zenon DEF Good, RoomType, SetRoomAdmission, SetAdmission, CanSetAdmission, SelectRoomGame, SelectGame,
              CanSelectGame, AdmissionMutable, CloseRoom, Close, CanClose, Write, BumpVersions
    <2> QED BY <1>2, <2>1 DEF SameGame, SetRoomAdmission, SelectRoomGame, CloseRoom, Write
<1>3. CASE ApproveMember
    <2>1. room'.status # "playing"
        BY <1>0, <1>3, Zenon DEF Good, RoomType, ApproveMember, ApproveWaiting, CanApproveWaiting, AdmissionMutable, Write,
              BumpMembership
    <2> QED BY <1>3, <2>1 DEF SameGame, ApproveMember, Write
<1>4. CASE RequestRoomPause \/ RejectRoomPause \/ PauseRoom \/ ResumeRoom \/ TransferRoomHost
    <2>1. room'.members = room.members /\ room'.status = room.status /\ room'.session = room.session
        BY <1>0, <1>4, ZenonT(40) DEF Good, RoomType, RequestRoomPause, RequestPause, RejectRoomPause, RejectPause, PauseRoom, Pause,
              ResumeRoom, Resume, TransferRoomHost, TransferHost, Write, BumpVersions
    <2> QED BY <1>4, <2>1, SameMembersSameSeats, Zenon DEF SameGame, RequestRoomPause, RejectRoomPause, PauseRoom, ResumeRoom,
              TransferRoomHost, Write
<1> QED BY <1>1, <1>2, <1>3, <1>4, Zenon

\* The three facts together are inductive.
LEMMA LedgerInvStep ==
    ASSUME LedgerInv, Next
    PROVE  LedgerInv'
<1>0. Follows(room, room') /\ Good(room)
    BY LedgerFollows DEF LedgerInv, RoomRestorable, Good
<1>1. RoomRestorable'
    BY <1>0 DEF Follows, Good, RoomRestorable
<1>2. room.roomVersion \in Nat /\ room'.roomVersion = room.roomVersion + 1 /\ room.session \in Nat
    BY <1>0 DEF Follows, Good, RoomType
<1>3. room'.status # "playing" => room'.session = 0
    BY <1>1 DEF RoomRestorable, Restorable, StatusValid, NoSession
<1>4. CASE \/ JoinRoom \/ SetRoomAdmission \/ SelectRoomGame \/ ApproveMember
           \/ RequestRoomPause \/ RejectRoomPause \/ PauseRoom \/ ResumeRoom
           \/ TransferRoomHost \/ CloseRoom
    <2>1. SameGame(room, room') /\ UNCHANGED <<frozen, revocations>>
        BY <1>4, WriteSameGame DEF LedgerInv
    <2>2. RevocationsPast'
        BY <1>2, <1>3, <2>1 DEF LedgerInv, RevocationsPast, SameGame
    <2>3. FrozenSeatsKept'
        BY <2>1 DEF LedgerInv, FrozenSeatsKept, SameGame
    <2> QED BY <1>1, <2>2, <2>3 DEF LedgerInv
<1>5. ASSUME NEW u \in Users, Remove(u) PROVE LedgerInv'
    <2>1. /\ room'.status = room.status /\ room'.session = room.session
          /\ SeatsOf(room') = {pair \in SeatsOf(room) : pair[1] # u}
          /\ frozen' = frozen
        BY <1>0, <1>5, RemoveSeats DEF Remove
    <2>2. CASE ParticipantRevoked(room, u)
        <3>1. revocations' = revocations \cup {<<room.session, u>>} /\ room.status = "playing"
            BY <1>5, <2>2 DEF Remove, ParticipantRevoked
        <3>2. <<room.session, u>> \in Nat \X Users
            BY <1>2
        <3>3. RevocationsPast'
            BY <1>2, <2>1, <3>1, <3>2 DEF LedgerInv, RevocationsPast
        <3>4. FrozenSeatsKept'
            <4>1. SeatsOf(room') \subseteq frozen'
                BY <2>1, <3>1 DEF LedgerInv, FrozenSeatsKept
            <4>2. ASSUME NEW pair \in frozen
                  PROVE  pair \in SeatsOf(room') <=> <<room.session, pair[1]>> \notin revocations'
                BY <2>1, <3>1 DEF LedgerInv, FrozenSeatsKept
            <4> QED BY <2>1, <4>1, <4>2 DEF FrozenSeatsKept
        <3> QED BY <1>1, <3>3, <3>4 DEF LedgerInv
    <2>3. CASE ~ParticipantRevoked(room, u)
        <3>1. revocations' = revocations
            BY <1>5, <2>3 DEF Remove
        <3>2. RevocationsPast'
            BY <1>2, <2>1, <3>1 DEF LedgerInv, RevocationsPast
        <3>3. room.status = "playing" => SeatsOf(room') = SeatsOf(room)
            BY <2>1, <2>3 DEF ParticipantRevoked, SeatsOf, Participants
        <3>4. FrozenSeatsKept'
            BY <2>1, <3>1, <3>3 DEF LedgerInv, FrozenSeatsKept
        <3> QED BY <1>1, <3>2, <3>4 DEF LedgerInv
    <2> QED BY <2>2, <2>3
<1>6. CASE StartGame
    <2>1. /\ room'.session = room.roomVersion + 1
          /\ room'.members = room.members
          /\ frozen' = SeatsOf(room) /\ revocations' = revocations
        BY <1>0, <1>6 DEF StartGame, StartSession, BumpVersions, Good, RoomType
    <2>2. SeatsOf(room') = SeatsOf(room)
        BY <2>1, SameMembersSameSeats
    <2>3. RevocationsPast'
        BY <1>2, <2>1 DEF LedgerInv, RevocationsPast
    <2>4. \A u : <<room.roomVersion + 1, u>> \notin revocations
        BY <1>2 DEF LedgerInv, RevocationsPast
    <2>5. FrozenSeatsKept'
        BY <2>1, <2>2, <2>4 DEF FrozenSeatsKept
    <2> QED BY <1>1, <2>3, <2>5 DEF LedgerInv
<1>7. CASE FinishGame \/ CancelGame \/ CancelGameAndClose
    <2>1. revocations' = revocations /\ room'.status # "playing"
        BY <1>0, <1>7, ZenonT(40) DEF FinishGame, CancelGame, CancelGameAndClose, EndGame, FinishSession, CancelSession,
              CancelSessionAndClose, BumpVersions, Good, RoomType
    <2>2. RevocationsPast'
        BY <1>2, <1>3, <2>1 DEF LedgerInv, RevocationsPast
    <2> QED BY <1>1, <2>1, <2>2 DEF LedgerInv, FrozenSeatsKept
<1> QED BY <1>4, <1>5, <1>6, <1>7 DEF Next, RemoveRoomMember

\* Nobody holds a seat in a running game that was not frozen for them, and a
\* frozen player is out of the room exactly when a revocation was left for the
\* runtime (CommitRemoval): for any number of users, games and commands.
THEOREM SeatsStayFrozen == Spec => []FrozenSeatsKept
<1>1. Init => LedgerInv
    <2>1. Init => room.status = "lobby" /\ room.session = 0 /\ room.roomVersion = 1
        BY DEF Init, NewWithAdmission, NoSession
    <2> QED BY <2>1, InitRestorable DEF Init, LedgerInv, RevocationsPast, FrozenSeatsKept
<1>2. LedgerInv /\ [Next]_vars => LedgerInv'
    <2>1. ASSUME LedgerInv, UNCHANGED vars PROVE LedgerInv'
        BY <2>1 DEF LedgerInv, RoomRestorable, RevocationsPast, FrozenSeatsKept, vars
    <2> QED BY <2>1, LedgerInvStep
<1>3. LedgerInv => FrozenSeatsKept
    BY DEF LedgerInv
<1> QED BY <1>1, <1>2, <1>3, PTL DEF Spec
=============================================================================
