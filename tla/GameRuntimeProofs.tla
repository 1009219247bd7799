------------------------- MODULE GameRuntimeProofs --------------------------
(***************************************************************************)
(* Proofs about the game runtime, for any number of users, sessions,       *)
(* calls under way and state versions.                                     *)
(*                                                                         *)
(* The runs' invariants are not inductive.  What they lack is in RoomInv   *)
(* (a player of the running game has no revocation, and no session is      *)
(* younger than its room), SessionInv and, for the calls under way, Held:  *)
(* as long as the state version of the session is the one that a call      *)
(* loaded, the players who are out of the game are those that the call     *)
(* knows of, and its command has no receipt.  The commit compares that     *)
(* version.                                                                *)
(***************************************************************************)
EXTENDS GameRuntime, TLAPS

-----------------------------------------------------------------------------
(* What the proof needs of the room.                                       *)

RoomFields ==
    {"status", "host", "participantAdmission", "spectatorAdmission", "members", "session",
     "lastFinished", "request", "pause", "selected", "roomVersion", "membershipVersion", "epoch"}
MemberFields == {"role", "requested", "seat", "joined"}

Shape(r) ==
    /\ DOMAIN r = RoomFields /\ r.roomVersion \in Nat \ {0}
    /\ DOMAIN r.members = Users /\ \A u \in Users : DOMAIN r.members[u] = MemberFields

\* A command under which the same game goes on: nobody joins those who play.
GoesOn(r, next) ==
    /\ Shape(next) /\ next.roomVersion = r.roomVersion + 1
    /\ next.session = r.session
    /\ (next.status = "playing") <=> (r.status = "playing")
    /\ r.status = "playing" => Participants(next) \subseteq Participants(r)

\* One that begins no pause either.
Quiet(r, next) == GoesOn(r, next) /\ (next.pause # NoPause => r.pause # NoPause)

\* Counting up changes nothing else.
LEMMA BumpsQuiet ==
    ASSUME NEW r, Shape(r), NEW q, Shape(q), q.roomVersion = r.roomVersion, q.session = r.session,
           (q.status = "playing") <=> (r.status = "playing"),
           q.pause # NoPause => r.pause # NoPause,
           r.status = "playing" => Participants(q) \subseteq Participants(r)
    PROVE  Quiet(r, BumpVersions(q)) /\ Quiet(r, BumpMembership(q))
<1> DEFINE Counted(b) ==
               /\ DOMAIN b = RoomFields
               /\ b.roomVersion = q.roomVersion + 1
               /\ b.status = q.status /\ b.session = q.session /\ b.pause = q.pause /\ b.members = q.members
<1>1. Counted(BumpVersions(q)) /\ Counted(BumpMembership(q))
    <2>1. Counted(BumpVersions(q))
        BY DEF Shape, RoomFields, BumpVersions
    <2>2. Counted(BumpMembership(q))
        BY DEF Shape, RoomFields, BumpMembership
    <2> QED BY <2>1, <2>2
<1>2. \A b \in {BumpVersions(q), BumpMembership(q)} : Shape(b) /\ Participants(b) = Participants(q)
    BY <1>1 DEF Shape, Participants, Participant
<1> QED BY <1>1, <1>2, Zenon DEF Quiet, GoesOn

\* A member is set who is a participant only if it was or if no game runs.
LEMMA MemberQuiet ==
    ASSUME NEW r, Shape(r), NEW u \in Users, NEW m, DOMAIN m = MemberFields, NEW request,
           r.status = "playing" /\ m.role = "participant" => Participant(r, u)
    PROVE  LET q == [r EXCEPT !.members[u] = m, !.request = request]
           IN  /\ Quiet(r, BumpMembership([r EXCEPT !.members[u] = m]))
               /\ Quiet(r, BumpMembership(q))
               /\ Participant(BumpMembership(q), u) <=> m.role = "participant"
<1> DEFINE p == [r EXCEPT !.members[u] = m]
           q == [r EXCEPT !.members[u] = m, !.request = request]
<1>1. \A x \in {p, q} :
        /\ DOMAIN x = RoomFields
        /\ x.roomVersion = r.roomVersion /\ x.session = r.session
        /\ x.status = r.status /\ x.pause = r.pause
        /\ x.members = [r.members EXCEPT ![u] = m]
    BY Zenon DEF Shape, RoomFields
<1> HIDE DEF p, q
<1>2. \A x \in {p, q} : Shape(x)
    BY <1>1 DEF Shape
<1>3. \A x \in {p, q} : r.status = "playing" => Participants(x) \subseteq Participants(r)
    BY <1>1 DEF Shape, Participants, Participant
<1>4. \A x \in {p, q} : Quiet(r, BumpMembership(x))
    BY <1>1, <1>2, <1>3, BumpsQuiet
<1>5. BumpMembership(q).members = q.members
    BY <1>2 DEF BumpMembership, Shape, RoomFields
<1>6. Participant(BumpMembership(q), u) <=> m.role = "participant"
    BY <1>1, <1>5 DEF Participant, Shape
<1> QED BY <1>4, <1>6 DEF p, q

\* The commands of the room that a game can go on under.
LEMMA CommandQuiet ==
    ASSUME Shape(room),
           JoinRoom \/ ApproveMember \/ RequestRoomPause \/ RejectRoomPause \/ TransferRoomHost \/ CloseRoom
    PROVE  Quiet(room, room') /\ UNCHANGED <<frozen, revocations>>
<1> DEFINE Kept(q) == /\ Shape(q) /\ q.roomVersion = room.roomVersion /\ q.session = room.session
                      /\ (q.status = "playing") <=> (room.status = "playing")
                      /\ q.pause # NoPause => room.pause # NoPause
                      /\ q.members = room.members
<1>0. \A q : Kept(q) => Quiet(room, BumpVersions(q))
    BY BumpsQuiet DEF Participants, Participant
<1>1. CASE JoinRoom
    <2>1. PICK u \in Users, i \in Intents : CanJoin(room, u, i) /\ Write(Join(room, u, i))
        BY <1>1 DEF JoinRoom
    <2> DEFINE m == JoinedMember(room, u, i)
    <2>2. DOMAIN m = MemberFields
        BY DEF JoinedMember, Shape, MemberFields, NoMember
    <2>3. room.status = "playing" => m.role # "participant"
        BY DEF JoinedMember, Shape, MemberFields, NoMember, JoinQueued, Intents
    <2> HIDE DEF m
    <2>4. Quiet(room, BumpMembership([room EXCEPT !.members[u] = m]))
        BY <2>2, <2>3, MemberQuiet, Zenon
    <2> QED BY <2>1, <2>4 DEF Join, Write, m
<1>2. CASE ApproveMember
    <2>1. PICK u \in Users : CanApproveWaiting(room, u) /\ Write(ApproveWaiting(room, u))
        BY <1>2 DEF ApproveMember
    <2> DEFINE requested == room.members[u].requested
               m == [room.members[u] EXCEPT !.role = requested, !.requested = NoRole,
                         !.seat = IF requested = "participant" THEN NextSeat(room) ELSE 0]
    <2>2. DOMAIN m = MemberFields /\ room.status # "playing"
        BY <2>1 DEF Shape, MemberFields, CanApproveWaiting, AdmissionMutable
    <2>3. ApproveWaiting(room, u) = BumpMembership([room EXCEPT !.members[u] = m])
        BY DEF ApproveWaiting, Shape, RoomFields
    <2> HIDE DEF m
    <2>4. Quiet(room, BumpMembership([room EXCEPT !.members[u] = m]))
        BY <2>2, MemberQuiet, Zenon
    <2> QED BY <2>1, <2>3, <2>4 DEF Write
<1>3. CASE RequestRoomPause
    <2>1. PICK u \in Users : Write(RequestPause(room, u, room.session))
        BY <1>3 DEF RequestRoomPause
    <2> DEFINE request == [id |-> room.roomVersion + 1, session |-> room.session, by |-> u]
               q == [room EXCEPT !.request = request]
    <2> HIDE DEF request
    <2>2. Kept(q)
        BY DEF Shape, RoomFields
    <2>3. room' = BumpVersions(q) /\ UNCHANGED <<frozen, revocations>>
        BY <2>1 DEF RequestPause, Write, request
    <2> HIDE DEF q, Kept
    <2> QED BY <2>2, <2>3, <1>0
<1>4. CASE RejectRoomPause
    <2> DEFINE q == [room EXCEPT !.request = NoRequest]
    <2>1. Kept(q)
        BY DEF Shape, RoomFields
    <2>2. room' = BumpVersions(q) /\ UNCHANGED <<frozen, revocations>>
        BY <1>4 DEF RejectRoomPause, RejectPause, Write
    <2> HIDE DEF q, Kept
    <2> QED BY <2>1, <2>2, <1>0
<1>5. CASE TransferRoomHost
    <2>1. PICK u \in Users : Write(TransferHost(room, u))
        BY <1>5 DEF TransferRoomHost
    <2> DEFINE q == [room EXCEPT !.host = u, !.epoch = @ + 1,
                                 !.request = IF @.by = u THEN NoRequest ELSE @]
    <2>2. Kept(q)
        BY DEF Shape, RoomFields
    <2>3. room' = BumpVersions(q) /\ UNCHANGED <<frozen, revocations>>
        BY <2>1 DEF TransferHost, Write
    <2> HIDE DEF q, Kept
    <2> QED BY <2>2, <2>3, <1>0
<1>6. CASE CloseRoom
    <2> DEFINE q == [room EXCEPT !.status = "closed", !.participantAdmission = "closed",
                                 !.spectatorAdmission = "closed", !.request = NoRequest, !.pause = NoPause]
    <2>1. Kept(q)
        BY <1>6 DEF Shape, RoomFields, CloseRoom, CanClose
    <2>2. room' = BumpVersions(q) /\ UNCHANGED <<frozen, revocations>>
        BY <1>6 DEF CloseRoom, Close, Write
    <2> HIDE DEF q, Kept
    <2> QED BY <2>1, <2>2, <1>0
<1> QED BY <1>1, <1>2, <1>3, <1>4, <1>5, <1>6

\* A removal takes the player out of the room's participants.
LEMMA RemoveQuiet ==
    ASSUME Shape(room), NEW u \in Users, Remove(u)
    PROVE  Quiet(room, room') /\ ~Participant(room', u)
<1> DEFINE request == IF room.request.by = u THEN NoRequest ELSE room.request
           q == [room EXCEPT !.members[u] = NoMember, !.request = request]
<1>1. DOMAIN NoMember = MemberFields /\ NoMember.role # "participant"
    BY DEF NoMember, MemberFields, NoRole
<1>2. room' = BumpMembership(q)
    BY DEF Remove, RemoveMember, Shape, RoomFields
<1> HIDE DEF request
<1>3. Quiet(room, BumpMembership(q)) /\ ~Participant(BumpMembership(q), u)
    BY <1>1, MemberQuiet, Zenon
<1> QED BY <1>2, <1>3

\* The commands on the game itself leave the members alone.
LEMMA GameCommands ==
    ASSUME Shape(room)
    PROVE  /\ PauseRoom \/ ResumeRoom =>
                 /\ GoesOn(room, room') /\ room.status = "playing"
                 /\ UNCHANGED <<frozen, revocations>>
           /\ ResumeRoom => room'.pause = NoPause
           /\ StartGame =>
                 /\ Shape(room') /\ room'.roomVersion = room.roomVersion + 1
                 /\ room.session = NoSession
                 /\ room'.status = "playing" /\ room'.session = room.roomVersion + 1
                 /\ room'.pause = room.pause
                 /\ UNCHANGED revocations
           /\ FinishGame \/ CancelGame \/ CancelGameAndClose =>
                 /\ Shape(room') /\ room'.roomVersion = room.roomVersion + 1
                 /\ room.status = "playing" /\ room'.status # "playing"
                 /\ room'.session = NoSession /\ room'.pause = NoPause
                 /\ UNCHANGED revocations
<1> DEFINE Bumped(q) == /\ DOMAIN q = RoomFields /\ q.members = room.members
                        /\ q.roomVersion = room.roomVersion
<1>0. \A q : Bumped(q) => /\ Shape(BumpVersions(q)) /\ BumpVersions(q).roomVersion = room.roomVersion + 1
                          /\ BumpVersions(q).status = q.status
                          /\ BumpVersions(q).session = q.session
                          /\ BumpVersions(q).pause = q.pause
                          /\ Participants(BumpVersions(q)) = Participants(room)
    <2> SUFFICES ASSUME NEW q, Bumped(q)
                 PROVE  /\ Shape(BumpVersions(q)) /\ BumpVersions(q).roomVersion = room.roomVersion + 1
                        /\ BumpVersions(q).status = q.status
                        /\ BumpVersions(q).session = q.session
                        /\ BumpVersions(q).pause = q.pause
                        /\ Participants(BumpVersions(q)) = Participants(room)
        OBVIOUS
    <2>1. /\ DOMAIN BumpVersions(q) = RoomFields
          /\ BumpVersions(q).roomVersion = room.roomVersion + 1
          /\ BumpVersions(q).members = room.members
          /\ BumpVersions(q).status = q.status
          /\ BumpVersions(q).session = q.session
          /\ BumpVersions(q).pause = q.pause
        BY DEF BumpVersions, RoomFields
    <2> QED BY <2>1 DEF Shape, Participants, Participant
<1>1. PauseRoom => GoesOn(room, room') /\ room.status = "playing" /\ UNCHANGED <<frozen, revocations>>
    <2> SUFFICES ASSUME PauseRoom
                 PROVE  GoesOn(room, room') /\ room.status = "playing" /\ UNCHANGED <<frozen, revocations>>
        OBVIOUS
    <2>1. PICK id : CanPause(room, room.session, id) /\ Write(Pause(room, room.host, room.session, id))
        BY DEF PauseRoom
    <2> DEFINE pause == [id |-> room.roomVersion + 1, session |-> room.session, host |-> room.host,
                         source |-> IF id = 0 THEN "host" ELSE "approved_request",
                         by |-> IF id = 0 THEN NoUser ELSE room.request.by]
               q == [room EXCEPT !.request = NoRequest, !.pause = pause]
    <2>2. room' = BumpVersions(q)
        BY <2>1 DEF Write, Pause
    <2> HIDE DEF pause
    <2>3. Bumped(q) /\ q.status = room.status /\ q.session = room.session
        BY DEF Shape, RoomFields
    <2> HIDE DEF q
    <2> QED BY <1>0, <2>1, <2>2, <2>3, Zenon DEF CanPause, Write, GoesOn
<1>2. ResumeRoom => /\ GoesOn(room, room') /\ room.status = "playing" /\ UNCHANGED <<frozen, revocations>>
                    /\ room'.pause = NoPause
    <2> DEFINE q == [room EXCEPT !.pause = NoPause]
    <2>1. Bumped(q) /\ q.status = room.status /\ q.session = room.session /\ q.pause = NoPause
        BY DEF Shape, RoomFields
    <2>2. ResumeRoom => room' = BumpVersions(q) /\ room.status = "playing" /\ UNCHANGED <<frozen, revocations>>
        BY DEF ResumeRoom, CanResume, Resume, Write
    <2> HIDE DEF q
    <2> QED BY <1>0, <2>1, <2>2 DEF GoesOn
<1>3. StartGame => /\ Shape(room') /\ room'.roomVersion = room.roomVersion + 1
                   /\ room.session = NoSession
                   /\ room'.status = "playing" /\ room'.session = room.roomVersion + 1
                   /\ room'.pause = room.pause
                   /\ UNCHANGED revocations
    <2> DEFINE q == [room EXCEPT !.status = "playing", !.session = room.roomVersion + 1,
                                 !.participantAdmission = "closed", !.lastFinished = NoSession]
    <2>1. Bumped(q) /\ q.status = "playing" /\ q.session = room.roomVersion + 1 /\ q.pause = room.pause
        BY DEF Shape, RoomFields
    <2>2. StartGame => room' = BumpVersions(q) /\ room.session = NoSession /\ UNCHANGED revocations
        BY DEF StartGame, CanStartSession, StartSession
    <2> HIDE DEF q
    <2> QED BY <1>0, <2>1, <2>2
<1>4. FinishGame \/ CancelGame \/ CancelGameAndClose =>
                   /\ Shape(room') /\ room'.roomVersion = room.roomVersion + 1
                   /\ room.status = "playing" /\ room'.status # "playing"
                   /\ room'.session = NoSession /\ room'.pause = NoPause
                   /\ UNCHANGED revocations
    <2> DEFINE finished == [room EXCEPT !.status = "post_game", !.session = NoSession,
                    !.lastFinished = room.session, !.participantAdmission = "closed",
                    !.request = NoRequest, !.pause = NoPause]
               cancelled == [room EXCEPT !.status = "lobby", !.session = NoSession,
                    !.lastFinished = NoSession, !.participantAdmission = "closed",
                    !.request = NoRequest, !.pause = NoPause]
               closed == [room EXCEPT !.status = "closed", !.session = NoSession,
                    !.lastFinished = NoSession, !.participantAdmission = "closed",
                    !.spectatorAdmission = "closed", !.request = NoRequest, !.pause = NoPause]
               Ended(q) == Bumped(q) /\ q.status # "playing" /\ q.session = NoSession /\ q.pause = NoPause
    <2>1. Ended(finished) /\ Ended(cancelled) /\ Ended(closed)
        <3>1. Ended(finished)
            BY DEF Shape, RoomFields
        <3>2. Ended(cancelled)
            BY DEF Shape, RoomFields
        <3>3. Ended(closed)
            BY DEF Shape, RoomFields
        <3> QED BY <3>1, <3>2, <3>3
    <2>2. FinishGame => EndGame(BumpVersions(finished))
        BY DEF FinishGame, FinishSession
    <2>3. CancelGame => EndGame(BumpVersions(cancelled))
        BY DEF CancelGame, CancelSession
    <2>4. CancelGameAndClose => EndGame(BumpVersions(closed))
        BY DEF CancelGameAndClose, CancelSessionAndClose
    <2> HIDE DEF finished, cancelled, closed, Bumped
    <2>5. \A q : EndGame(q) => room' = q /\ room.status = "playing" /\ UNCHANGED revocations
        BY DEF EndGame, CanEndSession
    <2> QED BY <1>0, <2>1, <2>2, <2>3, <2>4, <2>5
<1> QED BY <1>1, <1>2, <1>3, <1>4

-----------------------------------------------------------------------------
(* The inductive invariant.                                                *)

\* Whoever plays has no revocation: it is written with the removal, and nobody
\* becomes a participant of a running game.  Sessions are numbered by the room
\* versions they begin at.
RoomInv ==
    /\ Shape(room)
    /\ (room.status = "playing") <=> (room.session # NoSession)
    /\ room.session # NoSession => room.session \in SessionIds /\ room.session <= room.roomVersion
    /\ room.pause # NoPause => room.session # NoSession
    /\ \A pair \in revocations : /\ pair = <<pair[1], pair[2]>>
                                 /\ pair[1] \in SessionIds /\ pair[1] <= room.roomVersion
                                 /\ pair[2] \in Users
    /\ room.session # NoSession =>
          \A u \in Participants(room) : <<room.session, u>> \notin revocations

GameFields == {"status", "epoch", "version", "inactive"}

GameShape(g) ==
    /\ DOMAIN g = GameFields
    /\ g.status \in {"none", "active", "suspended", "finished", "cancelled"}
    /\ g.version \in Nat
    /\ g.status # "none" => g.version # 0
    /\ g.status = "none" => g.version = 0 /\ g.inactive = {}

\* A session that does not exist yet has a number the room has yet to reach.
SessionInv ==
    /\ DOMAIN sessions = SessionIds
    /\ \A s \in SessionIds : /\ GameShape(sessions[s])
                             /\ sessions[s].status # "none" => s <= room.roomVersion
    /\ SessionMatchesRoom

\* A batch of a revocation took its player out of the game.
BatchInv ==
    /\ \A b \in batches : /\ b.session \in SessionIds /\ b.version \in Nat
                          /\ b.cause = "revoke" => b.user \in sessions[b.session].inactive
    /\ ExactlyOnce

\* A command was too late only for a game that is over.
InboxInv ==
    /\ acked \subseteq revocations
    /\ \A s \in SessionIds : \A u : <<s, "revoke", u>> \in noops => Terminal(sessions[s])
    /\ RevocationsReachGame

Repeats(c, b) ==
    /\ b.session = c.session /\ b.cause = c.cause /\ b.user = c.user /\ b.action = c.action
    /\ c.cause \in {"action", "revoke"}

CallFields == {"session", "cause", "user", "action", "loaded", "after", "expected"}

\* A transition of the module, which takes some players out of the game.
Moves(g, h, out) ==
    /\ DOMAIN h = GameFields
    /\ h.version = g.version + 1
    /\ h.status \in {"active", "finished"}
    /\ h.inactive = g.inactive \cup out

\* Whom a call takes out.
Out(c) == IF c.cause = "revoke" THEN {c.user} ELSE {}

\* What the call computed from what it loaded.
Computed(c) ==
    /\ DOMAIN c = CallFields
    /\ c.session \in SessionIds
    /\ c.cause = "action" => c.user \in Users
    /\ GameShape(c.loaded) /\ c.loaded.status = "active"
    /\ Moves(c.loaded, c.after, Out(c))

\* What it loaded is true of the session as long as its version is.
Held(c) ==
    /\ Computed(c)
    /\ c.loaded.version <= sessions[c.session].version
    /\ c.loaded.version = sessions[c.session].version =>
          /\ c.loaded.inactive = sessions[c.session].inactive
          /\ \A b \in batches : ~Repeats(c, b)

CallInv ==
    /\ DOMAIN calls = Workers
    /\ \A w \in Workers : Busy(w) => Held(calls[w])

RuntimeInv == RoomInv /\ SessionInv /\ BatchInv /\ InboxInv /\ CallInv

-----------------------------------------------------------------------------
(* Steps that write no batch.                                              *)

\* A session begins, or keeps its state; its end is final.
Keeps(g, h) ==
    /\ g.status # "none" => h.version = g.version /\ h.inactive = g.inactive /\ h.status # "none"
    /\ g.status = "none" => h.version \in {0, 1}
    /\ Terminal(g) => Terminal(h)
    /\ h.status = "finished" => g.status = "finished"

\* Such a step leaves batches, receipts and calls consistent with the
\* sessions, if no revocation arrives for a finished game.
LEMMA GamesKept ==
    ASSUME RuntimeInv, UNCHANGED <<batches, noops, acked, calls>>,
           \A s \in SessionIds : Keeps(sessions[s], sessions'[s]),
           revocations \subseteq revocations',
           \A pair \in revocations' \ revocations : sessions'[pair[1]].status # "finished"
    PROVE  BatchInv' /\ InboxInv' /\ CallInv'
<1>1. \A s \in SessionIds :
        /\ GameShape(sessions[s])
        /\ 2 .. sessions'[s].version = 2 .. sessions[s].version
    BY DEF RuntimeInv, SessionInv, GameShape, Keeps
<1>2. ASSUME NEW b \in batches PROVE sessions[b.session].status # "none"
    <2>1. b.session \in SessionIds
        BY DEF RuntimeInv, BatchInv
    <2>2. b.version \in 2 .. sessions[b.session].version
        BY <2>1 DEF RuntimeInv, BatchInv, ExactlyOnce
    <2> QED BY <2>1, <2>2, <1>1 DEF GameShape
<1>3. ExactlyOnce'
    <2>1. ExactlyOnce /\ batches' = batches
        BY DEF RuntimeInv, BatchInv
    <2> QED BY <1>1, <2>1, Zenon DEF ExactlyOnce
<1>4. BatchInv'
    BY <1>2, <1>3, Zenon DEF RuntimeInv, BatchInv, Keeps
<1>5. \A pair \in revocations : /\ pair[1] \in SessionIds /\ GameShape(sessions[pair[1]])
                                /\ Keeps(sessions[pair[1]], sessions'[pair[1]])
    BY <1>1 DEF RuntimeInv, RoomInv
<1>6. \A pair \in revocations : pair[2] \in sessions[pair[1]].inactive => pair[2] \in sessions'[pair[1]].inactive
    BY <1>5, Zenon DEF GameShape, Keeps
<1>7. RevocationsReachGame'
    BY <1>5, <1>6, Zenon DEF RuntimeInv, InboxInv, RevocationsReachGame, Keeps
<1>8. InboxInv'
    BY <1>7 DEF RuntimeInv, InboxInv, Keeps
<1>9. ASSUME NEW w \in Workers, Busy(w) PROVE Held(calls[w])'
    <2> DEFINE c == calls[w]
    <2>1. Held(c)
        BY <1>9 DEF RuntimeInv, CallInv
    <2>2. sessions[c.session].status # "none" /\ c.session \in SessionIds
        BY <2>1, <1>1 DEF Held, Computed, GameShape
    <2>3. sessions'[c.session].version = sessions[c.session].version
          /\ sessions'[c.session].inactive = sessions[c.session].inactive
        BY <2>2, Zenon DEF Keeps
    <2> QED BY <2>1, <2>3, Zenon DEF Held
<1>10. CallInv'
    BY <1>9 DEF RuntimeInv, CallInv, Busy
<1> QED BY <1>4, <1>8, <1>10

\* The room part of the invariant under a command that the game goes on under.
LEMMA RoomGoesOn ==
    ASSUME RoomInv, GoesOn(room, room'), room'.pause # NoPause => room.session # NoSession,
           \A pair \in revocations' :
               \/ pair \in revocations
               \/ \E u \in Users : /\ pair = <<room.session, u>> /\ room.session # NoSession
                                   /\ ~Participant(room', u)
    PROVE  RoomInv'
<1>1. /\ Shape(room) /\ Shape(room') /\ room'.roomVersion = room.roomVersion + 1
      /\ room'.session = room.session
      /\ (room'.status = "playing") <=> (room.status = "playing")
      /\ room.status = "playing" => Participants(room') \subseteq Participants(room)
      /\ room.roomVersion \in Nat
    BY Zenon DEF RoomInv, GoesOn, Shape
<1>2. \A pair \in revocations' : /\ pair = <<pair[1], pair[2]>>
                                 /\ pair[1] \in SessionIds /\ pair[1] <= room.roomVersion + 1
                                 /\ pair[2] \in Users
    BY <1>1 DEF RoomInv, SessionIds
<1>3. ASSUME room.session # NoSession, NEW u \in Participants(room')
      PROVE  <<room.session, u>> \notin revocations'
    <2>1. u \in Participants(room) /\ <<room.session, u>> \notin revocations
        BY <1>1, <1>3 DEF RoomInv
    <2>2. Participant(room', u)
        BY <1>3 DEF Participants
    <2> QED BY <2>1, <2>2
<1>4. room.session # NoSession => room.session \in SessionIds /\ room.session <= room.roomVersion + 1
    BY <1>1 DEF RoomInv, SessionIds
<1> QED BY <1>1, <1>2, <1>3, <1>4, Zenon DEF RoomInv

\* RoomCommand.
LEMMA RoomCommandStep ==
    ASSUME RuntimeInv, RoomCommand
    PROVE  RuntimeInv'
<1>1. Shape(room) /\ RoomInv
    BY DEF RuntimeInv, RoomInv
<1>2. /\ Quiet(room, room')
      /\ \/ UNCHANGED revocations
         \/ \E u \in Users : /\ revocations' = revocations \cup {<<room.session, u>>}
                             /\ room.session # NoSession /\ ~Participant(room', u)
    <2>1. CASE \E u \in Users : Remove(u)
        <3>1. PICK u \in Users : Remove(u)
            BY <2>1
        <3>2. Quiet(room, room') /\ ~Participant(room', u)
            BY <1>1, <3>1, RemoveQuiet
        <3> QED BY <1>1, <3>1, <3>2, Zenon DEF Remove, ParticipantRevoked, RoomInv
    <2>2. CASE ~\E u \in Users : Remove(u)
        BY <1>1, <2>2, CommandQuiet DEF RoomCommand
    <2> QED BY <2>1, <2>2
<1>3. RoomInv'
    BY <1>1, <1>2, RoomGoesOn, Zenon DEF Quiet, RoomInv
<1>4. UNCHANGED <<sessions, batches, noops, acked, calls>>
    BY DEF RoomCommand, stored
<1>5. room'.session = room.session /\ room'.roomVersion = room.roomVersion + 1
      /\ (room'.pause # NoPause => room.pause # NoPause) /\ room.roomVersion \in Nat
    BY <1>1, <1>2 DEF Quiet, GoesOn, Shape
<1>6. SessionMatchesRoom'
    BY <1>4, <1>5 DEF RuntimeInv, SessionInv, SessionMatchesRoom
<1>7. SessionInv'
    BY <1>4, <1>5, <1>6 DEF RuntimeInv, SessionInv, SessionIds
<1>8. \A pair \in revocations' \ revocations : sessions'[pair[1]].status # "finished"
    <2>1. \A pair \in revocations' \ revocations : pair[1] = room.session /\ room.session # NoSession
        BY <1>2
    <2>2. room.session # NoSession => Live(sessions[room.session])
        BY <1>1, Zenon DEF RuntimeInv, RoomInv, SessionInv, SessionMatchesRoom
    <2> QED BY <1>4, <2>1, <2>2 DEF Live
<1>9. BatchInv' /\ InboxInv' /\ CallInv'
    <2>1. \A s \in SessionIds : Keeps(sessions[s], sessions'[s])
        BY <1>4 DEF Keeps, RuntimeInv, SessionInv, GameShape
    <2> QED BY <1>2, <1>4, <1>8, <2>1, GamesKept, Zenon
<1> QED BY <1>3, <1>7, <1>9 DEF RuntimeInv

\* Start: the new session's number is new.
LEMMA StartStep ==
    ASSUME RuntimeInv, Start
    PROVE  RuntimeInv'
<1> DEFINE s0 == room.roomVersion + 1
           g0 == [NoGame EXCEPT !.status = "active", !.version = 1]
<1>1. /\ Shape(room) /\ Shape(room') /\ room'.roomVersion = s0
      /\ room.session = NoSession
      /\ room'.status = "playing" /\ room'.session = s0
      /\ room'.pause = room.pause
      /\ UNCHANGED revocations
    BY GameCommands, Zenon DEF RuntimeInv, RoomInv, Start
<1>2. s0 \in SessionIds /\ s0 \in Nat /\ s0 # NoSession
    BY <1>1, LedgerAssumption DEF Start, Continues, SessionIds, Shape, NoSession
<1>3. sessions' = [sessions EXCEPT ![s0] = g0] /\ UNCHANGED <<batches, noops, acked, calls>>
    BY DEF Start
<1>4. GameShape(g0) /\ g0.status = "active" /\ g0.version = 1
    BY DEF GameShape, GameFields, NoGame
<1>5. sessions[s0].status = "none"
    BY <1>1, <1>2 DEF RuntimeInv, SessionInv, Shape
<1> HIDE DEF g0
<1>6. /\ DOMAIN sessions' = SessionIds
      /\ sessions'[s0] = g0
      /\ \A s \in SessionIds : s # s0 => sessions'[s] = sessions[s]
    BY <1>2, <1>3 DEF RuntimeInv, SessionInv
<1> HIDE DEF s0
<1>7. RoomInv'
    <2>1. \A pair \in revocations : pair[1] <= room.roomVersion /\ pair[1] \in SessionIds
        BY DEF RuntimeInv, RoomInv
    <2>2. \A pair \in revocations : pair[1] <= s0 /\ pair[1] # s0
        BY <1>1, <2>1 DEF SessionIds, Shape, s0
    <2>3. \A u : <<s0, u>> \notin revocations
        BY <2>2
    <2>4. s0 <= s0
        BY <1>2
    <2> QED BY <1>1, <1>2, <2>2, <2>3, <2>4, Zenon DEF RuntimeInv, RoomInv
<1>8. SessionInv'
    <2>1. \A s \in SessionIds : ~Live(sessions[s])
        BY <1>1 DEF RuntimeInv, SessionInv, SessionMatchesRoom, SessionIds, NoSession
    <2>2. \A s \in SessionIds : Live(sessions'[s]) <=> s = s0
        BY <1>4, <1>6, <2>1 DEF Live
    <2>3. room.pause = NoPause
        BY <1>1 DEF RuntimeInv, RoomInv
    <2>4. SessionMatchesRoom'
        BY <1>1, <2>2, <2>3 DEF SessionMatchesRoom
    <2>5. \A s \in SessionIds : GameShape(sessions'[s]) /\ (sessions'[s].status # "none" => s <= s0)
        <3> TAKE s \in SessionIds
        <3>1. CASE s = s0
            BY <3>1, <1>2, <1>4, <1>6
        <3>2. CASE s # s0
            <4>1. sessions[s].status # "none" => s <= room.roomVersion
                BY DEF RuntimeInv, SessionInv
            <4> QED BY <3>2, <4>1, <1>1, <1>6 DEF RuntimeInv, SessionInv, SessionIds, Shape, s0
        <3> QED BY <3>1, <3>2
    <2> QED BY <1>1, <1>6, <2>4, <2>5 DEF SessionInv
<1>9. BatchInv' /\ InboxInv' /\ CallInv'
    <2>1. \A s \in SessionIds : Keeps(sessions[s], sessions'[s])
        BY <1>4, <1>5, <1>6, Zenon DEF Keeps, RuntimeInv, SessionInv, GameShape, Terminal
    <2> QED BY <1>1, <1>3, <2>1, GamesKept, Zenon
<1> QED BY <1>7, <1>8, <1>9 DEF RuntimeInv

\* A session that exists gets another status, but not that of a finished game.
LEMMA StatusSet ==
    ASSUME RuntimeInv, NEW s \in SessionIds, NEW x \in {"active", "suspended", "cancelled"},
           Live(sessions[s]), sessions' = [sessions EXCEPT ![s].status = x]
    PROVE  /\ DOMAIN sessions' = SessionIds
           /\ sessions'[s].status = x
           /\ \A t \in SessionIds : /\ GameShape(sessions'[t])
                                    /\ t # s => sessions'[t] = sessions[t]
                                    /\ Keeps(sessions[t], sessions'[t])
<1>1. \A t \in SessionIds : GameShape(sessions[t])
    BY DEF RuntimeInv, SessionInv
<1>2. /\ DOMAIN sessions' = SessionIds
      /\ sessions'[s] = [sessions[s] EXCEPT !.status = x]
      /\ \A t \in SessionIds : t # s => sessions'[t] = sessions[t]
    BY DEF RuntimeInv, SessionInv
<1>3. GameShape(sessions[s]) /\ sessions[s].status # "none" /\ ~Terminal(sessions[s])
    BY <1>1 DEF Live, Terminal
<1>4. /\ DOMAIN sessions'[s] = GameFields
      /\ sessions'[s].status = x
      /\ sessions'[s].version = sessions[s].version
      /\ sessions'[s].inactive = sessions[s].inactive
    BY <1>2, <1>3 DEF GameShape, GameFields
<1>5. GameShape(sessions'[s]) /\ Keeps(sessions[s], sessions'[s])
    BY <1>3, <1>4, Zenon DEF GameShape, Keeps
<1>6. \A t \in SessionIds : t # s => GameShape(sessions'[t]) /\ Keeps(sessions[t], sessions'[t])
    BY <1>1, <1>2 DEF GameShape, Keeps
<1> QED BY <1>2, <1>4, <1>5, <1>6

\* PauseGame, ResumeGame and SuspendMissingModule: room and session together.
LEMMA LifecycleStep ==
    ASSUME RuntimeInv, PauseGame \/ ResumeGame \/ SuspendMissingModule
    PROVE  RuntimeInv'
<1> DEFINE s == room.session
<1>1. PICK x \in {"active", "suspended"} :
        /\ sessions' = [sessions EXCEPT ![s].status = x]
        /\ UNCHANGED <<batches, noops, acked, calls>>
        /\ PauseGame \/ SuspendMissingModule => x = "suspended"
    BY Zenon DEF PauseGame, ResumeGame, SuspendMissingModule, Lifecycle
<1>2. /\ s \in SessionIds /\ s # NoSession
      /\ UNCHANGED revocations
      /\ GoesOn(room, room') \/ UNCHANGED room
      /\ x = "active" => room'.pause = NoPause
    BY <1>1, GameCommands, Zenon DEF RuntimeInv, RoomInv, PauseGame, ResumeGame, SuspendMissingModule
<1>3. Live(sessions[s])
    BY <1>2 DEF RuntimeInv, SessionInv, SessionMatchesRoom
<1>4. /\ DOMAIN sessions' = SessionIds
      /\ sessions'[s].status = x
      /\ \A t \in SessionIds : /\ GameShape(sessions'[t])
                               /\ t # s => sessions'[t] = sessions[t]
                               /\ Keeps(sessions[t], sessions'[t])
    BY <1>1, <1>2, <1>3, StatusSet, Zenon
<1>5. RoomInv'
    <2>1. CASE GoesOn(room, room')
        BY <1>2, <2>1, RoomGoesOn DEF RuntimeInv
    <2>2. CASE UNCHANGED room
        BY <1>2, <2>2, Zenon DEF RuntimeInv, RoomInv
    <2> QED BY <1>2, <2>1, <2>2
<1>6. room'.session = s /\ room'.roomVersion \in Nat /\ room.roomVersion \in Nat
      /\ room'.roomVersion >= room.roomVersion
    BY <1>2 DEF GoesOn, RuntimeInv, RoomInv, Shape
<1>7. \A t \in SessionIds : Live(sessions'[t]) <=> s = t
    BY <1>2, <1>4, Zenon DEF Live, RuntimeInv, SessionInv, SessionMatchesRoom
<1>8. SessionMatchesRoom'
    BY <1>2, <1>4, <1>6, <1>7, Zenon DEF SessionMatchesRoom
<1>9. \A t \in SessionIds : sessions'[t].status # "none" => t <= room'.roomVersion
    <2>1. \A t \in SessionIds : sessions[t].status # "none" => t <= room.roomVersion
        BY DEF RuntimeInv, SessionInv
    <2>2. \A t \in SessionIds : sessions'[t].status # "none" => sessions[t].status # "none"
        BY <1>3, <1>4 DEF Live
    <2> QED BY <2>1, <2>2, <1>6 DEF SessionIds
<1>10. SessionInv'
    BY <1>4, <1>8, <1>9 DEF SessionInv
<1> QED BY <1>1, <1>2, <1>4, <1>5, <1>10, GamesKept, Zenon DEF RuntimeInv

\* The end of the running game leaves no live session and no pause.
LEMMA RoomEnds ==
    ASSUME RuntimeInv, Shape(room'), room'.roomVersion = room.roomVersion + 1,
           room'.status # "playing", room'.session = NoSession, room'.pause = NoPause,
           UNCHANGED revocations,
           DOMAIN sessions' = SessionIds, Terminal(sessions'[room.session]), Live(sessions[room.session]),
           \A t \in SessionIds : /\ GameShape(sessions'[t])
                                 /\ t # room.session => sessions'[t] = sessions[t]
    PROVE  RoomInv' /\ SessionInv'
<1>1. room.roomVersion \in Nat
    BY Zenon DEF RuntimeInv, RoomInv, Shape
<1>2. RoomInv'
    <2>1. \A pair \in revocations : /\ pair = <<pair[1], pair[2]>>
                                    /\ pair[1] \in SessionIds /\ pair[1] <= room.roomVersion + 1
                                 /\ pair[2] \in Users
        BY <1>1 DEF RuntimeInv, RoomInv, SessionIds
    <2> QED BY <2>1 DEF RoomInv
<1>3. \A t \in SessionIds : ~Live(sessions'[t])
    BY DEF RuntimeInv, SessionInv, SessionMatchesRoom, Live, Terminal
<1>4. SessionMatchesRoom'
    BY <1>3 DEF SessionMatchesRoom, SessionIds, NoSession
<1>5. \A t \in SessionIds : sessions'[t].status # "none" => t <= room.roomVersion
    BY DEF RuntimeInv, SessionInv, Live
<1> QED BY <1>1, <1>2, <1>4, <1>5 DEF SessionInv, SessionIds

\* Cancel: neither room nor session has a running game.
LEMMA CancelStep ==
    ASSUME RuntimeInv, Cancel
    PROVE  RuntimeInv'
<1> DEFINE s == room.session
<1>1. /\ sessions' = [sessions EXCEPT ![s].status = "cancelled"]
      /\ UNCHANGED <<batches, noops, acked, calls>>
    BY DEF Cancel
<1>2. /\ Shape(room) /\ Shape(room') /\ room'.roomVersion = room.roomVersion + 1
      /\ room.status = "playing" /\ room'.status # "playing"
      /\ room'.session = NoSession /\ room'.pause = NoPause
      /\ UNCHANGED revocations
    BY GameCommands, Zenon DEF RuntimeInv, RoomInv, Cancel
<1>3. s \in SessionIds /\ s # NoSession
    BY <1>2 DEF RuntimeInv, RoomInv
<1>4. Live(sessions[s])
    BY <1>3 DEF RuntimeInv, SessionInv, SessionMatchesRoom
<1>5. /\ DOMAIN sessions' = SessionIds
      /\ sessions'[s].status = "cancelled"
      /\ \A t \in SessionIds : /\ GameShape(sessions'[t])
                               /\ t # s => sessions'[t] = sessions[t]
                               /\ Keeps(sessions[t], sessions'[t])
    BY <1>1, <1>3, <1>4, StatusSet, Zenon
<1>6. RoomInv' /\ SessionInv'
    BY <1>2, <1>3, <1>4, <1>5, RoomEnds, Zenon DEF Terminal
<1> QED BY <1>1, <1>2, <1>5, <1>6, GamesKept, Zenon DEF RuntimeInv

\* AcquireOwnership: the epoch is no part of the invariant.
LEMMA AcquireStep ==
    ASSUME RuntimeInv, NEW s \in SessionIds, AcquireOwnership(s)
    PROVE  RuntimeInv'
<1>1. \A t \in SessionIds : GameShape(sessions[t])
    BY DEF RuntimeInv, SessionInv
<1>2. /\ DOMAIN sessions' = SessionIds
      /\ sessions'[s] = [sessions[s] EXCEPT !.epoch = @ + 1]
      /\ \A t \in SessionIds : t # s => sessions'[t] = sessions[t]
      /\ UNCHANGED <<room, frozen, revocations, batches, noops, acked, calls>>
    BY DEF RuntimeInv, SessionInv, AcquireOwnership
<1>3. \A t \in SessionIds : /\ DOMAIN sessions'[t] = GameFields
                            /\ sessions'[t].status = sessions[t].status
                            /\ sessions'[t].version = sessions[t].version
                            /\ sessions'[t].inactive = sessions[t].inactive
    BY <1>1, <1>2 DEF GameShape, GameFields
<1>4. \A t \in SessionIds : GameShape(sessions'[t]) /\ Keeps(sessions[t], sessions'[t])
    BY <1>1, <1>3, Zenon DEF GameShape, Keeps, Terminal
<1>5. RoomInv'
    BY <1>2 DEF RuntimeInv, RoomInv
<1>6. \A t \in SessionIds : Live(sessions'[t]) <=> Live(sessions[t])
    BY <1>3 DEF Live
<1>7. room.pause # NoPause => room.session \in SessionIds
    BY DEF RuntimeInv, RoomInv
<1>8. SessionMatchesRoom'
    BY <1>2, <1>3, <1>6, <1>7, Zenon DEF RuntimeInv, SessionInv, SessionMatchesRoom
<1>9. SessionInv'
    BY <1>2, <1>3, <1>4, <1>8 DEF RuntimeInv, SessionInv
<1> QED BY <1>2, <1>4, <1>5, <1>9, GamesKept, Zenon DEF RuntimeInv

\* Steps that change only the receipts without a batch, the completed entries
\* and the calls.
LEMMA StoredKept ==
    ASSUME RuntimeInv, UNCHANGED <<room, frozen, revocations, sessions, batches>>
    PROVE  RoomInv' /\ SessionInv' /\ BatchInv'
<1>1. RoomInv'
    BY DEF RuntimeInv, RoomInv
<1>2. SessionInv'
    BY DEF RuntimeInv, SessionInv, SessionMatchesRoom
<1>3. BatchInv'
    BY DEF RuntimeInv, BatchInv, ExactlyOnce
<1> QED BY <1>1, <1>2, <1>3

\* So is the inbox, but for what the step adds to it.
LEMMA InboxGrows ==
    ASSUME RuntimeInv, UNCHANGED <<revocations, sessions>>,
           \A s \in SessionIds : \A u : <<s, "revoke", u>> \in noops' \ noops => Terminal(sessions[s]),
           \A pair \in acked' \ acked : /\ pair \in revocations
                                        /\ pair[2] \in sessions[pair[1]].inactive \/ Terminal(sessions[pair[1]])
    PROVE  InboxInv'
BY Zenon DEF RuntimeInv, InboxInv, RevocationsReachGame

\* Calls under way are unaffected by receipts.
LEMMA CallsStay ==
    ASSUME RuntimeInv, UNCHANGED <<sessions, batches, calls>>
    PROVE  CallInv'
BY Zenon DEF RuntimeInv, CallInv, Held, Busy

\* Calls under way are unaffected by what others load, prepare or give up.
LEMMA CallsKept ==
    ASSUME RuntimeInv, UNCHANGED <<sessions, batches>>, NEW w \in Workers, NEW c,
           calls' = [calls EXCEPT ![w] = c], c = Idle \/ Held(c)
    PROVE  CallInv'
<1>1. DOMAIN calls' = Workers
    BY DEF RuntimeInv, CallInv
<1>2. ASSUME NEW k \in Workers, calls'[k] # Idle PROVE Held(calls[k])'
    <2>1. Held(calls'[k])
        <3>1. CASE k = w
            BY <1>2, <3>1 DEF RuntimeInv, CallInv
        <3>2. CASE k # w
            BY <1>2, <3>2 DEF RuntimeInv, CallInv, Busy
        <3> QED BY <3>1, <3>2
    <2> QED BY <2>1, Zenon DEF Held
<1> QED BY <1>1, <1>2 DEF CallInv, Busy

-----------------------------------------------------------------------------
(* Calls.                                                                  *)

\* A call that loads an active session, computes its transition and has no
\* receipt holds what the invariant says of calls.
LEMMA HoldStep ==
    ASSUME RuntimeInv, NEW w \in Workers, NEW s \in SessionIds, NEW cause, NEW u, NEW a, NEW after,
           cause = "action" => u \in Users,
           Owned(s), Hold(w, s, cause, u, a, after),
           Moves(sessions[s], after, IF cause = "revoke" THEN {u} ELSE {}),
           cause \in {"action", "revoke"} =>
               ~\E b \in batches : b.session = s /\ b.cause = cause /\ b.user = u /\ b.action = a
    PROVE  RuntimeInv'
<1> DEFINE c == [session |-> s, cause |-> cause, user |-> u, action |-> a, loaded |-> sessions[s],
                 after |-> after, expected |-> 0]
<1>1. /\ calls' = [calls EXCEPT ![w] = c]
      /\ UNCHANGED <<room, frozen, revocations, sessions, batches, noops, acked>>
    BY DEF Hold, stored
<1>2. GameShape(sessions[s]) /\ sessions[s].status = "active"
    BY DEF Owned, RuntimeInv, SessionInv
<1>3. /\ DOMAIN c = CallFields
      /\ c.session = s /\ c.cause = cause /\ c.user = u /\ c.action = a /\ c.loaded = sessions[s]
      /\ c.after = after
    BY DEF CallFields
<1> HIDE DEF c
<1>4. Computed(c)
    BY <1>2, <1>3 DEF Computed, Out
<1>5. Held(c)
    <2>1. \A b \in batches : ~Repeats(c, b)
        BY <1>3 DEF Repeats
    <2>2. sessions[s].version \in Nat
        BY <1>2 DEF GameShape
    <2> QED BY <1>3, <1>4, <2>1, <2>2 DEF Held
<1>6. CallInv'
    BY <1>1, <1>5, CallsKept, Zenon
<1>7. InboxInv'
    BY <1>1, InboxGrows, Zenon
<1> QED BY <1>1, <1>6, <1>7, StoredKept, Zenon DEF RuntimeInv

\* The four loads, and the load that a revocation begins again with.
LEMMA LoadStep ==
    ASSUME RuntimeInv, NEW w \in Workers, Load(w) \/ RetrySystem(w)
    PROVE  RuntimeInv'
<1>0. ASSUME NEW s \in SessionIds, Owned(s), NEW out, NEW finished \in BOOLEAN
      PROVE  Moves(sessions[s], Transition(sessions[s], finished, out), out)
    <2>1. GameShape(sessions[s]) /\ sessions[s].status = "active"
        BY <1>0 DEF Owned, RuntimeInv, SessionInv
    <2> QED BY <2>1 DEF Moves, Transition, GameShape, GameFields
<1>1. ASSUME NEW s \in SessionIds, NEW u, Owned(s), ~SystemReceipt(s, "revoke", u), Revoke(w, s, u)
      PROVE  RuntimeInv'
    <2> DEFINE finished == Cardinality(Playing(sessions[s]) \ {u}) < MinPlayers
               after == Transition(sessions[s], finished, {u})
    <2>1. Hold(w, s, "revoke", u, 0, after)
        BY <1>1 DEF Revoke
    <2>2. finished \in BOOLEAN
        OBVIOUS
    <2> HIDE DEF finished
    <2>3. Moves(sessions[s], after, {u})
        BY <1>0, <1>1, <2>2, Zenon
    <2> HIDE DEF after
    <2>4. ~\E b \in batches : b.session = s /\ b.cause = "revoke" /\ b.user = u /\ b.action = 0
        BY <1>1 DEF SystemReceipt
    <2> QED BY <1>1, <2>1, <2>3, <2>4, HoldStep, Zenon
<1>2. CASE \E s \in SessionIds, u \in Users, a \in Actions : LoadAction(w, s, u, a)
    <2>1. PICK s \in SessionIds, u \in Users, a \in Actions : LoadAction(w, s, u, a)
        BY <1>2
    <2>2. PICK finished \in BOOLEAN : Hold(w, s, "action", u, a, Transition(sessions[s], finished, {}))
        BY <2>1 DEF LoadAction
    <2> DEFINE after == Transition(sessions[s], finished, {})
    <2>3. /\ Owned(s)
          /\ ~\E b \in batches : b.session = s /\ b.cause = "action" /\ b.user = u /\ b.action = a
        BY <2>1 DEF LoadAction, ActionReceipt
    <2>4. Moves(sessions[s], after, {}) /\ Hold(w, s, "action", u, a, after)
        BY <1>0, <2>2, <2>3, Zenon
    <2> HIDE DEF after
    <2> QED BY <2>3, <2>4, HoldStep, Zenon
<1>3. CASE \E s \in SessionIds : LoadTimer(w, s)
    <2>1. PICK s \in SessionIds : LoadTimer(w, s)
        BY <1>3
    <2>2. PICK finished \in BOOLEAN : Hold(w, s, "timer", NoUser, 0, Transition(sessions[s], finished, {}))
        BY <2>1 DEF LoadTimer
    <2> DEFINE after == Transition(sessions[s], finished, {})
    <2>3. Owned(s)
        BY <2>1 DEF LoadTimer
    <2>4. Moves(sessions[s], after, {}) /\ Hold(w, s, "timer", NoUser, 0, after)
        BY <1>0, <2>2, <2>3, Zenon
    <2> HIDE DEF after
    <2> QED BY <2>3, <2>4, HoldStep, Zenon
<1>4. CASE \E s \in SessionIds, u \in Users : LoadRevocation(w, s, u)
    BY <1>1, <1>4 DEF LoadRevocation
<1>5. CASE \E s \in SessionIds : LoadHostFinish(w, s)
    <2>1. PICK s \in SessionIds : LoadHostFinish(w, s)
        BY <1>5
    <2> DEFINE after == Transition(sessions[s], TRUE, {})
    <2>2. Owned(s) /\ Hold(w, s, "host", room.host, 0, after)
        BY <2>1, Zenon DEF LoadHostFinish
    <2>3. Moves(sessions[s], after, {})
        BY <1>0, <2>2, Zenon
    <2> HIDE DEF after
    <2> QED BY <2>2, <2>3, HoldStep, Zenon
<1>6. CASE RetrySystem(w)
    <2>1. Held(calls[w])
        BY <1>6, Zenon DEF RetrySystem, RuntimeInv, CallInv
    <2>2. calls[w].session \in SessionIds
        BY <2>1, Zenon DEF Held, Computed
    <2> QED BY <1>1, <1>6, <2>2, Zenon DEF RetrySystem
<1> QED BY <1>2, <1>3, <1>4, <1>5, <1>6 DEF Load

\* prepareRoomFinish keeps what the call holds; a call that gives up holds nothing.
LEMMA CallEndStep ==
    ASSUME RuntimeInv, NEW w \in Workers, PrepareRoomFinish(w) \/ Fail(w)
    PROVE  RuntimeInv'
<1>1. /\ UNCHANGED <<room, frozen, revocations, sessions, batches, noops, acked>>
      /\ Held(calls[w])
    BY DEF PrepareRoomFinish, Fail, stored, RuntimeInv, CallInv
<1>2. CallInv'
    <2>1. CASE Fail(w)
        BY <1>1, <2>1, CallsKept, Zenon DEF Fail, Answer
    <2>2. CASE PrepareRoomFinish(w)
        <3> DEFINE c == [calls[w] EXCEPT !.expected = room.roomVersion]
        <3>1. calls' = [calls EXCEPT ![w] = c]
            BY <2>2 DEF PrepareRoomFinish, RuntimeInv, CallInv
        <3>2. /\ DOMAIN c = CallFields /\ c.session = calls[w].session /\ c.cause = calls[w].cause
              /\ c.user = calls[w].user /\ c.action = calls[w].action
              /\ c.loaded = calls[w].loaded /\ c.after = calls[w].after
            BY <1>1, Zenon DEF Held, Computed, CallFields
        <3> HIDE DEF c
        <3>3. Computed(c)
            BY <1>1, <3>2, Zenon DEF Held, Computed, Out
        <3>4. Held(c)
            BY <1>1, <3>2, <3>3, Zenon DEF Held, Repeats
        <3> QED BY <1>1, <3>1, <3>4, CallsKept, Zenon
    <2> QED BY <2>1, <2>2
<1>3. InboxInv'
    BY <1>1, InboxGrows
<1> QED BY <1>1, <1>2, <1>3, StoredKept DEF RuntimeInv

-----------------------------------------------------------------------------
(* The commits.                                                            *)

\* What the commit's comparison says about the session it writes.
Advanced(c, s) ==
    /\ s \in SessionIds /\ s = c.session /\ room.session = s
    /\ sessions[s].status = "active" /\ sessions[s].version \in Nat \ {0}
    /\ DOMAIN sessions' = SessionIds
    /\ sessions'[s] = c.after
    /\ c.after.status \in {"active", "finished"}
    /\ c.after.version = sessions[s].version + 1
    /\ c.after.inactive = sessions[s].inactive \cup Out(c)
    /\ \A t \in SessionIds : GameShape(sessions'[t]) /\ (t # s => sessions'[t] = sessions[t])

\* The row as it is follows from the one that the call loaded.
LEMMA PersistSessions ==
    ASSUME RuntimeInv, NEW c, NEW s, s = c.session, Held(c), CurrentTransition(c), Persist(c)
    PROVE  Advanced(c, s) /\ c.loaded.version = sessions[s].version
<1>1. s \in SessionIds /\ Moves(c.loaded, c.after, Out(c))
    BY Zenon DEF Held, Computed
<1>2. sessions[s].status = "active" /\ c.loaded.version = sessions[s].version
    BY DEF CurrentTransition
<1>3. c.loaded.inactive = sessions[s].inactive
    BY <1>2, Zenon DEF Held
<1>4. room.session = s
    BY <1>1, <1>2, Zenon DEF RuntimeInv, SessionInv, SessionMatchesRoom, Live
<1>5. \A t \in SessionIds : GameShape(sessions[t])
    BY DEF RuntimeInv, SessionInv
<1>6. sessions[s].version \in Nat \ {0}
    BY <1>1, <1>2, <1>5, Zenon DEF GameShape
<1>7. /\ DOMAIN sessions' = SessionIds /\ sessions'[s] = c.after
      /\ \A t \in SessionIds : t # s => sessions'[t] = sessions[t]
    BY <1>1, Zenon DEF Persist, RuntimeInv, SessionInv
<1>8. /\ c.after.version = sessions[s].version + 1
      /\ c.after.inactive = sessions[s].inactive \cup Out(c)
      /\ c.after.status \in {"active", "finished"} /\ DOMAIN c.after = GameFields
    BY <1>1, <1>2, <1>3, Zenon DEF Moves
<1>9. GameShape(c.after)
    BY <1>6, <1>8 DEF GameShape
<1>10. \A t \in SessionIds : GameShape(sessions'[t])
    BY <1>5, <1>7, <1>9
<1> QED BY <1>1, <1>2, <1>4, <1>6, <1>7, <1>8, <1>10, Zenon DEF Advanced

\* What ExactlyOnce says of the batches of one session.
Once(of, v) ==
    /\ {b.version : b \in of} = 2 .. v
    /\ \A b, c \in of : b.version = c.version => b = c
    /\ \A b, c \in of : b.cause = c.cause /\ b.cause \in {"action", "revoke"}
                        /\ b.user = c.user /\ b.action = c.action => b = c

\* A batch of the next version that repeats no other one can join them.
LEMMA OnceMore ==
    ASSUME NEW of, NEW v \in Nat \ {0}, Once(of, v), NEW new, new.version = v + 1,
           new.cause \in {"action", "revoke"} =>
               \A b \in of : ~(b.cause = new.cause /\ b.user = new.user /\ b.action = new.action)
    PROVE  Once(of \cup {new}, v + 1)
<1>1. \A b \in of : b.version <= v /\ b.version \in Nat
    <2>1. \A b \in of : b.version \in 2 .. v
        BY DEF Once
    <2> QED BY <2>1
<1>2. {b.version : b \in of \cup {new}} = 2 .. (v + 1)
    <2>1. {b.version : b \in of \cup {new}} = {b.version : b \in of} \cup {new.version}
        OBVIOUS
    <2>2. 2 .. (v + 1) = (2 .. v) \cup {v + 1}
        OBVIOUS
    <2> QED BY <2>1, <2>2 DEF Once
<1>3. \A b, c \in of \cup {new} : b.version = c.version => b = c
    BY <1>1 DEF Once
<1>4. \A b, c \in of \cup {new} : b.cause = c.cause /\ b.cause \in {"action", "revoke"}
                                  /\ b.user = c.user /\ b.action = c.action => b = c
    BY DEF Once
<1> QED BY <1>2, <1>3, <1>4, Zenon DEF Once

\* A commit writes the batch of the next version, which repeats none.
LEMMA PersistBatches ==
    ASSUME RuntimeInv, NEW c, NEW s, s = c.session, Held(c), CurrentTransition(c), Persist(c)
    PROVE  BatchInv'
<1>1. Advanced(c, s) /\ c.loaded.version = sessions[s].version
    BY PersistSessions
<1>2. \A b \in batches : ~Repeats(c, b)
    BY <1>1 DEF Held
<1>3. PICK new : /\ batches' = batches \cup {new}
                 /\ new.session = s /\ new.version = sessions[s].version + 1 /\ new.cause = c.cause
                 /\ new.user = c.user /\ new.action = c.action
    <2>1. batches' = batches \cup {Batch(s, c.cause, c.user, c.action, c.after.version)}
        BY DEF Persist
    <2>2. c.after.version = sessions[s].version + 1
        BY <1>1, Zenon DEF Advanced
    <2>3. LET new == Batch(s, c.cause, c.user, c.action, c.after.version)
          IN  /\ new.session = s /\ new.version = c.after.version /\ new.cause = c.cause
              /\ new.user = c.user /\ new.action = c.action
        BY DEF Batch
    <2> QED BY <2>1, <2>2, <2>3, Zenon
<1> DEFINE Of(t) == {b \in batches : b.session = t}
<1>4. \A t \in SessionIds : Once(Of(t), sessions[t].version)
    BY Zenon DEF RuntimeInv, BatchInv, ExactlyOnce, Once
<1>5. \A t \in SessionIds : t # s => {b \in batches' : b.session = t} = Of(t)
    BY <1>3
<1>6. {b \in batches' : b.session = s} = Of(s) \cup {new}
    BY <1>3
<1>7. \A b \in Of(s) : b \in batches /\ b.session = s
    OBVIOUS
<1> HIDE DEF Of
<1>8. Once(Of(s) \cup {new}, sessions[s].version + 1)
    <2>1. new.cause \in {"action", "revoke"} =>
              \A b \in Of(s) : ~(b.cause = new.cause /\ b.user = new.user /\ b.action = new.action)
        BY <1>2, <1>3, <1>7, Zenon DEF Repeats
    <2>2. sessions[s].version \in Nat \ {0} /\ Once(Of(s), sessions[s].version)
        BY <1>1, <1>4, Zenon DEF Advanced
    <2> QED BY <1>3, <2>1, <2>2, OnceMore, Zenon
<1>9. \A t \in SessionIds : Once({b \in batches' : b.session = t}, sessions'[t].version)
    <2>1. s \in SessionIds /\ sessions'[s].version = sessions[s].version + 1
        BY <1>1, Zenon DEF Advanced
    <2>2. \A t \in SessionIds : t # s => sessions'[t] = sessions[t]
        BY <1>1, Zenon DEF Advanced
    <2>3. ASSUME NEW t \in SessionIds PROVE Once({b \in batches' : b.session = t}, sessions'[t].version)
        <3>1. CASE t = s
            BY <3>1, <2>1, <1>6, <1>8, Zenon
        <3>2. CASE t # s
            BY <3>2, <2>2, <1>4, <1>5
        <3> QED BY <3>1, <3>2
    <2> QED BY <2>3
<1>10. ExactlyOnce'
    BY <1>9, Zenon DEF ExactlyOnce, Once
<1>11. \A b \in batches : /\ b.session \in SessionIds /\ b.version \in Nat
                          /\ b.cause = "revoke" => b.user \in sessions'[b.session].inactive
    BY <1>1, Zenon DEF RuntimeInv, BatchInv, Advanced
<1>12. /\ new.session \in SessionIds /\ new.version \in Nat
       /\ new.cause = "revoke" => new.user \in sessions'[new.session].inactive
    BY <1>1, <1>3 DEF Advanced, Out
<1> QED BY <1>3, <1>10, <1>11, <1>12, Zenon DEF BatchInv

\* The calls that others hold on the session are stale after a commit.
LEMMA PersistCalls ==
    ASSUME RuntimeInv, NEW w \in Workers, NEW c, NEW s, s = c.session, Held(c), CurrentTransition(c),
           Persist(c), Answer(w)
    PROVE  CallInv'
<1>1. /\ sessions'[s].version = sessions[s].version + 1
      /\ sessions[s].version \in Nat
      /\ \A t \in SessionIds : t # s => sessions'[t] = sessions[t]
    BY PersistSessions DEF Advanced
<1>2. PICK new : batches' = batches \cup {new} /\ new.session = s
    <2>1. batches' = batches \cup {Batch(s, c.cause, c.user, c.action, c.after.version)}
        BY DEF Persist
    <2>2. Batch(s, c.cause, c.user, c.action, c.after.version).session = s
        BY DEF Batch
    <2> QED BY <2>1, <2>2, Zenon
<1>3. calls' = [calls EXCEPT ![w] = Idle] /\ DOMAIN calls = Workers
    BY DEF Answer, RuntimeInv, CallInv
<1>4. ASSUME NEW k \in Workers, calls'[k] # Idle PROVE Held(calls[k])'
    <2>1. PICK d : d = calls[k]
        OBVIOUS
    <2>2. calls'[k] = d /\ Held(d)
        BY <1>3, <1>4, <2>1 DEF RuntimeInv, CallInv, Busy
    <2>3. /\ Computed(d)
          /\ d.loaded.version <= sessions[d.session].version
          /\ d.loaded.version = sessions[d.session].version =>
                /\ d.loaded.inactive = sessions[d.session].inactive
                /\ \A b \in batches : ~Repeats(d, b)
        BY <2>2, Zenon DEF Held
    <2>4. d.session \in SessionIds /\ d.loaded.version \in Nat
        BY <2>3, Zenon DEF Computed, GameShape
    <2>5. /\ d.loaded.version <= sessions'[d.session].version
          /\ d.loaded.version = sessions'[d.session].version =>
                /\ d.loaded.inactive = sessions'[d.session].inactive
                /\ \A b \in batches' : ~Repeats(d, b)
        <3>1. CASE d.session = s
            BY <1>1, <2>3, <2>4, <3>1
        <3>2. CASE d.session # s
            <4>1. ~Repeats(d, new)
                BY <1>2, <3>2 DEF Repeats
            <4> QED BY <1>1, <1>2, <2>3, <2>4, <3>2, <4>1, Zenon
        <3> QED BY <3>1, <3>2, Zenon
    <2> QED BY <2>2, <2>3, <2>5, Zenon DEF Held
<1> QED BY <1>3, <1>4 DEF CallInv, Busy

\* CommitAction, CommitTimer and CommitSystem.
LEMMA CommitStep ==
    ASSUME RuntimeInv, NEW w \in Workers, Commit(w)
    PROVE  RuntimeInv'
<1>1. PICK c, s : c = calls[w] /\ s = c.session
    OBVIOUS
<1>2. /\ Held(c) /\ CurrentTransition(c) /\ Persist(c) /\ Answer(w)
      /\ UNCHANGED <<room, frozen, revocations, noops, acked>>
      /\ c.after.status # "finished"
    BY <1>1, Zenon DEF Commit, Persist, Finishing, RuntimeInv, CallInv
<1>3. Advanced(c, s)
    BY <1>1, <1>2, PersistSessions, Zenon
<1>4. \A t \in SessionIds : /\ sessions'[t].status = sessions[t].status
                            /\ sessions[t].inactive \subseteq sessions'[t].inactive
                            /\ GameShape(sessions'[t])
    BY <1>2, <1>3, Zenon DEF Advanced
<1>5. RoomInv'
    BY <1>2, Zenon DEF RuntimeInv, RoomInv
<1>6. SessionInv'
    <2>1. \A t \in SessionIds : Live(sessions'[t]) <=> Live(sessions[t])
        BY <1>4 DEF Live
    <2>2. room.session \in SessionIds /\ DOMAIN sessions' = SessionIds
        BY <1>3, Zenon DEF Advanced
    <2>3. SessionMatchesRoom'
        BY <1>2, <1>4, <2>1, <2>2, Zenon DEF RuntimeInv, SessionInv, SessionMatchesRoom
    <2> QED BY <1>2, <1>4, <2>2, <2>3, Zenon DEF RuntimeInv, SessionInv
<1>7. InboxInv'
    <2>1. \A t \in SessionIds : Terminal(sessions'[t]) <=> Terminal(sessions[t])
        BY <1>4 DEF Terminal
    <2>2. \A pair \in revocations : pair[1] \in SessionIds
        BY DEF RuntimeInv, RoomInv
    <2>3. RevocationsReachGame'
        BY <1>2, <1>4, <2>1, <2>2, Zenon DEF RuntimeInv, InboxInv, RevocationsReachGame
    <2> QED BY <1>2, <2>1, <2>3, Zenon DEF RuntimeInv, InboxInv
<1>8. BatchInv' /\ CallInv'
    BY <1>1, <1>2, PersistBatches, PersistCalls, Zenon
<1> QED BY <1>5, <1>6, <1>7, <1>8 DEF RuntimeInv

\* FinishAction, FinishTimer and FinishSystem: entries of the inbox that the
\* finish did not wait for are of players who are out of the game.
LEMMA CommitFinishStep ==
    ASSUME RuntimeInv, NEW w \in Workers, CommitFinish(w)
    PROVE  RuntimeInv'
<1>1. PICK c, s : c = calls[w] /\ s = c.session
    OBVIOUS
<1>2. /\ Held(c) /\ CurrentTransition(c) /\ Persist(c) /\ Answer(w)
      /\ UNCHANGED <<noops, acked>> /\ FinishGame
      /\ Pending(s) \ Out(c) = {}
      /\ c.after.status = "finished"
    BY <1>1, Zenon DEF CommitFinish, Persist, Finishing, InboxClear, Out, RuntimeInv, CallInv
<1>3. Advanced(c, s)
    BY <1>1, <1>2, PersistSessions, Zenon
<1>4. BatchInv' /\ CallInv'
    BY <1>1, <1>2, PersistBatches, PersistCalls, Zenon
<1>5. /\ s \in SessionIds /\ room.session = s
      /\ DOMAIN sessions' = SessionIds
      /\ sessions'[s] = c.after /\ Terminal(c.after)
      /\ ~Terminal(sessions[s]) /\ Live(sessions[s])
      /\ \A t \in SessionIds : GameShape(sessions'[t]) /\ (t # s => sessions'[t] = sessions[t])
    BY <1>2, <1>3, Zenon DEF Advanced, Live, Terminal
<1>6. /\ Shape(room') /\ room'.roomVersion = room.roomVersion + 1
      /\ room'.status # "playing" /\ room'.session = NoSession /\ room'.pause = NoPause
      /\ UNCHANGED revocations
    BY <1>2, GameCommands, Zenon DEF RuntimeInv, RoomInv
<1>7. RoomInv' /\ SessionInv'
    BY <1>5, <1>6, RoomEnds, Zenon
<1>8. ASSUME NEW pair \in revocations, pair[1] = s PROVE pair[2] \in c.after.inactive
    <2>1. c.after.inactive = sessions[s].inactive \cup Out(c)
        BY <1>3, Zenon DEF Advanced
    <2>2. CASE pair \in acked
        BY <1>5, <1>8, <2>1, <2>2, Zenon DEF RuntimeInv, InboxInv, RevocationsReachGame
    <2>3. CASE pair \notin acked
        <3>1. pair = <<s, pair[2]>> /\ pair[2] \in Users
            BY <1>8 DEF RuntimeInv, RoomInv
        <3>2. pair[2] \in Pending(s)
            BY <2>3, <3>1 DEF Pending
        <3> QED BY <1>2, <2>1, <3>2
    <2> QED BY <2>2, <2>3
<1>9. InboxInv'
    <2>1. \A pair \in revocations : pair[1] \in SessionIds
        BY DEF RuntimeInv, RoomInv
    <2>2. \A t \in SessionIds : Terminal(sessions[t]) => Terminal(sessions'[t])
        BY <1>5
    <2>3. /\ acked \subseteq revocations
          /\ \A pair \in acked : pair[2] \in sessions[pair[1]].inactive \/ Terminal(sessions[pair[1]])
          /\ \A pair \in revocations :
                sessions[pair[1]].status = "finished" => pair[2] \in sessions[pair[1]].inactive
          /\ \A t \in SessionIds : \A u : <<t, "revoke", u>> \in noops => Terminal(sessions[t])
        BY Zenon DEF RuntimeInv, InboxInv, RevocationsReachGame
    <2>4. \A pair \in revocations : pair[1] # s => sessions'[pair[1]] = sessions[pair[1]]
        BY <1>5, <2>1
    <2>5. RevocationsReachGame'
        BY <1>2, <1>5, <1>6, <1>8, <2>3, <2>4, Zenon DEF RevocationsReachGame
    <2> QED BY <1>2, <1>6, <2>2, <2>3, <2>5, Zenon DEF InboxInv
<1> QED BY <1>4, <1>7, <1>9 DEF RuntimeInv

-----------------------------------------------------------------------------
(* Commands that come too late, and the inbox.                             *)

\* CommitLate writes a receipt for a game that is over.
LEMMA CommitLateStep ==
    ASSUME RuntimeInv, NEW w \in Workers, CommitLate(w)
    PROVE  RuntimeInv'
<1>1. /\ UNCHANGED <<room, frozen, revocations, sessions, batches, acked>>
      /\ calls' = [calls EXCEPT ![w] = Idle]
      /\ noops' = noops \cup {<<calls[w].session, "revoke", calls[w].user>>}
      /\ Terminal(sessions[calls[w].session])
    BY Zenon DEF CommitLate, Answer
<1>2. CallInv'
    BY <1>1, CallsKept, Zenon
<1>3. InboxInv'
    BY <1>1, InboxGrows, Zenon
<1> QED BY <1>1, <1>2, <1>3, StoredKept, Zenon DEF RuntimeInv

\* So does CompleteSystemNoop.
LEMMA NoopStep ==
    ASSUME RuntimeInv, NEW s \in SessionIds, CompleteSystemNoop(s)
    PROVE  RuntimeInv'
<1>1. /\ UNCHANGED <<room, frozen, revocations, sessions, batches, acked, calls>>
      /\ Terminal(sessions[s])
    BY DEF CompleteSystemNoop
<1>2. \E cause : \E u : noops' = noops \cup {<<s, cause, u>>}
    BY Zenon DEF CompleteSystemNoop
<1>3. \A t \in SessionIds : \A u : <<t, "revoke", u>> \in noops' \ noops => Terminal(sessions[t])
    BY <1>1, <1>2
<1>4. InboxInv'
    BY <1>1, <1>3, InboxGrows, Zenon
<1>5. CallInv'
    BY <1>1, CallsStay
<1> QED BY <1>1, <1>4, <1>5, StoredKept DEF RuntimeInv

\* CompleteSystemInbox: the receipt says that the player is out or the game over.
LEMMA InboxStep ==
    ASSUME RuntimeInv, NEW s \in SessionIds, NEW u \in Users, CompleteSystemInbox(s, u)
    PROVE  RuntimeInv'
<1>1. /\ UNCHANGED <<room, frozen, revocations, sessions, batches, noops, calls>>
      /\ acked' = acked \cup {<<s, u>>}
      /\ <<s, u>> \in revocations
      /\ SystemReceipt(s, "revoke", u)
    BY DEF CompleteSystemInbox, Pending
<1>2. u \in sessions[s].inactive \/ Terminal(sessions[s])
    <2>1. CASE \E b \in batches : b.session = s /\ b.cause = "revoke" /\ b.user = u
        BY <2>1 DEF RuntimeInv, BatchInv
    <2>2. CASE <<s, "revoke", u>> \in noops
        BY <2>2 DEF RuntimeInv, InboxInv
    <2> QED BY <1>1, <2>1, <2>2, Zenon DEF SystemReceipt
<1>3. InboxInv'
    BY <1>1, <1>2, InboxGrows
<1>4. CallInv'
    BY <1>1, CallsStay
<1> QED BY <1>1, <1>3, <1>4, StoredKept DEF RuntimeInv

-----------------------------------------------------------------------------
(* The theorems.                                                           *)

\* A new room has no game, no pause and no revocation.
LEMMA RuntimeStarts == RuntimeInit => RuntimeInv
<1> SUFFICES ASSUME RuntimeInit PROVE RuntimeInv
    OBVIOUS
<1>1. /\ Shape(room) /\ room.status = "lobby" /\ room.session = NoSession /\ room.pause = NoPause
      /\ revocations = {}
    <2>1. PICK u \in Users, p \in Modes, s \in Modes, g \in Games : room = NewWithAdmission(u, p, s, g)
        BY DEF RuntimeInit, Init
    <2>2. DOMAIN NoMember = MemberFields
        BY DEF NoMember, MemberFields
    <2>3. /\ DOMAIN room = RoomFields /\ room.roomVersion = 1
          /\ room.status = "lobby" /\ room.session = NoSession /\ room.pause = NoPause
          /\ room.members = [v \in Users |->
                 IF v = u THEN [role |-> "participant", requested |-> NoRole, seat |-> 0, joined |-> 1]
                 ELSE NoMember]
        BY <2>1, Zenon DEF NewWithAdmission, RoomFields
    <2>4. Shape(room)
        BY <2>2, <2>3 DEF Shape, MemberFields
    <2> QED BY <2>3, <2>4, Zenon DEF RuntimeInit, Init
<1>2. /\ sessions = [s \in SessionIds |-> NoGame] /\ batches = {} /\ noops = {} /\ acked = {}
      /\ calls = [w \in Workers |-> Idle]
    BY DEF RuntimeInit, NothingStored
<1>3. RoomInv
    BY <1>1 DEF RoomInv
<1>4. GameShape(NoGame) /\ ~Live(NoGame) /\ NoGame.status = "none" /\ NoGame.version = 0
    BY DEF NoGame, GameShape, GameFields, Live
<1>5. SessionInv
    BY <1>1, <1>2, <1>4 DEF SessionInv, SessionMatchesRoom, SessionIds, NoSession
<1>6. BatchInv
    BY <1>2, <1>4 DEF BatchInv, ExactlyOnce
<1>7. InboxInv
    BY <1>1, <1>2 DEF InboxInv, RevocationsReachGame
<1>8. CallInv
    BY <1>2 DEF CallInv, Busy
<1> QED BY <1>3, <1>5, <1>6, <1>7, <1>8 DEF RuntimeInv

\* Every step of the runtime keeps the invariant.
LEMMA RuntimeStep == RuntimeInv /\ [RuntimeNext]_runtimeVars => RuntimeInv'
<1> SUFFICES ASSUME RuntimeInv, [RuntimeNext]_runtimeVars PROVE RuntimeInv'
    OBVIOUS
<1>1. CASE UNCHANGED runtimeVars
    <2>1. UNCHANGED <<room, frozen, revocations, sessions, batches, noops, acked, calls>>
        BY <1>1 DEF runtimeVars
    <2>2. InboxInv'
        BY <2>1, InboxGrows
    <2>3. CallInv'
        BY <2>1, Zenon DEF RuntimeInv, CallInv, Held, Busy
    <2> QED BY <2>1, <2>2, <2>3, StoredKept DEF RuntimeInv
<1>2. CASE RoomCommand
    BY <1>2, RoomCommandStep
<1>3. CASE Start
    BY <1>3, StartStep
<1>4. CASE PauseGame \/ ResumeGame \/ SuspendMissingModule
    BY <1>4, LifecycleStep
<1>5. CASE Cancel
    BY <1>5, CancelStep
<1>6. CASE \E s \in SessionIds : AcquireOwnership(s) \/ CompleteSystemNoop(s)
    BY <1>6, AcquireStep, NoopStep
<1>7. CASE \E s \in SessionIds, u \in Users : CompleteSystemInbox(s, u)
    BY <1>7, InboxStep
<1>8. ASSUME NEW w \in Workers, Load(w) \/ RetrySystem(w) PROVE RuntimeInv'
    BY <1>8, LoadStep
<1>9. ASSUME NEW w \in Workers, PrepareRoomFinish(w) \/ Fail(w) PROVE RuntimeInv'
    BY <1>9, CallEndStep
<1>10. ASSUME NEW w \in Workers, Commit(w) \/ CommitFinish(w) \/ CommitLate(w) PROVE RuntimeInv'
    BY <1>10, CommitStep, CommitFinishStep, CommitLateStep
<1> QED BY <1>1, <1>2, <1>3, <1>4, <1>5, <1>6, <1>7, <1>8, <1>9, <1>10, Zenon DEF RuntimeNext

\* The invariant holds always.
THEOREM RuntimeInvariance == RuntimeSpec => []RuntimeInv
BY RuntimeStarts, RuntimeStep, PTL DEF RuntimeSpec

\* Room and session agree on the running game and on its pause, whichever of
\* the transactions that start, pause, resume, finish and cancel a game win
\* (the commits of game_session_repository.go and room_game_session_repository.go).
THEOREM RoomAndSessionAgree == RuntimeSpec => []SessionMatchesRoom
<1>1. RuntimeInv => SessionMatchesRoom
    BY DEF RuntimeInv, SessionInv
<1> QED BY <1>1, RuntimeInvariance, PTL

\* Batches are one for each state version, and no action and no revocation
\* took effect twice, for any number of calls at once (applyTransition and
\* the receipts of HandleAction and HandleSystem).
THEOREM EffectsExactlyOnce == RuntimeSpec => []ExactlyOnce
<1>1. RuntimeInv => ExactlyOnce
    BY DEF RuntimeInv, BatchInv
<1> QED BY <1>1, RuntimeInvariance, PTL

\* An entry of the inbox is completed only when it had its effect or the game
\* is over, and no finish overtakes a removal (CompleteSystemInbox,
\* rejectTerminalWithPendingSystemInbox).
THEOREM NoRevocationLost == RuntimeSpec => []RevocationsReachGame
<1>1. RuntimeInv => RevocationsReachGame
    BY DEF RuntimeInv, InboxInv
<1> QED BY <1>1, RuntimeInvariance, PTL

\* A commit takes effect only on a game that is active, and an action only
\* while its player is not removed (validateCurrentTransition,
\* lockActionParticipantFence).
THEOREM LateCommandsHaveNoEffect == RuntimeSpec => LateCommandsFenced
<1> DEFINE Fenced == \A b \in batches' \ batches :
                        /\ sessions[b.session].status = "active"
                        /\ b.cause = "action" => <<b.session, b.user>> \notin revocations
<1>1. RuntimeInv /\ [RuntimeNext]_runtimeVars => [Fenced]_runtimeVars
    <2> SUFFICES ASSUME RuntimeInv, RuntimeNext PROVE Fenced
        OBVIOUS
    <2>1. ASSUME NEW w \in Workers, Busy(w), ActorFence(calls[w]), CurrentTransition(calls[w]), Persist(calls[w])
          PROVE  Fenced
        <3>0. PICK c : c = calls[w]
            OBVIOUS
        <3>1. /\ c.session \in SessionIds /\ room.session = c.session /\ Held(c)
              /\ sessions[c.session].status = "active"
            <4>1. Held(c)
                BY <2>1, <3>0 DEF RuntimeInv, CallInv
            <4>2. Advanced(c, c.session)
                BY <2>1, <3>0, <4>1, PersistSessions
            <4> QED BY <4>1, <4>2, Zenon DEF Advanced
        <3>2. \A b \in batches' \ batches : b.session = c.session /\ b.cause = c.cause /\ b.user = c.user
            BY <2>1, <3>0 DEF Persist, Batch
        <3>3. c.cause = "action" => c.user \in Participants(room)
            <4>1. c.cause = "action" => c.user \in Users
                BY <3>1, Zenon DEF Held, Computed
            <4> QED BY <2>1, <3>0, <4>1 DEF ActorFence, Participants
        <3>4. c.cause = "action" => <<c.session, c.user>> \notin revocations
            BY <3>1, <3>3 DEF RuntimeInv, RoomInv, SessionIds, NoSession
        <3> QED BY <3>1, <3>2, <3>4
    <2>2. CASE \E w \in Workers : Commit(w) \/ CommitFinish(w)
        <3>1. PICK w \in Workers : Commit(w) \/ CommitFinish(w)
            BY <2>2
        <3>2. Busy(w) /\ ActorFence(calls[w]) /\ CurrentTransition(calls[w]) /\ Persist(calls[w])
            BY <3>1 DEF Commit, CommitFinish
        <3> QED BY <2>1, <3>2, Zenon
    <2>3. CASE ~\E w \in Workers : Commit(w) \/ CommitFinish(w)
        <3>1. batches' = batches
            <4>1. \A w \in Workers : Load(w) \/ RetrySystem(w) => batches' = batches
                <5>1. \A w, s, cause, u, a, after : Hold(w, s, cause, u, a, after) => batches' = batches
                    BY Zenon DEF Hold, stored
                <5>2. \A w, s, u : Revoke(w, s, u) => batches' = batches
                    BY <5>1 DEF Revoke
                <5>3. \A w, s, u, a : LoadAction(w, s, u, a) => batches' = batches
                    BY <5>1 DEF LoadAction
                <5>4. \A w, s : LoadTimer(w, s) \/ LoadHostFinish(w, s) => batches' = batches
                    BY <5>1, Zenon DEF LoadTimer, LoadHostFinish
                <5>5. \A w, s, u : LoadRevocation(w, s, u) => batches' = batches
                    BY <5>2 DEF LoadRevocation
                <5>6. \A w : RetrySystem(w) => batches' = batches
                    BY <5>2, Zenon DEF RetrySystem
                <5> QED BY <5>3, <5>4, <5>5, <5>6 DEF Load
            <4>2. \A w \in Workers : PrepareRoomFinish(w) \/ CommitLate(w) \/ Fail(w) => batches' = batches
                BY Zenon DEF PrepareRoomFinish, CommitLate, Fail, stored
            <4>3. \A s \in SessionIds : AcquireOwnership(s) \/ CompleteSystemNoop(s) => batches' = batches
                BY DEF AcquireOwnership, CompleteSystemNoop
            <4>4. \A s \in SessionIds, u \in Users : CompleteSystemInbox(s, u) => batches' = batches
                BY DEF CompleteSystemInbox
            <4>5. RoomCommand \/ Start \/ PauseGame \/ ResumeGame \/ SuspendMissingModule \/ Cancel =>
                      batches' = batches
                BY Zenon DEF RoomCommand, Start, PauseGame, ResumeGame, SuspendMissingModule, Cancel, Lifecycle, stored
            <4> QED BY <2>3, <4>1, <4>2, <4>3, <4>4, <4>5, Zenon DEF RuntimeNext
        <3> QED BY <3>1
    <2> QED BY <2>2, <2>3, Zenon
<1>2. RuntimeSpec => [][Fenced]_runtimeVars
    BY <1>1, RuntimeInvariance, PTL DEF RuntimeSpec
<1> QED BY <1>2 DEF LateCommandsFenced
=============================================================================
