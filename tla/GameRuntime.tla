---------------------------- MODULE GameRuntime -----------------------------
(***************************************************************************)
(* The game runtime over PostgreSQL: sessions, event batches, receipts and *)
(* the inbox of revocations, composed with the room they belong to.        *)
(*                                                                         *)
(* A player's action, a timer and a system command (the revocation of a    *)
(* removed player, or the host ending the game) load the session, let the  *)
(* game module compute the next state, and commit later.  The commit       *)
(* compares the ownership epoch, the state version and the status only.    *)
(* A transition that finishes the game also reads the room, and its commit *)
(* compares the whole room.                                                *)
(*                                                                         *)
(* Starting, pausing, resuming and cancelling a game commit only if room   *)
(* and session both are exactly what was loaded, so each is one step here. *)
(* So are the room's own commands: RoomService shows that they act on the  *)
(* stored row one at a time.  A room version identifies the stored row     *)
(* (RoomService, VersionIdentifiesRow), and stands for it in a call.       *)
(*                                                                         *)
(* A receipt is written in the transaction that writes its batch, so a     *)
(* batch stands for both; a receipt without a batch is kept in "noops".    *)
(* An identical retry finds the receipt and changes nothing.               *)
(***************************************************************************)
EXTENDS RoomLedger

CONSTANTS
    Actions,            \* identifiers clients give to their actions
    Workers,            \* calls of the runtime that can be under way at once
    MaxStateVersion,    \* bound: actions and timers stop at this state version
    MaxEpoch            \* bound: ownership changes hands up to this epoch

ASSUME RuntimeAssumption ==
    /\ MaxStateVersion \in Nat \ {0}
    /\ MaxEpoch \in Nat \ {0}

VARIABLES
    sessions,       \* session id -> game_sessions row
    batches,        \* event batches of all sessions
    noops,          \* <<session, cause, user>> receipts of commands that came too late
    acked,          \* revocations whose inbox entry is completed
    calls           \* worker -> the call it holds between its transactions

stored == <<sessions, batches, noops, acked>>
runtimeVars == <<room, frozen, revocations, sessions, batches, noops, acked, calls>>

SessionIds == 1 .. MaxRoomVersion

\* status    of the session; "none" before it is created
\* epoch     ownership epoch; 0 until a process first acquires the session
\* version   state version
\* inactive  players the module has taken out of the game
\* Timers belong to the state version; here any active state may have a due one.
NoGame == [status |-> "none", epoch |-> 0, version |-> 0, inactive |-> {}]

Terminal(g) == g.status \in {"finished", "cancelled"}
Live(g) == g.status \in {"active", "suspended"}

Seated(u) == \E pair \in frozen : pair[1] = u
Playing(g) == {u \in Users : Seated(u)} \ g.inactive

\* cause    what made the transition
\* user     who acted, was revoked, or ended the game
\* action   the client's identifier of an action; otherwise 0
\* version  the state version the batch leads to
Batch(s, cause, u, a, v) == [session |-> s, cause |-> cause, user |-> u, action |-> a, version |-> v]

ActionReceipt(s, u, a) ==
    \E b \in batches : b.session = s /\ b.cause = "action" /\ b.user = u /\ b.action = a
SystemReceipt(s, cause, u) ==
    \/ \E b \in batches : b.session = s /\ b.cause = cause /\ b.user = u
    \/ <<s, cause, u>> \in noops

Pending(s) == {u \in Users : <<s, u>> \in revocations \ acked}

-----------------------------------------------------------------------------
\* session   the session the call is for
\* loaded    the row as it was read
\* after     the row the module's transition leads to
\* expected  version of the room read for finishing; 0 when none was read
Idle == [cause |-> "idle"]
Busy(w) == calls[w] # Idle

NothingStored ==
    /\ sessions = [s \in SessionIds |-> NoGame]
    /\ batches = {}
    /\ noops = {}
    /\ acked = {}
    /\ calls = [w \in Workers |-> Idle]

RuntimeInit == Init /\ NothingStored

-----------------------------------------------------------------------------
(* The room.                                                               *)

\* The bound on room versions leaves one for the end of a game.
Continues == room.roomVersion + 1 < MaxRoomVersion

\* Commands of the room that leave the session alone.  A player is removed
\* from a running game only when listed last (RoomService, RemovalAccepted).
RoomCommand ==
    /\ Continues
    /\ \/ JoinRoom
       \/ ApproveMember
       \/ RequestRoomPause
       \/ RejectRoomPause
       \/ TransferRoomHost
       \/ CloseRoom
       \/ \E u \in Users :
             /\ ParticipantRevoked(room, u) => LastListed(room, u)
             /\ Remove(u)
    /\ UNCHANGED <<stored, calls>>

\* Start: the session is created beside the room; a second transaction, which
\* a crash can prevent, acquires its ownership.
Start ==
    /\ Continues
    /\ StartGame
    /\ sessions' = [sessions EXCEPT ![room.roomVersion + 1] =
           [NoGame EXCEPT !.status = "active", !.version = 1]]
    /\ UNCHANGED <<batches, noops, acked, calls>>

\* AcquireOwnershipCAS: after Start, or by the process that takes over.
AcquireOwnership(s) ==
    /\ Live(sessions[s])
    /\ sessions[s].epoch < MaxEpoch
    /\ sessions' = [sessions EXCEPT ![s].epoch = @ + 1]
    /\ UNCHANGED <<room, frozen, revocations, batches, noops, acked, calls>>

Lifecycle(status) ==
    /\ Continues
    /\ sessions[room.session].epoch # 0
    /\ sessions' = [sessions EXCEPT ![room.session].status = status]
    /\ UNCHANGED <<batches, noops, acked, calls>>

PauseGame == PauseRoom /\ sessions[room.session].status = "active" /\ Lifecycle("suspended")
ResumeGame == ResumeRoom /\ sessions[room.session].status = "suspended" /\ Lifecycle("active")

\* A game that cannot find its module is suspended; the room is not paused.
SuspendMissingModule ==
    /\ room.session # NoSession
    /\ sessions[room.session].status = "active"
    /\ Lifecycle("suspended")
    /\ UNCHANGED <<room, frozen, revocations>>

\* The room that validateRoomGameSessionTermination lets end its game.
Endable(s) == CanEndSession(room, s) /\ room.request = NoRequest /\ room.pause = NoPause

Cancel ==
    /\ Endable(room.session)
    /\ sessions[room.session].epoch # 0
    /\ CancelGame \/ CancelGameAndClose
    /\ sessions' = [sessions EXCEPT ![room.session].status = "cancelled"]
    /\ UNCHANGED <<batches, noops, acked, calls>>

-----------------------------------------------------------------------------
(* Commands of the session: load, read the room if the game ends, commit.  *)

\* applyTransition, with what the module decides: whether the game is over
\* and who is out of it.
Transition(g, finished, out) ==
    [g EXCEPT !.version = @ + 1, !.status = IF finished THEN "finished" ELSE @,
              !.inactive = @ \cup out]

Hold(w, s, cause, u, a, after) ==
    /\ calls' = [calls EXCEPT ![w] =
           [session |-> s, cause |-> cause, user |-> u, action |-> a,
            loaded |-> sessions[s], after |-> after, expected |-> 0]]
    /\ UNCHANGED <<room, frozen, revocations, stored>>

Owned(s) == sessions[s].status = "active" /\ sessions[s].epoch # 0

\* Faulty variant: a retried action is not looked up.
LoadActionUnchecked(w, s, u, a) ==
    /\ ~Busy(w) /\ Owned(s) /\ sessions[s].version < MaxStateVersion
    /\ Participant(room, u) /\ u \in Playing(sessions[s])
    /\ \E finished \in BOOLEAN :
          Hold(w, s, "action", u, a, Transition(sessions[s], finished, {}))

\* HandleAction up to its commit: receipt, role and seat are checked first.
LoadAction(w, s, u, a) ==
    /\ ~Busy(w) /\ Owned(s) /\ sessions[s].version < MaxStateVersion
    /\ Participant(room, u)
    /\ ~ActionReceipt(s, u, a)
    /\ u \in Playing(sessions[s])
    /\ \E finished \in BOOLEAN :
          Hold(w, s, "action", u, a, Transition(sessions[s], finished, {}))

\* HandleTimer for a timer that scan found due.
LoadTimer(w, s) ==
    /\ ~Busy(w) /\ Owned(s) /\ sessions[s].version < MaxStateVersion
    /\ \E finished \in BOOLEAN :
          Hold(w, s, "timer", NoUser, 0, Transition(sessions[s], finished, {}))

\* Every module takes a removed player out, and ends a game that has too few
\* players left: two for most games, three for meet-by-chance.
Revoke(w, s, u) ==
    LET finished == Cardinality(Playing(sessions[s]) \ {u}) < MinPlayers
    IN  /\ u \in Playing(sessions[s])
        /\ Hold(w, s, "revoke", u, 0, Transition(sessions[s], finished, {u}))

\* Consume and HandleSystem for an entry of the inbox.
LoadRevocation(w, s, u) ==
    /\ ~Busy(w) /\ Owned(s)
    /\ u \in Pending(s)
    /\ ~SystemReceipt(s, "revoke", u)
    /\ Revoke(w, s, u)

\* HandleSystem for the host; the module's transition must finish the game.
LoadHostFinish(w, s) ==
    /\ ~Busy(w) /\ Owned(s)
    /\ ~SystemReceipt(s, "host", room.host)
    /\ Hold(w, s, "host", room.host, 0, Transition(sessions[s], TRUE, {}))

\* CompleteSystemNoop: the game ended before the command was handled.
CompleteSystemNoop(s) ==
    /\ Terminal(sessions[s])
    /\ \/ \E u \in Pending(s) : ~SystemReceipt(s, "revoke", u) /\ noops' = noops \cup {<<s, "revoke", u>>}
       \/ ~SystemReceipt(s, "host", room.host) /\ noops' = noops \cup {<<s, "host", room.host>>}
    /\ UNCHANGED <<room, frozen, revocations, sessions, batches, acked, calls>>

Finishing(c) == c.after.status = "finished"

\* prepareRoomFinish, and the checks on its result before the commit.
PrepareRoomFinish(w) ==
    /\ Busy(w) /\ Finishing(calls[w]) /\ calls[w].expected = 0
    /\ Endable(calls[w].session)
    /\ calls' = [calls EXCEPT ![w].expected = room.roomVersion]
    /\ UNCHANGED <<room, frozen, revocations, stored>>

-----------------------------------------------------------------------------
(* The commits.                                                            *)

\* Faulty variant: the status is not compared.
CurrentTransitionByVersion(c) ==
    /\ sessions[c.session].epoch = c.loaded.epoch
    /\ sessions[c.session].version = c.loaded.version

\* validateCurrentTransition and UpdateGameSessionStateCAS.
CurrentTransition(c) ==
    /\ sessions[c.session].epoch = c.loaded.epoch
    /\ sessions[c.session].version = c.loaded.version
    /\ sessions[c.session].status = "active"

\* Faulty variant: the role is checked before the commit only.
ActorFenceAtLoad(c) == TRUE

\* lockActionParticipantFence, on the locked room.
ActorFence(c) == c.cause = "action" => Participant(room, c.user)

\* Faulty variant: nobody waits for the inbox.
InboxClearAlways(c) == TRUE

\* rejectTerminalWithPendingSystemInbox: a game does not end before the
\* revocations that room commands left for it, save the one that ends it.
InboxClear(c) ==
    Finishing(c) => Pending(c.session) \ (IF c.cause = "revoke" THEN {c.user} ELSE {}) = {}

Answer(w) == calls' = [calls EXCEPT ![w] = Idle]

\* The writes every transition makes in its one transaction.
Persist(c) ==
    /\ sessions' = [sessions EXCEPT ![c.session] = c.after]
    /\ batches' = batches \cup {Batch(c.session, c.cause, c.user, c.action, c.after.version)}
    /\ UNCHANGED <<noops, acked>>

\* CommitAction, CommitTimer and CommitSystem.
Commit(w) ==
    /\ Busy(w) /\ ~Finishing(calls[w])
    /\ ActorFence(calls[w])
    /\ CurrentTransition(calls[w])
    /\ Persist(calls[w])
    /\ Answer(w)
    /\ UNCHANGED <<room, frozen, revocations>>

\* sameRoomSnapshot, on the locked room.
SameRoom(c) == c.expected # 0 /\ room.roomVersion = c.expected

\* FinishAction, FinishTimer and FinishSystem: room and session together.
CommitFinish(w) ==
    /\ Busy(w) /\ Finishing(calls[w])
    /\ ActorFence(calls[w])
    /\ SameRoom(calls[w])
    /\ CurrentTransition(calls[w])
    /\ InboxClear(calls[w])
    /\ FinishGame
    /\ Persist(calls[w])
    /\ Answer(w)

\* commitSystemAfterSessionLock when the game ended meanwhile.
CommitLate(w) ==
    /\ Busy(w) /\ calls[w].cause = "revoke" /\ ~Finishing(calls[w])
    /\ ~SystemReceipt(calls[w].session, "revoke", calls[w].user)
    /\ Terminal(sessions[calls[w].session])
    /\ noops' = noops \cup {<<calls[w].session, "revoke", calls[w].user>>}
    /\ Answer(w)
    /\ UNCHANGED <<room, frozen, revocations, sessions, batches, acked>>

\* Retry: the session changed under a revocation, which is computed again
\* from the row as it is, and under the epoch the row has now.
RetrySystem(w) ==
    LET c == calls[w]
    IN  /\ Busy(w) /\ c.cause = "revoke"
        /\ Finishing(c) => SameRoom(c)
        /\ ~SystemReceipt(c.session, "revoke", c.user)
        /\ \/ sessions[c.session].epoch # c.loaded.epoch
           \/ sessions[c.session].version # c.loaded.version
        /\ Owned(c.session)
        /\ Revoke(w, c.session, c.user)

\* A refused commit, a replayed receipt, a lost connection or a crash.
Fail(w) ==
    /\ Busy(w)
    /\ Answer(w)
    /\ UNCHANGED <<room, frozen, revocations, stored>>

\* CompleteSystemInbox, in a transaction of its own once the receipt exists.
CompleteSystemInbox(s, u) ==
    /\ u \in Pending(s)
    /\ SystemReceipt(s, "revoke", u)
    /\ acked' = acked \cup {<<s, u>>}
    /\ UNCHANGED <<room, frozen, revocations, sessions, batches, noops, calls>>

-----------------------------------------------------------------------------
Load(w) == \E s \in SessionIds :
    \/ \E u \in Users, a \in Actions : LoadAction(w, s, u, a)
    \/ LoadTimer(w, s)
    \/ \E u \in Users : LoadRevocation(w, s, u)
    \/ LoadHostFinish(w, s)

RuntimeNext ==
    \/ RoomCommand \/ Start \/ PauseGame \/ ResumeGame \/ SuspendMissingModule \/ Cancel
    \/ \E s \in SessionIds : AcquireOwnership(s) \/ CompleteSystemNoop(s)
    \/ \E s \in SessionIds, u \in Users : CompleteSystemInbox(s, u)
    \/ \E w \in Workers :
          \/ Load(w) \/ PrepareRoomFinish(w) \/ Commit(w) \/ CommitFinish(w)
          \/ CommitLate(w) \/ RetrySystem(w) \/ Fail(w)

RuntimeSpec == RuntimeInit /\ [][RuntimeNext]_runtimeVars

\* The dispatcher of revocations keeps trying: it acquires a session nobody
\* owns, and redelivers an entry until it is completed.  An attempt may fail
\* any number of times, but not every time, and every call returns.
Revoking(w) == Busy(w) /\ calls[w].cause = "revoke"

Fairness ==
    /\ \A s \in SessionIds :
          /\ WF_runtimeVars(sessions[s].epoch = 0 /\ AcquireOwnership(s))
          /\ WF_runtimeVars(CompleteSystemNoop(s))
          /\ \A u \in Users : WF_runtimeVars(CompleteSystemInbox(s, u))
    /\ \A w \in Workers :
          /\ WF_runtimeVars(Fail(w))
          /\ SF_runtimeVars(\E s \in SessionIds, u \in Users : LoadRevocation(w, s, u))
          /\ SF_runtimeVars(Revoking(w) /\ PrepareRoomFinish(w))
          /\ SF_runtimeVars(Revoking(w) /\ (Commit(w) \/ CommitFinish(w) \/ CommitLate(w)))

-----------------------------------------------------------------------------
\* The session that the room points at is the one live session: whichever of
\* the transactions that end a game wins, both rows end together.  A paused
\* room has a suspended session, so that no player's move, timer or system
\* command runs behind a pause the players see.
SessionMatchesRoom ==
    /\ \A s \in SessionIds : Live(sessions[s]) <=> room.session = s
    /\ room.pause # NoPause => sessions[room.session].status = "suspended"

\* A session's batches are one for each state version it went through, no
\* action of a player took effect twice, and nobody was revoked twice, however
\* commands are retried, duplicated and recomputed.
ExactlyOnce ==
    \A s \in SessionIds :
        LET of == {b \in batches : b.session = s}
        IN  /\ {b.version : b \in of} = 2 .. sessions[s].version
            /\ \A b, c \in of : b.version = c.version => b = c
            /\ \A b, c \in of : b.cause = c.cause /\ b.cause \in {"action", "revoke"}
                              /\ b.user = c.user /\ b.action = c.action => b = c

\* No revocation is lost on its way to the game: an inbox entry is completed
\* only when the game has taken the player out or is over, and a finish never
\* overtakes the revocations that the room has committed, so a finished game
\* knows of every player who was removed while it ran.
RevocationsReachGame ==
    /\ \A pair \in acked : pair[2] \in sessions[pair[1]].inactive \/ Terminal(sessions[pair[1]])
    /\ \A pair \in revocations :
          sessions[pair[1]].status = "finished" => pair[2] \in sessions[pair[1]].inactive

\* Every revocation reliably reaches the game in the end, as the design of the
\* durable inbox promises, unless the game is suspended or a player's request
\* for a pause is open, which both keep a game from ending.
RevocationHandled ==
    \A s \in SessionIds, u \in Users :
        <<s, u>> \in revocations ~> (\/ <<s, u>> \in acked
                                    \/ sessions[s].status = "suspended"
                                    \/ room.request # NoRequest)

\* A command that was under way has no effect once the game was paused,
\* suspended, cancelled or finished, and a player's own action has none after
\* the transaction that removed the player, even while the revocation waits
\* in the inbox (validateCurrentTransition, lockActionParticipantFence).
LateCommandsFenced ==
    [][\A b \in batches' \ batches :
          /\ sessions[b.session].status = "active"
          /\ b.cause = "action" => <<b.session, b.user>> \notin revocations]_runtimeVars
=============================================================================
