----------------------------- MODULE Countdown ------------------------------
(***************************************************************************)
(* The countdown before a game (transport/room, RuleRepository): the host  *)
(* edits the draft of the rules, begins a countdown that fixes the room    *)
(* and the draft's revision, and starts the game when it has run out.      *)
(*                                                                         *)
(* The handlers work in several transactions on the room of RoomLedger.    *)
(* An edit, or a command on an idle room, first commits and then looks for *)
(* the latest countdown and cancels it; beginning and starting read first  *)
(* and write under a fence later.  Reads that the fence of the write       *)
(* repeats are one step.                                                   *)
(*                                                                         *)
(* A countdown's identifier is the order of the times at which the         *)
(* handlers read their clock, which is what "latest" goes by: a countdown  *)
(* stored late may be older than one stored before it.                     *)
(***************************************************************************)
EXTENDS RoomLedger

CONSTANTS
    Handlers,           \* calls in progress at the same time
    MaxCountdowns,      \* bound: countdowns begun
    Workloads           \* bound: how many calls of each kind are made

ASSUME CountdownAssumption ==
    /\ MaxCountdowns \in Nat \ {0}
    /\ Workloads \subseteq [{"room", "other", "edit", "begin", "cancel", "start"} -> Nat]

VARIABLES
    drafts,         \* revision of each game's draft, 0 when there is none
    drawn,          \* identifiers drawn so far
    countdowns,     \* room_pending_starts, by identifier
    quota,          \* calls still to be made, of each kind
    calls,          \* what each handler is at
    started,        \* history: <<session, countdown>> of each game so started
    honoured        \* history: latest edit answered after its cancellation

startVars == <<vars, drafts, drawn, countdowns, quota, calls, started, honoured>>

Ids == 1 .. MaxCountdowns
Idle == [pc |-> "idle"]
NoEdit == [game |-> "none", revision |-> 0]
NoCountdown == [state |-> "none", due |-> FALSE]

\* validateRuleRoomFence, and the same comparison in a start.
Fence(r) ==
    [host |-> r.host, room |-> r.roomVersion, membership |-> r.membershipVersion, epoch |-> r.epoch]

Active(i) == countdowns[i].state = "active"

\* GetLatestRoomPendingStart.
Stored == {i \in Ids : countdowns[i].state # "none"}
Latest(i) == i \in Stored /\ \A j \in Stored : j <= i

\* A call of the workload is made.
Made(kind) == quota[kind] > 0 /\ quota' = [quota EXCEPT ![kind] = @ - 1]
Accept(h, kind) == calls[h] = Idle /\ Made(kind)
Go(h, call) == calls' = [calls EXCEPT ![h] = call]
Cancelled(ids) ==
    [i \in Ids |-> IF i \in ids THEN [countdowns[i] EXCEPT !.state = "cancelled"] ELSE countdowns[i]]

-----------------------------------------------------------------------------
StartInit ==
    /\ Init
    /\ drafts = [g \in Games |-> 0]
    /\ drawn = 0
    /\ countdowns = [i \in Ids |-> NoCountdown]
    /\ quota \in Workloads
    /\ calls = [h \in Handlers |-> Idle]
    /\ started = {}
    /\ honoured = [g \in Games |-> 0]

\* A member's or the host's command on the room; the handler goes on to cancel
\* the countdown.  An operator's command does not: it is one that fails here.
RoomCommand(h) ==
    /\ Accept(h, "room")
    /\ JoinRoom \/ SetRoomAdmission \/ SelectRoomGame \/ ApproveMember \/ RemoveRoomMember \/ CloseRoom
    /\ Go(h, [pc |-> "find", edit |-> NoEdit])
    /\ UNCHANGED <<drafts, drawn, countdowns, started, honoured>>

\* A transfer cancels the former host's countdown in its own transaction too.
TransferCommand(h) ==
    /\ Accept(h, "room")
    /\ TransferRoomHost
    /\ countdowns' = Cancelled({i \in Ids : Active(i) /\ countdowns[i].fence.epoch = room.epoch})
    /\ Go(h, [pc |-> "find", edit |-> NoEdit])
    /\ UNCHANGED <<drafts, drawn, started, honoured>>

\* The commands that cancel no countdown: pauses and the runtime's, and the
\* start without a countdown that older clients ask for.
OtherCommand ==
    /\ \/ RequestRoomPause \/ RejectRoomPause \/ PauseRoom \/ ResumeRoom
       \/ StartGame \/ FinishGame \/ CancelGame \/ CancelGameAndClose
    /\ Made("other")
    /\ UNCHANGED <<drafts, drawn, countdowns, calls, started, honoured>>

\* UpdateDraft, under the fence of the room that the handler authorized.
UpdateGameConfig(h) ==
    LET g == room.selected
    IN  /\ Accept(h, "edit")
        /\ AdmissionMutable(room)
        /\ drafts' = [drafts EXCEPT ![g] = @ + 1]
        /\ Go(h, [pc |-> "find", edit |-> [game |-> g, revision |-> drafts[g] + 1]])
        /\ UNCHANGED <<vars, drawn, countdowns, started, honoured>>

-----------------------------------------------------------------------------
\* The end of cancelPendingForRoom, and with it of the call.
Answer(h) ==
    LET edit == calls[h].edit
    IN  /\ Go(h, Idle)
        /\ honoured' = IF edit = NoEdit THEN honoured
                       ELSE [honoured EXCEPT ![edit.game] = IF edit.revision > @ THEN edit.revision ELSE @]

\* GetPendingStart finds nothing to cancel.
NothingPending(h) ==
    /\ calls[h].pc = "find"
    /\ ~\E i \in Ids : Latest(i) /\ Active(i)
    /\ Answer(h)
    /\ UNCHANGED <<vars, drafts, drawn, countdowns, started, quota>>

FindPending(h) ==
    /\ calls[h].pc = "find"
    /\ \E i \in Ids :
          /\ Latest(i) /\ Active(i)
          /\ Go(h, [pc |-> "cancel", edit |-> calls[h].edit, id |-> i])
    /\ UNCHANGED <<vars, drafts, drawn, countdowns, started, honoured, quota>>

\* CancelGameStart authorizes the host; the token names the countdown.
CancelGameStart(h) ==
    /\ Accept(h, "cancel")
    /\ \E i \in Stored :
          /\ countdowns[i].fence.epoch = room.epoch
          /\ Go(h, [pc |-> "cancel", edit |-> NoEdit, id |-> i])
    /\ UNCHANGED <<vars, drafts, drawn, countdowns, started, honoured>>

\* CancelRoomPendingStart refuses a consumed countdown.
CancelPendingStart(h) ==
    /\ calls[h].pc = "cancel"
    /\ countdowns' = Cancelled({calls[h].id} \ {i \in Ids : countdowns[i].state = "consumed"})
    /\ Answer(h)
    /\ UNCHANGED <<vars, drafts, drawn, started, quota>>

-----------------------------------------------------------------------------
\* The handler reads the room, the draft (or stores the default one) and its
\* clock, by which countdowns are overdue or not.
BeginGameStart(h) ==
    LET g == room.selected
        revision == IF drafts[g] = 0 THEN 1 ELSE drafts[g]
    IN  /\ Accept(h, "begin")
        /\ AdmissionMutable(room)
        /\ drawn < MaxCountdowns
        /\ drawn' = drawn + 1
        /\ drafts' = [drafts EXCEPT ![g] = revision]
        /\ Go(h, [pc |-> "begin", id |-> drawn + 1, game |-> g, revision |-> revision, fence |-> Fence(room),
                  overdue |-> {i \in Ids : countdowns[i].due}])
        /\ UNCHANGED <<vars, countdowns, started, honoured>>

\* BeginPendingStart: overdue countdowns are cancelled, and the unique index
\* refuses a second active one.
BeginPendingStart(h) ==
    LET call == calls[h]
        overdue == {i \in call.overdue : Active(i)}
    IN  /\ call.pc = "begin"
        /\ call.fence = Fence(room)
        /\ \A i \in Ids : Active(i) => i \in overdue
        /\ countdowns' = [Cancelled(overdue) EXCEPT ![call.id] =
               [state |-> "active", due |-> FALSE, game |-> call.game, revision |-> call.revision,
                fence |-> call.fence, seats |-> SeatsOf(room)]]
        /\ Go(h, Idle)
        /\ UNCHANGED <<vars, drafts, drawn, started, honoured, quota>>

\* The deadline passes; that of a cancelled countdown changes nothing.
Elapse(i) ==
    /\ Active(i) /\ ~countdowns[i].due
    /\ countdowns' = [countdowns EXCEPT ![i].due = TRUE]
    /\ UNCHANGED <<vars, drafts, drawn, calls, started, honoured, quota>>

-----------------------------------------------------------------------------
\* Faulty variant: the draft is not read again.
PreparableAnyDraft(i) ==
    /\ Latest(i) /\ countdowns[i].due
    /\ countdowns[i].game = room.selected
    /\ countdowns[i].fence = Fence(room)

\* prepareStart: the latest countdown, run out, of the room and the draft as
\* they are; whether it was cancelled is left to the transaction.
Preparable(i) ==
    /\ Latest(i) /\ countdowns[i].due
    /\ countdowns[i].game = room.selected
    /\ countdowns[i].fence = Fence(room)
    /\ countdowns[i].revision = drafts[room.selected]

PrepareStart(h) ==
    /\ Accept(h, "start")
    /\ \E i \in Ids : Preparable(i) /\ Go(h, [pc |-> "start", id |-> i])
    /\ UNCHANGED <<vars, drafts, drawn, countdowns, started, honoured>>

\* Faulty variant: the room may have moved on.
RoomAsAnnouncedAnyVersion(i) == TRUE

\* The room is the one read, by sameRoomSnapshot, and the one the countdown
\* was begun for, by ConsumeRoomPendingStart.
RoomAsAnnounced(i) == countdowns[i].fence = Fence(room)

\* ConsumeRoomPendingStart accepts a countdown consumed before: only the room's
\* version stands between it and a second game.
StartFromCountdown(h) ==
    LET i == calls[h].id
    IN  /\ calls[h].pc = "start"
        /\ RoomAsAnnounced(i)
        /\ countdowns[i].state # "cancelled" /\ countdowns[i].due
        /\ StartGame
        /\ countdowns' = [countdowns EXCEPT ![i].state = "consumed"]
        /\ started' = started \cup {<<room'.session, i>>}
        /\ Go(h, Idle)
        /\ UNCHANGED <<drafts, drawn, honoured, quota>>

\* A call ends early: a fence refused it, its process stopped, or the error of
\* cancelPendingForRoom was dropped.
Fail(h) ==
    /\ calls[h] # Idle
    /\ Go(h, Idle)
    /\ UNCHANGED <<vars, drafts, drawn, countdowns, started, honoured, quota>>

-----------------------------------------------------------------------------
Handler(h) ==
    \/ RoomCommand(h) \/ TransferCommand(h) \/ UpdateGameConfig(h)
    \/ NothingPending(h) \/ FindPending(h) \/ CancelGameStart(h) \/ CancelPendingStart(h)
    \/ BeginGameStart(h) \/ BeginPendingStart(h)
    \/ PrepareStart(h) \/ StartFromCountdown(h) \/ Fail(h)

StartNext ==
    \/ OtherCommand
    \/ \E h \in Handlers : Handler(h)
    \/ \E i \in Ids : Elapse(i)

StartSpec == StartInit /\ [][StartNext]_startVars

-----------------------------------------------------------------------------
\* A countdown starts one game at most, however many calls to start were let
\* through by prepareStart before the first of them committed.
CountdownStartsOnce ==
    \A p, q \in started : p[2] = q[2] => p = q

\* A game that starts from a countdown is the one everybody saw announced: the
\* host, the seats and the game of the moment it began, and rules no older than
\* an edit whose handler has answered after cancelling what it found.
StartsAsAnnounced ==
    [][\A p \in started' \ started :
          LET c == countdowns[p[2]]
          IN  /\ c.seats = frozen'
              /\ c.fence.host = room'.host
              /\ c.game = room'.selected
              /\ c.revision >= honoured[c.game]]_startVars
=============================================================================
