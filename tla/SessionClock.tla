---------------------------- MODULE SessionClock ----------------------------
(***************************************************************************)
(* The deadline of a running game, with pauses.  Every game module keeps   *)
(* one timer; its deadline is due a delay after the move that began the    *)
(* phase.  A move that leaves the phase as it is keeps the deadline of the *)
(* state it was computed from.  Resuming shifts the deadline by the length *)
(* of the pause, in the timer, its payload and the module's state.         *)
(*                                                                         *)
(* Calls read the session, compute and commit later.  The commit compares  *)
(* version and status (and the epoch, which does not change here): a pause *)
(* and a resume in between leave both as they were.                        *)
(*                                                                         *)
(* One clock serves all processes; the microsecond that separates two      *)
(* lifecycle writes at the same reading is below its resolution.           *)
(***************************************************************************)
EXTENDS Naturals

CONSTANTS
    Workers,        \* calls of the runtime that can be under way at once
    Delay,          \* length of a phase
    MaxNow,         \* bound on the clock
    MaxVersion      \* bound on the state version

\* What the proofs need of the constants: a phase has a length.
ClockAssumption == Delay \in Nat

VARIABLES
    now,        \* the clock
    row,        \* game_sessions row with its timer
    calls,      \* worker -> the call it holds
    paused,     \* history: time spent in pauses so far
    straddled   \* history: some call was committed across a pause

vars == <<now, row, calls, paused, straddled>>

\* status       "active" or "suspended"
\* version      state version
\* due          deadline of the timer, and the one in state and payload
\* suspendedAt  when the current pause began
\* start        history: when the phase began
\* rest         history: the time spent in pauses before the phase began
NewPhase(v, at, rest) ==
    [status |-> "active", version |-> v, due |-> at + Delay, suspendedAt |-> 0,
     start |-> at, rest |-> rest]

\* kind    "scan": a timer found due; "action" or "timer": a transition to commit
\* loaded  the row that was read
\* at      the time of the call's execution
\* after   the row the transition leads to
\* resumed history: the time spent in pauses when the row was read
Idle == [kind |-> "idle"]

Init ==
    /\ now = 0
    /\ row = NewPhase(1, 0, 0)
    /\ calls = [w \in Workers |-> Idle]
    /\ paused = 0
    /\ straddled = FALSE

Tick ==
    /\ now < MaxNow
    /\ now' = now + 1
    /\ paused' = IF row.status = "suspended" THEN paused + 1 ELSE paused
    /\ UNCHANGED <<row, calls, straddled>>

-----------------------------------------------------------------------------
Hold(w, call) ==
    /\ calls' = [calls EXCEPT ![w] = call]
    /\ UNCHANGED <<now, row, paused, straddled>>

Computed(kind, after) ==
    [kind |-> kind, loaded |-> row, at |-> now, after |-> after, resumed |-> paused]

\* HandleAction: a move in time keeps the phase (SubmitSelection while others
\* have to choose) or begins the next one.
LoadAction(w) ==
    /\ calls[w] = Idle
    /\ row.status = "active"
    /\ row.version < MaxVersion
    /\ now < row.due
    /\ \E after \in {[row EXCEPT !.version = @ + 1], NewPhase(row.version + 1, now, paused)} :
          Hold(w, Computed("action", after))

\* ListDueTimers, then whatever time it takes to own the session.
Scan(w) ==
    /\ calls[w] = Idle
    /\ row.status = "active"
    /\ row.version < MaxVersion
    /\ row.due <= now
    /\ Hold(w, Computed("scan", row))

\* HandleTimer: the candidate's version and payload must be the session's, and
\* the timer due.
LoadTimer(w) ==
    /\ calls[w].kind = "scan"
    /\ row.status = "active"
    /\ row.version = calls[w].loaded.version
    /\ row.due = calls[w].loaded.due
    /\ row.due <= now
    /\ Hold(w, Computed("timer", NewPhase(row.version + 1, now, paused)))

-----------------------------------------------------------------------------
\* validateCurrentTransition.
CurrentTransition(c) == row.status = "active" /\ row.version = c.loaded.version

Persist(w) ==
    /\ row' = calls[w].after
    /\ straddled' = (straddled \/ paused # calls[w].resumed)
    /\ calls' = [calls EXCEPT ![w] = Idle]
    /\ UNCHANGED <<now, paused>>

CommitAction(w) ==
    /\ calls[w].kind = "action"
    /\ CurrentTransition(calls[w])
    /\ Persist(w)

\* GetGameSessionTimerForUpdate: the stored timer is due at the time of the
\* execution and carries the same payload.
TimerStillDue(c) == row.due <= c.at /\ row.due = c.loaded.due

CommitTimer(w) ==
    /\ calls[w].kind = "timer"
    /\ CurrentTransition(calls[w])
    /\ TimerStillDue(calls[w])
    /\ Persist(w)

\* Any call can be refused, or die.
Fail(w) ==
    /\ calls[w] # Idle
    /\ Hold(w, Idle)

\* Suspend.
Pause ==
    /\ row.status = "active"
    /\ row' = [row EXCEPT !.status = "suspended", !.suspendedAt = now]
    /\ UNCHANGED <<now, calls, paused, straddled>>

\* shiftedResumeTimers and the module's AdjustResumed.
Shifted(r) == r.due + (now - r.suspendedAt)

\* Resume: the state version stays as it is.
Resume ==
    /\ row.status = "suspended"
    /\ row' = [row EXCEPT !.status = "active", !.suspendedAt = 0, !.due = Shifted(row)]
    /\ UNCHANGED <<now, calls, paused, straddled>>

Next ==
    \/ Tick \/ Pause \/ Resume
    \/ \E w \in Workers :
          LoadAction(w) \/ Scan(w) \/ LoadTimer(w) \/ CommitAction(w) \/ CommitTimer(w) \/ Fail(w)

Spec == Init /\ [][Next]_vars

-----------------------------------------------------------------------------
Statuses == {"active", "suspended"}
RowType == [status : Statuses, version : Nat \ {0}, due : Nat,
            suspendedAt : Nat, start : Nat, rest : Nat]
CallType == [kind : {"scan", "action", "timer"}, loaded : RowType, at : Nat,
             after : RowType, resumed : Nat]

\* Clock, row and calls have their types.
TypeOK ==
    /\ now \in Nat
    /\ row \in RowType
    /\ calls \in [Workers -> {Idle} \cup CallType]
    /\ paused \in Nat
    /\ straddled \in BOOLEAN

\* What Resume promises: the deadline of a running game is the delay of its
\* phase, counted in time during which the game was not paused.
DeadlineKept ==
    row.status = "active" => row.due + row.rest = row.start + Delay + paused

\* That promise holds through any number of pauses, moves and timeouts as long
\* as no call was committed that had read the session before a pause.
DeadlineKeptByCalls == straddled \/ DeadlineKept

\* A timeout takes effect only after the players had the whole delay of the
\* phase, not counting pauses, unless a call straddled a pause before.
FullThinkingTime ==
    [][\A w \in Workers : CommitTimer(w) =>
          straddled \/ row.start + Delay + paused <= now + row.rest]_vars
=============================================================================
