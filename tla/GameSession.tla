---------------------------- MODULE GameSession ----------------------------
(***************************************************************************)
(* One session of one of the four games, as the game modules of the SDK    *)
(* run it (games/*/module/module.go): every entry point decodes the stored *)
(* snapshot, applies an operation of the engine, encodes the result and    *)
(* replaces the timer.  The runtime around it (modelled in GameRuntime and *)
(* SessionClock) applies one transition at a time, to active sessions, and *)
(* pauses and resumes them.                                                *)
(***************************************************************************)
EXTENDS Integers, FiniteSets, FiniteSetsExt, Sequences

CONSTANTS
    Seats,       \* players of liar's dice, dice 789 and three rounds
    MeetSeats,   \* players of meet-by-chance
    StartingSeats,\* seats that begin in liar's dice and dice 789
    Rolls,       \* private rolls of liar's dice
    MaxQuantity, \* bound on the quantity of a bid
    DicePairs,   \* rolls of dice 789
    TableRolls,  \* rolls of meet-by-chance
    Deals,       \* deals of three rounds
    Submissions, \* card sets submitted in three rounds
    Configs,     \* game -> its frozen configurations
    MaxNow,      \* game -> bound on the clock
    MaxRound     \* game -> bound on its rounds or turns

LD == INSTANCE LiarsDice

D789 == INSTANCE Dice789

MBC == INSTANCE MeetByChance WITH Seats <- MeetSeats

TR == INSTANCE ThreeRounds

VARIABLES
    game,       \* the game that is played
    state,      \* the stored snapshot
    timer,      \* the stored timer: at most one [due, token]
    now,        \* the clock
    status,     \* "active", "suspended" or "completed"
    suspendedAt,\* when the current pause began
    reply       \* outcome of the last transition: "stored" or "unstorable"

vars == <<game, state, timer, now, status, suspendedAt, reply>>

Players == IF game = "meet_by_chance" THEN MeetSeats ELSE Seats

-----------------------------------------------------------------------------
(* The engines behind the module interface. *)

Create(g, config, at) ==
    CASE g = "liars_dice"     -> UNION {LD!NewState(config, seat, at) : seat \in StartingSeats}
      [] g = "dice_789"       -> UNION {D789!NewState(config, host, seat, at) :
                                            host \in Seats, seat \in StartingSeats}
      [] g = "meet_by_chance" -> MBC!NewState(config, at)
      [] g = "three_rounds"   -> TR!NewState(config, at)

\* The snapshot of a state: none if it is not a valid one.
EncodeState(s) ==
    CASE game = "liars_dice"     -> LD!EncodeState(s)
      [] game = "dice_789"       -> D789!EncodeState(s)
      [] game = "meet_by_chance" -> MBC!EncodeState(s)
      [] game = "three_rounds"   -> TR!EncodeState(s)

\* The state that a snapshot stands for: none if it is refused.
DecodeState(snapshot) ==
    CASE game = "liars_dice"     -> LD!DecodeState(snapshot)
      [] game = "dice_789"       -> D789!DecodeState(snapshot)
      [] game = "meet_by_chance" -> MBC!DecodeState(snapshot)
      [] game = "three_rounds"   -> TR!DecodeState(snapshot)

CurrentTimer(s) ==
    CASE game = "liars_dice"     -> LD!CurrentTimer(s)
      [] game = "dice_789"       -> D789!CurrentTimer(s)
      [] game = "meet_by_chance" -> MBC!CurrentTimer(s)
      [] game = "three_rounds"   -> TR!CurrentTimer(s)

\* The results of the commands that `actor' may send.
CommandResults(s, actor) ==
    CASE game = "liars_dice"     -> LD!HandleCommand(s, actor, now)
      [] game = "dice_789"       -> D789!HandleCommand(s, actor, now)
      [] game = "meet_by_chance" -> MBC!HandleCommand(s, actor, now)
      [] game = "three_rounds"   -> TR!HandleCommand(s, actor, now)

TimeoutResults(s, token) ==
    CASE game = "liars_dice"     -> LD!HandleTimeout(s, token, now)
      [] game = "dice_789"       -> D789!HandleTimeout(s, token, now)
      [] game = "meet_by_chance" -> MBC!HandleTimeout(s, token, now)
      [] game = "three_rounds"   -> TR!HandleTimeout(s, token, now)

RevokeResults(s, user) ==
    CASE game = "liars_dice"     -> LD!RevokeParticipant(s, user, now)
      [] game = "dice_789"       -> D789!RevokeParticipant(s, user, now)
      [] game = "meet_by_chance" -> MBC!RevokeParticipant(s, user, now)
      [] game = "three_rounds"   -> TR!RevokeParticipant(s, user, now)

FinishResults(s) ==
    CASE game = "liars_dice"     -> LD!Finish(s)
      [] game = "dice_789"       -> D789!Finish(s)
      [] game = "meet_by_chance" -> MBC!Finish(s)
      [] game = "three_rounds"   -> TR!Finish(s)

AdjustedState(s, due) ==
    CASE game = "liars_dice"     -> LD!AdjustResumed(s, due)
      [] game = "dice_789"       -> D789!AdjustResumed(s, due)
      [] game = "meet_by_chance" -> MBC!AdjustResumed(s, due)
      [] game = "three_rounds"   -> TR!AdjustResumed(s, due)

Round(s) ==
    CASE game = "dice_789" -> s.turn [] OTHER -> s.round

-----------------------------------------------------------------------------
(* Transitions. *)

\* The replacement timer: due at the deadline, or at once if that has passed.
ReplacementTimer(s) ==
    {[due |-> Max({token.deadline, now}), token |-> token] : token \in CurrentTimer(s)}

\* transition: a result is stored with its timer, unless it cannot be encoded.
Transition(next) ==
    \/ \E snapshot \in EncodeState(next) :
          /\ state' = snapshot
          /\ timer' = ReplacementTimer(next)
          /\ status' = IF next.phase = "finished" THEN "completed" ELSE "active"
          /\ reply' = "stored"
          /\ UNCHANGED <<game, now, suspendedAt>>
    \/ /\ EncodeState(next) = {}
       /\ reply' = "unstorable"
       /\ UNCHANGED <<game, state, timer, now, status, suspendedAt>>

Apply(results) ==
    \E next \in results :
        /\ Round(next) <= MaxRound[game]
        /\ Transition(next)

Init ==
    /\ now = 1
    /\ game \in DOMAIN Configs
    /\ status = "active"
    /\ suspendedAt = 0
    /\ reply = "stored"
    /\ \E config \in Configs[game] : \E s \in Create(game, config, now) :
          /\ state \in EncodeState(s)
          /\ timer = ReplacementTimer(s)

HandleCommand(s, actor) == Apply(CommandResults(s, actor))

\* The runtime hands a due timer with its payload to the module.
HandleTimer(s) ==
    \E t \in timer :
        /\ t.due <= now
        /\ Apply(TimeoutResults(s, t.token))

HandleParticipantRevoked(s, user) == Apply(RevokeResults(s, user))

HandleFinish(s) == Apply(FinishResults(s))

\* Every entry point works on the state that the stored snapshot decodes to.
Handle ==
    /\ status = "active"
    /\ \E s \in DecodeState(state) :
          \/ \E actor \in Players : HandleCommand(s, actor)
          \/ HandleTimer(s)
          \/ \E user \in Players : HandleParticipantRevoked(s, user)
          \/ HandleFinish(s)

Suspend ==
    /\ status = "active"
    /\ status' = "suspended"
    /\ suspendedAt' = now
    /\ UNCHANGED <<game, state, timer, now, reply>>

\* Faulty variant: the payload of the timer keeps the deadline from before the pause.
AdjustResumedStateOnly(s, t) ==
    /\ state' \in EncodeState(AdjustedState(s, t.due))
    /\ timer' = {t}

\* AdjustResumed: the shifted due time becomes the deadline of the state and
\* of the timer's payload.
AdjustResumed(s, t) ==
    /\ state' \in EncodeState(AdjustedState(s, t.due))
    /\ timer' = {[t EXCEPT !.token.deadline = t.due]}

Resume ==
    /\ status = "suspended"
    /\ status' = "active"
    /\ suspendedAt' = 0
    /\ LET shifted == {[t EXCEPT !.due = @ + (now - suspendedAt)] : t \in timer}
       IN  \E s \in DecodeState(state) :
              \/ CurrentTimer(s) = {} /\ timer' = shifted /\ UNCHANGED state
              \/ \E t \in shifted : CurrentTimer(s) # {} /\ AdjustResumed(s, t)
    /\ UNCHANGED <<game, now, reply>>

Tick ==
    /\ now < MaxNow[game]
    /\ now' = now + 1
    /\ UNCHANGED <<game, state, timer, status, suspendedAt, reply>>

Next ==
    \/ Handle
    \/ Suspend
    \/ Resume
    \/ Tick

Spec == Init /\ [][Next]_vars

-----------------------------------------------------------------------------
(* Properties. *)

\* Every stored snapshot can be read again: what the engine produced, whatever
\* the codec leaves out of it and a pause does to its deadline, decodes to
\* exactly one state that Validate accepts (DecodeState of the four modules).
SnapshotRestores == Cardinality(DecodeState(state)) = 1

\* The timer of an active session is the one its state asks for, and once due
\* it applies: no move, removal of a player, pause or resume leaves a session
\* with a timer that the engine will refuse for ever (HandleTimeout compares
\* the whole token).
DueTimerApplies ==
    status = "active" =>
        \A s \in DecodeState(state) :
            /\ {t.token : t \in timer} = CurrentTimer(s)
            /\ \A t \in timer : t.due <= now =>
                  \E next \in TimeoutResults(s, t.token) : EncodeState(next) # {}

\* A result of a legal operation that State.Validate refuses to store is a move
\* lost.  There are two such cases: a reroll of meet-by-chance in a round whose
\* match resolution was capped before (validateMatchHistory), and the end of
\* three rounds, by its host or for want of players, while somebody's cards
\* are selected and not yet shown (finishWithReason keeps the selection).
OnlyKnownMovesLost ==
    reply = "unstorable" =>
        \/ /\ game = "meet_by_chance"
           /\ \E i \in DOMAIN state.history : state.history[i].capped
        \/ /\ game = "three_rounds"
           /\ \E x \in state.active : state.pending[x] # {}

\* What a player has on its account: ticks, or in three rounds its cards and wins.
Account(s, x) ==
    IF game = "three_rounds"
    THEN <<s.remaining[x], [r \in 1 .. 3 |-> s.cards[r][x]], {r \in 1 .. 3 : x \in s.won[r]}>>
    ELSE s.penalty[x]

\* No account changes behind the players' backs.  A removed player is out of
\* the game: nothing that happens afterwards touches its account, with the one
\* exception in liar's dice of the bid that a removed player left standing and
\* somebody opens (settleAndRestart).  Dice 789 keeps its books over a whole
\* turn: drinks come out of the pool, only an addition to it makes more, and
\* the settlement recorded when the effect was applied is the one the turn ends
\* with, though the snapshots in between do not hold the pool the turn began
\* with (pendingStart).
AccountsKept ==
    [][/\ \A x \in Players \ state.active :
             \/ Account(state', x) = Account(state, x)
             \/ game = "liars_dice" /\ state.bidder = x /\ state'.settlement.loser = x
       /\ game = "dice_789" =>
             LET total(s)  == s.pool + MapThenSumSet(LAMBDA x : s.penalty[x], Seats)
                 figures(s) == <<s.settlement.turn, s.settlement.source, s.settlement.result,
                                 s.settlement.before, s.settlement.after, s.settlement.payer,
                                 s.settlement.penalty, s.settlement.dirBefore>>
             IN  /\ total(state') # total(state) =>
                       state.phase = "awaiting_add" /\ total(state') > total(state)
                 /\ state.phase = "awaiting_continue" => figures(state') = figures(state)]_vars

\* No sequence of changes between the modes lets the bids of a round go in
\* circles: each is stronger than the one before (ValidateBid).
BidsAdvance ==
    [][game = "liars_dice" /\ state'.round = state.round
          /\ state.bid # LD!NoBid /\ state'.bid # state.bid =>
            LD!Strength(state'.bid) > LD!Strength(state.bid)]_vars
=============================================================================
