------------------------------ MODULE Dice789 ------------------------------
(***************************************************************************)
(* The rule engine of dice 789 (games/dice-789/engine) and what its codec  *)
(* does to a state on its way through a snapshot (games/dice-789/module).  *)
(* As in LiarsDice an operation is the set of the states it can return,    *)
(* empty where the code returns an error.                                  *)
(*                                                                         *)
(* The layers of the pool are poolFromTotal of its total, so the total is  *)
(* the state; the sum of the dice is the sum of the dice.                  *)
(***************************************************************************)
EXTENDS Integers, FiniteSets

CONSTANTS
    Seats,      \* 1..n, the frozen players in seat order
    DicePairs   \* the rolls that happen: pairs of faces

NoSeat == 0

NoDice == <<0, 0>>

MinimumPlayers == 2

NoSettlement ==
    [turn |-> 0, source |-> NoSeat, dice |-> NoDice, result |-> "none",
     target |-> NoSeat, before |-> 0, after |-> 0, effect |-> 0,
     payer |-> NoSeat, penalty |-> 0, dirBefore |-> 0, dirAfter |-> 0,
     next |-> NoSeat, reason |-> "none"]

-----------------------------------------------------------------------------
(* Seats, time and the pool. *)

\* The next active seat after `seat' in the current direction, possibly itself.
nextActiveUser(s, seat) ==
    LET n == Cardinality(Seats)
        distance(x) == LET d == (s.direction * (x - seat)) % n IN IF d = 0 THEN n ELSE d
    IN  CHOOSE x \in s.active : \A y \in s.active : distance(x) <= distance(y)

deadlineUnixMillis(now, timeout) == IF timeout = 0 THEN 0 ELSE now + timeout

HalfCeil(ticks) == (ticks \div 2) + (ticks % 2)

totalCapacity(config) == config.layerCapacity * config.maxLayers

\* The amounts a player may add, and the one a timeout adds.
validateAddAmount(s, amount) ==
    LET remaining == totalCapacity(s.config) - s.pool
    IN  IF remaining < s.config.addStep
        THEN amount = remaining
        ELSE \/ amount = remaining
             \/ amount \in 1 .. remaining /\ amount % s.config.addStep = 0

minimumAddAmount(s) ==
    LET remaining == totalCapacity(s.config) - s.pool
    IN  IF remaining < s.config.addStep THEN remaining ELSE s.config.addStep

selectResult(config, dice) ==
    LET sum == IF config.lastDigitMatch THEN (dice[1] + dice[2]) % 10 ELSE dice[1] + dice[2]
        pair == dice[1] = dice[2]
    IN  CASE pair /\ dice[1] = 1 /\ config.doubleOneEnabled  -> "double_one"
          [] pair /\ dice[1] = 4 /\ config.doubleFourEnabled -> "double_four"
          [] pair /\ dice[1] = 6 /\ config.doubleSixEnabled  -> "double_six"
          [] OTHER ->
                CASE pair /\ config.ordinaryPairsReverse -> "ordinary_pair"
                  [] OTHER -> CASE sum = 7 -> "seven"
                                [] sum = 8 -> "eight"
                                [] sum = 9 -> "nine"
                                [] OTHER   -> "other"

-----------------------------------------------------------------------------
(* Turns. *)

startTurn(s, actor, now) ==
    IF actor \notin s.active
    THEN {}
    ELSE {[s EXCEPT !.phase = "awaiting_roll", !.current = actor, !.source = NoSeat,
                    !.target = NoSeat, !.dice = NoDice, !.pending = "none",
                    !.pendingPool = 0, !.pendingDirection = 0,
                    !.deadline = deadlineUnixMillis(now, s.config.timeout)]}

NewState(config, host, startingSeat, now) ==
    startTurn([phase |-> "awaiting_roll", turn |-> 1, host |-> host, config |-> config,
               active |-> Seats, penalty |-> [x \in Seats |-> 0], current |-> NoSeat,
               source |-> NoSeat, target |-> NoSeat, direction |-> 1,
               pool |-> config.initialPool, dice |-> NoDice, pending |-> "none",
               pendingPool |-> 0, pendingDirection |-> 0, deadline |-> 0,
               settlement |-> NoSettlement, finish |-> "none"],
              startingSeat, now)

finishTurn(s, source, nextActor, now) ==
    LET next == IF nextActor = NoSeat THEN nextActiveUser(s, source) ELSE nextActor
    IN  startTurn([s EXCEPT !.settlement.next = next,
                            !.settlement.dirAfter = s.direction,
                            !.turn = @ + 1],
                  next, now)

settlementFromState(s, override, target, reason) ==
    LET result  == IF override = "none" THEN s.pending ELSE override
        source  == IF s.source = NoSeat THEN s.current ELSE s.source
        adding  == result \in {"seven", "double_six"}
        drinker == IF result \in {"eight", "nine", "double_four", "dropped"} THEN source
                   ELSE IF result = "double_one" THEN target ELSE NoSeat
        effect  == IF adding THEN s.pool - s.pendingPool
                   ELSE IF drinker # NoSeat THEN s.pendingPool - s.pool ELSE 0
    IN  [turn |-> s.turn, source |-> source, dice |-> s.dice, result |-> result,
         target |-> target, before |-> s.pendingPool, after |-> s.pool,
         effect |-> effect, payer |-> drinker,
         penalty |-> IF drinker # NoSeat THEN effect ELSE 0,
         dirBefore |-> IF s.pendingDirection = 0 THEN s.direction ELSE s.pendingDirection,
         dirAfter |-> s.direction, next |-> NoSeat, reason |-> reason]

\* addPenalty and setPoolTotal: `user' drinks `amount' out of the pool.
drink(s, user, amount) ==
    IF user \in s.active
    THEN {[s EXCEPT !.penalty[user] = @ + amount, !.pool = @ - amount]}
    ELSE {}

Settled(s, override, target, reason) ==
    [s EXCEPT !.settlement = settlementFromState(s, override, target, reason)]

AwaitContinue(s, now) ==
    [s EXCEPT !.phase = "awaiting_continue", !.current = s.source, !.target = NoSeat,
              !.deadline = deadlineUnixMillis(now, s.config.timeout)]

applyDrinkAndContinue(s, amount, reason, now) ==
    {AwaitContinue(Settled(next, "none", NoSeat, reason), now) : next \in drink(s, s.source, amount)}

\* The selected effect of a roll that landed.
applyLanded(s, now) ==
    LET deadline == deadlineUnixMillis(now, s.config.timeout)
        many     == Cardinality(s.active) >= 3
        turned   == IF many THEN [s EXCEPT !.direction = -@] ELSE s
    IN  CASE s.pending = "seven" /\ s.pool = totalCapacity(s.config) ->
                {[Settled([s EXCEPT !.current = s.source], "none", NoSeat, "seven_add")
                    EXCEPT !.phase = "awaiting_continue", !.deadline = deadline]}
          [] s.pending = "seven" /\ s.pool # totalCapacity(s.config) ->
                {[s EXCEPT !.phase = "awaiting_add", !.current = s.source,
                           !.deadline = deadline]}
          [] s.pending = "eight" -> applyDrinkAndContinue(s, HalfCeil(s.pool), "eight", now)
          [] s.pending = "nine"  -> applyDrinkAndContinue(s, s.pool, "nine", now)
          [] s.pending \in {"double_one", "double_six"} ->
                {[s EXCEPT !.phase = "awaiting_target", !.current = s.source,
                           !.deadline = deadline]}
          [] s.pending = "double_four" ->
                UNION {finishTurn(Settled(next, "none", NoSeat, "double_four"), s.source, s.source, now) :
                           next \in drink(s, s.source, HalfCeil(s.pool))}
          [] s.pending = "ordinary_pair" ->
                finishTurn(Settled(turned, "none", NoSeat, "ordinary_pair"), s.source,
                           IF Cardinality(s.active) = 2 THEN s.source ELSE NoSeat, now)
          [] OTHER ->
                finishTurn(Settled(s, "none", NoSeat, "pass"), s.source, NoSeat, now)

finishState(s, reason) ==
    [s EXCEPT !.phase = "finished", !.finish = reason, !.current = NoSeat,
              !.source = NoSeat, !.target = NoSeat, !.dice = NoDice, !.deadline = 0,
              !.pending = "none", !.pendingPool = 0, !.pendingDirection = 0]

-----------------------------------------------------------------------------
(* Operations.  `timer' is TRUE where a due timer acts for the player. *)

validateActor(s, actor, phase, now, timer) ==
    /\ s.phase = phase
    /\ actor = s.current
    /\ actor \in s.active
    /\ timer \/ s.deadline = 0 \/ now < s.deadline

validateHost(s, actor, now) ==
    /\ s.phase = "result_pending"
    /\ actor = s.host
    /\ actor \in s.active
    /\ now < s.deadline

Roll(s, actor, now) ==
    IF ~validateActor(s, actor, "awaiting_roll", now, FALSE)
    THEN {}
    ELSE {[s EXCEPT !.phase = "result_pending", !.source = actor, !.current = actor,
                    !.target = NoSeat, !.dice = dice,
                    !.pending = selectResult(s.config, dice), !.pendingPool = s.pool,
                    !.pendingDirection = s.direction,
                    !.deadline = deadlineUnixMillis(now, s.config.dropWindow)] :
             dice \in DicePairs}

ConfirmLanded(s, actor, now) ==
    IF validateHost(s, actor, now) THEN applyLanded(s, now) ELSE {}

ReportDropped(s, actor, now) ==
    IF ~validateHost(s, actor, now)
    THEN {}
    ELSE UNION {finishTurn(Settled(next, "dropped", s.source, "dropped"), s.source, NoSeat, now) :
                    next \in drink(s, s.source, s.pool)}

addToPool(s, actor, amount, now, timer) ==
    LET next   == [s EXCEPT !.pool = @ + amount]
        reason == IF timer THEN "timeout_add" ELSE "double_six_add"
    IN  IF ~validateActor(s, actor, "awaiting_add", now, timer) \/ ~validateAddAmount(s, amount)
        THEN {}
        ELSE IF s.pending = "double_six"
        THEN finishTurn(Settled(next, "none", s.target, reason), s.source, NoSeat, now)
        ELSE {AwaitContinue(Settled(next, "none", NoSeat, "seven_add"), now)}

AddToPool(s, actor, now) ==
    UNION {addToPool(s, actor, amount, now, FALSE) : amount \in 0 .. totalCapacity(s.config)}

chooseTarget(s, actor, target, now, timer) ==
    LET next   == [s EXCEPT !.target = target]
        reason == IF timer THEN "timeout_target" ELSE "double_one"
    IN  IF \/ ~validateActor(s, actor, "awaiting_target", now, timer)
           \/ target = actor
           \/ target \notin s.active
        THEN {}
        ELSE IF s.pending = "double_one"
        THEN UNION {finishTurn(Settled(drunk, "none", target, reason), actor, target, now) :
                        drunk \in drink(next, target, s.pool)}
        ELSE {[next EXCEPT !.current = target, !.phase = "awaiting_add",
                           !.deadline = deadlineUnixMillis(now, s.config.timeout)]}

ChooseTarget(s, actor, now) ==
    UNION {chooseTarget(s, actor, target, now, FALSE) : target \in Seats}

continueTurn(s, actor, reroll, now, timer) ==
    LET reason == IF timer THEN (IF reroll THEN "timeout_reroll" ELSE "timeout_pass")
                  ELSE (IF reroll THEN "reroll" ELSE "pass")
    IN  IF \/ ~validateActor(s, actor, "awaiting_continue", now, timer)
           \/ reroll /\ s.config.continueMode = "forced_pass"
           \/ ~reroll /\ s.config.continueMode = "forced_reroll"
        THEN {}
        ELSE finishTurn(Settled(s, "none", NoSeat, reason), actor,
                        IF reroll THEN actor ELSE NoSeat, now)

Reroll(s, actor, now) == continueTurn(s, actor, TRUE, now, FALSE)

Pass(s, actor, now) == continueTurn(s, actor, FALSE, now, FALSE)

CurrentTimer(s) ==
    IF s.phase = "finished" \/ s.deadline = 0
    THEN {}
    ELSE {[turn |-> s.turn, phase |-> s.phase, current |-> s.current, source |-> s.source,
           target |-> s.target, pending |-> s.pending, deadline |-> s.deadline]}

HandleTimeout(s, token, now) ==
    IF token \notin CurrentTimer(s) \/ now < s.deadline
    THEN {}
    ELSE CASE s.phase = "awaiting_roll" ->
                LET next == [s EXCEPT !.source = s.current, !.pending = "roll_timeout",
                                      !.pendingPool = s.pool, !.pendingDirection = s.direction]
                IN  finishTurn(Settled(next, "roll_timeout", NoSeat, "roll_timeout"),
                               s.current, NoSeat, now)
           [] s.phase = "result_pending"    -> applyLanded(s, now)
           [] s.phase = "awaiting_add"      -> addToPool(s, s.current, minimumAddAmount(s), now, TRUE)
           [] s.phase = "awaiting_target"   -> chooseTarget(s, s.source, nextActiveUser(s, s.source), now, TRUE)
           [] s.phase = "awaiting_continue" ->
                continueTurn(s, s.source, s.config.continueMode = "forced_reroll", now, TRUE)

RevokeParticipant(s, user, now) ==
    LET next    == [s EXCEPT !.active = @ \ {user}]
        rolling == s.phase = "awaiting_roll"
        origin  == IF rolling
                   THEN [next EXCEPT !.source = user, !.pendingPool = s.pool,
                                     !.pendingDirection = s.direction]
                   ELSE next
    IN  CASE s.phase = "finished" \/ user \notin s.active -> {}
          [] OTHER ->
             CASE Cardinality(next.active) < MinimumPlayers ->
                    {finishState(next, "insufficient_participants")}
               [] OTHER ->
                  CASE s.phase = "awaiting_add" /\ s.pending = "double_six" /\ user = s.target ->
                         {[next EXCEPT !.target = NoSeat, !.current = s.source,
                                       !.phase = "awaiting_target",
                                       !.deadline = deadlineUnixMillis(now, s.config.timeout)]}
                    [] s.phase = "awaiting_continue" /\ user = s.source ->
                         finishTurn(Settled(next, "none", NoSeat, "source_revoked_after_effect"),
                                    user, NoSeat, now)
                    [] s.phase # "awaiting_continue" /\ (user = s.source \/ (rolling /\ user = s.current)) ->
                         finishTurn(Settled(origin, "cancelled", NoSeat, "cancelled"),
                                    user, NoSeat, now)
                    [] OTHER -> {next}

Finish(s) ==
    IF s.phase = "finished"
    THEN {}
    ELSE {finishState(s, reason) : reason \in {"host_requested", "platform_cancelled"}}

-----------------------------------------------------------------------------
(* Validation. *)

deadlineMatches(s, timeout) == (timeout = 0) <=> (s.deadline = 0)

RollResults ==
    {"seven", "eight", "nine", "double_one", "double_four", "double_six",
     "ordinary_pair", "other"}

validatePhase(s) ==
    LET rolled == s.dice # NoDice
    IN  \/ /\ s.phase = "awaiting_roll"
           /\ s.source = NoSeat /\ s.target = NoSeat /\ ~rolled /\ s.pending = "none"
           /\ s.pendingPool = 0 /\ s.pendingDirection = 0
           /\ deadlineMatches(s, s.config.timeout)
        \/ /\ s.phase = "result_pending"
           /\ s.source = s.current /\ s.source \in s.active /\ s.target = NoSeat /\ rolled
           /\ s.pending \in RollResults
           /\ s.pendingPool = s.pool
           /\ s.pendingDirection # 0
           /\ deadlineMatches(s, s.config.dropWindow)
        \/ /\ s.phase = "awaiting_add"
           /\ rolled /\ s.source \in s.active /\ s.pendingDirection # 0
           /\ \/ s.pending = "seven" /\ s.target = NoSeat /\ s.current = s.source
              \/ s.pending = "double_six" /\ s.target = s.current /\ s.target # s.source
           /\ deadlineMatches(s, s.config.timeout)
        \/ /\ s.phase = "awaiting_target"
           /\ rolled /\ s.current = s.source /\ s.source \in s.active /\ s.target = NoSeat
           /\ s.pendingDirection # 0
           /\ s.pending \in {"double_one", "double_six"}
           /\ deadlineMatches(s, s.config.timeout)
        \/ /\ s.phase = "awaiting_continue"
           /\ rolled /\ s.current = s.source /\ s.source \in s.active /\ s.target = NoSeat
           /\ s.pendingDirection # 0
           /\ s.pending \in {"seven", "eight", "nine"}
           /\ s.pendingPool <= totalCapacity(s.config)
           /\ s.settlement.turn = s.turn
           /\ deadlineMatches(s, s.config.timeout)

validateSettlement(s) ==
    LET t       == s.settlement
        partial == /\ t.turn = s.turn
                   /\ t.next = NoSeat
                   /\ t.result \in {"seven", "eight", "nine"}
                   /\ s.phase \in {"awaiting_continue", "finished"}
        adding  == t.result \in {"seven", "double_six"}
        drinking == t.result \in {"eight", "nine", "double_one", "double_four", "dropped"}
    IN  IF t.turn = 0
        THEN t = NoSettlement
        ELSE /\ t.turn < s.turn \/ partial
             /\ t.source \in Seats
             /\ t.next \in Seats \/ partial
             /\ t.result \in RollResults \cup {"dropped", "roll_timeout", "cancelled"}
             /\ t.result = "roll_timeout" => t.dice = NoDice
             /\ t.dice = NoDice => t.result \in {"roll_timeout", "cancelled"}
             /\ t.dirBefore # 0 /\ t.dirAfter # 0
             /\ t.before <= totalCapacity(s.config) /\ t.after <= totalCapacity(s.config)
             /\ drinking => t.payer # NoSeat /\ t.penalty = t.effect /\ t.before - t.after = t.effect
                            /\ t.effect >= 0
             /\ adding => t.payer = NoSeat /\ t.penalty = 0 /\ t.after - t.before = t.effect
                          /\ t.effect >= 0
             /\ ~drinking /\ ~adding => t.effect = 0 /\ t.penalty = 0 /\ t.payer = NoSeat
                                        /\ t.before = t.after

\* State.Validate: what every stored snapshot passes on its way in and out.
Validate(s) ==
    /\ s.turn # 0
    /\ s.direction \in {1, -1}
    /\ s.host \in Seats
    /\ s.pool \in 0 .. totalCapacity(s.config)
    /\ validateSettlement(s)
    /\ IF s.phase = "finished"
       THEN s = finishState(s, s.finish) /\ s.finish # "none"
       ELSE /\ s.finish = "none"
            /\ Cardinality(s.active) >= MinimumPlayers
            /\ s.current \in s.active
            /\ validatePhase(s)

-----------------------------------------------------------------------------
(* The codec.  A snapshot has no field for the pool and the direction at   *)
(* the start of the pending effect, none for the effect of a settlement,   *)
(* and one word for three results: stateFromProto works them out again.    *)

resultToProto(result) ==
    IF result \in {"other", "roll_timeout", "cancelled"} THEN "effect_pass" ELSE result

resultFromProto(effect) == IF effect = "effect_pass" THEN "other" ELSE effect

stateToProto(s) ==
    [s EXCEPT !.pendingPool = 0, !.pendingDirection = 0,
              !.pending = resultToProto(@),
              !.settlement.effect = 0,
              !.settlement.result = resultToProto(@)]

settlementFromProto(t) ==
    LET result == IF t.reason \in {"roll_timeout", "cancelled"} THEN t.reason
                  ELSE resultFromProto(t.result)
        effect == IF t.before >= t.after THEN t.before - t.after ELSE t.after - t.before
    IN  [t EXCEPT !.result = result, !.effect = effect]

pendingStart(s) ==
    CASE s.phase \in {"awaiting_roll", "finished"} -> <<0, 0>>
      [] s.phase = "awaiting_continue" /\ s.settlement.turn = s.turn ->
            <<s.settlement.before, s.settlement.dirBefore>>
      [] OTHER -> <<s.pool, s.direction>>

stateFromProto(s) ==
    LET start == pendingStart(s)
    IN  [s EXCEPT !.pending = resultFromProto(@),
                  !.settlement = settlementFromProto(@),
                  !.pendingPool = start[1], !.pendingDirection = start[2]]

EncodeState(s) == {stateToProto(t) : t \in {u \in {s} : Validate(u)}}

DecodeState(snapshot) ==
    {s \in {stateFromProto(snapshot)} : Validate(s) /\ stateToProto(s) = snapshot}

-----------------------------------------------------------------------------
(* The module interface. *)

HandleCommand(s, actor, now) ==
    UNION {Roll(s, actor, now), ConfirmLanded(s, actor, now), ReportDropped(s, actor, now),
           AddToPool(s, actor, now), ChooseTarget(s, actor, now), Reroll(s, actor, now),
           Pass(s, actor, now)}

\* A pause moves the deadline of the state to the shifted due time.
AdjustResumed(s, due) == [s EXCEPT !.deadline = due]
=============================================================================
