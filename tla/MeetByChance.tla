---------------------------- MODULE MeetByChance ----------------------------
(***************************************************************************)
(* The rule engine of meet-by-chance (games/meet-by-chance/engine): every  *)
(* player shows three dice, equal hands are penalised and rolled again a   *)
(* bounded number of times, and the lowest hand becomes the target, who    *)
(* may roll again or stand.  As in LiarsDice an operation is the set of    *)
(* the states it can return, empty where the code returns an error.        *)
(*                                                                         *)
(* Of a match batch the history keeps its number and whether it was        *)
(* capped; of the retained rounds only the last settlement is kept.        *)
(***************************************************************************)
EXTENDS Integers, Sequences, FiniteSets, FiniteSetsExt, TLC

CONSTANTS
    Seats,      \* 1..n, the frozen players in seat order
    TableRolls  \* the rolls that happen: functions from seats to three faces

NoSeat == 0

MinimumPlayers == 3

NoSettlement == [round |-> 0]

-----------------------------------------------------------------------------
(* Hands. *)

\* Lexicographic order of two rank keys; a proper prefix is smaller.
compareKeyLess(left, right) ==
    \E i \in 1 .. Len(right) :
        /\ \A j \in 1 .. (i - 1) : j <= Len(left) /\ left[j] = right[j]
        /\ i > Len(left) \/ left[i] < right[i]

sortedFaces(raw) == SortSeq(raw, LAMBDA left, right : left < right)

straightEnabled(faces, config) ==
    /\ faces[2] = faces[1] + 1
    /\ faces[3] = faces[2] + 1
    /\ faces[3] \in config.straights

\* A hand before its raw dice and the special hand are considered.
classifyOrdinary(raw, config) ==
    LET faces  == sortedFaces(raw)
        single == IF faces[1] = faces[2] THEN faces[3] ELSE faces[1]
        hand(class, full, tie) ==
            [raw |-> raw, normalized |-> faces, class |-> class, fullKey |-> full,
             tieKey |-> tie, special |-> FALSE, context |-> "none"]
    IN  IF faces[1] = faces[3]
        THEN hand("leopard", <<4, faces[1]>>, <<4, faces[1]>>)
        ELSE IF straightEnabled(faces, config)
        THEN hand("straight", <<3, faces[3]>>, <<3, faces[3]>>)
        ELSE IF faces[2] \in {faces[1], faces[3]}
        THEN hand("pair", <<2, faces[2], single>>, <<2, faces[2]>>)
        ELSE hand("single",
                  <<1, faces[3], faces[2], faces[1], faces[1] + faces[2] + faces[3]>>,
                  <<1, faces[3]>>)

Minimum235(hand) ==
    [hand EXCEPT !.context = "minimum", !.fullKey = <<0, -1>>, !.tieKey = <<1, -1>>]

BeatsLeopards235(hand) ==
    [hand EXCEPT !.context = "beats_leopards", !.fullKey = <<5, 0>>, !.tieKey = <<5, 0>>]

\* The strongest reading of the dice, where ones may stand for any face.
Classify(raw, config) ==
    LET standsFor(face) == IF config.onesWild /\ face = 1 THEN 1 .. 6 ELSE {face}
        hands == {classifyOrdinary(<<first, second, third>>, config) :
                    first \in standsFor(raw[1]), second \in standsFor(raw[2]),
                    third \in standsFor(raw[3])}
        order(hand) == hand.fullKey \o <<hand.normalized[3], hand.normalized[2], hand.normalized[1]>>
        best  == CHOOSE hand \in hands :
                    \A other \in hands : ~compareKeyLess(order(hand), order(other))
    IN  IF config.special235 /\ sortedFaces(raw) = <<2, 3, 5>>
        THEN Minimum235([best EXCEPT !.raw = raw, !.class = "special235",
                                     !.normalized = <<2, 3, 5>>, !.special = TRUE])
        ELSE [best EXCEPT !.raw = raw]

\* One decision for the whole table: a 235 beats a table of leopards.
Resolve235Context(hands) ==
    [x \in DOMAIN hands |->
        IF ~hands[x].special
        THEN hands[x]
        ELSE IF \A other \in DOMAIN hands \ {x} : hands[other].class = "leopard"
        THEN BeatsLeopards235(hands[x])
        ELSE Minimum235(hands[x])]

CompareHandLess(left, right) == compareKeyLess(left.fullKey, right.fullKey)

ExactMatch(left, right) ==
    /\ left.normalized = right.normalized
    /\ left.class = right.class
    /\ left.fullKey = right.fullKey

-----------------------------------------------------------------------------
(* Match groups. *)

\* The classes of at least two active players that a relation on them makes.
Groups(s, same) ==
    {users \in {{y \in s.active : same[x, y]} : x \in s.active} : Cardinality(users) > 1}

\* What FindMatchGroups returns: exact matches, else the lowest and highest ties.
FindMatchGroups(s) ==
    LET exact     == Groups(s, [x, y \in s.active |-> ExactMatch(s.hand[x], s.hand[y])])
        ties      == Groups(s, [x, y \in s.active |-> s.hand[x].tieKey = s.hand[y].tieKey])
        tie(users) == s.hand[Min(users)].tieKey
        low       == CHOOSE g \in ties : \A h \in ties : ~compareKeyLess(tie(h), tie(g))
        high      == CHOOSE g \in ties : \A h \in ties : ~compareKeyLess(tie(g), tie(h))
        group(users, weakest) == [users |-> users, weakest |-> weakest]
    IN  CASE exact # {} -> {group(users, NoSeat) : users \in exact}
          [] exact = {} /\ ties = {} -> {}
          [] exact = {} /\ ties # {} ->
                {group(low, Min(low))} \cup {group(users, NoSeat) : users \in {high} \ {low}}

rollUsers(s, users) ==
    {LET hands == [x \in s.active |-> IF x \in users THEN Classify(table[x], s.config)
                                      ELSE s.hand[x]]
     IN  [s EXCEPT !.included = s.active,
                   !.hand = Resolve235Context(hands) @@ s.hand] : table \in TableRolls}

\* One batch: everyone in a group drinks and rolls again.
resolveBatch(s) ==
    LET groups  == FindMatchGroups(s)
        members == UNION {g.users : g \in groups}
        weakest == {g.weakest : g \in groups}
        due(x)  == (IF x \in members THEN s.config.matchPenalty ELSE 0)
                   + (IF x \in weakest THEN s.config.weakExtraPenalty ELSE 0)
    IN  IF groups = {}
        THEN {s}
        ELSE rollUsers([s EXCEPT !.matches = @ + 1,
                                 !.history = Append(@, [batch |-> s.matches + 1, capped |-> FALSE]),
                                 !.penalty = [x \in Seats |-> @[x] + due(x)]],
                       members)

\* At the limit groups that are left are recorded and stay.
CapMatches(s) ==
    IF FindMatchGroups(s) = {}
    THEN s
    ELSE [s EXCEPT !.history = Append(@, [batch |-> s.matches, capped |-> TRUE])]

\* The batches of a round never exceed the limit, so this many end every loop.
resolveMatches(s) ==
    LET after[n \in Nat] ==
            IF n = 0 THEN {s} ELSE UNION {resolveBatch(t) : t \in after[n - 1]}
    IN  {CapMatches(t) : t \in after[s.config.matchResolutionLimit - s.matches]}

-----------------------------------------------------------------------------
(* Targets and rounds. *)

deadlineUnixMillis(config, now) ==
    IF config.timeout = 0 THEN 0 ELSE now + config.timeout

\* The lowest hand; of equal ones the first seat.
lowestActiveUser(s) ==
    CHOOSE x \in s.active : \A y \in s.active \ {x} :
        \/ CompareHandLess(s.hand[x], s.hand[y])
        \/ ~CompareHandLess(s.hand[y], s.hand[x]) /\ x < y

targetStrictlyStrongest(s, target) ==
    \A other \in s.active \ {target} : CompareHandLess(s.hand[other], s.hand[target])

selectTarget(s, previous, now) ==
    LET target == lowestActiveUser(s)
    IN  [s EXCEPT !.phase = "target_decision", !.target = target,
                  !.targeted = @ \cup {target},
                  !.streak = IF previous = target THEN @ ELSE 0,
                  !.deadline = deadlineUnixMillis(s.config, now),
                  !.penalty[target] =
                      @ + IF target \in s.targeted THEN 0 ELSE s.config.targetPenalty]

startRound(s, now) ==
    LET next == [s EXCEPT !.phase = "rolling", !.target = NoSeat, !.rerolls = 0,
                          !.streak = 0, !.matches = 0, !.deadline = 0,
                          !.history = << >>, !.targeted = {}, !.included = s.active]
    IN  {selectTarget(resolved, NoSeat, now) :
            resolved \in UNION {resolveMatches(rolled) : rolled \in rollUsers(next, s.active)}}

NewState(config, now) ==
    startRound([phase |-> "rolling", round |-> 1, config |-> config, active |-> Seats,
                included |-> {}, targeted |-> {}, penalty |-> [x \in Seats |-> 0],
                hand |-> << >>, target |-> NoSeat, rerolls |-> 0, streak |-> 0,
                matches |-> 0, history |-> << >>, deadline |-> 0,
                settlement |-> NoSettlement, finish |-> "none"], now)

settleAndStart(s, target, reason, now) ==
    startRound([s EXCEPT !.round = @ + 1,
                         !.settlement =
                            [round |-> s.round, target |-> target, reason |-> reason,
                             rerolls |-> s.rerolls, streak |-> s.streak, matches |-> s.matches,
                             active |-> s.active, included |-> s.included,
                             targeted |-> s.targeted, penalty |-> s.penalty, hand |-> s.hand]],
               now)

finishState(s, reason) ==
    [s EXCEPT !.phase = "finished", !.finish = reason, !.target = NoSeat, !.deadline = 0]

-----------------------------------------------------------------------------
(* Operations. *)

validateTargetAction(s, actor, now) ==
    /\ s.phase # "finished"
    /\ actor = s.target
    /\ actor \in s.active
    /\ s.deadline # 0 => now < s.deadline

\* What follows a reroll once the table has been resolved.
AfterReroll(s, actor, now) ==
    IF targetStrictlyStrongest(s, actor)
    THEN settleAndStart(s, actor, "target_surpassed", now)
    ELSE IF s.rerolls >= s.config.targetRerollLimit
    THEN settleAndStart(s, actor, "reroll_limit", now)
    ELSE {selectTarget(s, actor, now)}

Reroll(s, actor, now) ==
    LET next == [s EXCEPT !.penalty[actor] = @ + s.config.rerollPenalty,
                          !.rerolls = @ + 1, !.streak = @ + 1]
    IN  IF ~validateTargetAction(s, actor, now) \/ s.rerolls >= s.config.targetRerollLimit
        THEN {}
        ELSE UNION {AfterReroll(resolved, actor, now) :
                resolved \in UNION {resolveMatches(rolled) : rolled \in rollUsers(next, {actor})}}

Stand(s, actor, now) ==
    IF validateTargetAction(s, actor, now) THEN settleAndStart(s, actor, "stand", now) ELSE {}

CurrentTimer(s) ==
    IF s.phase # "target_decision" \/ s.deadline = 0
    THEN {}
    ELSE {[round |-> s.round, target |-> s.target, rerolls |-> s.rerolls,
           streak |-> s.streak, matches |-> s.matches, deadline |-> s.deadline]}

HandleTimeout(s, token, now) ==
    IF token \in CurrentTimer(s) /\ now >= s.deadline
    THEN settleAndStart(s, s.target, "timeout_stand", now)
    ELSE {}

RevokeParticipant(s, user, now) ==
    LET next == [s EXCEPT !.active = @ \ {user}]
    IN  IF s.phase = "finished" \/ user \notin s.active
        THEN {}
        ELSE IF Cardinality(next.active) < MinimumPlayers
        THEN {finishState(next, "insufficient_participants")}
        ELSE IF user # s.target
        THEN {next}
        ELSE startRound([next EXCEPT !.round = @ + 1], now)

Finish(s) == IF s.phase = "finished" THEN {} ELSE {finishState(s, "host_requested")}

-----------------------------------------------------------------------------
(* Validation. *)

\* The hands of a resolution are what its dice say.
validateCurrentHands(config, included, hand) ==
    [x \in included |-> hand[x]] =
        Resolve235Context([x \in included |-> Classify(hand[x].raw, config)])

validateMatchHistory(s) ==
    /\ Len(s.history) <= s.config.matchResolutionLimit + 1
    /\ \A i \in DOMAIN s.history :
          /\ s.history[i].batch <= s.matches
          /\ i > 1 => s.history[i].batch >= s.history[i - 1].batch

validateSettlement(s) ==
    LET t == s.settlement
    IN  t.round # 0 =>
          /\ t.round < s.round
          /\ t.rerolls <= s.config.targetRerollLimit
          /\ t.streak <= t.rerolls
          /\ t.matches <= s.config.matchResolutionLimit
          /\ t.target \in t.active \cap t.targeted
          /\ validateCurrentHands(s.config, t.included, t.hand)

\* State.Validate: what every stored snapshot passes on its way in and out.
Validate(s) ==
    /\ s.round # 0
    /\ s.phase \in {"target_decision", "finished"}
    /\ s.active \subseteq s.included
    /\ s.rerolls <= s.config.targetRerollLimit
    /\ s.streak <= s.rerolls
    /\ s.matches <= s.config.matchResolutionLimit
    /\ validateCurrentHands(s.config, s.included, s.hand)
    /\ validateMatchHistory(s)
    /\ validateSettlement(s)
    /\ \/ /\ s.phase = "finished"
          /\ s.finish # "none"
          /\ s.target = NoSeat
          /\ s.deadline = 0
       \/ /\ s.phase = "target_decision"
          /\ s.finish = "none"
          /\ Cardinality(s.active) >= MinimumPlayers
          /\ s.target \in s.active \cap s.targeted
          /\ (s.config.timeout = 0) <=> (s.deadline = 0)

-----------------------------------------------------------------------------
(* The codec.  A settlement is stored with the public half of its hands    *)
(* and without the set of players that were resolved together: the reader  *)
(* works both out again, or refuses the snapshot.                          *)

handToPublic(hand) ==
    [raw |-> hand.raw, normalized |-> hand.normalized, class |-> hand.class,
     special |-> hand.special, context |-> hand.context]

publicPlayersToProto(hand) == [x \in Seats |-> handToPublic(hand[x])]

stateToProto(s) ==
    IF s.settlement = NoSettlement
    THEN s
    ELSE [s EXCEPT !.settlement = [@ EXCEPT !.included = {}, !.hand = publicPlayersToProto(@)]]

publicExpectedHand(public, config) ==
    LET base == Classify(public.raw, config)
    IN  IF base.special /\ public.context = "beats_leopards" THEN BeatsLeopards235(base) ELSE base

\* Faulty variant: only the active seats were resolved together.
MembershipsActive(t, hand, config) ==
    {members \in {t.active} : validateCurrentHands(config, members, hand)}

\* The memberships that reproduce the hands: active seats, some inactive ones.
Memberships(t, hand, config) ==
    {members \in {t.active \cup removed : removed \in SUBSET (Seats \ t.active)} :
        validateCurrentHands(config, members, hand)}

\* The first of them in the order of bit masks, if there is one.
restoreResolutionMembership(t, hand, config) ==
    LET mask(members) == MapThenSumSet(LAMBDA x : 2 ^ x, members)
        fitting       == Memberships(t, hand, config)
    IN  {members \in fitting : \A other \in fitting : mask(members) <= mask(other)}

\* The players of a stored settlement, if their public hands are what their
\* dice say.
publicPlayersFromProto(t, config) ==
    LET hand == [x \in Seats |-> publicExpectedHand(t.hand[x], config)]
    IN  IF publicPlayersToProto(hand) = t.hand
        THEN {[hand |-> hand, included |-> members] :
                members \in restoreResolutionMembership(t, hand, config)}
        ELSE {}

settlementFromProto(t, config) ==
    {[t EXCEPT !.hand = players.hand, !.included = players.included] :
        players \in {p \in publicPlayersFromProto(t, config) : t.target \in t.targeted}}

\* The state that a stored one stands for; none if its settlement is refused.
stateFromProto(s) ==
    IF s.settlement = NoSettlement
    THEN {s}
    ELSE {[s EXCEPT !.settlement = t] : t \in settlementFromProto(s.settlement, s.config)}

EncodeState(s) == {stateToProto(t) : t \in {u \in {s} : Validate(u)}}

DecodeState(snapshot) ==
    {s \in stateFromProto(snapshot) : Validate(s) /\ stateToProto(s) = snapshot}

-----------------------------------------------------------------------------
(* The module interface. *)

HandleCommand(s, actor, now) == Reroll(s, actor, now) \cup Stand(s, actor, now)

\* A pause moves the deadline of the state to the shifted due time.
AdjustResumed(s, due) == [s EXCEPT !.deadline = due]
=============================================================================
