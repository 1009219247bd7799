---------------------------- MODULE ThreeRounds ----------------------------
(***************************************************************************)
(* The rule engine of three rounds (games/three-rounds/engine): six cards  *)
(* each, one shown in round one, two in round two, the rest in round       *)
(* three.  As in LiarsDice an operation is the set of the states it can    *)
(* return, empty where the code returns an error.                          *)
(*                                                                         *)
(* A card is its rank and the strength of its suit.  A player has a point  *)
(* for each round it won, so the winners of the rounds stand for the       *)
(* points; the history of a round is who showed what and who won.          *)
(***************************************************************************)
EXTENDS Integers, Sequences, FiniteSets, FiniteSetsExt, SequencesExt

CONSTANTS
    Seats,        \* 1..n, the frozen players in seat order
    Deals,        \* the deals that happen: functions from seats to six cards
    Submissions   \* the sets of cards that players submit

MinimumPlayers == 2

SmallJoker == <<15, 0>>

BigJoker == <<16, 0>>

normalDeck == (2 .. 14) \X (1 .. 4)

NoSummary == [standings |-> << >>, winners |-> {}]

-----------------------------------------------------------------------------
(* Cards.  Keys are compared from the left. *)

KeyLess(left, right) ==
    \E i \in DOMAIN right :
        /\ \A j \in 1 .. (i - 1) : j \in DOMAIN left /\ left[j] = right[j]
        /\ i \in DOMAIN left => left[i] < right[i]

rankStrength(card) == card[1]

suitStrength(card) == card[2]

\* Position of a card in buildDeck, up to scale.
Ordinal(card) == 5 * card[1] + card[2]

halfPoints(card) ==
    CASE card \in {SmallJoker, BigJoker} \cup ((11 .. 13) \X (1 .. 4)) -> 1
      [] card[1] = 14       -> 2
      [] card[1] \in 2 .. 10 -> 2 * card[1]

roundOneKey(cards) ==
    LET card == CHOOSE c \in cards : TRUE IN <<rankStrength(card), suitStrength(card)>>

\* The cards of a set in the order of the deck.
InOrder(cards) == SetToSortSeq(cards, LAMBDA left, right : Ordinal(left) < Ordinal(right))

TotalHalfPoints(cards) == MapThenSumSet(halfPoints, cards)

Busted(cards) == TotalHalfPoints(cards) > 21

\* evaluateRoundTwo, for two cards that are not bust.
roundTwoKey(cards) ==
    LET seq == InOrder(cards)
    IN  <<TotalHalfPoints(cards), rankStrength(seq[2]), rankStrength(seq[1])>>

buildRoundTwoAutoKey(cards) ==
    LET seq == InOrder(cards)
    IN  <<IF Busted(cards) THEN 1 ELSE 0, TotalHalfPoints(cards), rankStrength(seq[1]),
          rankStrength(seq[2]), Ordinal(seq[1]), Ordinal(seq[2])>>

\* What the clock plays for a player: the weakest card, or the lowest pair.
autoSelect(hand, round) ==
    LET choices == kSubset(round, hand)
        key(cards) == IF round = 1 THEN roundOneKey(cards) ELSE buildRoundTwoAutoKey(cards)
    IN  CHOOSE cards \in choices : \A other \in choices : ~KeyLess(key(other), key(cards))

\* The class and the values of three normal cards.
classifyThird(cards) ==
    LET seq   == InOrder(cards)
        rank  == <<rankStrength(seq[3]), rankStrength(seq[2]), rankStrength(seq[1])>>
        flush == \A left, right \in cards : left[2] = right[2]
        low   == rank = <<14, 3, 2>>
        straight == low \/ (rank[1] = rank[2] + 1 /\ rank[2] = rank[3] + 1)
        high  == IF low THEN 3 ELSE rank[1]
    IN  IF rank[1] = rank[3] THEN <<6, rank[1]>>
        ELSE IF straight THEN <<IF flush THEN 5 ELSE 3, high>>
        ELSE IF flush THEN <<4>> \o rank
        ELSE IF rank[2] = rank[1] THEN <<2, rank[2], rank[3]>>
        ELSE IF rank[2] = rank[3] THEN <<2, rank[2], rank[1]>>
        ELSE <<1>> \o rank

\* The sets of n of the cards, n being at most two.
StandIns(n, cards) ==
    {set \in {{f[i] : i \in 1 .. n} : f \in [1 .. n -> cards]} : Cardinality(set) = n}

\* Jokers stand for the normal cards outside the hand that make it strongest.
resolveThirdHand(cards) ==
    LET jokers == cards \cap {SmallJoker, BigJoker}
        real   == cards \ jokers
        keys   == {classifyThird(real \cup stand) :
                      stand \in StandIns(Cardinality(jokers), normalDeck \ real)}
    IN  CHOOSE key \in keys : \A other \in keys : ~KeyLess(key, other)

-----------------------------------------------------------------------------
(* Phases. *)

deadlineForPhase(now, phase, config) ==
    LET seconds == CASE phase = "round_one_selecting" -> config.roundOneTimeout
                     [] phase = "round_two_selecting" -> config.roundTwoTimeout
                     [] phase = "final_result"        -> config.finalTime
                     [] OTHER                         -> config.resultTime
    IN  IF seconds = 0 THEN 0 ELSE now + seconds

EnterPhase(s, phase, now) ==
    [s EXCEPT !.phase = phase, !.generation = @ + 1,
              !.deadline = deadlineForPhase(now, phase, s.config)]

NewState(config, now) ==
    {EnterPhase([phase |-> "dealing", round |-> 1, generation |-> 0, config |-> config,
                 active |-> Seats, initial |-> deal, remaining |-> deal,
                 pending |-> [x \in Seats |-> {}],
                 cards |-> [r \in 1 .. 3 |-> [x \in Seats |-> {}]],
                 won |-> [r \in 1 .. 3 |-> {}], summary |-> NoSummary,
                 finalRank |-> [x \in Seats |-> 0], finalWinner |-> {},
                 deadline |-> 0, finish |-> "none"],
                "round_one_selecting", now) : deal \in Deals}

\* The players with the highest key.
BestOf(key) == {x \in DOMAIN key : \A y \in DOMAIN key : ~KeyLess(key[x], key[y])}

\* A round is revealed: cards leave the hands, winners get their point.
RevealRound(s, round, shown, winners) ==
    [s EXCEPT !.cards[round] = [x \in Seats |-> IF x \in DOMAIN shown THEN shown[x] ELSE {}],
              !.remaining = [x \in Seats |-> IF x \in DOMAIN shown THEN @[x] \ shown[x] ELSE @[x]],
              !.won[round] = winners]

settleRoundOne(s, now) ==
    LET shown == [x \in s.active |-> s.pending[x]]
    IN  EnterPhase([RevealRound(s, 1, shown, BestOf([x \in s.active |-> roundOneKey(shown[x])]))
                       EXCEPT !.pending = [x \in Seats |-> {}]],
                   "round_one_result", now)

settleRoundTwo(s, now) ==
    LET shown  == [x \in s.active |-> s.pending[x]]
        keys   == [x \in {y \in s.active : ~Busted(s.pending[y])} |-> roundTwoKey(s.pending[x])]
    IN  EnterPhase([RevealRound(s, 2, shown, BestOf(keys))
                       EXCEPT !.pending = [x \in Seats |-> {}]],
                   "round_two_result", now)

settleCurrentSelection(s, now) ==
    IF s.phase = "round_one_selecting" THEN settleRoundOne(s, now) ELSE settleRoundTwo(s, now)

allActivePlayersSubmitted(s) == \A x \in s.active : s.pending[x] # {}

advancePhaseAfterRoundOneResult(s, now) ==
    EnterPhase([s EXCEPT !.round = 2], "round_two_selecting", now)

\* Faulty variant: the last cards of removed players are shown too.
resolveRoundThreeForAll(s, now) ==
    LET shown == s.remaining
    IN  EnterPhase([RevealRound(s, 3, shown, BestOf([x \in DOMAIN shown |-> resolveThirdHand(shown[x])]))
                       EXCEPT !.round = 3, !.summary = NoSummary,
                              !.finalRank = [x \in Seats |-> 0], !.finalWinner = {}],
                   "round_three_result", now)

resolveRoundThree(s, now) ==
    LET shown == [x \in s.active |-> s.remaining[x]]
    IN  EnterPhase([RevealRound(s, 3, shown, BestOf([x \in DOMAIN shown |-> resolveThirdHand(shown[x])]))
                       EXCEPT !.round = 3, !.summary = NoSummary,
                              !.finalRank = [x \in Seats |-> 0], !.finalWinner = {}],
                   "round_three_result", now)

-----------------------------------------------------------------------------
(* The final standings. *)

standingKey(s, x) ==
    LET point(round) == IF x \in s.won[round] THEN 1 ELSE 0
    IN  <<point(1) + point(2) + point(3), point(3), point(2), point(1)>>

computeFinalSummary(s) ==
    LET above(x) == {y \in s.active : KeyLess(standingKey(s, x), standingKey(s, y))}
    IN  [standings |-> [x \in s.active |-> Cardinality(above(x)) + 1],
         winners |-> {x \in s.active : above(x) = {}}]

recomputeFinalDecorations(s) ==
    [s EXCEPT !.finalWinner = s.summary.winners,
              !.finalRank = [x \in Seats |-> IF x \in DOMAIN s.summary.standings
                                             THEN s.summary.standings[x] ELSE 0]]

enterFinalResult(s, now) ==
    recomputeFinalDecorations(
        EnterPhase([s EXCEPT !.summary = computeFinalSummary(s)], "final_result", now))

finishWithReason(s, reason) ==
    LET next == [s EXCEPT !.phase = "finished", !.deadline = 0, !.generation = @ + 1,
                          !.finish = reason]
    IN  IF reason = "normal_completed"
        THEN next
        ELSE IF s.phase = "final_result"
        THEN [next EXCEPT !.summary.winners = {}, !.finalWinner = {}]
        ELSE [next EXCEPT !.summary = NoSummary, !.finalWinner = {},
                          !.finalRank = [x \in Seats |-> 0]]

-----------------------------------------------------------------------------
(* Operations. *)

selecting(s) == s.phase \in {"round_one_selecting", "round_two_selecting"}

validateSelectableAction(s, actor, cards, now) ==
    /\ selecting(s)
    /\ s.deadline # 0 => now < s.deadline
    /\ actor \in s.active
    /\ s.pending[actor] = {}
    /\ Cardinality(cards) = s.round
    /\ cards \subseteq s.remaining[actor]

SubmitSelection(s, actor, now) ==
    {LET next == [s EXCEPT !.pending[actor] = cards]
     IN  IF allActivePlayersSubmitted(next) THEN settleCurrentSelection(next, now) ELSE next :
        cards \in {c \in Submissions : validateSelectableAction(s, actor, c, now)}}

CurrentTimer(s) ==
    IF s.phase = "finished" \/ s.deadline = 0
    THEN {}
    ELSE {[phase |-> s.phase, round |-> s.round, generation |-> s.generation,
           deadline |-> s.deadline]}

\* The clock plays for everybody who has not.
AutoSubmit(s) ==
    [s EXCEPT !.pending = [x \in Seats |-> IF x \in s.active /\ @[x] = {}
                                           THEN autoSelect(s.remaining[x], s.round) ELSE @[x]]]

HandleTimeout(s, token, now) ==
    IF token \notin CurrentTimer(s) \/ now < s.deadline
    THEN {}
    ELSE CASE selecting(s)                       -> {settleCurrentSelection(AutoSubmit(s), now)}
           [] s.phase = "round_one_result"   -> {advancePhaseAfterRoundOneResult(s, now)}
           [] s.phase = "round_two_result"   -> {resolveRoundThree(s, now)}
           [] s.phase = "round_three_result" -> {enterFinalResult(s, now)}
           [] s.phase = "final_result"       -> {finishWithReason(s, "normal_completed")}

RevokeParticipant(s, user, now) ==
    LET next == recomputeFinalDecorations([s EXCEPT !.active = @ \ {user}, !.pending[user] = {}])
    IN  IF s.phase = "finished" \/ user \notin s.active
        THEN {}
        ELSE IF Cardinality(next.active) < MinimumPlayers
        THEN {finishWithReason(next, "insufficient_participants")}
        ELSE IF selecting(next) /\ allActivePlayersSubmitted(next)
        THEN {settleCurrentSelection(next, now)}
        ELSE {next}

Finish(s) ==
    IF s.phase \in {"finished", "final_result"} THEN {} ELSE {finishWithReason(s, "host_requested")}

-----------------------------------------------------------------------------
(* Validation. *)

\* The six cards of a player are in one place each.
validatePlayerCards(s, x) ==
    LET places == <<s.remaining[x], s.cards[1][x], s.cards[2][x], s.cards[3][x]>>
    IN  /\ Cardinality(s.initial[x]) = 6
        /\ \A i, j \in DOMAIN places : i # j => places[i] \cap places[j] = {}
        /\ Cardinality(UNION {places[i] : i \in DOMAIN places}) = 6
        /\ s.pending[x] \subseteq s.remaining[x]
        /\ s.pending[x] # {} => selecting(s)

\* State.Validate: what every stored snapshot passes on its way in and out.
Validate(s) ==
    /\ s.round # 0
    /\ \A x \in Seats : validatePlayerCards(s, x)
    /\ \A x, y \in Seats : x # y => s.initial[x] \cap s.initial[y] = {}
    /\ IF s.phase = "finished"
       THEN s.deadline = 0
       ELSE /\ s.generation # 0
            /\ deadlineForPhase(1, s.phase, s.config) # 0 => s.deadline # 0

-----------------------------------------------------------------------------
(* The module interface.  The codec stores every field of a state; what it *)
(* adds is that only valid states pass, in either direction.               *)

EncodeState(s) == {t \in {s} : Validate(t)}

DecodeState(snapshot) == {t \in {snapshot} : Validate(t)}

HandleCommand(s, actor, now) == SubmitSelection(s, actor, now)

\* A pause moves the deadline of the state to the shifted due time.
AdjustResumed(s, due) == [s EXCEPT !.deadline = due]
=============================================================================
