----------------------------- MODULE LiarsDice -----------------------------
(***************************************************************************)
(* The rule engine of liar's dice (games/liars-dice/engine).  The engine   *)
(* is a pure function from a state and an input to a state; here each      *)
(* operation is the set of the states it can return, one for every roll of *)
(* the dice, and the empty set where the code returns an error.            *)
(*                                                                         *)
(* A player is its seat (players are kept in seat order), a private roll   *)
(* is the number of dice that show each face, and of the last settlement   *)
(* only the part is kept that Validate relates to the rest of the state.   *)
(***************************************************************************)
EXTENDS Integers, FiniteSets, FiniteSetsExt

CONSTANTS
    Seats,       \* 1..n, the frozen players in seat order
    Rolls,       \* the private rolls that happen: functions from faces to numbers
    MaxQuantity  \* bound on the quantity of a bid

NoSeat == 0

MinimumPlayers == 2

NoBid == [quantity |-> 0, face |-> 0, mode |-> "none"]

Bids ==
    [quantity : 1 .. MaxQuantity, face : UNION {DOMAIN r : r \in Rolls},
     mode : {"flying", "strict"}]

NoSettlement == [round |-> 0, loser |-> NoSeat, reason |-> "none", opener |-> NoSeat]

-----------------------------------------------------------------------------

\* The next active seat after `seat' in table order, possibly `seat' itself.
nextActiveUser(active, seat) ==
    LET n == Cardinality(Seats)
        distance(x) == IF x > seat THEN x - seat ELSE x - seat + n
    IN  CHOOSE x \in active : \A y \in active : distance(x) <= distance(y)

deadlineUnixMillis(config, now) ==
    IF config.timeout = 0 THEN 0 ELSE now + config.timeout

-----------------------------------------------------------------------------
(* Bids. *)

bidAtLeast(next, anchor, equalityAllowed) ==
    \/ next.quantity > anchor.quantity
    \/ /\ next.quantity = anchor.quantity
       /\ \/ next.face > anchor.face
          \/ equalityAllowed /\ next.face = anchor.face

WellFormedBid(config, bid) ==
    /\ bid.quantity > 0
    /\ bid.face \in 1 .. 6
    /\ bid.mode \in {"flying", "strict"}
    /\ bid.mode = "strict" => config.strictEnabled
    /\ bid.face = 1 => bid.mode = "strict"

\* Faulty variant: the change to a strict bid may halve the quantity exactly.
ConversionAnchorHalved(previous) ==
    IF previous.mode = "strict"
    THEN [quantity |-> previous.quantity * 2, face |-> previous.face]
    ELSE [quantity |-> (previous.quantity + 1) \div 2, face |-> previous.face]

\* The lowest bid of the other mode that answers `previous'.
ConversionAnchor(previous) ==
    IF previous.mode = "strict"
    THEN [quantity |-> previous.quantity * 2, face |-> previous.face]
    ELSE [quantity |-> previous.quantity \div 2 + 1, face |-> previous.face]

ValidateBid(config, previous, next) ==
    /\ WellFormedBid(config, next)
    /\ IF previous = NoBid
       THEN next.quantity >= config.firstBidMinimum
       ELSE /\ WellFormedBid(config, previous)
            /\ \/ /\ previous.mode = next.mode
                  /\ bidAtLeast(next, previous, FALSE)
               \/ /\ previous.mode # next.mode
                  /\ previous.mode = "strict" =>
                        config.flyingEnabled /\ previous.face # 1
                  /\ bidAtLeast(next, ConversionAnchor(previous), TRUE)

\* The normalised strength of a bid: a strict one counts twice its quantity.
Strength(bid) ==
    14 * (IF bid.mode = "strict" THEN 2 * bid.quantity ELSE bid.quantity)
      + 2 * bid.face + (IF bid.mode = "flying" THEN 1 ELSE 0)

\* Dice of the active players that count for `bid'.
CountBid(s, bid) ==
    LET wild == bid.mode = "flying" /\ s.config.onesWild /\ bid.face # 1
        count(seat) == s.dice[seat][bid.face] + (IF wild THEN s.dice[seat][1] ELSE 0)
    IN  MapThenSumSet(count, s.active)

-----------------------------------------------------------------------------
(* Rounds. *)

startRound(s, round, first, now) ==
    IF first \notin s.active
    THEN {}
    ELSE {[s EXCEPT !.phase = "bidding", !.round = round, !.first = first,
                    !.current = first, !.bidder = NoSeat, !.bid = NoBid,
                    !.deadline = deadlineUnixMillis(s.config, now), !.dice = dice] :
             dice \in [s.active -> Rolls]}

NewState(config, startingSeat, now) ==
    startRound([phase |-> "rolling", round |-> 1, config |-> config,
                active |-> Seats, penalty |-> [x \in Seats |-> 0],
                first |-> NoSeat, current |-> NoSeat, bidder |-> NoSeat,
                bid |-> NoBid, deadline |-> 0, dice |-> << >>,
                settlement |-> NoSettlement, finish |-> "none"],
               1, startingSeat, now)

settleAndRestart(s, loser, reason, opener, now) ==
    LET first == IF loser \in s.active THEN loser ELSE nextActiveUser(s.active, loser)
    IN  startRound([s EXCEPT !.penalty[loser] = @ + s.config.penaltyTicks,
                             !.settlement = [round |-> s.round, loser |-> loser,
                                             reason |-> reason, opener |-> opener]],
                   s.round + 1, first, now)

finishState(s, reason) ==
    [s EXCEPT !.phase = "finished", !.finish = reason, !.current = NoSeat,
              !.deadline = 0, !.dice = << >>]

-----------------------------------------------------------------------------
(* Operations. *)

validateAction(s, actor, now) ==
    /\ s.phase # "finished"
    /\ s.current = actor
    /\ s.deadline # 0 => now < s.deadline

PlaceBid(s, actor, now) ==
    {[s EXCEPT !.bid = bid, !.bidder = actor,
               !.current = nextActiveUser(s.active, actor),
               !.deadline = deadlineUnixMillis(s.config, now)] :
        bid \in {b \in Bids : validateAction(s, actor, now)
                                /\ ValidateBid(s.config, s.bid, b)}}

OpenDice(s, actor, now) ==
    IF ~validateAction(s, actor, now) \/ s.bid = NoBid
    THEN {}
    ELSE LET loser == IF CountBid(s, s.bid) >= s.bid.quantity THEN actor ELSE s.bidder
         IN  settleAndRestart(s, loser, "opened", actor, now)

CurrentTimer(s) ==
    IF s.phase # "bidding" \/ s.deadline = 0
    THEN {}
    ELSE {[round |-> s.round, user |-> s.current, deadline |-> s.deadline]}

HandleTimeout(s, token, now) ==
    IF token \in CurrentTimer(s) /\ now >= s.deadline
    THEN settleAndRestart(s, s.current, "timeout", NoSeat, now)
    ELSE {}

\* Faulty variant: the dice of the removed player stay on the table.
RevokeParticipantKeepingDice(s, user, now) ==
    LET next == [s EXCEPT !.active = @ \ {user}]
    IN  IF s.phase = "finished" \/ user \notin s.active
        THEN {}
        ELSE IF Cardinality(next.active) < MinimumPlayers
        THEN {finishState(next, "insufficient_participants")}
        ELSE IF s.current # user
        THEN {next}
        ELSE startRound([next EXCEPT !.settlement = NoSettlement], s.round + 1,
                        nextActiveUser(next.active, user), now)

RevokeParticipant(s, user, now) ==
    LET active == s.active \ {user}
        next   == [s EXCEPT !.active = active,
                            !.dice = [x \in active |-> s.dice[x]]]
    IN  IF s.phase = "finished" \/ user \notin s.active
        THEN {}
        ELSE IF Cardinality(active) < MinimumPlayers
        THEN {finishState(next, "insufficient_participants")}
        ELSE IF s.current # user
        THEN {next}
        ELSE startRound([next EXCEPT !.settlement = NoSettlement], s.round + 1,
                        nextActiveUser(active, user), now)

Finish(s) == IF s.phase = "finished" THEN {} ELSE {finishState(s, "host_requested")}

-----------------------------------------------------------------------------

validateSettlement(s) ==
    \/ s.settlement = NoSettlement
    \/ /\ s.settlement.round # 0
       /\ s.settlement.round + 1 = s.round
       /\ s.settlement.loser \in Seats
       /\ \/ s.settlement.reason = "opened" /\ s.settlement.opener \in Seats
          \/ s.settlement.reason = "timeout" /\ s.settlement.opener = NoSeat

\* State.Validate: what every stored snapshot passes on its way in and out.
Validate(s) ==
    /\ s.round # 0
    /\ s.phase \in {"bidding", "finished"}
    /\ validateSettlement(s)
    /\ s.first \in Seats
    /\ (s.bid = NoBid) <=> (s.bidder = NoSeat)
    /\ s.bidder # NoSeat => s.bidder \in Seats /\ WellFormedBid(s.config, s.bid)
    /\ \/ /\ s.phase = "finished"
          /\ s.finish # "none"
          /\ s.current = NoSeat
          /\ s.deadline = 0
          /\ DOMAIN s.dice = {}
       \/ /\ s.phase = "bidding"
          /\ s.finish = "none"
          /\ Cardinality(s.active) >= MinimumPlayers
          /\ s.current \in s.active
          /\ (s.config.timeout = 0) <=> (s.deadline = 0)
          /\ DOMAIN s.dice = s.active

-----------------------------------------------------------------------------
(* The module interface.  The codec stores every field of a state; what it *)
(* adds is that only valid states pass, in either direction.               *)

EncodeState(s) == {t \in {s} : Validate(t)}

DecodeState(snapshot) == {t \in {snapshot} : Validate(t)}

HandleCommand(s, actor, now) == PlaceBid(s, actor, now) \cup OpenDice(s, actor, now)

\* A pause moves the deadline of the state to the shifted due time.
AdjustResumed(s, due) == [s EXCEPT !.deadline = due]
=============================================================================
