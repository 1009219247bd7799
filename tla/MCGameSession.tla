--------------------------- MODULE MCGameSession ---------------------------
(***************************************************************************)
(* Small tables for GameSession: few dice, few deals, a clock of some      *)
(* phases.                                                                 *)
(***************************************************************************)
EXTENDS GameSession, TLC

MCSeats == 1 .. 3

MCMeetSeats == 1 .. 4

\* A player holds a one and a two, or two twos.
MCRolls == {(1 :> 1 @@ 2 :> 1), (1 :> 0 @@ 2 :> 2)}

MCDicePairs == {<<1, 1>>, <<6, 6>>, <<2, 2>>, <<4, 4>>, <<3, 4>>, <<3, 5>>, <<4, 5>>, <<1, 2>>}

\* Tables with the special hand, leopards, ties and no match at all.
MCTableRolls ==
    {<<<<2, 3, 5>>, <<6, 6, 6>>, <<5, 5, 5>>, <<2, 2, 4>>>>,
     <<<<4, 5, 6>>, <<1, 2, 4>>, <<1, 2, 4>>, <<2, 2, 4>>>>}

MCDeals ==
    {<<{<<2, 1>>, <<3, 1>>, <<4, 2>>, <<11, 1>>, <<14, 1>>, <<16, 0>>},
       {<<2, 2>>, <<3, 2>>, <<9, 3>>, <<12, 1>>, <<14, 2>>, <<10, 4>>},
       {<<2, 3>>, <<3, 3>>, <<4, 3>>, <<13, 1>>, <<14, 3>>, <<10, 1>>}>>}

MCSubmissions ==
    {{<<16, 0>>}, {<<14, 2>>}, {<<2, 3>>}, {<<4, 2>>, <<11, 1>>}, {<<9, 3>>, <<10, 4>>},
     {<<4, 3>>, <<13, 1>>}}

MCConfigs ==
    ("liars_dice" :>
        [timeout : {1}, strictEnabled : {TRUE}, flyingEnabled : {TRUE},
         onesWild : {TRUE}, firstBidMinimum : {1}, penaltyTicks : {1}]) @@
    ("dice_789" :>
        [timeout : {1}, dropWindow : {1}, layerCapacity : {2}, maxLayers : {2},
         initialPool : {1}, addStep : {2}, continueMode : {"optional", "forced_reroll"},
         lastDigitMatch : {FALSE}, doubleOneEnabled : {TRUE}, doubleFourEnabled : {TRUE},
         doubleSixEnabled : {TRUE}, ordinaryPairsReverse : {TRUE}]) @@
    ("meet_by_chance" :>
        [timeout : {1}, straights : {{3, 6}}, special235 : {TRUE}, onesWild : {TRUE},
         targetPenalty : {1}, rerollPenalty : {0}, matchPenalty : {0}, weakExtraPenalty : {0},
         targetRerollLimit : {2}, matchResolutionLimit : {1}]) @@
    ("three_rounds" :>
        [roundOneTimeout : {1}, roundTwoTimeout : {1}, resultTime : {1}, finalTime : {1}])

MCMaxNow == [liars_dice |-> 4, dice_789 |-> 3, meet_by_chance |-> 3, three_rounds |-> 6]

MCMaxRound == [liars_dice |-> 2, dice_789 |-> 2, meet_by_chance |-> 2, three_rounds |-> 3]
=============================================================================
