--------------------------- MODULE MCViolationEvents --------------------------
(* Violations of the kinds that are merged in different ways, for TLC: one   *)
(* that ends in the video, one that is flushed, a lane violation and a       *)
(* red-light violation.                                                      *)
EXTENDS ViolationEvents, TLC

CONSTANTS rider, vehicle, drifter, runner

MCKind  == rider :> "triple_riding" @@ vehicle :> "wrong_way" @@ drifter :> "lane_violation"
           @@ runner :> "red_light"
MCStart == rider :> 1 @@ vehicle :> 2 @@ drifter :> 1 @@ runner :> 2
MCEnd   == rider :> 2 @@ vehicle :> 4 @@ drifter :> 3 @@ runner :> 3

MCKindOfOne  == rider :> "triple_riding"
MCStartOfOne == rider :> 1
MCEndOfOne   == rider :> 2

MCKindOfFlushed  == vehicle :> "wrong_way"
MCStartOfFlushed == vehicle :> 2
MCEndOfFlushed   == vehicle :> 4

MCKindOfLane  == drifter :> "lane_violation"
MCStartOfLane == drifter :> 1
MCEndOfLane   == drifter :> 2

===============================================================================
