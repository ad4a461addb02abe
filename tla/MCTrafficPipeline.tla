-------------------------- MODULE MCTrafficPipeline --------------------------
(* One road with its stop line, its traffic light, two motorcycles and two    *)
(* persons, for TLC.  The image is 11 pixels wide and 21 high.                *)
EXTENDS TrafficPipeline, TLC

-------------------------------------------------------------------------------
(* Traffic lights: numbers of red, yellow, green and dark pixels *)

Patch(r, y, g, dark) ==
    [i \in 1..(r + y + g + dark) |-> IF i <= r THEN <<175, 200, 200>>
                                     ELSE IF i <= r + y THEN <<20, 200, 200>>
                                     ELSE IF i <= r + y + g THEN <<60, 200, 200>>
                                     ELSE <<60, 200, 10>>]

\* Clear colours, a red one that just dominates, two that do not, and none.
SomePatches == {Patch(9, 1, 0, 0), Patch(5, 0, 4, 1), Patch(0, 5, 2, 0), Patch(0, 0, 8, 2),
                Patch(4, 4, 0, 2), Patch(0, 0, 0, 10)}

-------------------------------------------------------------------------------
(* The junction: a lane whose vehicles drive down and to the right, the end of *)
(* which a lane of the opposite direction covers                               *)

Lane == [id |-> "lane", polygon |-> <<<<3, 1>>, <<8, 1>>, <<8, 9>>, <<3, 9>>>>,
         direction |-> <<1, 2>>]
Exit == [id |-> "exit", polygon |-> <<<<3, 7>>, <<8, 7>>, <<8, 9>>, <<3, 9>>>>,
         direction |-> <<-1, -2>>]

Road == [enabled |-> {"red_light", "wrong_way", "lane_violation"},
         zone |-> None,
         lanes |-> <<Exit, Lane>>,
         lines |-> ("line" :> [segment |-> <<<<1, 5>>, <<9, 5>>>>, lane |-> "lane",
                               region |-> "signal"])]

Vehicle(x, y, v) == [id |-> 1, class |-> "car", confirmed |-> TRUE,
                     box |-> <<x, y, x + 2, y + 10>>, velocity |-> v]

\* Before the line, on it, behind it, far behind, on the border of the road and
\* beside it; fast, slow and backwards.
SomeVehicles == {Vehicle(at[1], at[2], v) :
                     at \in {<<4, -4>>, <<4, 0>>, <<4, 2>>, <<5, 6>>, <<1, 0>>, <<-1, 0>>},
                     v \in {<<2, 6>>, <<0, 1>>, <<-1, -6>>}}

SomeJunctions ==
    [tracks : {{}, {[Vehicle(4, 0, <<2, 6>>) EXCEPT !.confirmed = FALSE]}}
                  \cup {{v} : v \in SomeVehicles},
     signals : {("signal" :> [state |-> c[1], confidence |-> c[2]]) :
                    c \in {<<"red", 90>>, <<"red", 50>>, <<"green", 90>>}}]

-------------------------------------------------------------------------------
(* Riders: two motorcycles side by side *)

Bike(i, x)   == [id |-> i, class |-> "motorcycle", confirmed |-> TRUE,
                 box |-> <<x, 6, x + 4, 10>>, velocity |-> <<6, 0>>]
Person(i, x) == [id |-> i, class |-> "person", confirmed |-> TRUE,
                 box |-> <<x, 1, x + 2, 7>>, velocity |-> <<6, 0>>]
Tag(i, class, x, c) == [index |-> i, class |-> class, box |-> <<x, 1, x + 2, 3>>,
                        confidence |-> c]

Seen(people, labels) == [tracks |-> {Bike(11, 0), Bike(12, 3)} \cup people,
                         labels |-> labels]

\* One rider on either motorcycle or between them, two who want the same one, a
\* label between two heads, and one motorcycle alone.
SomeRiders ==
    {Seen({}, {}),
     Seen({Person(1, 1)}, {Tag(1, "no_helmet", 1, 80), Tag(2, "no_helmet", 7, 70)}),
     Seen({Person(1, 4)}, {}),
     Seen({Person(1, 1), Person(2, 2)}, {Tag(1, "helmet", 1, 80)}),
     Seen({Person(1, 1), Person(2, 3)}, {Tag(1, "no_helmet", 2, 80)}),
     Seen({Person(1, 1), Person(2, 3)}, {Tag(1, "no_helmet", 2, 80), Tag(2, "helmet", 3, 60)}),
     [tracks |-> {Bike(12, 3), Person(1, 4), Person(2, 3)}, labels |-> {}]}

-------------------------------------------------------------------------------
(* Detections *)

Object(i, class, x, c) == [index |-> i, class |-> class, box |-> <<x, 0, x + 4, 4>>,
                           confidence |-> c]

\* Where a track may be expected: at the left or at the right.
SomeBoxes == {<<0, 0, 4, 4>>, <<6, 0, 10, 4>>}

SomeShots == {{}, {Object(1, "car", 0, 90)}, {Object(1, "car", 0, 50)}, {Object(1, "person", 2, 90)},
              {Object(1, "car", 0, 90), Object(2, "car", 2, 50)},
              {Object(1, "car", 0, 90), Object(2, "car", 6, 90)}}

===============================================================================
