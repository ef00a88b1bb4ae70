--------------------------- MODULE MCFloorCache ---------------------------
EXTENDS FloorCache

CONSTANTS player, unknown, p1, p2

MCPatterns == {p1, p2}
MCSteams == {player, unknown}
MCRates == 1..2
MCButton == [p \in MCPatterns |-> IF p = p1 THEN 4 ELSE 5]
MCPlayed == [p \in MCPatterns |->
               IF p = p1 THEN {[rate |-> 1, mc |-> FALSE], [rate |-> 2, mc |-> FALSE]}
                         ELSE {[rate |-> 1, mc |-> FALSE]}]
MCFetched == [p \in MCPatterns |->
                IF p = p1 THEN {[rate |-> 2, mc |-> FALSE]} ELSE {}]
MCBucket == [p \in MCPatterns |-> "floor"]
===========================================================================
