--------------------------- MODULE MCRuntimeHub ---------------------------
EXTENDS RuntimeHub

CONSTANTS player, unknown, p1, p2

MCPatterns == {p1, p2}
MCSteams == {player, unknown}
MCRates == 1..2
MCButton == [p \in MCPatterns |-> IF p = p1 THEN 4 ELSE 5]
(* p2 is only ever misread: no play of it is verified. *)
MCPlayed == [p \in MCPatterns |->
               IF p = p1 THEN {[rate |-> 1, mc |-> TRUE], [rate |-> 2, mc |-> FALSE]}
                         ELSE {}]
MCFetched == [p \in MCPatterns |->
                IF p = p1 THEN {[rate |-> 2, mc |-> FALSE]} ELSE {}]
===========================================================================
