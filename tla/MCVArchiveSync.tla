--------------------------- MODULE MCVArchiveSync ---------------------------
(* Two songs of one button mode, and two accounts.                          *)
EXTENDS VArchiveSync, TLC
CONSTANTS p1, p2, b4, j1, j2, playerA, playerB
MCPatterns == {p1, p2}
MCButton == [p \in MCPatterns |-> b4]
MCSong == [p \in MCPatterns |-> p]
MCJobs == {j1, j2}
MCSteams == {playerA, playerB}
MCRates == {1, 2}
Interchangeable ==
  Permutations(MCPatterns) \cup Permutations(MCJobs) \cup Permutations(MCSteams)
===========================================================================
