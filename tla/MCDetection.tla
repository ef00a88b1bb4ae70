---------------------------- MODULE MCDetection ----------------------------
EXTENDS Detection, TLC

CONSTANTS s1, s2, c1, c2

MCSongs == {s1, s2}
OneSong == {s1}
MCCharts == {c1, c2}
OneChart == {c1}
TwoSongs == {<<s1, c1>>, <<s2, c1>>}
TwoCharts == {<<s1, c1>>, <<s1, c2>>}
MCSelectScenes == {"Freestyle"}
MCResultScenes == {"ResultFreestyle", "ResultOpen3"}
MCIngameScenes == {"Gameplay"}
MCRates == 0..1
SongSymmetry == Permutations(MCSongs)
============================================================================
