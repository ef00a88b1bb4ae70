-------------------------- MODULE MCLayerOverlay --------------------------
(* Two outputs of which one may change its size; the game shown on either. *)
EXTENDS LayerOverlay
CONSTANTS left, right, small
MCFirstMode == [p \in Output |-> IF p = left THEN small ELSE Nothing]
MCSnapshots ==
  LET on(p, front, lite) ==
        [window |-> [output |-> p, front |-> front, fullscreen |-> TRUE],
         fatal |-> FALSE, idle |-> FALSE, off |-> FALSE, lite |-> lite,
         snap |-> "top_right"]
  IN {on(left, TRUE, TRUE), on(left, TRUE, FALSE), on(right, FALSE, FALSE)}
===========================================================================
