------------------------- MODULE MCInterThreadQueue -------------------------
(* Three writers and room for three messages: the queue gets full, two     *)
(* writers wait at the same time, and a batch frees more than one place.   *)
EXTENDS InterThreadQueue
CONSTANTS w1, w2, w3, none
MCWriters == {w1, w2, w3}
MCNoMsg == none
=============================================================================
