-------------------------- MODULE MCTimeoutManager --------------------------
(* Small instances of TimeoutManager. An int32_t has 5 bits here and a     *)
(* uint64_t 6, so that both a negative delay and a large positive one make *)
(* the product overflow, and the sum of clock and delay wrap around.       *)
EXTENDS TimeoutManager

MCDelays == {-1, 0, 2, 9}
=============================================================================
