-------------------------- MODULE MCCoroutineSocket --------------------------
(* Values for the constants of CoroutineSocket. *)
EXTENDS CoroutineSocket

MCReadCalls == {<<1, 2, FALSE>>, <<3, 3, TRUE>>}

MCNewlines == {1, 4}
=============================================================================
