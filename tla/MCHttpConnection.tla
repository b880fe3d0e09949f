--------------------------- MODULE MCHttpConnection ---------------------------
(* HttpConnection with queues of one and of two pairs. *)
EXTENDS HttpConnection

MCSizeExps == {0, 1}

===============================================================================
