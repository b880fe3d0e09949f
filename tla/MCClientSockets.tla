--------------------------- MODULE MCClientSockets ---------------------------
(* Three sockets and a vector with room for one: the others accumulate and  *)
(* make it grow, an entry is reused when an object is destroyed before the  *)
(* next is created, and a table of three, not one of two, is compacted.     *)
(* Five calls of the application create all three sockets and leave two     *)
(* for handlers, or create two, connect both and leave one.                 *)
EXTENDS ClientSockets
=============================================================================
