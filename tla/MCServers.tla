------------------------------ MODULE MCServers ------------------------------
(***************************************************************************)
(* Two servers and two connections, and a counter that starts at zero or   *)
(* at the largest size_t.                                                  *)
(***************************************************************************)
EXTENDS Servers

MCLeftovers == {0, -1}

=============================================================================
