----------------------------- MODULE MCTCPRelay -----------------------------
(***************************************************************************)
(* TCPRelay for TLC: two clients and room for one.                         *)
(***************************************************************************)
EXTENDS TCPRelay
=============================================================================
