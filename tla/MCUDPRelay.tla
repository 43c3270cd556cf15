----------------------------- MODULE MCUDPRelay -----------------------------
(***************************************************************************)
(* UDPRelay with the constants of its .cfg files.                          *)
(***************************************************************************)
EXTENDS UDPRelay
=============================================================================
