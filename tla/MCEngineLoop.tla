---------------------------- MODULE MCEngineLoop ----------------------------
(***************************************************************************)
(* EngineLoop with the constants of its .cfg files.                        *)
(***************************************************************************)
EXTENDS EngineLoop
=============================================================================
