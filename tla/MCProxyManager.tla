--------------------------- MODULE MCProxyManager ---------------------------
(***************************************************************************)
(* ProxyManager with the constants of its .cfg files.                      *)
(***************************************************************************)
EXTENDS ProxyManager
=============================================================================
