---------------------------- MODULE MCJSONStore ----------------------------
(***************************************************************************)
(* JSONStore with small lease tables: empty, one lease, two leases, and    *)
(* two that claim the same VIP, and one that was never active.  Times are  *)
(* not whole seconds.                                                      *)
(***************************************************************************)
EXTENDS JSONStore

OneLease(k, v) == NewLease(k, v, 3)

MCSnapshots ==
  {{}, {OneLease("a", 1)}, {OneLease("a", 1), OneLease("b", 2)},
   {OneLease("a", 1), OneLease("b", 1)},
   {[OneLease("b", 1) EXCEPT !.created = 5, !.active = 0]}}

Refused == {Corrupt, Empty, [kind |-> "readable", leases |-> {}]}

MCInitFiles == {Missing, Json({}), Json({OneLease("a", 1)})} \cup Refused
=============================================================================
