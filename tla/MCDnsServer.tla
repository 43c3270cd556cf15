---------------------------- MODULE MCDnsServer -----------------------------
(***************************************************************************)
(* DnsServer for TLC: two dynamic names, and lists of records that move,   *)
(* drop and repeat them or that SetRecords refuses.                        *)
(***************************************************************************)
EXTENDS DnsServer

N(zone, label, upper) == [zone |-> zone, label |-> label, upper |-> upper]
R(label, vip, ttl) ==
  [name |-> N("base", label, FALSE), type |-> "A", class |-> "loopback",
   vip |-> vip, ttl |-> ttl]

MCUpdates ==
  {<<>>,
   <<R("a", 1, 7)>>,
   <<R("a", 2, 0), R("b", 1, 7)>>,
   <<[R("b", 1, 7) EXCEPT !.name.upper = TRUE, !.type = "a"],
     R("b", 2, 7), R("a", 1, 7)>>,
   <<R("a", 2, 7), [R("b", 1, 7) EXCEPT !.class = "public"]>>,
   <<R("b", 2, 7), [R("a", 1, 7) EXCEPT !.name.zone = "suffix"]>>,
   <<[R("a", 1, 7) EXCEPT !.type = "AAAA"]>>}

MCQueries ==
  [name : {N("base", l, u) : l \in {"a", "b"}, u \in BOOLEAN} \cup
          {N("base", Apex, FALSE), N("base", Ns, FALSE),
           N("suffix", "a", FALSE), N("elsewhere", "b", FALSE)},
   type : QTypes]
=============================================================================
