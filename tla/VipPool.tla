------------------------------ MODULE VipPool -------------------------------
(***************************************************************************)
(* VIP pools: ParsePool (internal/vip/pool.go), which makes the addresses  *)
(* that the allocator hands out, and validateVIPPool                       *)
(* (internal/config/config.go), which decides beforehand whether a pool is *)
(* good enough.  The two count usable addresses in different ways.         *)
(*                                                                         *)
(* An address is its 32-bit number, of which those up to 127.255.255.255   *)
(* are modelled; a CIDR is [ip, bits], with bits = -1 for text that is no  *)
(* IPv4 CIDR.                                                              *)
(***************************************************************************)
EXTENDS Integers, FiniteSets

CONSTANT Cidrs     \* the pools that users write

ASSUME CidrsAssumption ==
  \A c \in Cidrs : c.ip \in Int /\ c.ip >= 0 /\ c.bits \in -1 .. 32

\* Text that is no CIDR.
NoCidr == [ip |-> 0, bits |-> -1]

IPv4(a, b, c, d) == ((a * 256 + b) * 256 + c) * 256 + d

Size(cidr) == 2 ^ (32 - cidr.bits)

Masked(cidr) == (cidr.ip \div Size(cidr)) * Size(cidr)

\* All host bits are set.
lastAddr(cidr) == Masked(cidr) + (Size(cidr) - 1)

IsLoopback(a) == a \in IPv4(127, 0, 0, 0) .. IPv4(127, 255, 255, 255)

lastOctet(a) == a % 256

\* What both functions ask of a CIDR before they count.
WellFormed(cidr) ==
  /\ cidr.bits \in 16 .. 30
  /\ IsLoopback(Masked(cidr)) /\ IsLoopback(lastAddr(cidr))

\* Configuration: the network address and last octets 0 and 255 do not count;
\* the broadcast address may.
countUsable(cidr) ==
  Cardinality({i \in 1 .. (Size(cidr) - 1) :
                 lastOctet(Masked(cidr) + i) \notin {0, 255}})

validateVIPPool(cidr) == WellFormed(cidr) /\ countUsable(cidr) >= 2

\* Fault: the address after the network's is kept for the host.
enumerateUsableNoFirst(cidr) ==
  {a \in (Masked(cidr) + 2) .. (lastAddr(cidr) - 1) :
     lastOctet(a) \notin {0, 255}}

\* Pool: neither the network address nor the broadcast address.
enumerateUsable(cidr) ==
  {a \in (Masked(cidr) + 1) .. (lastAddr(cidr) - 1) :
     lastOctet(a) \notin {0, 255}}

ParsePool(cidr) ==
  WellFormed(cidr) /\ Cardinality(enumerateUsable(cidr)) >= 2
=============================================================================
