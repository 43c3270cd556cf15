----------------------------- MODULE DnsServer ------------------------------
(***************************************************************************)
(* The authoritative DNS server: internal/dns/server.go.                   *)
(*                                                                         *)
(* Goroutines that interleave: the daemon's calls of Start and Shutdown,   *)
(* the engine's calls of SetRecords, and a handler that answers a query.   *)
(* SetRecords publishes a new set with one store and adds to the serial    *)
(* with another; a handler loads each on its own.                          *)
(*                                                                         *)
(* A name is [zone, label, upper]: zone says whether it is the base domain *)
(* or under it ("base"), merely ends in the same letters ("suffix"), or is *)
(* elsewhere; label is what stands before the base, Apex if nothing does;  *)
(* upper says that it is spelled with capitals.                            *)
(***************************************************************************)
EXTENDS Integers, Sequences

CONSTANTS
  Labels,       \* labels of dynamic names
  Vips,         \* IPv4 loopback addresses
  ListenHost,   \* the host of dns_listen
  Updates,      \* record lists that callers hand to SetRecords
  Queries,      \* [name, type] pairs that clients ask for
  MaxUpdates    \* bound on successful calls of SetRecords

Apex == "@"
Ns   == "ns"
Localhost == 0

Name == [zone : {"base", "suffix", "elsewhere"}, label : Labels \cup {Apex, Ns},
         upper : BOOLEAN]

\* What a caller may put into a record: Type may be empty or of another case,
\* the address may not be IPv4 or not be loopback, the TTL may be missing.
RecordIn == [name : Name, type : {"", "a", "A", "AAAA"},
             class : {"loopback", "public", "v6", "invalid"},
             vip : Vips, ttl : Nat]

\* TXT stands for every type without a case of its own, "none" for a message
\* without a question.
QTypes == {"A", "AAAA", "SOA", "NS", "TXT", "PTR", "none"}

ASSUME VipsAssumption    == Vips \subseteq Nat /\ Localhost \in Vips
ASSUME UpdatesAssumption == Updates \subseteq Seq(RecordIn)
ASSUME QueriesAssumption == Queries \subseteq [name : Name, type : QTypes]
ASSUME BoundAssumption   == MaxUpdates \in Nat

VARIABLES
  dpc,        \* Start or Shutdown, under s.mu: "idle", "udp", "tcp", "stop"
  started, shutdown,
  sockets,    \* the open sockets: a subset of {"udp", "tcp"}
  records,    \* the published set, [name, vip, ttl] with canonical names
  serial,     \* the SOA serial
  spc,        \* SetRecords: "idle", "stored"
  stores,     \* successful calls of SetRecords so far
  list,       \* history: the record list the last of them was given
  q,          \* the query being answered
  qpc,        \* its handler: "idle", "loaded", "replied"
  recs,       \* the set the handler has loaded
  since,      \* history: the lists in force since the query came
  reply       \* what was answered

ctlVars == <<dpc, started, shutdown, sockets>>
setVars == <<records, serial, spc, stores, list>>
qryVars == <<q, qpc, recs, since, reply>>
vars == <<dpc, started, shutdown, sockets, records, serial, spc, stores,
          list, q, qpc, recs, since, reply>>

NoReply == [rcode |-> "none", aa |-> FALSE, answer |-> "none",
            vip |-> Localhost, ttl |-> 0, soa |-> 0]

Init ==
  /\ dpc = "idle" /\ started = FALSE /\ shutdown = FALSE /\ sockets = {}
  /\ records = {} /\ serial = 1 /\ spc = "idle" /\ stores = 0 /\ list = <<>>
  /\ q \in Queries /\ qpc = "idle" /\ recs = {} /\ since = {}
  /\ reply = NoReply

-----------------------------------------------------------------------------
\* Start and Shutdown.

Start ==
  /\ dpc = "idle" /\ ~shutdown /\ ~started
  /\ dpc' = "udp"
  /\ UNCHANGED <<started, shutdown, sockets>>
  /\ UNCHANGED setVars /\ UNCHANGED qryVars

ListenUDP ==
  /\ dpc = "udp"
  /\ sockets' = {"udp"} /\ dpc' = "tcp"
  /\ UNCHANGED <<started, shutdown>> /\ UNCHANGED setVars /\ UNCHANGED qryVars

ListenUDPFails ==
  /\ dpc = "udp" /\ dpc' = "idle"
  /\ UNCHANGED <<started, shutdown, sockets>>
  /\ UNCHANGED setVars /\ UNCHANGED qryVars

\* Both servers are started; their errors, if any, are not there yet.
ListenTCP ==
  /\ dpc = "tcp"
  /\ sockets' = {"udp", "tcp"} /\ started' = TRUE /\ dpc' = "idle"
  /\ UNCHANGED shutdown /\ UNCHANGED setVars /\ UNCHANGED qryVars

\* The TCP port is taken, or one of the servers fails at once: both sockets
\* are closed and Start returns an error.
ListenTCPFails ==
  /\ dpc = "tcp"
  /\ sockets' = {} /\ dpc' = "idle"
  /\ UNCHANGED <<started, shutdown>> /\ UNCHANGED setVars /\ UNCHANGED qryVars

Shutdown ==
  /\ dpc = "idle" /\ ~shutdown
  /\ shutdown' = TRUE
  /\ dpc' = IF started THEN "stop" ELSE "idle"
  /\ UNCHANGED <<started, sockets>> /\ UNCHANGED setVars /\ UNCHANGED qryVars

\* The servers stop once no handler runs.
Stopped ==
  /\ dpc = "stop" /\ qpc # "loaded"
  /\ sockets' = {} /\ dpc' = "idle"
  /\ UNCHANGED <<started, shutdown>> /\ UNCHANGED setVars /\ UNCHANGED qryVars

\* Fault: Shutdown waits for the servers however long they take.
StopWaits == Stopped

\* The time is up first: the sockets are closed under the servers.
StopTimeout ==
  /\ dpc = "stop"
  /\ sockets' = {} /\ dpc' = "idle"
  /\ UNCHANGED <<started, shutdown>> /\ UNCHANGED setVars /\ UNCHANGED qryVars

-----------------------------------------------------------------------------
\* SetRecords.

CanonicalName(n) == [n EXCEPT !.upper = FALSE]

inZone(n) == n.zone = "base"

Acceptable(r) ==
  /\ r.type \in {"", "a", "A"}
  /\ r.class = "loopback"
  /\ inZone(CanonicalName(r.name))

DefaultTTL == 5

Stored(r) == [name |-> CanonicalName(r.name), vip |-> r.vip,
              ttl |-> IF r.ttl = 0 THEN DefaultTTL ELSE r.ttl]

\* A later record replaces an earlier one of the same name.
recordSet(us) ==
  {Stored(us[i]) : i \in {j \in DOMAIN us : \A k \in DOMAIN us :
     k > j => CanonicalName(us[k].name) # CanonicalName(us[j].name)}}

\* What SetRecords does beside the record set itself.
Published(us) ==
  /\ spc' = "stored" /\ stores' = stores + 1 /\ list' = us
  /\ since' = IF qpc = "loaded" THEN since \cup {us} ELSE since
  /\ UNCHANGED <<serial, q, qpc, recs, reply>> /\ UNCHANGED ctlVars

\* Fault: bad records are skipped and the others published.
StoreGood(us) ==
  /\ spc = "idle" /\ stores < MaxUpdates
  /\ records' = recordSet(SelectSeq(us, Acceptable))
  /\ Published(us)

\* Every record is checked before the set is published; one bad record and
\* the call returns an error and changes nothing.
SetRecords(us) ==
  /\ spc = "idle" /\ stores < MaxUpdates
  /\ \A i \in DOMAIN us : Acceptable(us[i])
  /\ records' = recordSet(us)
  /\ Published(us)

BumpSerial ==
  /\ spc = "stored" /\ spc' = "idle"
  /\ serial' = serial + 1
  /\ UNCHANGED <<records, stores, list>>
  /\ UNCHANGED ctlVars /\ UNCHANGED qryVars

-----------------------------------------------------------------------------
\* Answers.

Find(n, rs) == {r \in rs : r.name = n}

\* The apex and ns.<base> always exist.
nameExists(n, rs) == Find(n, rs) # {} \/ n.label \in {Apex, Ns}

\* The listen address if it is IPv4 loopback.
nsIP == IF ListenHost \in Vips THEN ListenHost ELSE Localhost

Refused  == [NoReply EXCEPT !.rcode = "REFUSED"]
Success  == [NoReply EXCEPT !.rcode = "NOERROR", !.aa = TRUE]
NXDomain == [NoReply EXCEPT !.rcode = "NXDOMAIN", !.aa = TRUE, !.soa = serial]

AnswerA(vip, ttl) ==
  [Success EXCEPT !.answer = "A", !.vip = vip, !.ttl = ttl]

Empty(n, rs) == IF nameExists(n, rs) THEN Success ELSE NXDomain

handleA(n, rs) ==
  IF Find(n, rs) # {}
  THEN LET r == CHOOSE r \in Find(n, rs) : TRUE IN AnswerA(r.vip, r.ttl)
  ELSE IF n.label = Ns THEN AnswerA(nsIP, DefaultTTL) ELSE NXDomain

handleAAAA(n, rs) == Empty(n, rs)

\* SOA and NS are at the apex; elsewhere the set is loaded once more.
handleSOA(n) ==
  IF n.label = Apex THEN [Success EXCEPT !.answer = "SOA", !.soa = serial]
  ELSE Empty(n, records)

handleNS(n) ==
  IF n.label = Apex THEN [Success EXCEPT !.answer = "NS"]
  ELSE Empty(n, records)

handle(type, n, rs) ==
  CASE type = "A"    -> handleA(n, rs)
    [] type = "AAAA" -> handleAAAA(n, rs)
    [] type = "SOA"  -> handleSOA(n)
    [] type = "NS"   -> handleNS(n)
    [] OTHER         -> Empty(n, rs)

FormErr == [NoReply EXCEPT !.rcode = "FORMERR"]

\* Fault: a name that ends in the same letters is taken for one of the zone.
UnservedNoDot(query) ==
  query.type \in {"none", "PTR"} \/ query.name.zone = "elsewhere"

\* The queries that serveDNS answers without the record set.
Unserved(query) ==
  query.type \in {"none", "PTR"} \/ ~inZone(CanonicalName(query.name))

Turned(query) == IF query.type = "none" THEN FormErr ELSE Refused

\* Fault: the handler keeps the set it loaded for an earlier query.
ReceiveCached(query) ==
  /\ qpc = "idle" /\ started /\ sockets # {} /\ ~Unserved(query)
  /\ q' = query /\ qpc' = "loaded"
  /\ recs' = IF recs = {} THEN records ELSE recs
  /\ since' = {list}
  /\ UNCHANGED reply /\ UNCHANGED ctlVars /\ UNCHANGED setVars

\* serveDNS up to the load of the record set.
Receive(query) ==
  /\ qpc = "idle" /\ started /\ sockets # {} /\ ~Unserved(query)
  /\ q' = query /\ qpc' = "loaded"
  /\ recs' = records /\ since' = {list}
  /\ UNCHANGED reply /\ UNCHANGED ctlVars /\ UNCHANGED setVars

Turn(query) ==
  /\ qpc = "idle" /\ started /\ sockets # {} /\ Unserved(query)
  /\ q' = query /\ qpc' = "replied" /\ reply' = Turned(query)
  /\ UNCHANGED <<recs, since>> /\ UNCHANGED ctlVars /\ UNCHANGED setVars

\* The answer for ns.<base> calls ListenAddr, which takes s.mu: it waits while
\* Start or Shutdown holds it.
MayReply == q.type = "A" /\ q.name.label = Ns /\ Find(CanonicalName(q.name), recs) = {} =>
              dpc = "idle"

Reply ==
  /\ qpc = "loaded" /\ MayReply /\ qpc' = "replied"
  /\ reply' = handle(q.type, CanonicalName(q.name), recs)
  /\ UNCHANGED <<q, recs, since>> /\ UNCHANGED ctlVars /\ UNCHANGED setVars

\* The client has its answer; another query may come.
Forget ==
  /\ qpc = "replied" /\ qpc' = "idle"
  /\ reply' = NoReply /\ since' = {}
  /\ UNCHANGED <<q, recs>> /\ UNCHANGED ctlVars /\ UNCHANGED setVars

-----------------------------------------------------------------------------
Control ==
  \/ ListenUDP \/ ListenUDPFails \/ ListenTCP \/ ListenTCPFails
  \/ Stopped \/ StopTimeout

Next ==
  \/ Start \/ Shutdown \/ Control
  \/ (\E us \in Updates : SetRecords(us)) \/ BumpSerial
  \/ (\E query \in Queries : Receive(query) \/ Turn(query)) \/ Reply \/ Forget

\* Calls in progress go on.
Fairness == WF_vars(Control) /\ WF_vars(BumpSerial) /\ WF_vars(Reply)

Spec == Init /\ [][Next]_vars /\ Fairness

-----------------------------------------------------------------------------
\* Properties.

ReplyType ==
  [rcode : {"none", "NOERROR", "NXDOMAIN", "REFUSED", "FORMERR"}, aa : BOOLEAN,
   answer : {"none", "A", "SOA", "NS"}, vip : Vips, ttl : Nat, soa : Nat]

\* Every variable has its type.
TypeOK ==
  /\ dpc \in {"idle", "udp", "tcp", "stop"}
  /\ started \in BOOLEAN /\ shutdown \in BOOLEAN
  /\ sockets \subseteq {"udp", "tcp"}
  /\ records \subseteq [name : Name, vip : Vips, ttl : Nat \ {0}]
  /\ serial \in Nat \ {0} /\ spc \in {"idle", "stored"}
  /\ stores \in 0 .. MaxUpdates /\ list \in Updates \cup {<<>>}
  /\ q \in Queries /\ qpc \in {"idle", "loaded", "replied"}
  /\ reply \in ReplyType

Has(us, n) == \E i \in DOMAIN us : CanonicalName(us[i].name) = n

\* "Record set replaced atomically": wherever an update falls, a query is
\* answered from a list that was in force while it was handled.  A name that
\* all of these have is not answered with NXDOMAIN, in whatever case it is
\* asked for, and the address of a dynamic name is one that it had in them.
AnswerWasCurrent ==
  /\ reply.rcode = "NXDOMAIN" => \E us \in since : ~Has(us, CanonicalName(q.name))
  /\ reply.answer = "A" /\ q.name.label # Ns =>
       \E us \in since : \E i \in DOMAIN us :
         us[i].name.label = q.name.label /\ us[i].vip = reply.vip

\* "the prior record set is left unchanged when validation fails": what is
\* published is the whole of one list of acceptable records; and the serial
\* is not ahead of it: a client that reads serial s and then asks for a name
\* gets an answer from the s-th set or a later one.
PublishedInOrder ==
  /\ \A i \in DOMAIN list : list[i].class = "loopback" /\ list[i].name.zone = "base"
  /\ {r.name : r \in records} =
       {CanonicalName(list[i].name) : i \in DOMAIN list}
  /\ serial <= stores + 1

\* "Apex and ns.<base> always exist for polite zone": NXDOMAIN is about the
\* name, so for one record set no type of question gets it for a name that
\* has an answer to another.  (The apex itself is left out, see handleA.)  And
\* the server speaks with authority about its own zone and about no other,
\* such as a domain whose name ends in the same letters.
ZoneRules ==
  /\ qpc = "loaded" /\ spc = "idle" /\ recs = records /\ q.name.label # Apex =>
       LET rcode(t) == handle(t, CanonicalName(q.name), recs).rcode
       IN  \A t, u \in {"A", "AAAA", "SOA", "NS", "TXT"} : rcode(t) = rcode(u)
  /\ qpc = "replied" /\ q.type # "none" =>
       /\ reply.aa <=> q.name.zone = "base" /\ q.type # "PTR"
       /\ ~reply.aa => reply.rcode = "REFUSED" /\ reply.answer = "none"

\* Shutdown holds s.mu while it waits for the handlers, and the handler of a
\* question for ns.<base> waits for s.mu: every handler ends all the same, and
\* Shutdown and a Start that fails leave no socket open.
ServerStops ==
  /\ qpc = "loaded" ~> qpc = "replied"
  /\ dpc # "idle" ~> dpc = "idle" /\ (~started \/ shutdown => sockets = {})
=============================================================================
