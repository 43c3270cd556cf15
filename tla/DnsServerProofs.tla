--------------------------- MODULE DnsServerProofs --------------------------
(***************************************************************************)
(* Proofs about DnsServer, for any lists of records, any queries and any   *)
(* number of updates.                                                      *)
(*                                                                         *)
(* A handler answers from a set that it loaded before an update or after   *)
(* it.  The invariant ties both sets to lists: what is published is the    *)
(* set of the last list, what a handler holds that of a list in force      *)
(* since its query came, and the set of a list has the names of the list.  *)
(***************************************************************************)
EXTENDS DnsServer, WellFoundedInduction, TLAPS

\* A record of the published set.
RecordOut == [name : Name, vip : Vips, ttl : Nat \ {0}]

Good(us) == us \in Seq(RecordIn) /\ \A i \in DOMAIN us : Acceptable(us[i])

\* The published set is that of the last list, which was acceptable.
PublishedIsList == Good(list) /\ records = recordSet(list)

\* The serial is added to after the set is published.
SerialBehind == serial <= stores + 1 /\ (spc = "stored" => serial <= stores)

\* A handler that has loaded a set has that of a list in force since then,
\* and the list in force now is one of them.
LoadedIsList ==
  qpc = "loaded" =>
    /\ list \in since /\ \A us \in since : Good(us)
    /\ \E us \in since : recs = recordSet(us)
    /\ ~Unserved(q)

\* There is an answer only once it was given.
NoReplyYet == qpc # "replied" => reply = NoReply

\* The part of ZoneRules that is about an answer that was given.
Authority ==
  qpc = "replied" /\ q.type # "none" =>
    /\ reply.aa <=> q.name.zone = "base" /\ q.type # "PTR"
    /\ ~reply.aa => reply.rcode = "REFUSED" /\ reply.answer = "none"

DnsInv ==
  /\ TypeOK /\ PublishedIsList /\ SerialBehind /\ LoadedIsList /\ NoReplyYet
  /\ AnswerWasCurrent /\ Authority

-----------------------------------------------------------------------------
\* Record sets.

\* A set of positions in a list has a last one.
LEMMA LastPosition ==
  ASSUME NEW n \in Nat, NEW J, J \subseteq 1 .. n, J # {}
  PROVE  \E j \in J : \A k \in J : k <= j
<1> DEFINE T == {m \in Nat : \E j \in J : m = n - j}
<1> DEFINE R == OpToRel(<, Nat)
<1>1. \A j \in J : j \in Nat /\ j <= n /\ n - j \in Nat
  OBVIOUS
<1>2. T \subseteq Nat /\ T # {}
  <2>1. PICK j : j \in J
    OBVIOUS
  <2>2. n - j \in T
    BY <1>1, <2>1
  <2> QED
    BY <2>2
<1>3. PICK x \in T : \A y \in T : ~(<<y, x>> \in R)
  <2> HIDE DEF T, R
  <2>1. IsWellFoundedOn(R, Nat)
    BY NatLessThanWellFounded DEF R
  <2> QED
    BY <1>2, <2>1, WFMin
<1>4. \A y \in T : ~(y < x)
  <2>1. \A y \in Nat : <<y, x>> \in Nat \X Nat => (y < x => <<y, x>> \in R)
    BY DEF OpToRel
  <2> QED
    BY <1>2, <1>3, <2>1
<1>5. PICK j \in J : x = n - j
  OBVIOUS
<1>6. \A k \in J : ~(n - k < n - j)
  BY <1>1, <1>4, <1>5
<1>7. \A k \in J : k <= j
  BY <1>1, <1>6
<1> QED
  BY <1>7

\* The canonical name differs from a name in its case only.
LEMMA CanonicalFacts ==
  ASSUME NEW n \in Name
  PROVE  /\ CanonicalName(n) \in Name
         /\ CanonicalName(n).zone = n.zone /\ CanonicalName(n).label = n.label
<1>1. PICK c : c = [n EXCEPT !.upper = FALSE]
  OBVIOUS
<1>2. c \in Name /\ c.zone = n.zone /\ c.label = n.label
  BY <1>1 DEF Name
<1> QED
  BY <1>1, <1>2 DEF CanonicalName

\* A record is stored under its canonical name, with its address and a TTL.
LEMMA StoredFacts ==
  ASSUME NEW r \in RecordIn
  PROVE  /\ Stored(r) \in RecordOut
         /\ Stored(r).name = CanonicalName(r.name) /\ Stored(r).vip = r.vip
<1>1. r.name \in Name /\ r.vip \in Vips /\ r.ttl \in Nat
  BY DEF RecordIn
<1>2. CanonicalName(r.name) \in Name
  BY <1>1, CanonicalFacts
<1> QED
  BY <1>1, <1>2 DEF Stored, RecordOut, DefaultTTL

\* A record of a list's set is one of the list.
LEMMA FromList ==
  ASSUME NEW us \in Seq(RecordIn), NEW r \in recordSet(us)
  PROVE  /\ r \in RecordOut
         /\ \E i \in DOMAIN us : /\ us[i] \in RecordIn
                                 /\ r.name = CanonicalName(us[i].name)
                                 /\ r.vip = us[i].vip
<1>1. PICK i \in DOMAIN us : r = Stored(us[i])
  BY DEF recordSet
<1>2. us[i] \in RecordIn
  BY <1>1
<1> QED
  BY <1>1, <1>2, StoredFacts

\* Every name of a list is in its set: the last record of the name is.
LEMMA NameKept ==
  ASSUME NEW us \in Seq(RecordIn), NEW i \in DOMAIN us
  PROVE  \E r \in recordSet(us) : r.name = CanonicalName(us[i].name)
<1> DEFINE J == {j \in DOMAIN us : CanonicalName(us[j].name) = CanonicalName(us[i].name)}
<1>1. Len(us) \in Nat /\ DOMAIN us = 1 .. Len(us)
  OBVIOUS
<1>2. J \subseteq 1 .. Len(us) /\ J # {}
  BY <1>1
<1>3. PICK j \in J : \A k \in J : k <= j
  <2> HIDE DEF J
  <2> QED
    BY <1>1, <1>2, LastPosition
<1>4. j \in DOMAIN us /\ j \in Int /\ \A k \in DOMAIN us : k \in Int
  BY <1>1
<1>5. \A k \in DOMAIN us : k > j => CanonicalName(us[k].name) # CanonicalName(us[j].name)
  BY <1>3, <1>4
<1>6. Stored(us[j]) \in recordSet(us)
  BY <1>4, <1>5 DEF recordSet
<1>7. us[j] \in RecordIn
  BY <1>4
<1>8. Stored(us[j]).name = CanonicalName(us[i].name)
  BY <1>3, <1>7, StoredFacts
<1> QED
  BY <1>6, <1>8

\* The set of a list has the names of the list.
LEMMA SameNames ==
  ASSUME NEW us \in Seq(RecordIn)
  PROVE  {r.name : r \in recordSet(us)} = {CanonicalName(us[i].name) : i \in DOMAIN us}
<1>1. ASSUME NEW r \in recordSet(us)
      PROVE  r.name \in {CanonicalName(us[i].name) : i \in DOMAIN us}
  BY FromList
<1>2. ASSUME NEW i \in DOMAIN us
      PROVE  CanonicalName(us[i].name) \in {r.name : r \in recordSet(us)}
  <2>1. PICK r \in recordSet(us) : r.name = CanonicalName(us[i].name)
    BY NameKept
  <2> QED
    BY <2>1
<1> QED
  BY <1>1, <1>2

\* A name that is not found in a list's set is not in the list.
LEMMA NotFound ==
  ASSUME NEW us \in Seq(RecordIn), NEW n, Find(n, recordSet(us)) = {}
  PROVE  ~Has(us, n)
<1> SUFFICES ASSUME NEW i \in DOMAIN us, CanonicalName(us[i].name) = n
             PROVE  FALSE
  BY DEF Has
<1>1. PICK r \in recordSet(us) : r.name = n
  BY NameKept
<1> QED
  BY <1>1 DEF Find

-----------------------------------------------------------------------------
\* Answers.

\* The answers that need no record.
LEMMA PlainReplies ==
  ASSUME serial \in Nat
  PROVE  /\ NoReply \in ReplyType /\ ~NoReply.aa
         /\ NoReply.rcode = "none" /\ NoReply.answer = "none"
         /\ Refused \in ReplyType /\ ~Refused.aa
         /\ Refused.rcode = "REFUSED" /\ Refused.answer = "none"
         /\ FormErr \in ReplyType /\ FormErr.rcode = "FORMERR"
         /\ FormErr.answer = "none"
         /\ Success \in ReplyType /\ Success.aa
         /\ Success.rcode = "NOERROR" /\ Success.answer = "none"
         /\ NXDomain \in ReplyType /\ NXDomain.aa
         /\ NXDomain.rcode = "NXDOMAIN" /\ NXDomain.answer = "none"
<1>1. /\ NoReply \in ReplyType /\ ~NoReply.aa
      /\ NoReply.rcode = "none" /\ NoReply.answer = "none"
  BY VipsAssumption DEF NoReply, ReplyType
<1>2. /\ Refused \in ReplyType /\ ~Refused.aa
      /\ Refused.rcode = "REFUSED" /\ Refused.answer = "none"
  BY <1>1 DEF Refused, ReplyType
<1>3. FormErr \in ReplyType /\ FormErr.rcode = "FORMERR" /\ FormErr.answer = "none"
  BY <1>1 DEF FormErr, ReplyType
<1>4. /\ Success \in ReplyType /\ Success.aa
      /\ Success.rcode = "NOERROR" /\ Success.answer = "none"
  BY <1>1 DEF Success, ReplyType
<1>5. /\ NXDomain \in ReplyType /\ NXDomain.aa
      /\ NXDomain.rcode = "NXDOMAIN" /\ NXDomain.answer = "none"
  BY <1>1 DEF NXDomain, ReplyType
<1> QED
  BY <1>1, <1>2, <1>3, <1>4, <1>5

\* An A answer carries the address and the TTL it is given.
LEMMA AnswerAFacts ==
  ASSUME NEW vip \in Vips, NEW ttl \in Nat, serial \in Nat
  PROVE  /\ AnswerA(vip, ttl) \in ReplyType /\ AnswerA(vip, ttl).aa
         /\ AnswerA(vip, ttl).rcode = "NOERROR" /\ AnswerA(vip, ttl).vip = vip
<1>1. PICK a : a = [Success EXCEPT !.answer = "A"]
  OBVIOUS
<1>2. a \in ReplyType /\ a.aa /\ a.rcode = "NOERROR"
  BY <1>1, PlainReplies DEF ReplyType
<1>3. PICK b : b = [a EXCEPT !.vip = vip]
  OBVIOUS
<1>4. b \in ReplyType /\ b.aa /\ b.rcode = "NOERROR" /\ b.vip = vip
  BY <1>2, <1>3 DEF ReplyType
<1>5. PICK c : c = [b EXCEPT !.ttl = ttl]
  OBVIOUS
<1>6. c \in ReplyType /\ c.aa /\ c.rcode = "NOERROR" /\ c.vip = vip
  BY <1>4, <1>5 DEF ReplyType
<1> QED
  BY <1>1, <1>3, <1>5, <1>6 DEF AnswerA

\* What is known of an answer given for name n from the set rs.
Answers(h, n, rs) ==
  /\ h \in ReplyType /\ h.aa
  /\ h.rcode = "NXDOMAIN" => Find(n, rs) = {}
  /\ h.answer = "A" /\ n.label # Ns => \E r \in Find(n, rs) : h.vip = r.vip

\* The rcode that the zone has for a name other than the apex.
ZoneRcode(n, rs) ==
  IF Find(n, rs) # {} \/ n.label = Ns THEN "NOERROR" ELSE "NXDOMAIN"

\* An answer without records.
LEMMA EmptyFacts ==
  ASSUME NEW n, NEW rs, serial \in Nat
  PROVE  /\ Answers(Empty(n, rs), n, rs)
         /\ n.label # Apex => Empty(n, rs).rcode = ZoneRcode(n, rs)
BY PlainReplies DEF Answers, Empty, nameExists, ZoneRcode

\* The answer to a question for an address.
LEMMA HandleAFacts ==
  ASSUME NEW n, NEW rs, rs \subseteq RecordOut, serial \in Nat
  PROVE  Answers(handleA(n, rs), n, rs) /\ handleA(n, rs).rcode = ZoneRcode(n, rs)
<1>1. CASE Find(n, rs) # {}
  <2>1. PICK r : r = CHOOSE s \in Find(n, rs) : TRUE
    OBVIOUS
  <2>2. r \in Find(n, rs)
    BY <1>1, <2>1
  <2>3. r.vip \in Vips /\ r.ttl \in Nat
    BY <2>2 DEF Find, RecordOut
  <2>4. handleA(n, rs) = AnswerA(r.vip, r.ttl)
    BY <1>1, <2>1 DEF handleA
  <2> QED
    BY <1>1, <2>2, <2>3, <2>4, AnswerAFacts DEF Answers, ZoneRcode
<1>2. CASE Find(n, rs) = {} /\ n.label = Ns
  <2>1. nsIP \in Vips /\ DefaultTTL \in Nat
    BY VipsAssumption DEF nsIP, DefaultTTL
  <2>2. handleA(n, rs) = AnswerA(nsIP, DefaultTTL)
    BY <1>2 DEF handleA
  <2> QED
    BY <1>2, <2>1, <2>2, AnswerAFacts DEF Answers, ZoneRcode
<1>3. CASE Find(n, rs) = {} /\ n.label # Ns
  <2>1. handleA(n, rs) = NXDomain
    BY <1>3 DEF handleA
  <2> QED
    BY <1>3, <2>1, PlainReplies DEF Answers, ZoneRcode
<1> QED
  BY <1>1, <1>2, <1>3

\* The answers for the apex.
LEMMA ApexFacts ==
  ASSUME serial \in Nat
  PROVE  \A a \in {"SOA", "NS"} :
           /\ [Success EXCEPT !.answer = a, !.soa = serial] \in ReplyType
           /\ [Success EXCEPT !.answer = a, !.soa = serial].aa
           /\ [Success EXCEPT !.answer = a, !.soa = serial].rcode = "NOERROR"
           /\ [Success EXCEPT !.answer = a, !.soa = serial].answer = a
           /\ [Success EXCEPT !.answer = a] \in ReplyType
           /\ [Success EXCEPT !.answer = a].aa
           /\ [Success EXCEPT !.answer = a].rcode = "NOERROR"
           /\ [Success EXCEPT !.answer = a].answer = a
<1> TAKE a \in {"SOA", "NS"}
<1>1. PICK x : x = [Success EXCEPT !.answer = a]
  OBVIOUS
<1>2. x \in ReplyType /\ x.aa /\ x.rcode = "NOERROR" /\ x.answer = a
  BY <1>1, PlainReplies DEF ReplyType
<1>3. PICK y : y = [x EXCEPT !.soa = serial]
  OBVIOUS
<1>4. y \in ReplyType /\ y.aa /\ y.rcode = "NOERROR" /\ y.answer = a
  BY <1>2, <1>3 DEF ReplyType
<1> QED
  BY <1>1, <1>2, <1>3, <1>4

\* Whatever is asked: the answer is an authoritative one from the loaded set
\* or, for SOA and NS, from the set that is published now; and if these are
\* the same and the name is not the apex, the rcode is the name's.
LEMMA HandleFacts ==
  ASSUME NEW type, NEW n, NEW rs, rs \subseteq RecordOut, serial \in Nat
  PROVE  LET h == handle(type, n, rs)
         IN  /\ Answers(h, n, rs) \/ Answers(h, n, records)
             /\ rs = records /\ n.label # Apex => h.rcode = ZoneRcode(n, rs)
<1> DEFINE h == handle(type, n, rs)
<1>1. CASE type = "A"
  <2>1. h = handleA(n, rs)
    BY <1>1 DEF handle
  <2> QED
    BY <2>1, HandleAFacts
<1>2. CASE type \in {"SOA", "NS"} /\ n.label = Apex
  <2>1. \/ h = [Success EXCEPT !.answer = "SOA", !.soa = serial]
        \/ h = [Success EXCEPT !.answer = "NS"]
    BY <1>2 DEF handle, handleSOA, handleNS
  <2>2. h \in ReplyType /\ h.aa /\ h.rcode = "NOERROR" /\ h.answer # "A"
    BY <2>1, ApexFacts
  <2> HIDE DEF h
  <2>3. Answers(h, n, rs)
    BY <2>2 DEF Answers
  <2> QED
    BY <1>2, <2>3 DEF h
<1>3. CASE type \in {"SOA", "NS"} /\ n.label # Apex
  <2>1. h = Empty(n, records)
    BY <1>3 DEF handle, handleSOA, handleNS
  <2> QED
    BY <1>3, <2>1, EmptyFacts
<1>4. CASE type \notin {"A", "SOA", "NS"}
  <2>1. h = Empty(n, rs)
    BY <1>4 DEF handle, handleAAAA
  <2> QED
    BY <2>1, EmptyFacts
<1> QED
  BY <1>1, <1>2, <1>3, <1>4

-----------------------------------------------------------------------------
\* The inductive invariant.

\* The server starts with the set of the empty list.
LEMMA DnsInvInit == Init => DnsInv
<1> SUFFICES ASSUME Init PROVE DnsInv
  OBVIOUS
<1>1. Good(list)
  BY DEF Init, Good
<1>2. records = recordSet(list)
  BY DEF Init, recordSet
<1>3. reply \in ReplyType /\ reply.rcode = "none" /\ reply.answer = "none"
  BY PlainReplies DEF Init
<1>4. TypeOK
  <2>1. list \in Updates \cup {<<>>}
    BY Zenon DEF Init
  <2>2. records \subseteq [name : Name, vip : Vips, ttl : Nat \ {0}]
    BY DEF Init
  <2>3. stores \in 0 .. MaxUpdates /\ serial \in Nat \ {0}
    BY BoundAssumption DEF Init
  <2> QED
    BY <1>3, <2>1, <2>2, <2>3 DEF Init, TypeOK
<1>5. SerialBehind
  BY DEF Init, SerialBehind
<1>6. LoadedIsList /\ NoReplyYet /\ AnswerWasCurrent /\ Authority
  BY <1>3 DEF Init, LoadedIsList, NoReplyYet, AnswerWasCurrent, Authority
<1> QED
  BY <1>1, <1>2, <1>4, <1>5, <1>6 DEF DnsInv, PublishedIsList

\* Start and Shutdown touch neither records nor answers.
LEMMA ControlKeeps ==
  ASSUME DnsInv, Start \/ Shutdown \/ Control
  PROVE  DnsInv'
<1>1. UNCHANGED setVars /\ UNCHANGED qryVars
  BY DEF Start, Shutdown, Control, ListenUDP, ListenUDPFails, ListenTCP,
     ListenTCPFails, Stopped, StopTimeout
<1>2. /\ dpc' \in {"idle", "udp", "tcp", "stop"}
      /\ started' \in BOOLEAN /\ shutdown' \in BOOLEAN
      /\ sockets' \subseteq {"udp", "tcp"}
  BY DEF DnsInv, TypeOK, Start, Shutdown, Control, ListenUDP, ListenUDPFails,
     ListenTCP, ListenTCPFails, Stopped, StopTimeout
<1>3. TypeOK'
  BY <1>1, <1>2 DEF DnsInv, TypeOK, setVars, qryVars
<1>4. PublishedIsList' /\ SerialBehind' /\ NoReplyYet'
  BY <1>1 DEF DnsInv, PublishedIsList, SerialBehind, NoReplyYet, Good, setVars, qryVars
<1>5. LoadedIsList'
  BY <1>1 DEF DnsInv, LoadedIsList, Good, Unserved, setVars, qryVars
<1>6. AnswerWasCurrent' /\ Authority'
  BY <1>1 DEF DnsInv, AnswerWasCurrent, Authority, Has, qryVars
<1> QED
  BY <1>3, <1>4, <1>5, <1>6 DEF DnsInv

\* An update publishes the set of a good list, and a handler that is under
\* way has one more list that its answer may come from.
LEMMA SetRecordsKeeps ==
  ASSUME DnsInv, NEW us \in Updates, SetRecords(us)
  PROVE  DnsInv'
<1>1. us \in Seq(RecordIn) /\ Good(us)
  BY UpdatesAssumption DEF SetRecords, Good
<1>2. recordSet(us) \subseteq RecordOut
  BY <1>1, FromList
<1>3. /\ spc' = "stored" /\ stores' = stores + 1 /\ list' = us /\ serial' = serial
      /\ records' = recordSet(us) /\ stores < MaxUpdates /\ spc = "idle"
      /\ since' = IF qpc = "loaded" THEN since \cup {us} ELSE since
      /\ UNCHANGED <<q, qpc, recs, reply>> /\ UNCHANGED ctlVars
  BY DEF SetRecords, Published
<1>4. TypeOK'
  BY <1>2, <1>3, BoundAssumption DEF DnsInv, TypeOK, RecordOut, ctlVars
<1>5. PublishedIsList'
  BY <1>1, <1>3 DEF PublishedIsList, Good
<1>6. SerialBehind'
  BY <1>3 DEF DnsInv, SerialBehind, TypeOK
<1>7. LoadedIsList'
  <2>1. ASSUME qpc = "loaded"
        PROVE  /\ us \in since' /\ since \subseteq since'
               /\ \A w \in since' : Good(w)
    BY <1>1, <1>3, <2>1 DEF DnsInv, LoadedIsList
  <2> QED
    BY <1>3, <2>1 DEF DnsInv, LoadedIsList, Good, Unserved
<1>8. NoReplyYet' /\ Authority'
  BY <1>3 DEF DnsInv, NoReplyYet, Authority
<1>9. AnswerWasCurrent'
  <2>1. CASE qpc = "replied"
    BY <1>3, <2>1 DEF DnsInv, AnswerWasCurrent, Has
  <2>2. CASE qpc # "replied"
    <3>1. reply' = NoReply /\ NoReply.rcode = "none" /\ NoReply.answer = "none"
      BY <1>3, <2>2 DEF DnsInv, NoReplyYet, NoReply
    <3> QED
      BY <3>1 DEF AnswerWasCurrent
  <2> QED
    BY <2>1, <2>2
<1> QED
  BY <1>4, <1>5, <1>6, <1>7, <1>8, <1>9 DEF DnsInv

\* The serial follows.
LEMMA BumpKeeps ==
  ASSUME DnsInv, BumpSerial
  PROVE  DnsInv'
<1>1. /\ spc = "stored" /\ spc' = "idle" /\ serial' = serial + 1
      /\ UNCHANGED <<records, stores, list>> /\ UNCHANGED ctlVars
      /\ UNCHANGED <<q, qpc, recs, since, reply>>
  BY DEF BumpSerial, qryVars
<1>2. TypeOK'
  BY <1>1 DEF DnsInv, TypeOK, ctlVars
<1>3. SerialBehind'
  BY <1>1, BoundAssumption DEF DnsInv, SerialBehind, TypeOK
<1>4. PublishedIsList' /\ NoReplyYet'
  BY <1>1 DEF DnsInv, PublishedIsList, NoReplyYet, Good
<1>5. LoadedIsList'
  BY <1>1 DEF DnsInv, LoadedIsList, Good, Unserved
<1>6. AnswerWasCurrent' /\ Authority'
  BY <1>1 DEF DnsInv, AnswerWasCurrent, Authority, Has
<1> QED
  BY <1>2, <1>3, <1>4, <1>5, <1>6 DEF DnsInv

\* A handler loads the published set.
LEMMA ReceiveKeeps ==
  ASSUME DnsInv, NEW query \in Queries, Receive(query)
  PROVE  DnsInv'
<1>1. /\ qpc = "idle" /\ ~Unserved(query)
      /\ q' = query /\ qpc' = "loaded" /\ recs' = records /\ since' = {list}
      /\ reply' = reply /\ UNCHANGED ctlVars
      /\ UNCHANGED <<records, serial, spc, stores, list>>
  BY DEF Receive, setVars
<1>2. TypeOK'
  BY <1>1 DEF DnsInv, TypeOK, ctlVars
<1>3. PublishedIsList' /\ SerialBehind' /\ NoReplyYet'
  BY <1>1 DEF DnsInv, PublishedIsList, SerialBehind, NoReplyYet, Good
<1>4. LoadedIsList'
  BY <1>1 DEF DnsInv, LoadedIsList, PublishedIsList, Good, Unserved
<1>5. reply' = NoReply /\ NoReply.rcode = "none" /\ NoReply.answer = "none"
  BY <1>1 DEF DnsInv, NoReplyYet, NoReply
<1>6. AnswerWasCurrent' /\ Authority'
  BY <1>1, <1>5 DEF AnswerWasCurrent, Authority
<1> QED
  BY <1>2, <1>3, <1>4, <1>6 DEF DnsInv

\* A question that is turned away gets no authority.
LEMMA TurnKeeps ==
  ASSUME DnsInv, NEW query \in Queries, Turn(query)
  PROVE  DnsInv'
<1>1. /\ qpc = "idle" /\ Unserved(query)
      /\ q' = query /\ qpc' = "replied" /\ reply' = Turned(query)
      /\ UNCHANGED <<recs, since>> /\ UNCHANGED ctlVars
      /\ UNCHANGED <<records, serial, spc, stores, list>>
  BY DEF Turn, setVars
<1>2. query.name \in Name
  BY QueriesAssumption
<1>3. /\ Turned(query) \in ReplyType /\ Turned(query).answer = "none"
      /\ Turned(query).rcode # "NXDOMAIN"
      /\ query.type # "none" => ~Turned(query).aa /\ Turned(query).rcode = "REFUSED"
  BY PlainReplies DEF Turned, DnsInv, TypeOK
<1>4. TypeOK'
  BY <1>1, <1>3 DEF DnsInv, TypeOK, ctlVars
<1>5. PublishedIsList' /\ SerialBehind' /\ NoReplyYet' /\ LoadedIsList'
  BY <1>1 DEF DnsInv, PublishedIsList, SerialBehind, NoReplyYet, Good, LoadedIsList
<1>6. AnswerWasCurrent'
  BY <1>1, <1>3 DEF AnswerWasCurrent
<1>7. Authority'
  BY <1>1, <1>2, <1>3, CanonicalFacts DEF Authority, Unserved, inZone
<1> QED
  BY <1>4, <1>5, <1>6, <1>7 DEF DnsInv

\* An answer comes from the loaded set, or from the published one.
LEMMA ReplyKeeps ==
  ASSUME DnsInv, Reply
  PROVE  DnsInv'
<1> DEFINE n == CanonicalName(q.name)
<1> DEFINE h == handle(q.type, n, recs)
<1>1. /\ qpc = "loaded" /\ qpc' = "replied" /\ reply' = h
      /\ UNCHANGED <<q, recs, since>> /\ UNCHANGED ctlVars
      /\ UNCHANGED <<records, serial, spc, stores, list>>
  BY DEF Reply, setVars
<1>2. q.name \in Name /\ n \in Name /\ n.zone = q.name.zone /\ n.label = q.name.label
  BY QueriesAssumption, CanonicalFacts DEF DnsInv, TypeOK
<1>3. PICK us \in since : recs = recordSet(us)
  BY <1>1 DEF DnsInv, LoadedIsList
<1>4. list \in since /\ records = recordSet(list)
  BY <1>1 DEF DnsInv, LoadedIsList, PublishedIsList
<1>5. us \in Seq(RecordIn) /\ list \in Seq(RecordIn)
  BY <1>1, <1>3, <1>4 DEF DnsInv, LoadedIsList, Good
<1>6. recs \subseteq RecordOut
  BY <1>3, <1>5, FromList
<1>7. PICK ws \in since : ws \in Seq(RecordIn) /\ Answers(h, n, recordSet(ws))
  <2>1. Answers(h, n, recs) \/ Answers(h, n, records)
    BY <1>6, HandleFacts DEF DnsInv, TypeOK
  <2> QED
    BY <2>1, <1>3, <1>4, <1>5
<1> HIDE DEF n, h
<1>8. h \in ReplyType /\ h.aa
  BY <1>7 DEF Answers
<1>9. TypeOK'
  BY <1>1, <1>8 DEF DnsInv, TypeOK, ctlVars
<1>10. PublishedIsList' /\ SerialBehind' /\ NoReplyYet' /\ LoadedIsList'
  BY <1>1 DEF DnsInv, PublishedIsList, SerialBehind, NoReplyYet, Good, LoadedIsList
<1>11. Authority'
  <2>1. q.name.zone = "base" /\ q.type # "PTR"
    BY <1>1, <1>2 DEF DnsInv, LoadedIsList, Unserved, inZone, n
  <2> QED
    BY <1>1, <1>8, <2>1 DEF Authority
<1>12. AnswerWasCurrent'
  <2>1. ASSUME h.rcode = "NXDOMAIN" PROVE ~Has(ws, n)
    BY <1>7, <2>1, NotFound DEF Answers
  <2>2. ASSUME h.answer = "A", q.name.label # Ns
        PROVE  \E i \in DOMAIN ws : ws[i].name.label = q.name.label /\ ws[i].vip = h.vip
    <3>1. PICK r \in recordSet(ws) : r.name = n /\ h.vip = r.vip
      BY <1>2, <1>7, <2>2 DEF Answers, Find
    <3>2. PICK i \in DOMAIN ws : /\ ws[i] \in RecordIn
                                 /\ r.name = CanonicalName(ws[i].name)
                                 /\ r.vip = ws[i].vip
      BY <1>7, FromList
    <3>3. ws[i].name \in Name
      BY <3>2 DEF RecordIn
    <3>4. ws[i].name.label = n.label
      BY <3>1, <3>2, <3>3, CanonicalFacts
    <3> QED
      BY <1>2, <3>1, <3>2, <3>4
  <2> QED
    BY <1>1, <2>1, <2>2 DEF AnswerWasCurrent, Has, n
<1> QED
  BY <1>9, <1>10, <1>11, <1>12 DEF DnsInv

\* The next query starts afresh.
LEMMA ForgetKeeps ==
  ASSUME DnsInv, Forget
  PROVE  DnsInv'
<1>1. /\ qpc' = "idle" /\ reply' = NoReply /\ UNCHANGED ctlVars /\ q' = q
      /\ UNCHANGED <<records, serial, spc, stores, list>>
  BY DEF Forget, setVars
<1>2. NoReply \in ReplyType /\ NoReply.rcode = "none" /\ NoReply.answer = "none"
  BY PlainReplies DEF DnsInv, TypeOK
<1>3. TypeOK'
  BY <1>1, <1>2 DEF DnsInv, TypeOK, ctlVars
<1>4. PublishedIsList' /\ SerialBehind' /\ NoReplyYet' /\ LoadedIsList' /\ Authority'
  BY <1>1 DEF DnsInv, PublishedIsList, SerialBehind, NoReplyYet, Good, LoadedIsList,
     Authority
<1>5. AnswerWasCurrent'
  BY <1>1, <1>2 DEF AnswerWasCurrent
<1> QED
  BY <1>3, <1>4, <1>5 DEF DnsInv

\* Every step keeps the invariant.
LEMMA DnsInvNext == DnsInv /\ [Next]_vars => DnsInv'
<1> SUFFICES ASSUME DnsInv, [Next]_vars PROVE DnsInv'
  OBVIOUS
<1>1. CASE UNCHANGED vars
  <2>1. /\ UNCHANGED <<dpc, started, shutdown, sockets>>
        /\ UNCHANGED <<records, serial, spc, stores, list>>
        /\ UNCHANGED <<q, qpc, recs, since, reply>>
    BY <1>1 DEF vars
  <2> QED
    BY <2>1 DEF DnsInv, TypeOK, PublishedIsList, SerialBehind, LoadedIsList,
       NoReplyYet, AnswerWasCurrent, Authority, Good, Unserved, Has
<1> QED
  BY <1>1, ControlKeeps, SetRecordsKeeps, BumpKeeps, ReceiveKeeps, TurnKeeps,
     ReplyKeeps, ForgetKeeps DEF Next

\* The inductive invariant holds in every reachable state.
LEMMA DnsInvariant == Spec => []DnsInv
BY DnsInvInit, DnsInvNext, PTL DEF Spec

-----------------------------------------------------------------------------
\* Results.

\* Every variable of the server keeps its type; in particular every published
\* record and every answer is well formed.
THEOREM DnsTypeCorrect == Spec => []TypeOK
<1>1. DnsInv => TypeOK
  BY DEF DnsInv
<1> QED
  BY <1>1, DnsInvariant, PTL

\* What is published is the whole of one acceptable list, under its names,
\* and the serial is never ahead of it.
THEOREM DnsPublishedInOrder == Spec => []PublishedInOrder
<1>1. DnsInv => PublishedInOrder
  <2> SUFFICES ASSUME DnsInv PROVE PublishedInOrder
    OBVIOUS
  <2>1. list \in Seq(RecordIn) /\ records = recordSet(list)
    BY DEF DnsInv, PublishedIsList, Good
  <2>2. {r.name : r \in records} = {CanonicalName(list[i].name) : i \in DOMAIN list}
    BY <2>1, SameNames
  <2>3. ASSUME NEW i \in DOMAIN list
        PROVE  list[i].class = "loopback" /\ list[i].name.zone = "base"
    <3>1. list[i] \in RecordIn
      BY <2>1
    <3>2. list[i].name \in Name
      BY <3>1 DEF RecordIn
    <3>3. Acceptable(list[i])
      BY DEF DnsInv, PublishedIsList, Good
    <3> QED
      BY <3>2, <3>3, CanonicalFacts DEF Acceptable, inZone
  <2>4. serial <= stores + 1
    BY DEF DnsInv, SerialBehind
  <2> QED
    BY <2>2, <2>3, <2>4 DEF PublishedInOrder
<1> QED
  BY <1>1, DnsInvariant, PTL

\* A query is answered from a list that was in force while it was handled,
\* wherever updates fall between its loads.
THEOREM DnsAnswerWasCurrent == Spec => []AnswerWasCurrent
<1>1. DnsInv => AnswerWasCurrent
  BY DEF DnsInv
<1> QED
  BY <1>1, DnsInvariant, PTL

\* For one record set all types of question agree on whether a name exists,
\* and the server speaks with authority for its zone only.
THEOREM DnsZoneRules == Spec => []ZoneRules
<1>1. DnsInv => ZoneRules
  <2> SUFFICES ASSUME DnsInv PROVE ZoneRules
    OBVIOUS
  <2> DEFINE n == CanonicalName(q.name)
  <2> DEFINE rcode(t) == handle(t, n, recs).rcode
  <2>1. ASSUME recs = records, q.name.label # Apex, NEW t
        PROVE  rcode(t) = ZoneRcode(n, recs)
    <3>1. records \subseteq RecordOut /\ serial \in Nat
      BY DEF DnsInv, TypeOK, RecordOut
    <3>2. n.label # Apex
      BY <2>1, QueriesAssumption, CanonicalFacts DEF DnsInv, TypeOK
    <3> QED
      BY <2>1, <3>1, <3>2, HandleFacts
  <2>2. recs = records /\ q.name.label # Apex =>
          \A t, u \in {"A", "AAAA", "SOA", "NS", "TXT"} : rcode(t) = rcode(u)
    BY <2>1
  <2> QED
    BY <2>2 DEF ZoneRules, DnsInv, Authority
<1> QED
  BY <1>1, DnsInvariant, PTL
=============================================================================
