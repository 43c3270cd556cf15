------------------------------ MODULE MCConfig ------------------------------
(***************************************************************************)
(* Config for TLC: every setting in every source, alone and with those it  *)
(* depends on, and command lines that are plain and that are not.          *)
(***************************************************************************)
EXTENDS Config, TLC

Dir(kind, name) == [kind |-> kind, name |-> name]
Cidr(ip, bits)  == [ip |-> ip, bits |-> bits]

SmallPool == Cidr(IPv4(127, 0, 0, 250), 30)
LastPool  == Cidr(IPv4(127, 255, 255, 252), 30)
NotLocal  == Cidr(IPv4(126, 255, 255, 240), 28)
TooSmall  == Cidr(IPv4(127, 0, 0, 6), 31)
Subnet    == Cidr(IPv4(127, 77, 0, 0), 23)

MCCidrs == {Subnet, SmallPool, LastPool, NotLocal, TooSmall, NoCidr}

\* The default pool is a /16; a /23 has as many kinds of addresses.
MCDefault ==
  [dir |-> Dir("home", ".stacklane"), pool |-> Subnet,
   grace |-> 24, debounce |-> 1, dial |-> 3, ttl |-> 5, listen |-> "loopback",
   allow |-> FALSE, domain |-> "stacklane.test", instance |-> "empty",
   level |-> "info", alias |-> FALSE]

\* What a source may say of a setting.
InFile(k) ==
  CASE k = "dir"      -> {Dir("tilde", "f"), Dir("empty", "")}
    [] k = "pool"     -> {SmallPool, NotLocal}
    [] k = "grace"    -> {7, 0, Bad}
    [] k = "debounce" -> {0, -2}
    [] k = "dial"     -> {1}
    [] k = "ttl"      -> {6, TtlMod}
    [] k = "listen"   -> {"public", "nohost"}
    [] k = "allow"    -> {TRUE}
    [] k = "domain"   -> {"f", "blank"}
    [] k = "instance" -> {"f", "dotted"}
    [] k = "level"    -> {"f", "empty"}
    [] k = "alias"    -> {TRUE}

InEnv(k) ==
  CASE k = "dir"      -> {Dir("tilde", "e"), Dir("abs", "e")}
    [] k = "pool"     -> {LastPool, TooSmall}
    [] k = "grace"    -> {8, Bad}
    [] k = "debounce" -> {2}
    [] k = "dial"     -> {9}
    [] k = "ttl"      -> {7, TtlMod + 1}
    [] k = "listen"   -> {"unspecified", "bad"}
    [] k = "allow"    -> {"on", "off", "maybe"}
    [] k = "domain"   -> {"e", "blank"}
    [] k = "instance" -> {"e", "dotted"}
    [] k = "level"    -> {"e", "blank"}
    [] k = "alias"    -> {"on"}

Singles(In(_)) == UNION {{k :> v : v \in In(k)} : k \in Keys}

MCDisks ==
  {[main |-> [readable |-> TRUE, set |-> f], other |-> [readable |-> TRUE, set |-> <<>>]] :
     f \in Singles(InFile) \cup
           {[dir |-> Dir("abs", "f"), pool |-> TooSmall],
            [listen |-> "public", allow |-> TRUE],
            [listen |-> "nohost", allow |-> TRUE]}}
  \cup {[main |-> [readable |-> FALSE, set |-> <<>>]]}

MCEnvs ==
  LET e == Singles(InEnv) \cup
           {<<>>, [listen |-> "public", allow |-> "on"],
            [dir |-> Dir("abs", "e"), grace |-> Bad]}
  IN  e \cup {("config" :> "main") @@ f : f \in e}

MCArgLists ==
  {<<>>,
   <<Flag("config"), Word("main")>>,
   <<FlagEq("config", "main"), Flag("dir"), Word(Dir("abs", "a"))>>,
   <<Flag("config"), Word("other"), Flag("config"), Word("main")>>,
   <<Flag("dir"), Word(Dir("tilde", "a")), Flag("config"), Word("other")>>,
   <<Flag("allow"), Flag("config"), Word("main")>>,
   <<FlagEq("allow", "off"), Flag("listen"), Word("unspecified")>>,
   <<Flag("allow"), FlagEq("listen", "public")>>,
   <<Flag("pool"), Word(SmallPool), FlagEq("config", "main")>>,
   <<FlagEq("ttl", TtlMod)>>,
   <<FlagEq("ttl", TtlMod + 2), Flag("config"), Word("main")>>,
   <<FlagEq("grace", Bad)>>,
   <<FlagEq("allow", "maybe")>>,
   <<FlagEq("config", NoPath), Flag("config"), Word("main")>>,
   <<Flag("config"), Word("main"), FlagEq("config", NoPath)>>,
   <<Flag("config"), Word("main"), FlagEq("nosuch", Bad), Flag("config"), Word("other")>>,
   <<FlagEq("grace", 9), FlagEq("debounce", 0), FlagEq("dial", 2)>>,
   <<FlagEq("domain", "a"), FlagEq("instance", "empty"), Flag("level"), Word("a")>>,
   <<FlagEq("level", "empty")>>,
   <<Flag("alias")>>,
   <<FlagEq("alias", "off"), Flag("config"), Word("main")>>,
   \* Not plain: a word or "--" ends the flags, a value looks like a flag, an
   \* empty one is followed by a word, there is none.
   <<Flag(""), Flag("config"), Word("main")>>,
   <<Flag("pool"), FlagEq("config", "main")>>,
   <<Flag("grace"), FlagEq("dial", 2)>>,
   <<Flag("debounce"), Dashed("0s", 0), Flag("config"), Word("main")>>,
   <<Flag("grace"), Dashed("1s", -1)>>,
   <<Flag("ttl"), Dashed("0", 0)>>,
   <<Flag("level"), Flag("config"), Word("main")>>,
   <<FlagEq("config", NoPath), Word("main"), Flag("config"), Word("other")>>,
   <<Flag("allow"), Word(Bad), Flag("config"), Word("main")>>,
   <<Flag("dir"), Flag("config"), Word("main")>>,
   <<Flag("config"), Flag("allow"), FlagEq("dial", 2)>>,
   <<Flag("config")>>,
   <<Flag("nosuch"), Word("main")>>}
=============================================================================
