------------------------------- MODULE Config -------------------------------
(***************************************************************************)
(* Configuration: Load and Validate of internal/config/config.go, and how  *)
(* "stacklane status" and "stacklane resolve" find the state directory     *)
(* (cmd/stacklane/main.go).                                                *)
(*                                                                         *)
(* Settings come from defaults, a JSON file, the environment and flags.    *)
(* One setting stands for all that are treated alike: grace for the        *)
(* durations with an environment variable that must be positive, debounce  *)
(* for the one that may be zero, dial for the proxy settings, which have   *)
(* no variable.  Text that does not parse as what a setting needs is Bad.  *)
(* Of free text only what Validate looks for matters: "empty", "blank",    *)
(* and "dotted" for what is no single slug.                                *)
(* A directory is [kind, name]: kind "tilde" starts with "~/", "home" is   *)
(* the same with the home directory put in, "abs" is another, "empty" none.*)
(***************************************************************************)
EXTENDS VipPool, Sequences

CONSTANTS
  Disks,      \* path -> file: whether it can be read, and its settings
  Envs,       \* environments: the variables that are not empty
  ArgLists,   \* command lines of "stacklane serve"
  Default,    \* Defaults()
  TtlMod      \* one more than the largest uint32

VARIABLES
  files, env, args,  \* the input
  stage,      \* "start", "loaded", "serving" or "failed"
  cfg,        \* what Load returned
  clientDir   \* the state directory that status and resolve use

configVars == <<files, env, args, stage, cfg, clientDir>>

Bad == -1000

Numbers == {"grace", "debounce", "dial", "ttl"}

Keys == Numbers \cup {"dir", "pool", "listen", "allow", "domain", "instance", "level",
                      "alias"}

\* The source sets k.
Given(source, k) == k \in DOMAIN source

\* What f says, and where it says nothing what g says.
Overlay(f, g) ==
  [k \in DOMAIN f \cup DOMAIN g |-> IF k \in DOMAIN f THEN f[k] ELSE g[k]]

NoPath == ""

NoDir == [kind |-> "none", name |-> ""]

-----------------------------------------------------------------------------
\* Command lines.  A token that starts with a dash is a flag, with a value
\* after "=" or not, or has no name ("-" and "--"); any other is a word.  A
\* number that starts with a dash ("-0s") looks like a flag of that name.

Flag(name)         == [dash |-> TRUE, name |-> name, eq |-> FALSE, val |-> Bad]
FlagEq(name, text) == [dash |-> TRUE, name |-> name, eq |-> TRUE, val |-> text]
Dashed(name, n)    == [dash |-> TRUE, name |-> name, eq |-> FALSE, val |-> n]
Word(text)         == [dash |-> FALSE, name |-> "", eq |-> FALSE, val |-> text]

IsCommandLine(line) ==
  /\ Len(line) \in Nat /\ line = [i \in 1 .. Len(line) |-> line[i]]
  /\ \A i \in 1 .. Len(line) : line[i].dash \in BOOLEAN /\ line[i].eq \in BOOLEAN

\* --config and the flag of each setting.
FlagNames == Keys \cup {"config"}

IsBool(name) == name \in {"allow", "alias"}

\* The value of flag i is a token of its own.
Separate(line, i) == ~line[i].eq /\ ~IsBool(line[i].name)

\* The value of flag i, a word or, if it starts with a dash, as it is.  A
\* boolean flag without a value is its own.
Value(line, i) ==
  IF line[i].eq THEN Word(line[i].val)
  ELSE IF IsBool(line[i].name) THEN line[i] ELSE line[i + 1]

\* A setting has a default, and what is said of the pool is a CIDR or no CIDR.
ASSUME ArgListsAssumption == \A line \in ArgLists : IsCommandLine(line)
ASSUME DefaultAssumption  == DOMAIN Default = Keys
ASSUME PoolTextAssumption ==
  /\ Default.pool \in Cidrs
  /\ \A e \in Envs : Given(e, "pool") => e["pool"] \in Cidrs
  /\ \A d \in Disks : \A p \in DOMAIN d :
       Given(d[p].set, "pool") => d[p].set["pool"] \in Cidrs
  /\ \A line \in ArgLists : \A i \in 1 .. Len(line) :
       /\ line[i].dash /\ line[i].name = "pool" /\ (Separate(line, i) => i < Len(line))
       /\ ~Value(line, i).dash
       => Value(line, i).val \in Cidrs

\* Text that a flag cannot take.  A token that starts with a dash is taken as
\* the value of the flag before it, whatever it is: as a string, or as a number
\* if it is one, which for ttl has no sign.
Refuses(name, tok) ==
  \/ name \in Numbers /\ (tok.eq \/ tok.val = Bad)
  \/ name = "ttl" /\ (tok.dash \/ tok.val < 0)
  \/ IsBool(name) /\ ~tok.dash /\ tok.val \notin {"on", "off"}

\* flag.FlagSet.Parse for the flags in names, at token i: it stops at a word
\* and at "--", and fails at the first token it does not understand.
ParseAt(line, names, p, i) ==
  IF i > Len(line) \/ ~line[i].dash \/ line[i].name = ""
  THEN [ok |-> TRUE, given |-> <<>>]
  ELSE IF \/ line[i].name \notin names
          \/ Separate(line, i) /\ i = Len(line)
          \/ Refuses(line[i].name, Value(line, i))
  THEN [ok |-> FALSE, given |-> <<>>]
  ELSE LET rest == p[IF Separate(line, i) THEN i + 2 ELSE i + 1]
       IN  [ok    |-> rest.ok,
            given |-> Overlay(rest.given, [n \in {line[i].name} |-> Value(line, i)])]

ParseFrom(line, names) ==
  LET p[i \in 1 .. Len(line) + 2] == ParseAt(line, names, p, i) IN p

Parse(line, names) == ParseFrom(line, names)[1]

\* Fault: the token after a flag is always taken for its value.
LastOfSkips(line, i) == IF ~line[i].eq /\ i < Len(line) THEN i + 1 ELSE i

\* The token that filterKnown takes for flag i's value, if there is one: a
\* word, unless the flag has a value that is not empty.  Only for --config it
\* matters, as words are dropped anyway.
LastOf(line, i) ==
  IF /\ line[i].eq => line[i].name = "config" /\ line[i].val = NoPath
     /\ i < Len(line) /\ ~line[i + 1].dash
  THEN i + 1 ELSE i

\* filterKnown for --config, at token i.
FilterAt(line, f, i) ==
  IF i > Len(line) THEN <<>>
  ELSE IF ~line[i].dash THEN f[i + 1]
  ELSE LET rest == f[LastOf(line, i) + 1]
       IN  IF line[i].name = "config" THEN SubSeq(line, i, LastOf(line, i)) \o rest
           ELSE rest

FilterFrom(line) == LET f[i \in 1 .. Len(line) + 2] == FilterAt(line, f, i) IN f

filterKnown(line) == FilterFrom(line)[1]

\* The value of --config; a token with a dash is a path where no file is.
PathOf(given) ==
  IF ~Given(given, "config") THEN NoPath
  ELSE IF given["config"].dash THEN "-"
  ELSE given["config"].val

\* The file that Load reads.  Errors of this first look are ignored.
configPath(line, e) ==
  LET path == PathOf(Parse(filterKnown(line), {"config"}).given)
  IN  IF path # NoPath THEN path
      ELSE IF Given(e, "config") THEN e["config"] ELSE NoPath

-----------------------------------------------------------------------------
\* Load.

envBool(word) == word = "on"

\* The environment variables that are understood.  The others are ignored
\* without a word.
Understood(e) ==
  {k \in DOMAIN e \cap (Keys \ {"dial", "alias"}) :
     /\ k \in Numbers => e[k] # Bad
     /\ k = "ttl" => e[k] \in 0 .. TtlMod - 1
     /\ k = "allow" => e[k] \in {"on", "off"}}

applyFile(c, f) == Overlay(f.set, c)

\* A file fails as a whole: it is not there, it is no JSON of the right types,
\* or a duration in it is no duration.
FileFails(f) ==
  \/ ~f.readable
  \/ \E k \in DOMAIN f.set \cap Numbers : f.set[k] = Bad
  \/ Given(f.set, "ttl") /\ f.set["ttl"] \notin 0 .. TtlMod - 1

applyEnv(c, e) ==
  Overlay([k \in Understood(e) |-> IF k = "allow" THEN envBool(e[k]) ELSE e[k]], c)

Text(k, tok) ==
  IF IsBool(k) THEN tok.dash \/ tok.val = "on"
  ELSE IF ~tok.dash \/ k \in Numbers THEN tok.val
  ELSE CASE k = "dir"    -> [kind |-> "abs", name |-> "-"]
         [] k = "pool"   -> NoCidr
         [] k = "listen" -> "bad"
         [] k \in {"domain", "instance", "level"} -> "-"

\* uint32(n) of the flag's 64-bit number.
uint32(n) == n % TtlMod

applyFlags(c, given) ==
  Overlay([k \in DOMAIN given \cap Keys |->
             IF k = "ttl" THEN uint32(Text(k, given[k])) ELSE Text(k, given[k])], c)

expandHome(d) == IF d.kind = "tilde" THEN [d EXCEPT !.kind = "home"] ELSE d

validateDNSListenHost(c) ==
  c.listen = "loopback" \/ (c.allow /\ c.listen \in {"unspecified", "public"})

Validate(c) ==
  /\ c.dir.kind # "empty" /\ validateVIPPool(c.pool)
  /\ validateDNSListenHost(c)
  /\ c.domain \notin {"empty", "blank"} /\ c.instance # "dotted"
  /\ c.ttl # 0 /\ c.grace > 0 /\ c.debounce >= 0 /\ c.dial > 0
  /\ c.level # "empty" /\ ~c.alias

\* Fault: the file is applied after the environment.
MergedFileLast(f, e, given) == applyFlags(applyFile(applyEnv(Default, e), f), given)

Merged(f, e, given) == applyFlags(applyEnv(applyFile(Default, f), e), given)

NoFile == [readable |-> TRUE, set |-> <<>>]

FileAt(path) == IF path = NoPath THEN NoFile
                ELSE IF path \in DOMAIN files THEN files[path]
                ELSE [NoFile EXCEPT !.readable = FALSE]

\* [ok, cfg]
Load(line, e) ==
  LET f     == FileAt(configPath(line, e))
      flags == Parse(line, FlagNames)
      c     == Merged(f, e, flags.given)
      d     == [c EXCEPT !.dir = expandHome(@)]
  IN  IF FileFails(f) \/ ~flags.ok THEN [ok |-> FALSE, cfg |-> Default]
      ELSE IF Validate(d) THEN [ok |-> TRUE, cfg |-> d]
      ELSE [ok |-> FALSE, cfg |-> Default]

-----------------------------------------------------------------------------
\* The clients, given --config and --state-dir as the daemon was.

EnvDir(e) == IF Given(e, "dir") THEN e["dir"] ELSE Default.dir

ClientLoad(path, e) ==
  Load(IF path = NoPath THEN <<>> ELSE <<Flag("config"), Word(path)>>, e)

\* Fault: STACKLANE_CONFIG is not looked at.
stateDirNoEnvConfig(given, e) ==
  LET path   == PathOf(given)
      loaded == ClientLoad(path, e)
  IN  IF Given(given, "dir") THEN Text("dir", given["dir"])
      ELSE IF path # NoPath /\ loaded.ok THEN loaded.cfg.dir
      ELSE EnvDir(e)

\* cmdStatus and cmdResolve: the flag as it is; with a config file what Load
\* makes of it, if it loads; else the variable as it is, or the default.
stateDir(given, e) ==
  LET path   == PathOf(given)
      loaded == ClientLoad(path, e)
  IN  IF Given(given, "dir") THEN Text("dir", given["dir"])
      ELSE IF (path # NoPath \/ Given(e, "config")) /\ loaded.ok
      THEN loaded.cfg.dir
      ELSE EnvDir(e)

-----------------------------------------------------------------------------
ConfigInit ==
  /\ files \in Disks /\ env \in Envs /\ args \in ArgLists
  /\ stage = "start" /\ cfg = Default /\ clientDir = NoDir

\* cmdServe loads; an error ends the process.
ServeLoad ==
  /\ stage = "start"
  /\ stage' = IF Load(args, env).ok THEN "loaded" ELSE "failed"
  /\ cfg' = Load(args, env).cfg
  /\ UNCHANGED <<files, env, args, clientDir>>

\* Serve makes the pool.
ServePool ==
  /\ stage = "loaded"
  /\ stage' = IF ParsePool(cfg.pool) THEN "serving" ELSE "failed"
  /\ UNCHANGED <<files, env, args, cfg, clientDir>>

\* A client is run in the same environment.
ClientDir ==
  /\ stage = "serving"
  /\ clientDir' = stateDir(Parse(args, FlagNames).given, env)
  /\ UNCHANGED <<files, env, args, stage, cfg>>

ConfigNext == ServeLoad \/ ServePool \/ ClientDir

ConfigSpec == ConfigInit /\ [][ConfigNext]_configVars

-----------------------------------------------------------------------------
\* Properties.

\* A command line without stray words, where no value looks like a flag.
Plain(line) ==
  /\ \A i \in 1 .. Len(line) : ~line[i].dash =>
       i > 1 /\ line[i - 1].dash /\ Separate(line, i - 1)
  /\ \A i \in 1 .. Len(line) : line[i].dash =>
       /\ line[i].name # ""
       /\ Separate(line, i) => i < Len(line) /\ ~line[i + 1].dash

\* Load looks for --config with a parser of its own, before it knows the other
\* flags: on a plain command line that the flags accept it reads the file that
\* they name, and the file of the variable if they name none.
DiscoveryAgrees ==
  LET flags == Parse(args, FlagNames)
      path  == PathOf(flags.given)
  IN  stage # "start" /\ Plain(args) /\ flags.ok =>
        configPath(args, env) = IF path # NoPath THEN path
                                ELSE IF Given(env, "config") THEN env["config"]
                                ELSE NoPath

\* The text of k in the strongest source that has one.
Strongest(k) ==
  LET given == Parse(args, FlagNames).given
      file  == FileAt(configPath(args, env)).set
  IN  CASE Given(given, k)       -> IF k = "ttl" THEN Text(k, given[k]) % TtlMod
                                    ELSE Text(k, given[k])
        [] ~Given(given, k) /\ k \in Understood(env) ->
             IF k = "allow" THEN env[k] = "on" ELSE env[k]
        [] ~Given(given, k) /\ k \notin Understood(env) /\ Given(file, k) -> file[k]
        [] OTHER -> Default[k]

\* "Load merges defaults < JSON config file < env < flags": in what Load
\* accepts, every setting has the value of the strongest source that has one,
\* and a variable that is not understood hides no weaker source.
StrongestWins ==
  stage \in {"loaded", "serving"} =>
    /\ \A k \in Keys \ {"dir"} : cfg[k] = Strongest(k)
    /\ cfg.dir = expandHome(Strongest("dir"))

\* The configuration and the pool count usable addresses in two ways, and yet
\* a pool that the one accepts the other accepts, with addresses that the DNS
\* server and the proxy take for loopback.
PoolAgrees ==
  /\ stage = "failed" => ~Load(args, env).ok
  /\ stage = "serving" => \A a \in enumerateUsable(cfg.pool) : IsLoopback(a)

\* After a plain command line a client that is given the same --config and
\* --state-dir uses the directory of the daemon's socket, save for two cases:
\* "~/" reaches it unexpanded, or the configuration file does not load
\* without the daemon's other flags.
ClientFindsDaemon ==
  stage = "serving" /\ clientDir # NoDir /\ Plain(args) =>
    LET given == Parse(args, FlagNames).given
    IN  \/ clientDir = cfg.dir
        \/ clientDir.kind = "tilde"
        \/ ~ClientLoad(PathOf(given), env).ok
=============================================================================
