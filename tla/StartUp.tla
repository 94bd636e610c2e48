--------------------------------- MODULE StartUp ---------------------------------
(***************************************************************************)
(* main() of bin/yourfs.rs, from the command line to fuse_main() and out   *)
(* again, with the mount loop of nfscli::init(): the order of the checks,  *)
(* what each failure has opened and must close, and the exit codes.  The   *)
(* licence (see KeyGate), the database and libnfs succeed or fail.         *)
(***************************************************************************)
EXTENDS Cli, DbSpec

CONSTANTS YOURFS_SPECS, \* the option table of yourfs
          YourfsLines,  \* the command lines to consider: sequences of arguments
          RedisType,    \* the value of -F that names redis
          DefaultPool   \* DEFAULT_POOL_SIZE

\* The options of the table whose values main() looks at take a value.
Valued == {"n", "m", "F", "Z", "X", "U", "G", "V", "p", "t"}

ASSUME StartAssumption ==
  /\ Unambiguous(YOURFS_SPECS) /\ AreLines(YourfsLines) /\ DefaultPool \in 1..64
  /\ \A s \in YOURFS_SPECS : s.short \in Valued => s.arg

VARIABLES pc,         \* how far main() is
          key,        \* key_is_good()
          db,         \* "none", "open", "checked"
          server,     \* the URL that was opened, if that is redis
          cached,     \* the database was wrapped in CachingDb
          contexts,   \* NFS contexts that exist
          urls,       \* "none", "open", "freed": what nfs_parse_url_dir() returned
          argv,       \* the options that fuse_main is given after the mount point
          code        \* the exit status

startVars == <<pc, key, db, server, cached, contexts, urls, argv, code>>
vars == <<cliVars, startVars>>

\* Errno stands for any error number of libnfs or of fuse_main.
Errno == 5
Codes == {0, 1, 10, Errno}

StartInit ==
  /\ pc = "options" /\ key \in BOOLEAN
  /\ db = "none" /\ server = <<>> /\ cached = FALSE
  /\ contexts = 0 /\ urls = "none" /\ argv = {} /\ code = 0

Init == CliInit(YOURFS_SPECS, YourfsLines) /\ StartInit

Clamp(n) == IF n < 1 THEN 1 ELSE IF n > 64 THEN 64 ELSE n
PoolSize == IF Given("V") THEN Clamp(parse_i64(Value("V"))) ELSE DefaultPool

\* custom_uid and custom_gid: `uid=` anywhere in the URL overrides -U, `gid=` -G; -1 is
\* for none.  (The values that i32 cuts off are left out.)
Custom(word, option) ==
  LET url == Value("n")
      found == {i \in 1..(Len(url) - 1) : SubSeq(url, i, i + 1) = <<word, "=">>}
  IN  IF found # {} THEN parse_i64(After(url, Min(found) + 1))
      ELSE IF Given(option) THEN parse_i64(Value(option)) ELSE -1

\* The options for libfuse, by the names they have there.  Their values, their order and
\* how often each is given are left out.
PassedOn == {"u", "g", "D", "d", "r", "k", "c", "l", "h", "f", "s", "b", "i", "R", "H",
             "A", "S", "K", "E", "N", "T", "C", "Y", "I", "q", "Q"}
FuseName(c) == IF c \in {"m", "O"} THEN "ro" ELSE IF c = "a" THEN "allow_other" ELSE c
fuse_opts == {FuseName(c) : c \in {d \in PassedOn \cup {"m", "O", "a"} : Given(d)}}

IfSo(cond, name) == IF cond THEN {name} ELSE {}
build_fuse_args ==
  fuse_opts
    \cup IfSo(Given("o"), "allow_other")
    \cup IfSo(~Given("f"), "fsname") \cup IfSo(~Given("s"), "subtype")
    \cup IfSo(~Given("p") \/ parse_i64(Value("p")) # 0, "default_permissions")
    \cup IfSo(Given("t") /\ parse_i64(Value("t")) = 0, "single_threaded")

Step(from, to) == pc = from /\ pc' = to
Exit(from, c) == Step(from, "exit") /\ code' = c
----------------------------------------------------------------------------------
\* The loop over the options.
Options ==
  /\ pc = "options" /\ ~Helped
  /\ CliNext
  /\ UNCHANGED startVars

Help ==
  /\ Helped /\ Exit("options", 0)
  /\ UNCHANGED <<cliVars, key, db, server, cached, contexts, urls, argv>>

\* An unrecognized option ends the loop with a message, and main() goes on with
\* the options before it.
OptionsOver ==
  /\ over # "no" /\ ~Helped
  /\ Step("options", "required")
  /\ UNCHANGED <<cliVars, key, db, server, cached, contexts, urls, argv, code>>

Check(from, ok, c, to) ==
  /\ IF ok THEN Step(from, to) /\ UNCHANGED code ELSE Exit(from, c)
  /\ UNCHANGED <<cliVars, key, db, server, cached, contexts, urls, argv>>

Required == Check("required", Given("n") /\ Given("m"), 10, "key")
Key == Check("key", key, 0, "type")

\* Mutant of Type: the two tests are joined by "or".
TypeEither ==
  Check("type", (Given("F") /\ GoodType(Value("F"))) \/ (Given("Z") /\ GoodTable(Value("Z"))),
        1, "open")

\* Both are empty where they are not given, and an empty one is refused.
Type ==
  Check("type", (Given("F") /\ GoodType(Value("F"))) /\ (Given("Z") /\ GoodTable(Value("Z"))),
        1, "open")

Database == IF Given("X") THEN Value("X") ELSE <<>>

OpenDb ==
  /\ \/ /\ Step("open", "table") /\ db' = "open" /\ UNCHANGED code
        /\ server' = IF Value("F") = RedisType THEN redis_url(Database) ELSE <<>>
     \/ Exit("open", 1) /\ UNCHANGED <<db, server>>
  /\ UNCHANGED <<cliVars, key, cached, contexts, urls, argv>>

CheckTable ==
  /\ \/ /\ Step("table", "context") /\ db' = "checked" /\ UNCHANGED code
        /\ cached' = Given("w")
     \/ Exit("table", 1) /\ UNCHANGED <<db, cached>>
  /\ UNCHANGED <<cliVars, key, server, contexts, urls, argv>>

InitContext ==
  /\ \/ Step("context", "url") /\ contexts' = 1 /\ UNCHANGED code
     \/ Exit("context", 10) /\ UNCHANGED contexts
  /\ UNCHANGED <<cliVars, key, db, server, cached, urls, argv>>

\* A URL that does not parse, or one without server or export.
ParseUrl ==
  /\ \/ Step("url", "mount") /\ urls' = "open" /\ UNCHANGED <<contexts, code>>
     \/ Exit("url", 10) /\ contexts' = 0 /\ UNCHANGED urls
     \/ Exit("url", 10) /\ contexts' = 0 /\ urls' = "freed"
  /\ UNCHANGED <<cliVars, key, db, server, cached, argv>>

\* Mutant of Mount: the failing mount frees its context only.
MountKeepsUrl ==
  /\ \/ Step("mount", "pool") /\ urls' = "freed" /\ UNCHANGED <<contexts, code>>
     \/ Exit("mount", Errno) /\ contexts' = 0 /\ UNCHANGED urls
  /\ UNCHANGED <<cliVars, key, db, server, cached, argv>>

Mount ==
  /\ urls' = "freed"
  /\ \/ Step("mount", "pool") /\ UNCHANGED <<contexts, code>>
     \/ Exit("mount", Errno) /\ contexts' = 0
  /\ UNCHANGED <<cliVars, key, db, server, cached, argv>>

\* Mutant of MountExtra: the loop runs pool_size times after the first context.
MountExtraOneMore ==
  /\ pc = "pool" /\ contexts <= PoolSize
  /\ contexts' = contexts + 1
  /\ UNCHANGED <<cliVars, pc, key, db, server, cached, urls, argv, code>>

\* nfscli::init(): one more context, up to the size of the pool ...
MountExtra ==
  /\ pc = "pool" /\ contexts < PoolSize
  /\ contexts' = contexts + 1
  /\ UNCHANGED <<cliVars, pc, key, db, server, cached, urls, argv, code>>

\* ... or fewer, from the first that does not mount.
Serve ==
  /\ Step("pool", "serving")
  /\ argv' = build_fuse_args
  /\ UNCHANGED <<cliVars, key, db, server, cached, contexts, urls, code>>

\* fuse_main returns, at once or in the end; shutdown() destroys the contexts.
Unmounted ==
  /\ \E c \in {0, Errno} : Exit("serving", c)
  /\ contexts' = 0
  /\ UNCHANGED <<cliVars, key, db, server, cached, urls, argv>>

Exited == pc = "exit" /\ UNCHANGED vars

Starting == \/ Options \/ Help \/ OptionsOver
            \/ Required \/ Key \/ Type
            \/ OpenDb \/ CheckTable
            \/ InitContext \/ ParseUrl \/ Mount \/ MountExtra \/ Serve

Next == Starting \/ Unmounted \/ Exited
----------------------------------------------------------------------------------
(* Properties *)

TypeOK ==
  /\ args \in YourfsLines /\ idx \in 1..(Len(args) + 1)
  /\ done \in BOOLEAN /\ over \in {"no", "end", "unknown"}
  /\ pc \in {"options", "required", "key", "type", "open", "table", "context",
             "url", "mount", "pool", "serving", "exit"}
  /\ key \in BOOLEAN /\ db \in {"none", "open", "checked"} /\ cached \in BOOLEAN
  /\ contexts \in 0..PoolSize
  /\ urls \in {"none", "open", "freed"} /\ code \in Codes

\* The value of a parameter of a URL: name=value after the "?", separated by "&".
Parameters(url) ==
  {p \in (First(url, "?") + 1)..Len(url) : First(url, "?") # 0 /\ url[p - 1] \in {"?", "&"}}
Text(url, p) ==
  SubSeq(url, p + 2, Min({i \in p..Len(url) : url[i] = "&"} \cup {Len(url) + 1}) - 1)
Number(url, p) == parse_i64(Text(url, p))
Numeric(s) == s # <<>> /\ \A i \in DOMAIN s : Contains(Numerals, s[i])

\* The word is in the URL as the name of a parameter, with a number, or not at all.
Proper(url, word) ==
  \A i \in DOMAIN url :
    url[i] = word =>
      i \in Parameters(url) /\ i < Len(url) /\ url[i + 1] = "=" /\ Numeric(Text(url, i))

\* A good key, a backend and a table that were both named and looked at, a mount, and
\* no more contexts than the -V asked for.
Prepared(asked, bad) ==
  /\ key /\ db = "checked" /\ urls = "freed"
  /\ \A c \in {"n", "m", "F", "Z"} : Named(asked, c)
  /\ Named(asked, "?") => bad
  /\ GoodType(LastOf(asked, "F")) /\ GoodTable(LastOf(asked, "Z"))
  /\ contexts \in 1..64
  /\ Named(asked, "V") /\ parse_i64(LastOf(asked, "V")) > 0 =>
       contexts <= parse_i64(LastOf(asked, "V"))

\* For redis the server that -X means, with its password whatever is in it.
RightServer(asked) ==
  LastOf(asked, "F") = RedisType /\ Named(asked, "X") /\ PlainHost(LastOf(asked, "X")) =>
    ReadUrl(server) = Meant(LastOf(asked, "X"))

\* The ids are those of the uid= and gid= parameters of the URL, else of -U and -G,
\* else none.
RightId(asked, word, option) ==
  LET url == LastOf(asked, "n")
      inUrl == {p \in Parameters(url) : url[p] = word}
  IN  Proper(url, word) =>
        Custom(word, option) =
          IF inUrl # {} THEN Number(url, Min(inUrl))
          ELSE IF Named(asked, option) THEN parse_i64(LastOf(asked, option)) ELSE -1

\* libfuse is told that it is read-only.  The mount caches, is open to other users and
\* runs single-threaded only where that was among the options getopt_long() would have
\* seen before any malformed one.
RightOptions(asked, bad) ==
  /\ "ro" \in argv
  /\ "allow_other" \in argv => Named(asked, "a") \/ Named(asked, "o")
  /\ "single_threaded" \in argv <=> Named(asked, "t") /\ parse_i64(LastOf(asked, "t")) = 0
  /\ cached => Named(asked, "w")
  /\ ~bad => /\ cached = Named(asked, "w")
             /\ "allow_other" \in argv <=> Named(asked, "a") \/ Named(asked, "o")

\* What a mount has been through, however its options were given, and what it serves
\* is what they asked for, as getopt_long() reads them.
ServesWhatWasAsked ==
  pc = "serving" =>
    LET asked == Getopt(specs, args).out
        bad == Getopt(specs, args).bad
    IN  /\ Prepared(asked, bad)
        /\ RightServer(asked)
        /\ RightId(asked, "uid", "U") /\ RightId(asked, "gid", "G")
        /\ RightOptions(asked, bad)

\* On whatever path main() leaves, each context and the parsed URL were freed: a
\* failure in the middle cleans up what the steps before it had opened.
NothingLeftOpen == pc = "exit" => contexts = 0 /\ urls # "open"
==================================================================================
