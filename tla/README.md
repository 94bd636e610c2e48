# A formal model of yourfs

yourfs is a read-only FUSE file system that shows a whitelisted, renamed view of
an NFS export. A table of `(parent, name, realpath)` rows in SQLite, PostgreSQL
or Redis says which virtual paths exist and where each one really lives.
`yourfs-tool` scans a directory tree into a list file and loads such a list into
the database; `yourfs` mounts the view.

This directory holds TLA+ modules translated from the code in `src/src`, TLC
configurations that check them on small instances, and TLAPS proofs of results
for every instance. `PROJECT.json` maps each definition to the lines it stands
for, lists the runs, the mutants that show that each property can fail, the
hazards the properties are for, and the findings.

    tlc -workers 2 -config MCConnPool.cfg MCConnPool.tla    # a run
    tlapm DbQueryProofs.tla                                 # the proofs of a module

Contents: [the system](#the-system), [the modules](#the-modules),
[the runs](#the-runs), [what was found](#what-was-found), [fairness](#fairness),
[the proofs](#the-proofs), [what is left out](#what-is-left-out), [plan](#plan).

## The system

Three kinds of thread run in a mount: the main thread (start-up, `fuse_main`,
shutdown), the FUSE workers that libfuse starts, and one actor thread per NFS
context. The workers share the database pool, the optional cache and the NFS
slots. `yourfs-tool` is another process; it meets the mount only in the database.

    kernel -> libfuse worker -> fs.rs --resolve/list--> CachingDb (-w) -> PgDb/RedisDb/SqliteDb
                                  |                                         |  query_retry, cmd_retry
                                  |                                         v
                                  |                                       Pool<T> -> database server
                                  +--lstat64/open/pread/...--> nfscli slot: channel -> actor -> libnfs
    yourfs-tool: tree -> scan.rs -> list file -> parse_row -> Writer -> database server

| component (source) | state | operations | what is hard | what makes it correct |
|---|---|---|---|---|
| connection pool (`db.rs` 24-129) | stack `idle`, counter `created`, a mutex and a condition variable | `get`, `put`, `discard`, dropping a guard | connecting happens outside the lock; notifications; error paths that give a slot back | capacity, exclusive use, no slot leaked, no wakeup lost |
| queries with one retry (`db.rs` 376-409, 767-793) | the flag `retried` of a call | a query, at most one retry | dead connections in the idle stack, retry while the pool is empty | a socket error costs two dead connections; no call waits for itself |
| `-w` cache (`db.rs` 134-205) | two maps, each behind a mutex | look-up, query on a miss, insert | no lock is held across the query | an answer was true; an error is not remembered |
| FUSE operations (`fs.rs`) | `fi->fh` of each open file; buffers lent by libfuse | getattr, readlink, open, read, release, readdir, statfs | the table changes between resolve and use, and between open and read; sizes of buffers and replies | answers no older than the call; reads only of what was granted; nothing is made up or written past a buffer |
| NFS slots (`nfscli.rs`, callbacks of `libnfs.rs`) | per slot: context with its ids, channel, in-flight counter, actor handle; the map from open file to slot; the rotation counter | six operations, five callbacks, `init`, `shutdown` | callbacks inside or after the issuing call, fork, buffers on the worker's stack, reused handle addresses, ids that stay on the context, shutdown with work queued | the counter is exact, no blind wait, handles go to their context, every operation is answered, no use after destroy, each request has the right id |
| whitelist writers (`db.rs` 493-919) | the table, its indexes; the redis keys; buffered rows | `create`, `insert`, `finish` | killed between statements, overlapping imports, readers in between | the old list, nothing, or the new list; an import on its own replaces everything |
| list file (`scan.rs`, `yourfs_tool.rs` 100-128) | the file and its writer's buffer, the walk, the line reader | walk, `pad_field`, `parse_row` | quoting, names with spaces, quotes, newlines, invalid bytes; a full disk | what can be represented survives, or the scan fails; nothing else appears |
| licence gate (`key.rs`) | none; the clock | `days_from_civil`, `key_is_good` | calendar arithmetic without a library | the arithmetic is the calendar; a key ends with its date |
| backend readers (`db.rs` 206-490, 680-850) | none | `resolve`, `list`, `check_table`, `redis_url` | an answer is from one moment; an empty table looks like none; passwords inside a URL | with the cache and the imports above; the URL means what `-X` says |
| path helpers (`paths.rs`) | none | `split_path`, `join_path`, conversions | root and empty components | part of the list file model |
| command line (`cli.rs`) | `idx`, `done`, the queue of flags | `next_command` | clusters of flags, values attached, separate or missing, abbreviated names | the options of `getopt_long()`, in order |
| start-up (`bin/yourfs.rs`, `init` of `nfscli.rs`) | options, database, contexts, parsed URL | the checks, open, mount, mount more, exit | a failure after something was opened; what an unknown option leaves | all checks before serving; what was opened is freed; libfuse gets the options that were asked |
| tool (`bin/yourfs_tool.rs`) | options, the input, the writer | scan or import | the old list is dropped before the new one is read; input that cannot be read | status 0 only for a complete import; nothing dropped for a bad command line |
| declarations (`libnfs.rs`, `fuse2.rs`), build files | none of their own | foreign calls | layouts | not modelled |

## The modules

One module per component; `MC*.tla` gives it an instance and its symmetry.

**ConnPool** (`Pool<T>`). `idle` and `created` are the fields of `PoolState`;
`pst[t]` says where a thread is in `get()` or in its guard's `drop`; `conn[t]` is
the connection in its guard. Each critical section of the mutex is one action:
`GetPop`, `GetReserve` and `GetWait` are the three ways through the loop body of
`get()`; `MakeOk` and `MakeFail` end the connect that runs without the lock; `Put`
and `Discard` are the two ways a guard is dropped. `notify_one` is part of the
section it stands in (`MoveAndNotify`): it wakes any one waiter, or none if there
is none. A woken thread competes for the lock with threads that just arrived, as
with `std::sync::Condvar`; `SpuriousWake` is the wakeup it permits. The pool is
empty at first; the connection that `check_table` leaves idle before the fork is
a state it reaches after one call.

**Lease** is the promise: at most `Max` connections are open, each checked out by
at most one thread. ConnPool implements it with `open` as the idle and held
connections and `holder` as the guards.

**DbQuery** (`query_retry`, `cmd_retry`) extends ConnPool. Its steps are pool
steps with the call's local state: `retried`, and `verdict`, what `client.query`
said of the guard held now. The server (`up`, `alive`) is external: a query on a
working socket returns rows or an error of the server, on a dead one a socket
error. `IoRetry` is `mark_bad`, `continue` and the drop of the guard, `IoFail` the
second failure. `deaths`, `fallout` and `clean` are history.

**NfsSlots** (`nfscli.rs`). A worker goes `idle -> start -> send -> park`: pick a
slot or look the handle up, `ensure_started`, send the task, wait on the private
channel. The actor of a slot goes `recv -> drain -> check -> service -> drain`:
the blocking `recv`, `try_recv` until the channel is empty, the test of the
counter, one `pump`. `HandleOp` is `handle_task`: libnfs queues the request,
refuses it, or completes it inside the call. `Callback` is `complete()` inside
`nfs_service`. The main thread forks or stays, serves, and takes the slots down
one by one: `SendQuit`, `Join`, `Destroy`. `owner` (which context an address
belongs to), `files` (the handles libfuse may still use) and `issued` are of the
libraries. lstat64, readlink and statvfs are one kind of operation here, as they
differ in what they copy (see Replies). `LoopJoins` says whether `fuse_main` returns only when
its workers are done; `shutdown()` is checked without that.

**ListImport** (`SqliteWriter`, `PgWriter`, `RedisWriter`, driven by `main` of the
tool). One SQL statement that commits by itself, one transaction or one redis
command is one step, since that is what readers can see: sqlite's `create` is
`SqliteDrop`, `SqliteCreate`, `SqliteIndex`, postgres' is the single `PgCreate`,
redis' is any number of `RedisDel` batches and the end of the scan. `insert`
buffers, so it is not a step. Row ids matter: sqlite's explicit ids make a second
concurrent import fail, the sequences of postgres do not. `Kill` ends an import
anywhere; it also stands for a statement that fails for reasons outside the model.

**FuseView** (`fs.rs` over `CachingDb`). `call[w]` is the operation of a worker:
look-up under the lock, query, insert under the lock, answer; each is a step, as
no lock spans two of them. `cached` is `-w`, chosen at the start and then fixed.
getattr, readlink and statfs are the operation `path`, as all ask for their path
and then act on the real one; open keeps what it was told in `files`; read goes by
the handle. `Edit` is the administrator. `seen` and `past` are history: the tables
of the call and of the mount.

**View** is what a mount promises: one map that the administrator edits, and requests
that are each answered from that map, read at one moment while the request is open,
or fail; with `-w` an answer once read for the same path may be given again, until
it is forgotten. FuseView implements it (`ImplementsView`): `asked` is a call without
an answer yet, `memory` the entry of the cache together with the answers that
threads are about to insert.

**Replies** (`libnfs.rs`, and the data path of `nfscli.rs` and `fs.rs`) follows one
operation at a time on one context through its buffers. Memory is an array of
cells, `?` in a cell that nobody wrote. `Lend` is the buffer a worker makes,
`Credentials` is `update_rpc_credentials` with the ids that stay on the context,
the five callbacks are actions, and `Getattr`, `Readlink`, `Open`, `Read`, `Statfs` and
`Release` are what `fs.rs` makes of the reply. A link target is a sequence of bytes
that are ASCII, lead a character of three bytes or continue one, since
`from_utf8_lossy` (`Lossy`) lengthens a target it repairs. Group ids go the way of
user ids.

**ListFile** (`scan.rs`, and the loop of `yourfs_tool.rs`). A name is a sequence of
abstract characters: letters and those the format treats specially (blank, quote,
backslash, newline, bytes that are not UTF-8). `Walk` and `WalkUp` are `walk`, with
`stack` for its recursion and any order of a directory's entries; `EndScan` is the
last flush, `ReadLine` the loop that reads, parses and inserts. `pad_field`, `Escape`
and `parse_row` (`Parse` goes through the line with `ParseChar`) are functions. The fault model
is the disk: `Flush` and `WritePiece` are `BufWriter`, `room` is what the disk still
takes, `FreeRoom` makes room on a full one.

**KeyGate** (`key.rs`). The state is a civil date and its day number; `Tomorrow`
advances both by the rules of the calendar, and the arithmetic of the source is
compared with it each day. Every entry of `DATES` is a 1st of January at midnight,
so days are enough where the source counts seconds.

**Cli** (`cli.rs`). An argument is a sequence of abstract characters. The actions
are the branches of `next_command`: what it takes from the queue, the end of the
arguments, `--`, a long option, a cluster that ends in flags, in an option with a
value or in a letter that is none, and the first positional argument. `got` is
what the caller has received. `Getopt` is the reference: a reader that goes
through the line letter by letter and never looks ahead. Both take the option
table as a parameter; its recursions are functions, so that they can be proved about.

**DbSpec** (`redis_url`, `urlencode`) turns the value of `-X` into the URL that redis is
opened with; `ReadUrl` (RFC 3986) and `Meant` (the documented forms of `-X`) are the
reference.

**StartUp** (`main` of `bin/yourfs.rs`) extends Cli and DbSpec: `Options` is its loop over
the commands, and then there is one action per check or call in the order of the code,
each with its failure and what that frees. `MountExtra` is the mount loop of
`nfscli::init`, `Serve` its end with `build_fuse_args`, `Unmounted` the return of
`fuse_main` and `shutdown()`. `Custom` is the id of the URL, of `-U` or `-G`, or none, that
`Serve` hands to libfuse and the slots: the `-U` that Replies starts from. `db::open`, `check_table` and libnfs succeed or fail. The
licence is a boolean here; KeyGate says when it is good. `contexts` at `serving` is the
number of slots that NfsSlots starts from.

**Tool** (`main` of `bin/yourfs_tool.rs`) extends Cli as well: its options, the checks
before the table is touched, `Create`, one action for each kind of input line, and
`FinishRows`. The statements behind `Create` and `FinishRows` are those of ListImport.

**Commands** puts the two programs side by side: `specs`, the option table the parser
was given, says which of them a behaviour is of.

## The runs

| run (cfg) | instance | distinct states | what it shows |
|---|---|---|---|
| `pool` (`MCConnPool`) | 4 threads, capacity 2, 3 connections | 3,944 | `TypeOK`, `SlotsAccounted`, `NoLostWakeup`; `ImplementsLease`; `Drains`: once requests stop everyone gets out |
| `query` (`MCDbQuery`) | 3 threads, capacity 2, one restart, one broken socket | 639,000 | `QueryTypeOK`; `RetryBudget`: a socket error reaches the caller for two dead connections only; `CallsReturn` |
| `query_blip` (`MCDbQueryBlip`) | 2 threads, capacity 2, one restart | counterexample | `BlipHidden` fails |
| `slots_serving` (`MCNfsSlots`) | 3 workers, 2 slots, 1 handle address | 785,000 | `InflightExact`, `NoBlindWait`, `BuffersOwned`, `HandlesAtHome` |
| `slots_ends` (`MCNfsSlotsShutdown`) | 2 workers, 2 slots, callbacks running on into `shutdown()` | 67,000 | `NoUseAfterDestroy`, `Answered`, `ShutdownEnds` |
| `import_backends` (`MCListImport`) | 3 imports (`{a,b}`, `{b}`, empty), 3 backends | 4,730 | `WholeListOnly`, `SoloImportReplaces`, `BuiltTableMounts` |
| `view` (`MCFuseView`) | 2 threads, 2 paths, 2 real paths, 1 handle, 2 edits, with and without `-w` | 759,000 | `AnswersWereTrue`, `ReadsWereGranted`, `ImplementsView` |
| `replies` (`MCReplies`) | 3 users, buffers of 0 to 5 cells, replies of up to 6, targets of up to 4 bytes | 38,600 | `InBounds`, `LinkFits`, `NothingMadeUp`, `OneIdentity` |
| `listfile_roundtrip` (`MCListFile`) | 3,360 trees; two of them on disks with room for 0 to 70 characters | 77,800 | `GoodEntriesLoaded`, `NothingElseLoaded` |
| `listfile_newline` (`MCListFileNewline`) | the same | counterexample | `NewlineNamesSkipped` fails |
| `startup` (`MCCommands`) | 5,991 command lines of yourfs, key good or bad, 13 options; 2,955 of yourfs-tool, input of up to 3 lines | 292,000 | `LikeGetopt`, `ServesWhatWasAsked`, `NothingLeftOpen`, `HonestExit`, `StartsOrExits` |
| `key_calendar` (`MCKeyGate`) | every day from 1970 to the end of 2405 | 159,000 | `CalendarAgrees`, `GoodUntilExpiry` |

Why these bounds are enough to be interesting:

- *pool*: with four threads on two slots two can sleep while others hold, connect
  and fail. There is one more connection than slots, so a pool that opens too many
  is seen to.
- *query*: a restart behind a full pool kills two connections; the third thread
  arrives while both are dead; one more socket breaks at any other time. `MaxStops`
  and `MaxSevers` bound the failures in the guards of `Stop` and `Sever`.
- *slots*: three workers on two slots put two tasks in one channel while one is
  issued; one address shows reuse after a close. `slots_ends` has no handles:
  handles are the subject of the other run, and leaving them out makes room for
  two slots, so that one is destroyed while the other works.
- *imports*: two lists that overlap tell a merge from a replacement, the third is
  the boundary case; three imports allow an interrupted one before an overlap.
- *view*: two edits allow a row to be changed and changed back.
- *list file*: the trees have a directory, an entry in it and one next to it; their
  names are all names of one or two characters over the special ones, next to
  neighbours chosen to do harm. 70 characters are more than the two lists that meet a
  full disk have, so the disk is full before, in and after each row. `Capacity` is
  thirteen characters, longer than any field, as the 8 KiB of `BufWriter` are, so that a
  row spans several flushes.
- *replies*: a buffer of five cells is empty, shorter than, as long as and longer
  than a target of up to four bytes; two broken bytes already overflow it when they
  are replaced. Of the three users one has mounted and two are foreign, and `-U`
  may be any of them.
- *start-up*: every line of up to three arguments over sixteen that cover each branch
  of the parser, 1,152 lines that can get to a mount, with one of the sixteen put
  before or after what they need, and 262 forms of `-X` for redis, with every
  password of up to three characters over those that matter in a URL, and 208 with ids
  in the URL, in the options or in both, well formed or not. The option
  table keeps two names with a common prefix. For the tool, every line of up to three
  of fourteen arguments, and every sequence of up to three rows, blank, malformed and
  undecodable lines.
- *calendar*: past 2400, so the 100- and 400-year rules and the turn of an era
  happen. This run does not check for deadlock, as the calendar ends. The width
  of integers is no matter: every quantity is below 2^31.

## What was found

Each of these is a run whose counterexample is a behaviour of the code.

1. **A blip can surface** (`query_blip`). `db.rs` 379-382 says a failed client is
   discarded and the query re-run on a fresh connection, so that a transient blip
   does not surface as EIO. The retry takes what the pool gives, and after a
   restart that may be another dead idle connection. `RetryBudget` says how bad it
   can be: two dead connections per error.
2. **Names with newlines** (`listfile_newline`). `scan.rs` speaks of a policy of
   skipping them; there is none, and what follows the newline can be a row of its
   own.

More was met that no run is spent on:

- *Reads during a re-import.* The README says that a read in the window after the drop
  gets an error. `create` makes the table again at once, so while the file is loaded a
  listing succeeds and is empty, and `-w` remembers it. `WholeListOnly` states what
  does hold: all of one list or nothing.
- *A redis import of a list without rows* leaves no key, and `check_table` then refuses
  to mount what was just built, though its comment speaks of a database never built;
  `BuiltTableMounts` states the exception.
- *An option that is not recognized* ends the parsing with a message, and both programs
  go on with the options before it, so those after it have no effect; of the cluster
  it stands in, the flags before it are dropped, where `getopt_long()` would have
  returned them (`LikeGetopt` allows exactly that). The `?` of `-?x` is one of those
  flags, so that line prints no usage. An import without a known `-F`
  does nothing and reports success.
- *Open files.* `read` serves a handle after its row was revoked, while the README says
  that every operation reads the live database (`ReadsWereGranted` states what holds).
- *The cache.* Two threads that miss around an edit may insert in the opposite order of
  their reads, so that an answer already given is replaced by an older one.
- *A disk that is full for a while.* If it has room again when the scan flushes for the
  last time, the scan reports success for a list whose rows of that while are lost or
  torn, and a torn row with three columns is loaded. `GoodEntriesLoaded` therefore
  excludes `freed`; a disk that stays full is reported.
- *Input that cannot be read.* The tool passes over a line that is not UTF-8 without a
  message. If every read fails, as on a directory given as `-i`, it tries for ever, and
  has dropped the old table by then: the exception in `StartsOrExits`.
- *Link targets* that are not UTF-8 reach the caller with their broken bytes replaced
  (`LinkFits` claims the target itself for texts only).
- *Identities.* With `-U` and `-o` together a foreign caller acts under its own id, while
  getattr shows it the files of the `-U` user as its own (`OneIdentity` claims one
  direction in general).
- *`uid=` in the URL* is searched anywhere, so `/uid=5` in the path of the export is taken
  for an id, and what is no number means 0, root; `ServesWhatWasAsked` claims the
  parameter's value where the word is a parameter with a number.
- *A comma in a redis password* ends it, as the form of `-X` with commas has no way to
  write one, and a password with `://` makes the whole value be taken for a URL. The
  host is not encoded: `ServesWhatWasAsked` claims the server for hosts and ports
  without the characters that end them in a URL (`PlainHost`).

## Fairness

- `PoolSpec`, `Spec` of DbQuery: weak fairness per thread on the steps inside a
  call. Threads are scheduled, and connects and queries return (the drivers have
  time-outs or the socket fails). A waiter runs only when notified: `SpuriousWake`
  has none. Nothing makes the server come back, and nobody has to call.
- `Spec` of NfsSlots: weak fairness of workers, actors and shutdown; *strong*
  fairness of each `Callback`, because the actor leaves and re-enters `nfs_service`
  and libnfs answers or fails each request if it is pumped again and again. The
  loop need never end, and no request need be made.
- `Drains`, `CallsReturn` and `Answered` are conditional. The first two start when
  requests cease, for the pool promises no order among waiters: a stream of new
  threads can overtake a woken one for ever. `Answered` assumes that libnfs does
  not for ever refuse or complete requests on the spot, as the actor drains its
  channel before it pumps and the drain has no bound.
- `CommandsSpec`: weak fairness of the steps of each `main`, for yourfs up to `serving`, as
  it runs and its calls return. Nothing makes `fuse_main` return.
- ListImport, FuseView, Replies, ListFile and KeyGate claim safety only.

## The proofs

Every invariant and every refinement that the passing runs check is a theorem for
all values of the constants. Each module proves `Inits` or its
like (the initial states satisfy the inductive invariant), one lemma per action
that the invariant has to survive, and reads the properties off the invariant. The
inductive invariants are themselves state predicates TLC can evaluate.

**DbQueryProofs**, the pool first, for every finite set of threads, any set of connections
and any positive capacity (`PoolAssumption`, which `Pool::new` ensures by `max.max(1)`):

- `PoolInvariance`: `PoolInv == TypeOK /\ SlotsAccounted /\ NoLostWakeup /\ Ownership`
  is inductive. `SlotsAccounted` alone is not: giving up a guard must be known to
  remove exactly one thread from those that own a slot, and `created' >= 0` follows
  only from the accounting. `NoLostWakeup` needs the accounting, for a thread goes
  to sleep when `created >= Max`. `Ownership` (each connection is in one position
  of the stack or in one guard) is what the lease needs.
- `TypeCorrect`, `NoSlotLeaks`, `NoWakeupIsLost` follow.
- `PoolImplementsLease`: each step is a step of Lease or leaves it alone. That at
  most `Max` are open when one more is added comes from `SlotsAccounted` and
  `InUseBound`, which counts the open connections by two surjections.

Then the queries, for any number of restarts and broken sockets as well
(`BlipAssumption`):

- `QueriesUsePool`: each step of a query is a step of the pool or leaves it alone,
  so the theorems above hold while queries run.
- `QueryInvariance`: `QueryInv` adds `Verdicts` (working connections are open; a
  verdict is about the connection held; a socket error was reported for one that
  no longer works) and `Budget`,
  `2 * fallout + Cardinality(Dead) + Cardinality(Retried) <= deaths`. Each death of
  a connection is accounted for where it went: still in the pool, in a call that
  has used its retry, or in a failed call, which costs two. `RetryBudget` alone is
  not inductive: `IoFail` needs to know that a death paid for its retry.
- `QueryTypeCorrect` and `RetryPaysTwice` follow.

**NfsSlotsProofs**, for every finite set of workers, any positive number of slots, any
set of handle addresses, and with or without callbacks that run on into `shutdown()`
(`SlotsAssumption`; `Quit` and `NoHandle` are names of nothing else):

- `SlotsInvariance`: `SlotsInv == Channels /\ Home`. `Channels` joins four of the
  checked properties with `OnePlace` (an operation is once in one channel, or with
  libnfs, and not both), `WorkersInStep`, `ActorsInStep` and `QuitInStep` (an actor
  that was joined has left, or has the `Quit` at the head of its channel, and stays
  away from its context). None of the four is inductive without them: the count of
  `InflightExact` changes by one with a callback only if the operation was with
  libnfs once; `NoUseAfterDestroy` is what `QuitInStep` says once the context is
  destroyed.
- `Home` is the layer of the handles: `MapExact` (the map of open files holds what
  libfuse has), `WantsAtHome`, `GrantsAtHome` (an address just granted is nobody
  else's) and `ClosesAlone`. It is claimed while `fuse_main` runs; the map is not
  looked at afterwards. `HandlesAtHome` needs `ClosesAlone`, since libnfs may give an
  address out again as soon as the close is answered.
- `SlotsTypeCorrect`, `CounterIsExact`, `ActorsNeverSleepOnReplies`,
  `BuffersStayOwned`, `HandlesStayHome`, `ContextsNotUsedAfterDestroy` follow.

**ListImportProofs**, for any set of imports of any lists over any names, killed
anywhere (`ImportAssumption`):

- `ImportInvariance`: `ImportInv` says of an import that has overlapped no other what
  each of its phases has left in the store (`Phase`, one part for each backend) and,
  on sqlite or as long as imports do not overlap, that the store holds the rows of one list or
  none (`Whole`). `WholeListOnly` alone does not survive a `finish`, which must know
  that the table it adds to is empty. Sqlite needs no condition: its explicit row
  ids make the second of two overlapping imports fail.
- `ImportTypeCorrect`, `OneListAtATime`; `SoloImportIsWhole` and `SoloImportMounts` are
  action properties of the step that ends an import.

**FuseViewProofs**, for any sets of threads, paths, real paths and handles and any
number of edits (`ViewAssumption`; `Unknown` stands for "no entry" and is no answer):

- `FuseInvariance`: `FuseInv` says where every answer comes from. One that a thread
  holds was true in a table of its own time (`Informed`), one in the cache or of an
  open file in a table since the mount (`CacheOK`, `FilesOK`), and with `-w` a
  thread's own time reaches back to the mount. `AnswersWereTrue` looks only at the
  step that answers, and so needs all of it.
- `ViewTypeCorrect`, `AnswersComeFromTheTable`, `OnlyGrantedFilesAreRead` follow.
- `OperationsImplementView`: every step is a step of View or leaves it alone; the step
  that reads the table is the step of View that reads, whenever the answer is
  given.

**ListFileProofs**, for every set of trees, names of any length, every field width, buffer
and disk (`ListFileAssumption`; a letter is none of the special characters, a tree
holds the directories above its entries, names are not empty and have no slash, and no
field is as long as the buffer):

- What one row is worth, without any state: `RowIsRead`, `parse_row` gives back the three
  columns that `pad_field` wrote, and `RowHasNoNewline`, the row of an entry without a
  newline is one line. They rest on `Reads(st, s, end)`, "s takes the parser from st
  to end": texts that follow each other are read one after the other (`ReadsConcat`), so
  that an escaped character, a quoted text (`QuotedReads`), a padded one
  (`PlainReads`, `SpacesRead`), a field and a row are each read by the lemma on their parts.
- What the writer is worth: `Progress`, after each piece nothing is lost, or the disk is
  full with something left to write, and stays so (`FlushMoves`, `PieceWritten`,
  `RowWritten`). That a torn row is reported depends on the last part alone.
- `ListFileInvariance`: `ListInv` says that as long as the writer was not stuck, the file
  and the buffer together are `Written`: they end where a line does, every
  entry has its row at the start of a line unless the walk has yet to come to it or
  to a directory above it (`Pending`), and without newlines in names every line is such a row.
  `Loaded` says the same of the part that was read. `GoodEntriesLoaded` looks at
  the end only, and needs all of it; so does the row next to a torn or malformed one,
  which is found because a line starts where it does.
- `ListFileTypeCorrect`, `GoodRowsAreLoaded` and `NothingElseIsLoaded` follow.

**KeyGateProofs**, for every last year up to 9999 and any set of keys (`KeyAssumption`):

- `CalendarInvariance`: on every day the date is one of the calendar's and
  `days_from_civil` is its number. What makes it inductive is arithmetic: the length
  of the March year that follows year `y` is 366 exactly when the calendar says
  that `y + 1` is a leap year (`YearsGrow`), and `(153 * mp + 2) \div 5` adds up
  the lengths of the months. Z3 does both after the eras are split off.
- `ArithmeticIsCalendar`, `KeysExpireOnTime` (that the date of an earlier key has an
  earlier number) follow.

**RepliesProofs**, for buffers of any size, links of any length and any set of users
(`RepliesAssumption`; `Top` bounds the memory, and is past what the longest repaired
link needs):

- `RepliesInvariance`: `RepliesInv` says for each stage of an operation what is in the
  two buffers and where it came from: `Fresh` when it is issued, `Told` when its
  callback has run, `Delivered` for the target of a link.
- `WritesStayInBounds`, `AnswersAreTheServers`, `RequestsActAsTheirCaller`,
  `RepliesTypeCorrect` follow. `LinksComeThrough` is the deepest: `Lossy` is a
  recursion over the bytes, and what it makes of a text is the text, of any target
  at most three times as long and with each whole character of it in its place.

**CommandsProofs**, for any two option tables and all command lines and input files
(`StartAssumption`, `ToolAssumption`, `CommandsAssumption`: the names in a table are
unambiguous, the tables of the two programs differ, and the options whose values a
program looks at take one):

- `CommandsInvariance`: `CliInv` relates the parser, which handles a cluster or a
  long option at once, to the reader that goes letter by letter (`Follows`): what
  was returned and what is queued together are what is read of the arguments passed, and
  where a line is refused, only flags are missing. This needs what a whole cluster
  does to the reader (`ClusterOfFlagsRead`, `ClusterWithValue`, `ClusterRefused`, each
  by induction over its letters) and that a reader that stopped reads nothing more
  (`RunGoesOn`). `StartInv` says what is open at each point of `main`, `ToolInv` what
  the tool has committed itself to when it gives up the old list, and that the
  rows it has buffered are those of the good lines so far (`RowsBefore`).
- `CommandsTypeCorrect` (with the pool's size in 1..64 whatever `-V` says:
  `PoolSizeBounds`), `ParserIsLikeGetopt`, `NothingIsLeftOpen` and `ExitsAreHonest`
  follow. For the last, options with a value are the same in what the parser
  returned and in what `getopt_long()` would have, because what a refused line lacks
  are flags (`SameValue`).
- `MountsServeWhatWasAsked` takes three arguments more. `AsksInv` says what `main` has
  asked of the options by each point, so that a mount has been through every check.
  `UrlIsMeant` reads `redis_url()` back for each form of `-X`: a character is recovered
  from its code one after the other (`DecodeIsInverse`, over `FlattenSeq` by
  `FlattenJoins`), a coded password has none of the characters that end it
  (`UrlencodeIsPlain`), and the URL is cut where it was joined (`CutAt`, `UrlOfParts`).
  `IdIsRead` shows that the search for `uid=` finds the parameter, and that a number
  read to the end of the URL is the one up to the next `&` (`NumberIsOver`).

*Induction.* The library's induction theorems take operators as arguments, which the
provers cannot instantiate. `InductionBySet` and `InductionUpTo` say the same about
sets of numbers, and are proved from `WFMin`: a set of numbers that is not empty has a
least one. That a recursive function of a model is well defined is
`IterationExists`, by induction on its length; lemmas such as `ReadLettersStates` and
`ReadArgumentsStates` then state its value at each position.

Only model-checked:

- liveness, under fairness (`Drains`, `CallsReturn`, `Answered`, `ShutdownEnds`,
  `StartsOrExits`), which the provers do not reach;
- `BlipHidden` and `NewlineNamesSkipped`, which are refuted.

## What is left out

- *Foreign code.* libnfs, libfuse, the drivers and the servers are actions marked
  external, with what `src` assumes of them: libnfs runs a callback once per
  accepted request, inside the issuing call or in `nfs_service` or when its context
  is destroyed; libfuse releases a handle once, after the last operation on it (in
  FuseView: after the reads of its path); a statement or transaction is atomic.
- *Data.* SQL text, the padding of CHAR columns, which attribute of a file goes where,
  group ids, names of more than a few characters.
- *When libnfs reads the ids.* `update_rpc_credentials` sets them before each request
  (`OneIdentity`); whether an operation of several RPCs sends the later ones with the
  ids of the next request is libnfs' own affair.
- *A server that is shutting down* may end a query with an error of its own, which
  the code takes for a working connection; it depends on the postgres crate.
- *The kernel's* name and attribute caches, which add their time-outs to what
  `AnswersWereTrue` says of a call.
- *A field as long as the writer's buffer* (8 KiB: a path of more than four thousand
  bytes, nearly all of them quotes or backslashes) is written past the buffer, and what a
  full disk does not take of it is dropped. `ListFileAssumption` has shorter fields.
- *Options*: the values of the options handed on to libfuse are left out, and an id that
  `as i32` would cut off is not among the numbers.
- *Floating point* (`parse_f64`, for `-M`), declarations and build files.

## Plan

In this order; the number of runs is kept small, so a new question joins the run
of its module where it can.

1. The padding of CHAR columns in the backend readers, with the names the writers accept.
