-------------------------------- MODULE FuseView --------------------------------
(***************************************************************************)
(* The FUSE operations of fs.rs over the whitelist, with and without the   *)
(* -w cache (CachingDb of db.rs), while somebody edits the table: what     *)
(* each operation is told about a virtual path, and when.  The database,   *)
(* the NFS server and libfuse are external; a database call answers from   *)
(* the table of one moment, or fails.                                      *)
(***************************************************************************)
EXTENDS Naturals

CONSTANTS Threads,    \* FUSE worker threads
          Paths,      \* virtual paths, all in the directory Dir
          Dir,
          Reals,      \* the real paths a row may hold
          None,       \* Option::None: the path is not whitelisted
          Unknown,    \* no such entry in the cache
          Handles,    \* fuse_file_info.fh of the files that can be open at once
          MaxEdits    \* bound on the edits of the table

ASSUME ViewAssumption ==
  /\ Dir \notin Paths
  /\ None \notin Reals
  /\ Unknown \notin Reals \cup {None} /\ \A names \in SUBSET Paths : Unknown # names
  /\ MaxEdits \in Nat

VARIABLES cached,     \* -w was given
          table,      \* the whitelist: the real path of each virtual path
          edits,      \* how often it was edited
          past,       \* history: every value of it since the mount
          cache,      \* CachingDb: paths, and dirs under the key Dir
          call,       \* the operation each thread runs
          seen,       \* history: the tables each operation may answer from
          files       \* the open files: virtual path, real path

vars == <<cached, table, edits, past, cache, call, seen, files>>
tableVars == <<cached, table, edits, past>>

Keys == Paths \cup {Dir}
Tables == [Paths -> Reals \cup {None}]
Answers == Reals \cup {None} \cup SUBSET Paths
Ops == {"path", "open", "list", "read"}
Calls == [op : Ops, key : Keys, pc : {"idle", "lookup", "query", "insert", "answer"},
          got : Answers \cup {Unknown}]
Idle == [op |-> "path", key |-> Dir, pc |-> "idle", got |-> Unknown]
NoFile == [path |-> Dir, real |-> Unknown]

\* What resolve() of a path, or list() of the directory, finds in a table.
Look(t, key) == IF key = Dir THEN {p \in Paths : t[p] # None} ELSE t[key]

Init ==
  /\ cached \in BOOLEAN
  /\ table \in Tables
  /\ edits = 0 /\ past = {table}
  /\ cache = [k \in Keys |-> Unknown]
  /\ call = [w \in Threads |-> Idle]
  /\ seen = [w \in Threads |-> {}]
  /\ files = [h \in Handles |-> NoFile]

\* The administrator publishes, renames or revokes a row.
Edit ==
  /\ edits < MaxEdits
  /\ edits' = edits + 1
  /\ \E p \in Paths, r \in Reals \cup {None} : table' = [table EXCEPT ![p] = r]
  /\ past' = past \cup {table'}
  /\ seen' = [w \in Threads |-> IF call[w].pc = "idle" THEN {} ELSE seen[w] \cup {table'}]
  /\ UNCHANGED <<cached, cache, call, files>>
---------------------------------------------------------------------------------
(* The worker threads. *)

At(w, pc) == call[w].pc = pc
Goto(w, pc) == call' = [call EXCEPT ![w].pc = pc]
Told(w, pc, got) == call' = [call EXCEPT ![w].pc = pc, ![w].got = got]

\* getattr, readlink, statfs ("path"), open and readdir ask the whitelist first.
\* With -w an answer may be as old as the mount, without it only as the call.
Begin(w, op, key) ==
  /\ At(w, "idle")
  /\ call' = [call EXCEPT ![w] = [op |-> op, key |-> key, got |-> Unknown,
                                  pc |-> IF cached THEN "lookup" ELSE "query"]]
  /\ seen' = [seen EXCEPT ![w] = IF cached THEN past ELSE {table}]
  /\ UNCHANGED <<tableVars, cache, files>>

\* The lock of the cache is held for the look only.
CacheHit(w) ==
  /\ At(w, "lookup") /\ cache[call[w].key] # Unknown
  /\ Told(w, "answer", cache[call[w].key])
  /\ UNCHANGED <<tableVars, cache, seen, files>>

CacheMiss(w) ==
  /\ At(w, "lookup") /\ cache[call[w].key] = Unknown
  /\ Goto(w, "query")
  /\ UNCHANGED <<tableVars, cache, seen, files>>

QueryAnswers(w) ==
  /\ At(w, "query")
  /\ Told(w, IF cached THEN "insert" ELSE "answer", Look(table, call[w].key))
  /\ UNCHANGED <<tableVars, cache, seen, files>>

\* Mutant of QueryFails: the failure is taken, and remembered, for "no such row".
QueryFailsAsNone(w) ==
  /\ At(w, "query")
  /\ Told(w, IF cached THEN "insert" ELSE "answer",
          IF call[w].key = Dir THEN {} ELSE None)
  /\ UNCHANGED <<tableVars, cache, seen, files>>

\* The database fails: EIO, and nothing is cached.
QueryFails(w) ==
  /\ At(w, "query")
  /\ call' = [call EXCEPT ![w] = Idle]
  /\ seen' = [seen EXCEPT ![w] = {}]
  /\ UNCHANGED <<tableVars, cache, files>>

CacheInsert(w) ==
  /\ At(w, "insert")
  /\ cache' = [cache EXCEPT ![call[w].key] = call[w].got]
  /\ Goto(w, "answer")
  /\ UNCHANGED <<tableVars, seen, files>>

Done(w) ==
  /\ call' = [call EXCEPT ![w] = Idle]
  /\ seen' = [seen EXCEPT ![w] = {}]

\* The names of readdir, ENOENT for None, or the outcome of the NFS operation on
\* the real path: an open may fail there.
Return(w) ==
  /\ At(w, "answer")
  /\ Done(w)
  /\ UNCHANGED <<tableVars, cache, files>>

\* Mutant of OpenOk: open keeps the virtual path of the file.
OpenOkVirtual(w, h) ==
  /\ At(w, "answer") /\ call[w].op = "open" /\ call[w].got # None
  /\ files[h] = NoFile
  /\ files' = [files EXCEPT ![h] = [path |-> call[w].key, real |-> call[w].key]]
  /\ Done(w)
  /\ UNCHANGED <<tableVars, cache>>

\* Mutant of OpenOk: a path that is not whitelisted is opened all the same.
OpenOkUnlisted(w, h) ==
  /\ At(w, "answer") /\ call[w].op = "open"
  /\ files[h] = NoFile
  /\ files' = [files EXCEPT ![h] = [path |-> call[w].key, real |-> call[w].got]]
  /\ Done(w)
  /\ UNCHANGED <<tableVars, cache>>

\* Mutant of OpenOk: the row is asked for once more when the file is open.
OpenOkAskedTwice(w, h) ==
  /\ At(w, "answer") /\ call[w].op = "open" /\ call[w].got # None
  /\ files[h] = NoFile
  /\ files' = [files EXCEPT ![h] = [path |-> call[w].key, real |-> table[call[w].key]]]
  /\ Done(w)
  /\ UNCHANGED <<tableVars, cache>>

\* The file of the real path is open under handle h.
OpenOk(w, h) ==
  /\ At(w, "answer") /\ call[w].op = "open" /\ call[w].got # None
  /\ files[h] = NoFile
  /\ files' = [files EXCEPT ![h] = [path |-> call[w].key, real |-> call[w].got]]
  /\ Done(w)
  /\ UNCHANGED <<tableVars, cache>>

\* read goes by the handle alone.
Read(w, h) ==
  /\ At(w, "idle") /\ files[h] # NoFile
  /\ call' = [call EXCEPT ![w] = [op |-> "read", key |-> files[h].path, pc |-> "answer",
                                  got |-> files[h].real]]
  /\ seen' = [seen EXCEPT ![w] = {table}]
  /\ UNCHANGED <<tableVars, cache, files>>

\* libfuse releases a handle after the last operation on it.
Release(h) ==
  /\ files[h] # NoFile
  /\ \A w \in Threads : call[w].op # "read" \/ call[w].key # files[h].path
  /\ files' = [files EXCEPT ![h] = NoFile]
  /\ UNCHANGED <<tableVars, cache, call, seen>>

Next ==
  \/ Edit
  \/ \E w \in Threads :
       \/ \E p \in Paths, op \in {"path", "open"} : Begin(w, op, p)
       \/ Begin(w, "list", Dir)
       \/ CacheHit(w) \/ CacheMiss(w) \/ QueryAnswers(w) \/ QueryFails(w)
       \/ CacheInsert(w) \/ Return(w)
       \/ \E h \in Handles : OpenOk(w, h) \/ Read(w, h)
  \/ \E h \in Handles : Release(h)

Spec == Init /\ [][Next]_vars
---------------------------------------------------------------------------------
(* Properties *)

TypeOK ==
  /\ cached \in BOOLEAN
  /\ table \in Tables /\ edits \in 0..MaxEdits /\ past \in SUBSET Tables
  /\ cache \in [Keys -> Answers \cup {Unknown}]
  /\ call \in [Threads -> Calls]
  /\ seen \in [Threads -> SUBSET Tables]
  /\ files \in [Handles -> [path : Keys, real : Reals \cup {Unknown}]]

\* What an operation is told about its path or directory was so at some moment
\* since the operation began (or, with -w, since the mount): no failure of the
\* database passes for an answer, and without -w no answer outlives its operation.
AnswersWereTrue ==
  \A w \in Threads :
    At(w, "answer") /\ call[w].op # "read" =>
      \E t \in seen[w] : call[w].got = Look(t, call[w].key)

\* read does not ask the whitelist again, so a row revoked after the open does
\* not stop it; but what it reads is a file that the whitelist once gave its
\* virtual path, since the mount, and never a path that was denied.
ReadsWereGranted ==
  \A w \in Threads :
    At(w, "answer") /\ call[w].op = "read" =>
      call[w].got # None /\ \E t \in past : t[call[w].key] = call[w].got

\* The operations implement the promise of View: the look-up, the query and the
\* insertion act as one reading of the whitelist at one moment of the call, or as
\* the repetition of such a reading of the same path.  An answer can be repeated
\* while it is in the cache, or on its way into it.
Remembered(key) ==
  {a \in {cache[key]} : a # Unknown}
    \cup {call[w].got : w \in {v \in Threads : At(v, "insert") /\ call[v].key = key}}

RequestOf(c) ==
  [op     |-> c.op,
   key    |-> c.key,
   state  |-> IF c.pc = "idle" THEN "idle" ELSE IF c.got = Unknown THEN "asked" ELSE "decided",
   answer |-> c.got]

Requests == [w \in Threads |-> RequestOf(call[w])]
Memory == [k \in Keys |-> Remembered(k)]

TheView == INSTANCE View WITH memoizing <- cached,
                              memory    <- Memory,
                              request   <- Requests

ImplementsView == TheView!Spec
=================================================================================
