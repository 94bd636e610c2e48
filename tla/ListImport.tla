------------------------------- MODULE ListImport -------------------------------
(***************************************************************************)
(* yourfs-tool loading a list file into the whitelist: Writer::create,     *)
(* insert and finish of the three backends in db.rs, driven by main() of   *)
(* bin/yourfs_tool.rs, next to mounted readers and to other imports.  An   *)
(* import may be killed at any step.  The database servers are external:   *)
(* one SQL statement or transaction, or one redis command, is one step.    *)
(***************************************************************************)
EXTENDS Naturals, FiniteSets

CONSTANTS Backends,   \* which of "sqlite", "postgres", "redis" to consider
          Imports,    \* runs of yourfs-tool, each with a list file of its own
          Names,      \* the names the files can hold, all in one directory
          List,       \* List[i]: the names in the file of import i
          Old,        \* the names in the table before
          Original    \* the version of the rows loaded before any import

ASSUME ImportAssumption ==
  /\ Backends \subseteq {"sqlite", "postgres", "redis"}
  /\ List \in [Imports -> SUBSET Names]
  /\ Old \subseteq Names
  /\ Original \notin Imports

VARIABLES backend,    \* the backend of this database
          exists,     \* SQL: the table exists
          indexed,    \* SQL: its indexes exist
          listed,     \* what a listing of the directory returns
          reals,      \* the rows resolve() finds: a name and the version of it
          pc,         \* where each import is
          scan,       \* redis: the keys the SCAN of an import must still return
          solo        \* history: no other import ran since this one began

vars == <<backend, exists, indexed, listed, reals, pc, scan, solo>>
store == <<exists, indexed, listed, reals>>

Rows(i) == {<<n, i>> : n \in List[i]}
Over == {"ok", "failed", "killed"}
Active(i) == pc[i] \notin Over \cup {"idle"}

\* The redis keys of the directory that exist: the sorted set and the hash.
Keys == (IF listed = {} THEN {} ELSE {"d"}) \cup (IF reals = {} THEN {} ELSE {"h"})

Init ==
  /\ backend \in Backends
  /\ listed = Old
  /\ reals = {<<n, Original>> : n \in Old}
  /\ exists = (backend # "redis") /\ indexed = (backend # "redis")
  /\ pc = [i \in Imports |-> "idle"]
  /\ scan = [i \in Imports |-> {}]
  /\ solo = [i \in Imports |-> FALSE]

At(i, b, where) == backend = b /\ pc[i] = where
Go(i, to) == pc' = [pc EXCEPT ![i] = to]
---------------------------------------------------------------------------------
(* create(). *)

\* The file is open, the writer is connected, create() is about to run.
Start(i) ==
  /\ pc[i] = "idle"
  /\ Go(i, "create")
  /\ scan' = [scan EXCEPT ![i] = IF backend = "redis" THEN Keys ELSE {}]
  /\ solo' = [j \in Imports |-> IF j = i THEN \A k \in Imports : ~Active(k)
                                         ELSE solo[j] /\ ~Active(j)]
  /\ UNCHANGED <<backend, store>>

\* Mutant of SqliteDrop: the batch begins with CREATE TABLE.
SqliteNoDrop(i) ==
  /\ At(i, "sqlite", "create")
  /\ Go(i, "dropped")
  /\ UNCHANGED <<backend, store, scan, solo>>

\* sqlite runs the batch statement by statement, each its own transaction.
SqliteDrop(i) ==
  /\ At(i, "sqlite", "create")
  /\ exists' = FALSE /\ indexed' = FALSE /\ listed' = {} /\ reals' = {}
  /\ Go(i, "dropped")
  /\ UNCHANGED <<backend, scan, solo>>

SqliteCreate(i) ==
  /\ At(i, "sqlite", "dropped")
  /\ exists' = TRUE
  /\ Go(i, IF exists THEN "failed" ELSE "created")
  /\ UNCHANGED <<backend, indexed, listed, reals, scan, solo>>

\* The three CREATE INDEX statements, which readers cannot tell apart.
SqliteIndex(i) ==
  /\ At(i, "sqlite", "created")
  /\ indexed' = (indexed \/ exists)
  /\ Go(i, IF exists /\ ~indexed THEN "load" ELSE "failed")
  /\ UNCHANGED <<backend, exists, listed, reals, scan, solo>>

\* One simple_query is one implicit transaction in postgres.
PgCreate(i) ==
  /\ At(i, "postgres", "create")
  /\ exists' = TRUE /\ indexed' = FALSE /\ listed' = {} /\ reals' = {}
  /\ Go(i, "load")
  /\ UNCHANGED <<backend, scan, solo>>

\* One SCAN batch and the DEL of what it returned.  SCAN returns every key that
\* was there when it began; one created since then it may return or miss.
RedisDel(i) ==
  /\ At(i, "redis", "create")
  /\ \E batch \in SUBSET (scan[i] \cup Keys) \ {{}} :
       /\ scan' = [scan EXCEPT ![i] = @ \ batch]
       /\ listed' = IF "d" \in batch THEN {} ELSE listed
       /\ reals' = IF "h" \in batch THEN {} ELSE reals
  /\ UNCHANGED <<backend, exists, indexed, pc, solo>>

\* Mutant of RedisScanned: the loop ends whatever the cursor is.
RedisScannedEarly(i) ==
  /\ At(i, "redis", "create")
  /\ Go(i, "load")
  /\ UNCHANGED <<backend, store, scan, solo>>

\* The cursor is back at 0.
RedisScanned(i) ==
  /\ At(i, "redis", "create")
  /\ scan[i] = {}
  /\ Go(i, "load")
  /\ UNCHANGED <<backend, store, scan, solo>>
---------------------------------------------------------------------------------
(* finish(): the rows were only buffered by insert() until now. *)

\* No row in the file: finish() has nothing to do.
FinishEmpty(i) ==
  /\ pc[i] = "load" /\ List[i] = {}
  /\ Go(i, "ok")
  /\ UNCHANGED <<backend, store, scan, solo>>

\* Mutant of SqliteFinish: the ids are left to AUTOINCREMENT.
SqliteFinishAutoId(i) ==
  /\ At(i, "sqlite", "load") /\ List[i] # {}
  /\ IF exists
       THEN /\ reals' = reals \cup Rows(i)
            /\ listed' = listed \cup List[i]
            /\ Go(i, "ok")
       ELSE Go(i, "failed") /\ UNCHANGED <<reals, listed>>
  /\ UNCHANGED <<backend, exists, indexed, scan, solo>>

\* BEGIN; INSERT with ids 1, 2, ...; COMMIT.  The first INSERT fails on a table
\* that is gone or that has a row 1, and the transaction is rolled back.
SqliteFinish(i) ==
  /\ At(i, "sqlite", "load") /\ List[i] # {}
  /\ IF exists /\ reals = {}
       THEN reals' = Rows(i) /\ listed' = List[i] /\ Go(i, "ok")
       ELSE Go(i, "failed") /\ UNCHANGED <<reals, listed>>
  /\ UNCHANGED <<backend, exists, indexed, scan, solo>>

\* BEGIN ... COMMIT; ids come from a sequence.
PgCommit(i) ==
  /\ At(i, "postgres", "load") /\ List[i] # {}
  /\ reals' = reals \cup Rows(i)
  /\ listed' = listed \cup List[i]
  /\ Go(i, "committed")
  /\ UNCHANGED <<backend, exists, indexed, scan, solo>>

\* CREATE INDEX after the commit; it fails when the index exists already.
PgIndex(i) ==
  /\ At(i, "postgres", "committed")
  /\ indexed' = TRUE
  /\ Go(i, IF indexed THEN "failed" ELSE "ok")
  /\ UNCHANGED <<backend, exists, listed, reals, scan, solo>>

\* MULTI; ZADD and HSET for each row; EXEC.  HSET replaces the value of a name.
RedisFinish(i) ==
  /\ At(i, "redis", "load") /\ List[i] # {}
  /\ listed' = listed \cup List[i]
  /\ reals' = {r \in reals : r[1] \notin List[i]} \cup Rows(i)
  /\ Go(i, "ok")
  /\ UNCHANGED <<backend, exists, indexed, scan, solo>>

\* The process is killed, loses its connection or has a statement fail for a reason
\* outside this model (a full disk, a locked sqlite file): what it has not
\* committed is gone.
Kill(i) ==
  /\ Active(i)
  /\ Go(i, "killed")
  /\ scan' = [scan EXCEPT ![i] = {}]
  /\ UNCHANGED <<backend, store, solo>>

Create(i) == \/ SqliteDrop(i) \/ SqliteCreate(i) \/ SqliteIndex(i)
             \/ PgCreate(i)
             \/ RedisDel(i) \/ RedisScanned(i)

Finish(i) == \/ FinishEmpty(i)
             \/ SqliteFinish(i)
             \/ PgCommit(i) \/ PgIndex(i)
             \/ RedisFinish(i)

Terminated == (\A i \in Imports : pc[i] \in Over) /\ UNCHANGED vars

Next == (\E i \in Imports : Start(i) \/ Create(i) \/ Finish(i) \/ Kill(i)) \/ Terminated

Spec == Init /\ [][Next]_vars
---------------------------------------------------------------------------------
(* What a mounted reader gets. *)

\* Mutant of CheckTable: every backend is asked for a row.
CheckTableByRow == Keys # {}

\* check_table() accepts the table, when the file system is mounted.
CheckTable == IF backend = "redis" THEN Keys # {} ELSE exists

(* Properties *)

TypeOK ==
  /\ backend \in Backends
  /\ exists \in BOOLEAN /\ indexed \in BOOLEAN
  /\ listed \in SUBSET Names
  /\ reals \in SUBSET (Names \X (Imports \cup {Original}))
  /\ pc \in [Imports -> Over \cup {"idle", "create", "dropped", "created", "load",
                                   "committed"}]
  /\ scan \in [Imports -> SUBSET {"d", "h"}]
  /\ \A i \in Imports : scan[i] # {} => backend = "redis" /\ pc[i] = "create"
  /\ solo \in [Imports -> BOOLEAN]

\* An import that overlaps no other replaces everything, and is never refused,
\* however many imports were interrupted before it and wherever: a table without
\* indexes or rows, or a key the DEL had not reached, neither stops it nor
\* survives it (Writer::create and finish of the three backends, db.rs).
SoloImportReplaces ==
  [][\A i \in Imports : solo[i] /\ Active(i) =>
       /\ pc'[i] # "failed"
       /\ pc'[i] = "ok" => listed' = List[i] /\ reals' = Rows(i)]_vars

\* At every moment, so also after an interruption and for a reader in the middle
\* of an import, the table holds all the rows of one list or none: rows reach the
\* database in one transaction (finish).  With sqlite this is so even when imports
\* overlap, since the second to write row 1 is refused; with postgres and redis it
\* is claimed only of imports that do not overlap.  In redis the two structures
\* are deleted one by one, so either may be empty before the other.
WholeListOnly ==
  backend = "sqlite" \/ (\A i \in Imports : pc[i] # "idle" => solo[i]) =>
    \E v \in Imports \cup {Original} :
      LET whole == IF v = Original THEN Old ELSE List[v]
      IN  /\ listed \in {{}, whole} /\ reals \in {{}, whole \X {v}}
          /\ backend # "redis" => listed = {r[1] : r \in reals}

\* What an import that overlaps no other leaves can be mounted, whatever was
\* interrupted before it: check_table() takes no table just built for one that was
\* "never built" (RedisDb::check_table), except that redis cannot tell an empty
\* list from no table, since finish() writes no key without rows.
BuiltTableMounts ==
  [][\A i \in Imports : solo[i] /\ Active(i) /\ pc'[i] = "ok" =>
       (CheckTable' <=> (backend = "redis" => List[i] # {}))]_vars
=================================================================================
