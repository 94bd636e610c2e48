--------------------------- MODULE ListImportProofs ---------------------------
(***************************************************************************)
(* Loading a list is correct for any number of imports of any lists, with  *)
(* any of the three backends, wherever imports are killed.  The inductive  *)
(* invariant says, of an import that overlaps no other, what each of its   *)
(* phases has left in the store, and that the store holds the rows of one  *)
(* list or none.                                                           *)
(***************************************************************************)
EXTENDS ListImport, TLAPS

AllSolo == \A i \in Imports : pc[i] # "idle" => solo[i]
Alone(i) == solo[i] /\ Active(i)
NoRows == listed = {} /\ reals = {}

\* The store holds the rows of the list of v, or none.
ListOf(v) == IF v = Original THEN Old ELSE List[v]
Holds(v) ==
  /\ listed \in {{}, ListOf(v)} /\ reals \in {{}, ListOf(v) \X {v}}
  /\ backend # "redis" => listed = {r[1] : r \in reals}
Whole == \E v \in Imports \cup {Original} : Holds(v)

\* What an import that runs alone has left in the store when it is at a step.
SqlitePhase(i) ==
  /\ pc[i] \in {"create", "dropped", "created", "load"}
  /\ pc[i] = "dropped" => ~exists /\ ~indexed /\ NoRows
  /\ pc[i] = "created" => exists /\ ~indexed /\ NoRows
  /\ pc[i] = "load" => exists /\ NoRows

PgPhase(i) ==
  /\ pc[i] \in {"create", "load", "committed"}
  /\ pc[i] = "load" => exists /\ ~indexed /\ NoRows
  /\ pc[i] = "committed" => exists /\ ~indexed /\ listed = List[i] /\ reals = Rows(i)

RedisPhase(i) ==
  /\ pc[i] \in {"create", "load"}
  /\ pc[i] = "create" => Keys \subseteq scan[i]
  /\ pc[i] = "load" => NoRows

Phase(i) ==
  /\ backend = "sqlite" => SqlitePhase(i)
  /\ backend = "postgres" => PgPhase(i)
  /\ backend = "redis" => RedisPhase(i)

ImportInv ==
  /\ TypeOK
  /\ \A i \in Imports : Alone(i) => Phase(i) /\ \A k \in Imports \ {i} : ~Active(k)
  /\ backend = "sqlite" \/ AllSolo => Whole

-------------------------------------------------------------------------------
(* Rows. *)

LEMMA RowsOfList ==
  ASSUME NEW i \in Imports
  PROVE  /\ Rows(i) = ListOf(i) \X {i}
         /\ ListOf(i) = List[i]
         /\ {r[1] : r \in Rows(i)} = List[i]
         /\ Rows(i) = {} <=> List[i] = {}
<1>1. ListOf(i) = List[i]
  BY ImportAssumption DEF ListOf
<1>2. Rows(i) = ListOf(i) \X {i}
  BY <1>1 DEF Rows
<1>3. \A r \in Rows(i) : r[1] \in List[i]
  BY DEF Rows
<1>4. \A n \in List[i] : <<n, i>> \in Rows(i) /\ <<n, i>>[1] = n
  BY DEF Rows
<1>5. {r[1] : r \in Rows(i)} = List[i]
  BY <1>3, <1>4
<1>6. Rows(i) = {} <=> List[i] = {}
  BY <1>3, <1>4
<1> QED
  BY <1>1, <1>2, <1>5, <1>6

LEMMA RowsTyped ==
  ASSUME NEW i \in Imports
  PROVE  List[i] \in SUBSET Names /\ Rows(i) \in SUBSET (Names \X (Imports \cup {Original}))
<1>1. List[i] \in SUBSET Names
  BY ImportAssumption
<1> QED
  BY <1>1 DEF Rows

\* A store that is empty holds the rows of any list or none.
LEMMA EmptyIsWhole ==
  ASSUME ImportInv, listed' = {}, reals' = {}
  PROVE  Whole'
<1>1. {r[1] : r \in reals'} = {}
  OBVIOUS
<1> QED
  BY <1>1 DEF Whole, Holds

\* A store that was empty holds the rows of the import that has filled it.
LEMMA FilledIsWhole ==
  ASSUME NEW i \in Imports, listed' = List[i], reals' = Rows(i)
  PROVE  Whole'
<1>1. {r[1] : r \in reals'} = listed'
  BY RowsOfList
<1> QED
  BY <1>1, RowsOfList DEF Whole, Holds

LEMMA Unchanged ==
  ASSUME Whole, UNCHANGED <<backend, listed, reals>>
  PROVE  Whole'
BY DEF Whole, Holds

\* Keys tells whether each of the two structures is there.
LEMMA KeysMean ==
  /\ ("d" \in Keys <=> listed # {}) /\ ("h" \in Keys <=> reals # {})
  /\ Keys \subseteq {"d", "h"}
  /\ Keys = {} <=> NoRows
BY DEF Keys, NoRows

LEMMA KeysMeanAfter ==
  /\ ("d" \in Keys' <=> listed' # {}) /\ ("h" \in Keys' <=> reals' # {})
  /\ Keys' \subseteq {"d", "h"}
  /\ Keys' = {} <=> NoRows'
BY DEF Keys, NoRows

-------------------------------------------------------------------------------
(* The invariant holds initially and every action preserves it. *)

LEMMA InitImport == Init => ImportInv
<1> SUFFICES ASSUME Init PROVE ImportInv
  OBVIOUS
<1>1. /\ backend \in Backends /\ listed = Old /\ Old \subseteq Names
      /\ reals = {<<n, Original>> : n \in Old}
      /\ exists \in BOOLEAN /\ indexed \in BOOLEAN
      /\ pc = [i \in Imports |-> "idle"] /\ solo = [i \in Imports |-> FALSE]
      /\ scan = [i \in Imports |-> {}]
  BY ImportAssumption DEF Init
<1>2. reals = Old \X {Original} /\ reals \in SUBSET (Names \X (Imports \cup {Original}))
  BY <1>1
<1>3. TypeOK
  BY <1>1, <1>2 DEF TypeOK, Over
<1>4. {r[1] : r \in reals} = Old
  <2>1. \A r \in reals : r[1] \in Old
    BY <1>1
  <2>2. \A n \in Old : <<n, Original>> \in reals /\ <<n, Original>>[1] = n
    BY <1>1
  <2> QED
    BY <2>1, <2>2
<1>5. Whole
  BY <1>1, <1>2, <1>4 DEF Whole, Holds, ListOf
<1> QED
  BY <1>1, <1>3, <1>5 DEF ImportInv, Alone

\* An import starts: one that finds another active is not alone, and the other
\* is no longer alone either.
LEMMA StartInv ==
  ASSUME ImportInv, NEW i \in Imports, Start(i)
  PROVE  ImportInv'
<1>1. /\ pc[i] = "idle" /\ pc' = [pc EXCEPT ![i] = "create"]
      /\ scan' = [scan EXCEPT ![i] = IF backend = "redis" THEN Keys ELSE {}]
      /\ solo' = [j \in Imports |-> IF j = i THEN \A k \in Imports : ~Active(k)
                                             ELSE solo[j] /\ ~Active(j)]
      /\ UNCHANGED <<backend, exists, indexed, listed, reals>>
  BY DEF Start, Go, store
<1>2. TypeOK'
  BY <1>1, KeysMean DEF ImportInv, TypeOK, Over
<1>3. \A j \in Imports \ {i} : pc'[j] = pc[j] /\ (Active(j)' <=> Active(j))
  BY <1>1 DEF ImportInv, TypeOK, Active
<1>4. pc'[i] = "create"
  BY <1>1 DEF ImportInv, TypeOK
<1>5. ASSUME NEW j \in Imports, Alone(j)'
      PROVE  Phase(j)' /\ \A k \in Imports \ {j} : ~Active(k)'
  <2>1. j = i /\ \A k \in Imports : ~Active(k)
    BY <1>1, <1>3, <1>5 DEF Alone
  <2>2. backend = "redis" => Keys' \subseteq scan'[i]
    BY <1>1 DEF ImportInv, TypeOK, Keys
  <2> QED
    BY <1>1, <1>3, <1>4, <2>1, <2>2 DEF Phase, SqlitePhase, PgPhase, RedisPhase
<1>6. AllSolo' => AllSolo
  BY <1>1, <1>3 DEF AllSolo
<1>7. Whole => Whole'
  BY <1>1, Unchanged
<1> QED
  BY <1>1, <1>2, <1>5, <1>6, <1>7 DEF ImportInv

\* A step of one import, neither its start nor its end in success or failure.
LEMMA StepOfOne ==
  ASSUME ImportInv, NEW i \in Imports, Active(i), TypeOK', UNCHANGED <<backend, solo>>,
         \A j \in Imports \ {i} : pc'[j] = pc[j], pc'[i] # "idle",
         Alone(i) /\ Active(i)' => Phase(i)',
         Whole /\ (backend = "sqlite" \/ Alone(i)) => Whole'
  PROVE  ImportInv'
<1>1. \A j \in Imports \ {i} : Active(j)' <=> Active(j)
  BY DEF Active
<1>2. \A j \in Imports : Alone(j)' => j = i \/ (Alone(j) /\ Active(i))
  BY <1>1 DEF Alone
<1>3. \A j \in Imports : Alone(j)' => j = i
  BY <1>2 DEF ImportInv
<1>4. Alone(i)' => Alone(i) /\ Active(i)'
  BY DEF Alone
<1>5. \A j \in Imports : Alone(j)' => Phase(j)' /\ \A k \in Imports \ {j} : ~Active(k)'
  BY <1>1, <1>3, <1>4 DEF ImportInv
<1>6. AllSolo' => AllSolo /\ Alone(i)
  BY DEF AllSolo, Alone, Active
<1>7. backend' = "sqlite" \/ AllSolo' => Whole'
  BY <1>6 DEF ImportInv
<1> QED
  BY <1>5, <1>7 DEF ImportInv

\* create() of sqlite: the batch, statement by statement.
LEMMA SqliteCreateInv ==
  ASSUME ImportInv, NEW i \in Imports,
         SqliteDrop(i) \/ SqliteCreate(i) \/ SqliteIndex(i)
  PROVE  ImportInv'
<1>1. /\ backend = "sqlite" /\ pc[i] \in {"create", "dropped", "created"}
      /\ UNCHANGED <<backend, scan, solo>>
  BY DEF SqliteDrop, SqliteCreate, SqliteIndex, At
<1>2. PICK to \in {"dropped", "created", "load", "failed"} : pc' = [pc EXCEPT ![i] = to]
  BY DEF SqliteDrop, SqliteCreate, SqliteIndex, Go
<1>3. /\ exists' \in BOOLEAN /\ indexed' \in BOOLEAN
      /\ NoRows' \/ UNCHANGED <<listed, reals>>
  BY DEF SqliteDrop, SqliteCreate, SqliteIndex, ImportInv, TypeOK, NoRows
<1>4. TypeOK'
  BY <1>1, <1>2, <1>3 DEF ImportInv, TypeOK, NoRows, Over
<1>5. Active(i) /\ pc'[i] = to /\ \A j \in Imports \ {i} : pc'[j] = pc[j]
  BY <1>1, <1>2 DEF ImportInv, TypeOK, Active, Over
<1>6. ASSUME Alone(i) PROVE Phase(i)'
  <2>1. SqlitePhase(i)
    BY <1>1, <1>6 DEF ImportInv, Phase
  <2>2. \A w : Go(i, w) => pc'[i] = w
    BY DEF Go, ImportInv, TypeOK
  <2>3. SqlitePhase(i)'
    BY <2>1, <2>2 DEF SqliteDrop, SqliteCreate, SqliteIndex, At, SqlitePhase, NoRows
  <2> QED
    BY <1>1, <2>3 DEF Phase
<1>7. Whole => Whole'
  BY <1>1, <1>3, EmptyIsWhole, Unchanged DEF NoRows
<1> QED
  BY <1>1, <1>2, <1>4, <1>5, <1>6, <1>7, StepOfOne

\* create() of postgres: one transaction.
LEMMA PgCreateInv ==
  ASSUME ImportInv, NEW i \in Imports, PgCreate(i)
  PROVE  ImportInv'
<1>1. /\ backend = "postgres" /\ pc[i] = "create" /\ pc' = [pc EXCEPT ![i] = "load"]
      /\ exists' = TRUE /\ indexed' = FALSE /\ listed' = {} /\ reals' = {}
      /\ UNCHANGED <<backend, scan, solo>>
  BY DEF PgCreate, At, Go
<1>2. TypeOK'
  BY <1>1 DEF ImportInv, TypeOK, Over
<1>3. Active(i) /\ pc'[i] = "load" /\ \A j \in Imports \ {i} : pc'[j] = pc[j]
  BY <1>1 DEF ImportInv, TypeOK, Active, Over
<1>4. Phase(i)'
  BY <1>1, <1>3 DEF Phase, PgPhase, NoRows
<1>5. Whole'
  BY <1>1, EmptyIsWhole
<1> QED
  BY <1>1, <1>2, <1>3, <1>4, <1>5, StepOfOne

\* create() of redis: what a DEL removed, the SCAN has returned, so what is still
\* there it has still to return.
LEMMA RedisDelInv ==
  ASSUME ImportInv, NEW i \in Imports, RedisDel(i)
  PROVE  ImportInv'
<1>1. /\ backend = "redis" /\ pc[i] = "create"
      /\ UNCHANGED <<backend, exists, indexed, pc, solo>>
  BY DEF RedisDel, At
<1>2. PICK batch \in SUBSET (scan[i] \cup Keys) :
        /\ scan' = [scan EXCEPT ![i] = @ \ batch]
        /\ listed' = IF "d" \in batch THEN {} ELSE listed
        /\ reals' = IF "h" \in batch THEN {} ELSE reals
  BY DEF RedisDel
<1>3. TypeOK'
  BY <1>1, <1>2 DEF ImportInv, TypeOK
<1>4. Active(i) /\ pc'[i] = "create" /\ scan'[i] = scan[i] \ batch
  BY <1>1, <1>2 DEF ImportInv, TypeOK, Active, Over
<1>5. ASSUME Alone(i) PROVE Phase(i)'
  <2>1. Keys \subseteq scan[i]
    BY <1>1, <1>5 DEF ImportInv, Phase, RedisPhase
  <2>2. Keys' \subseteq Keys \ batch
    BY <1>2, KeysMean, KeysMeanAfter
  <2> QED
    BY <1>1, <1>4, <2>1, <2>2 DEF Phase, RedisPhase
<1>6. Whole => Whole'
  BY <1>1, <1>2 DEF Whole, Holds
<1> QED
  BY <1>1, <1>3, <1>4, <1>5, <1>6, StepOfOne

LEMMA RedisScannedInv ==
  ASSUME ImportInv, NEW i \in Imports, RedisScanned(i)
  PROVE  ImportInv'
<1>1. /\ backend = "redis" /\ pc[i] = "create" /\ scan[i] = {}
      /\ pc' = [pc EXCEPT ![i] = "load"]
      /\ UNCHANGED <<backend, exists, indexed, listed, reals, scan, solo>>
  BY DEF RedisScanned, At, Go, store
<1>2. TypeOK'
  BY <1>1 DEF ImportInv, TypeOK, Over
<1>3. Active(i) /\ pc'[i] = "load" /\ \A j \in Imports \ {i} : pc'[j] = pc[j]
  BY <1>1 DEF ImportInv, TypeOK, Active, Over
<1>4. ASSUME Alone(i) PROVE Phase(i)'
  <2>1. Keys = {}
    BY <1>1, <1>4 DEF ImportInv, Phase, RedisPhase
  <2> QED
    BY <1>1, <1>3, <2>1, KeysMean DEF Phase, RedisPhase, NoRows
<1> QED
  BY <1>1, <1>2, <1>3, <1>4, Unchanged, StepOfOne

LEMMA CreateInv ==
  ASSUME ImportInv, NEW i \in Imports, Create(i)
  PROVE  ImportInv'
BY SqliteCreateInv, PgCreateInv, RedisDelInv, RedisScannedInv DEF Create

\* finish() in sqlite: row 1 can only be written into an empty table.
LEMMA SqliteFinishInv ==
  ASSUME ImportInv, NEW i \in Imports, SqliteFinish(i)
  PROVE  ImportInv'
<1>1. /\ backend = "sqlite" /\ pc[i] = "load"
      /\ UNCHANGED <<backend, exists, indexed, scan, solo>>
  BY DEF SqliteFinish, At
<1>2. \/ reals' = Rows(i) /\ listed' = List[i]
      \/ UNCHANGED <<listed, reals>>
  BY DEF SqliteFinish
<1>3. PICK to \in {"ok", "failed"} : pc' = [pc EXCEPT ![i] = to]
  BY DEF SqliteFinish, Go
<1>4. TypeOK'
  <2>1. listed' \in SUBSET Names /\ reals' \in SUBSET (Names \X (Imports \cup {Original}))
    BY <1>2, RowsTyped DEF ImportInv, TypeOK
  <2> QED
    BY <1>1, <1>3, <2>1 DEF ImportInv, TypeOK, Over
<1>5. Active(i) /\ ~Active(i)' /\ \A j \in Imports \ {i} : pc'[j] = pc[j]
  BY <1>1, <1>3 DEF ImportInv, TypeOK, Active, Over
<1>6. Whole => Whole'
  BY <1>1, <1>2, FilledIsWhole, Unchanged
<1> QED
  BY <1>1, <1>3, <1>4, <1>5, <1>6, StepOfOne DEF Active

\* finish() in postgres: the commit, then the indexes.
LEMMA PgFinishInv ==
  ASSUME ImportInv, NEW i \in Imports, PgCommit(i) \/ PgIndex(i)
  PROVE  ImportInv'
<1>1. CASE PgCommit(i)
  <2>1. /\ backend = "postgres" /\ pc[i] = "load" /\ pc' = [pc EXCEPT ![i] = "committed"]
        /\ reals' = reals \cup Rows(i) /\ listed' = listed \cup List[i]
        /\ UNCHANGED <<backend, exists, indexed, scan, solo>>
    BY <1>1 DEF PgCommit, At, Go
  <2>2. TypeOK'
    <3>1. listed' \in SUBSET Names /\ reals' \in SUBSET (Names \X (Imports \cup {Original}))
      BY <2>1, RowsTyped DEF ImportInv, TypeOK
    <3> QED
      BY <2>1, <3>1 DEF ImportInv, TypeOK, Over
  <2>3. /\ Active(i) /\ pc'[i] = "committed"
        /\ \A j \in Imports \ {i} : pc'[j] = pc[j]
    BY <2>1 DEF ImportInv, TypeOK, Active, Over
  <2>4. ASSUME Alone(i) PROVE Phase(i)' /\ reals' = Rows(i) /\ listed' = List[i]
    <3>1. NoRows /\ exists /\ ~indexed
      BY <2>1, <2>4 DEF ImportInv, Phase, PgPhase
    <3>2. reals' = Rows(i) /\ listed' = List[i] /\ Rows(i)' = Rows(i)
      BY <2>1, <3>1 DEF NoRows, Rows
    <3> QED
      BY <2>1, <2>3, <3>1, <3>2 DEF Phase, PgPhase
  <2>5. Alone(i) => Whole'
    BY <2>4, FilledIsWhole
  <2> QED
    BY <2>1, <2>2, <2>3, <2>4, <2>5, StepOfOne
<1>2. CASE PgIndex(i)
  <2>1. /\ pc[i] = "committed" /\ indexed' = TRUE
        /\ UNCHANGED <<backend, exists, listed, reals, scan, solo>>
    BY <1>2 DEF PgIndex, At
  <2>2. PICK to \in {"ok", "failed"} : pc' = [pc EXCEPT ![i] = to]
    BY <1>2 DEF PgIndex, Go
  <2>3. TypeOK'
    BY <2>1, <2>2 DEF ImportInv, TypeOK, Over
  <2>4. Active(i) /\ ~Active(i)' /\ \A j \in Imports \ {i} : pc'[j] = pc[j]
    BY <2>1, <2>2 DEF ImportInv, TypeOK, Active, Over
  <2> QED
    BY <2>1, <2>2, <2>3, <2>4, Unchanged, StepOfOne DEF Active
<1> QED
  BY <1>1, <1>2

\* finish() in redis: every row of the list replaces the one of its name.
LEMMA RedisFinishInv ==
  ASSUME ImportInv, NEW i \in Imports, RedisFinish(i)
  PROVE  ImportInv'
<1>1. /\ backend = "redis" /\ pc[i] = "load" /\ pc' = [pc EXCEPT ![i] = "ok"]
      /\ listed' = listed \cup List[i]
      /\ reals' = {r \in reals : r[1] \notin List[i]} \cup Rows(i)
      /\ UNCHANGED <<backend, exists, indexed, scan, solo>>
  BY DEF RedisFinish, At, Go
<1>2. TypeOK'
  <2>1. listed' \in SUBSET Names /\ reals' \in SUBSET (Names \X (Imports \cup {Original}))
    BY <1>1, RowsTyped DEF ImportInv, TypeOK
  <2> QED
    BY <1>1, <2>1 DEF ImportInv, TypeOK, Over
<1>3. Active(i) /\ ~Active(i)' /\ \A j \in Imports \ {i} : pc'[j] = pc[j]
  BY <1>1 DEF ImportInv, TypeOK, Active, Over
<1>4. Alone(i) => Whole'
  <2>1. Alone(i) => NoRows
    BY <1>1 DEF ImportInv, Phase, RedisPhase
  <2> QED
    BY <1>1, <2>1, FilledIsWhole DEF NoRows
<1> QED
  BY <1>1, <1>2, <1>3, <1>4, StepOfOne DEF Active

LEMMA FinishEmptyOrKillInv ==
  ASSUME ImportInv, NEW i \in Imports, FinishEmpty(i) \/ Kill(i)
  PROVE  ImportInv'
<1>1. /\ Active(i) /\ UNCHANGED <<backend, exists, indexed, listed, reals, solo>>
      /\ scan' = scan \/ scan' = [scan EXCEPT ![i] = {}]
  BY DEF FinishEmpty, Kill, store, Active, Over
<1>2. PICK to \in {"ok", "killed"} : pc' = [pc EXCEPT ![i] = to]
  BY DEF FinishEmpty, Kill, Go
<1>3. TypeOK'
  <2>1. pc[i] = "create" => Kill(i)
    BY DEF FinishEmpty
  <2>2. pc[i] = "create" => scan' = [scan EXCEPT ![i] = {}]
    BY <2>1 DEF Kill
  <2> QED
    BY <1>1, <1>2, <2>2 DEF ImportInv, TypeOK, Over
<1>4. ~Active(i)' /\ pc'[i] # "idle" /\ \A j \in Imports \ {i} : pc'[j] = pc[j]
  BY <1>2 DEF ImportInv, TypeOK, Active, Over
<1> QED
  BY <1>1, <1>3, <1>4, Unchanged, StepOfOne

LEMMA FinishInv ==
  ASSUME ImportInv, NEW i \in Imports, Finish(i)
  PROVE  ImportInv'
BY FinishEmptyOrKillInv, SqliteFinishInv, PgFinishInv, RedisFinishInv DEF Finish

LEMMA ImportStep == ImportInv /\ [Next]_vars => ImportInv'
<1>1. ASSUME ImportInv, UNCHANGED vars PROVE ImportInv'
  BY <1>1 DEF vars, ImportInv, TypeOK, Alone, Active, Phase, SqlitePhase, PgPhase,
              RedisPhase, NoRows, Rows, Keys, AllSolo, Whole, Holds
<1> QED
  BY <1>1, StartInv, CreateInv, FinishInv, FinishEmptyOrKillInv DEF Next, Terminated

-------------------------------------------------------------------------------
(* How an import that overlaps no other ends. *)

\* What such an import that has succeeded leaves in the store.
Replaced(i) ==
  /\ listed = List[i] /\ reals = Rows(i)
  /\ CheckTable <=> (backend = "redis" => List[i] # {})

LEMMA EmptyTableMounts ==
  ASSUME NEW i \in Imports
  PROVE  /\ NoRows /\ List[i] = {} => listed = List[i] /\ reals = Rows(i)
         /\ listed' = List[i] /\ reals' = Rows(i) => (Keys' # {} <=> List[i] # {})
BY RowsOfList, KeysMeanAfter DEF NoRows

LEMMA FinishOutcome ==
  ASSUME ImportInv, NEW i \in Imports, Finish(i), Alone(i)
  PROVE  pc'[i] # "failed" /\ (pc'[i] = "ok" => Replaced(i)')
<1>1. Phase(i)
  BY DEF ImportInv
<1>2. \A w : Go(i, w) => pc'[i] = w
  BY DEF Go, ImportInv, TypeOK
<1>3. Rows(i)' = Rows(i)
  BY DEF Rows
<1>4. backend \in {"sqlite", "postgres", "redis"}
  BY ImportAssumption DEF ImportInv, TypeOK
<1>5. CASE FinishEmpty(i)
  <2>1. /\ pc[i] = "load" /\ List[i] = {} /\ pc'[i] = "ok"
        /\ UNCHANGED <<backend, exists, indexed, listed, reals>>
    BY <1>2, <1>5 DEF FinishEmpty, store
  <2>2. NoRows /\ (backend # "redis" => exists)
    BY <1>1, <1>4, <2>1 DEF Phase, SqlitePhase, PgPhase, RedisPhase
  <2>3. listed' = List[i] /\ reals' = Rows(i)
    BY <2>1, <2>2, EmptyTableMounts
  <2>4. CheckTable' <=> (backend' = "redis" => List[i] # {})
    BY <2>1, <2>2, <2>3, EmptyTableMounts DEF CheckTable
  <2> QED
    BY <1>3, <2>1, <2>3, <2>4 DEF Replaced
<1>6. CASE SqliteFinish(i)
  <2>1. backend = "sqlite" /\ pc[i] = "load" /\ UNCHANGED <<backend, exists>>
    BY <1>6 DEF SqliteFinish, At
  <2>2. exists /\ reals = {}
    BY <1>1, <2>1 DEF Phase, SqlitePhase, NoRows
  <2>3. pc'[i] = "ok" /\ listed' = List[i] /\ reals' = Rows(i)
    BY <1>2, <1>6, <2>2 DEF SqliteFinish
  <2> QED
    BY <1>3, <2>1, <2>2, <2>3 DEF Replaced, CheckTable
<1>7. CASE PgCommit(i)
  BY <1>2, <1>7 DEF PgCommit
<1>8. CASE PgIndex(i)
  <2>1. /\ backend = "postgres" /\ pc[i] = "committed"
        /\ UNCHANGED <<backend, exists, listed, reals>>
    BY <1>8 DEF PgIndex, At
  <2>2. exists /\ ~indexed /\ listed = List[i] /\ reals = Rows(i)
    BY <1>1, <2>1 DEF Phase, PgPhase
  <2>3. pc'[i] = "ok"
    BY <1>2, <1>8, <2>2 DEF PgIndex
  <2> QED
    BY <1>3, <2>1, <2>2, <2>3 DEF Replaced, CheckTable
<1>9. CASE RedisFinish(i)
  <2>1. /\ backend = "redis" /\ pc[i] = "load" /\ pc'[i] = "ok" /\ backend' = backend
        /\ listed' = listed \cup List[i]
        /\ reals' = {r \in reals : r[1] \notin List[i]} \cup Rows(i)
    BY <1>2, <1>9 DEF RedisFinish, At
  <2>2. listed = {} /\ reals = {}
    BY <1>1, <2>1 DEF Phase, RedisPhase, NoRows
  <2>3. listed' = List[i] /\ reals' = Rows(i)
    BY <2>1, <2>2
  <2> QED
    BY <1>3, <2>1, <2>3, EmptyTableMounts DEF Replaced, CheckTable
<1> QED
  BY <1>5, <1>6, <1>7, <1>8, <1>9 DEF Finish

LEMMA CreateOutcome ==
  ASSUME ImportInv, NEW i \in Imports, Create(i), Alone(i)
  PROVE  pc'[i] \notin {"failed", "ok"}
<1>1. Phase(i)
  BY DEF ImportInv
<1>2. \A w : Go(i, w) => pc'[i] = w
  BY DEF Go, ImportInv, TypeOK
<1>3. CASE SqliteDrop(i) \/ SqliteCreate(i) \/ SqliteIndex(i)
  BY <1>1, <1>2, <1>3 DEF SqliteDrop, SqliteCreate, SqliteIndex, At, Phase, SqlitePhase
<1>4. CASE PgCreate(i) \/ RedisScanned(i)
  BY <1>2, <1>4 DEF PgCreate, RedisScanned
<1>5. CASE RedisDel(i)
  BY <1>5 DEF RedisDel, At
<1> QED
  BY <1>3, <1>4, <1>5 DEF Create

LEMMA Outcome ==
  ASSUME ImportInv, [Next]_vars, NEW i \in Imports, Alone(i)
  PROVE  pc'[i] # "failed" /\ (pc'[i] = "ok" => Replaced(i)')
<1>1. CASE UNCHANGED vars
  BY <1>1 DEF vars, Alone, Active, Over
<1>2. ASSUME NEW k \in Imports, Start(k)
      PROVE  pc'[i] \notin {"failed", "ok"}
  BY <1>2 DEF Start, Go, ImportInv, TypeOK, Alone, Active, Over
<1>3. ASSUME NEW k \in Imports, Create(k) \/ Finish(k) \/ Kill(k)
      PROVE  k = i
  <2>1. Active(k)
    BY <1>3 DEF Create, Finish, Kill, SqliteDrop, SqliteCreate, SqliteIndex, PgCreate,
                RedisDel, RedisScanned, FinishEmpty, SqliteFinish, PgCommit, PgIndex,
                RedisFinish, At, Active, Over
  <2> QED
    BY <2>1 DEF ImportInv
<1>4. CASE Kill(i)
  BY <1>4 DEF Kill, Go, ImportInv, TypeOK
<1> QED
  BY <1>1, <1>2, <1>3, <1>4, CreateOutcome, FinishOutcome DEF Next, Terminated

-------------------------------------------------------------------------------
(* Theorems. *)

\* However many imports there were, and wherever they were killed, an import that
\* overlaps no other finds the store as its own phases left it.
THEOREM ImportInvariance == Spec => []ImportInv
BY InitImport, ImportStep, PTL DEF Spec

\* Every variable of an import stays within its type; a SCAN is only under way in
\* the create() of redis.
THEOREM ImportTypeCorrect == Spec => []TypeOK
BY ImportInvariance, PTL DEF ImportInv

\* The table holds the rows of one list or none at every moment: always with
\* sqlite, with the others unless imports overlap.
THEOREM OneListAtATime == Spec => []WholeListOnly
<1>1. ImportInv => WholeListOnly
  BY DEF ImportInv, AllSolo, WholeListOnly, Whole, Holds, ListOf
<1> QED
  BY <1>1, ImportInvariance, PTL

\* An import that overlaps no other is never refused, and when it succeeds the
\* store holds the rows of its list and nothing else, whatever was interrupted
\* before it.
THEOREM SoloImportIsWhole == Spec => SoloImportReplaces
<1>1. ImportInv /\ [Next]_vars =>
        [\A i \in Imports : solo[i] /\ Active(i) =>
           /\ pc'[i] # "failed"
           /\ pc'[i] = "ok" => listed' = List[i] /\ reals' = Rows(i)]_vars
  <2>1. \A i \in Imports : Rows(i)' = Rows(i)
    BY DEF Rows
  <2> QED
    BY <2>1, Outcome DEF Alone, Replaced
<1> QED
  BY <1>1, ImportInvariance, PTL DEF Spec, SoloImportReplaces

\* The table such an import has built is taken for one by check_table(), unless it
\* is an empty list in redis.
THEOREM SoloImportMounts == Spec => BuiltTableMounts
<1>1. ImportInv /\ [Next]_vars =>
        [\A i \in Imports : solo[i] /\ Active(i) /\ pc'[i] = "ok" =>
           (CheckTable' <=> (backend = "redis" => List[i] # {}))]_vars
  <2>1. ASSUME [Next]_vars PROVE backend' = backend
    BY <2>1 DEF Next, Terminated, vars, Start, Create, Finish, Kill, SqliteDrop,
                SqliteCreate, SqliteIndex, PgCreate, RedisDel, RedisScanned, FinishEmpty,
                SqliteFinish, PgCommit, PgIndex, RedisFinish
  <2> QED
    BY <2>1, Outcome DEF Alone, Replaced
<1> QED
  BY <1>1, ImportInvariance, PTL DEF Spec, BuiltTableMounts

===============================================================================
