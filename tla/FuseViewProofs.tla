----------------------------- MODULE FuseViewProofs -----------------------------
(***************************************************************************)
(* The FUSE operations keep the promise of View for any number of worker   *)
(* threads, paths, handles and edits, with -w and without.  The invariant  *)
(* says where every answer comes from: one held by a thread from a table   *)
(* of its own time, one in the cache or in an open file from a table of    *)
(* the time since the mount.                                               *)
(***************************************************************************)
EXTENDS FuseView, TLAPS

\* What a thread was told was so in a table of its own time.
Informed(w) == \E t \in seen[w] : call[w].got = Look(t, call[w].key)

\* The tables an operation may answer from: with -w all since the mount.
Witness(w) ==
  /\ table \in seen[w] /\ seen[w] \subseteq past
  /\ cached => past \subseteq seen[w]
  /\ call[w].op = "list" <=> call[w].key = Dir

Granted(path, real) ==
  /\ path \in Paths /\ real \in Reals
  /\ \E t \in past : t[path] = real

ThreadOK(w) ==
  \/ call[w] = Idle
  \/ /\ call[w].op = "read" /\ call[w].pc = "answer"
     /\ Granted(call[w].key, call[w].got)
  \/ /\ call[w].op # "read" /\ Witness(w)
     /\ \/ call[w].pc = "lookup" /\ call[w].got = Unknown /\ cached
        \/ call[w].pc = "query" /\ call[w].got = Unknown
        \/ call[w].pc = "insert" /\ Informed(w) /\ cached
        \/ call[w].pc = "answer" /\ Informed(w)

CacheOK ==
  \A k \in Keys : cache[k] # Unknown => cached /\ \E t \in past : cache[k] = Look(t, k)

FilesOK ==
  \A h \in Handles : files[h] # NoFile => Granted(files[h].path, files[h].real)

FuseInv ==
  /\ TypeOK
  /\ table \in past
  /\ \A w \in Threads : ThreadOK(w)
  /\ CacheOK
  /\ FilesOK

-------------------------------------------------------------------------------
(* Answers. *)

\* An answer is never mistaken for an empty entry of the cache.
LEMMA LookTyped ==
  ASSUME NEW t \in Tables, NEW key \in Keys
  PROVE  /\ Look(t, key) \in Answers /\ Look(t, key) # Unknown
         /\ key # Dir => Look(t, key) = t[key] /\ Look(t, key) \in Reals \cup {None}
BY ViewAssumption DEF Look, Tables, Keys, Answers

\* What Told and Goto leave in the thread and in the others.
LEMMA ToldMeans ==
  ASSUME TypeOK, NEW w \in Threads, NEW pc \in {"query", "insert", "answer"},
         NEW got \in Answers \cup {Unknown}, Told(w, pc, got)
  PROVE  /\ call'[w].pc = pc /\ call'[w].got = got
         /\ call'[w].op = call[w].op /\ call'[w].key = call[w].key
         /\ \A v \in Threads \ {w} : call'[v] = call[v]
         /\ call' \in [Threads -> Calls]
<1>1. call'[w] = [call[w] EXCEPT !.pc = pc, !.got = got]
  BY DEF TypeOK, Told
<1>2. call[w] \in Calls
  BY DEF TypeOK
<1>3. /\ call'[w].pc = pc /\ call'[w].got = got
      /\ call'[w].op = call[w].op /\ call'[w].key = call[w].key
      /\ call'[w] \in Calls
  BY <1>1, <1>2 DEF Calls
<1>4. \A v \in Threads \ {w} : call'[v] = call[v]
  BY DEF TypeOK, Told
<1>5. call' = [v \in Threads |-> call'[v]]
  BY DEF TypeOK, Told
<1>6. \A v \in Threads : call'[v] \in Calls
  BY <1>3, <1>4 DEF TypeOK
<1> QED
  BY <1>3, <1>4, <1>5, <1>6

LEMMA GotoMeans ==
  ASSUME TypeOK, NEW w \in Threads, NEW pc \in {"query", "insert", "answer"}, Goto(w, pc)
  PROVE  /\ call'[w].pc = pc /\ call'[w].got = call[w].got
         /\ call'[w].op = call[w].op /\ call'[w].key = call[w].key
         /\ \A v \in Threads \ {w} : call'[v] = call[v]
         /\ call' \in [Threads -> Calls]
<1>1. call'[w] = [call[w] EXCEPT !.pc = pc] /\ call[w] \in Calls
  BY DEF TypeOK, Goto
<1>2. /\ call'[w].pc = pc /\ call'[w].got = call[w].got
      /\ call'[w].op = call[w].op /\ call'[w].key = call[w].key
      /\ call'[w] \in Calls
  BY <1>1 DEF Calls
<1>3. \A v \in Threads \ {w} : call'[v] = call[v]
  BY DEF TypeOK, Goto
<1>4. call' = [v \in Threads |-> call'[v]]
  BY DEF TypeOK, Goto
<1>5. \A v \in Threads : call'[v] \in Calls
  BY <1>2, <1>3 DEF TypeOK
<1> QED
  BY <1>2, <1>3, <1>4, <1>5

-------------------------------------------------------------------------------
(* The invariant. *)

LEMMA InitFuse == Init => FuseInv
<1> SUFFICES ASSUME Init PROVE FuseInv
  OBVIOUS
<1>1. TypeOK
  BY ViewAssumption DEF Init, TypeOK, Calls, Keys, Ops, Idle, NoFile
<1> QED
  BY <1>1 DEF Init, FuseInv, ThreadOK, CacheOK, FilesOK

\* A table once seen stays in past, and is added to what every call may answer from.
LEMMA EditInv ==
  ASSUME FuseInv, Edit
  PROVE  FuseInv'
<1>1. PICK p \in Paths, r \in Reals \cup {None} : table' = [table EXCEPT ![p] = r]
  BY DEF Edit
<1>2. /\ past' = past \cup {table'} /\ edits' = edits + 1 /\ edits < MaxEdits
      /\ seen' = [w \in Threads |-> IF call[w].pc = "idle" THEN {} ELSE seen[w] \cup {table'}]
      /\ UNCHANGED <<cached, cache, call, files>>
  BY DEF Edit
<1>3. table' \in Tables
  BY <1>1 DEF FuseInv, TypeOK, Tables
<1>4. TypeOK'
  <2>1. edits' \in 0..MaxEdits
    BY <1>2, ViewAssumption DEF FuseInv, TypeOK
  <2> QED
    BY <1>2, <1>3, <2>1 DEF FuseInv, TypeOK
<1>5. ASSUME NEW w \in Threads PROVE ThreadOK(w)'
  <2>1. CASE call[w] = Idle
    BY <1>2, <2>1 DEF ThreadOK, Idle
  <2>2. CASE call[w].op = "read" /\ call[w] # Idle
    BY <1>2, <2>2 DEF FuseInv, ThreadOK, Granted
  <2>3. CASE call[w].op # "read" /\ call[w] # Idle
    <3>1. Witness(w) /\ call[w].pc # "idle"
      BY <2>3 DEF FuseInv, ThreadOK
    <3>2. seen'[w] = seen[w] \cup {table'}
      BY <1>2, <3>1
    <3>3. Witness(w)' /\ (Informed(w) => Informed(w)')
      BY <1>2, <3>1, <3>2 DEF Witness, Informed
    <3> QED
      BY <1>2, <2>3, <3>3 DEF FuseInv, ThreadOK
  <2> QED
    BY <2>1, <2>2, <2>3
<1>6. CacheOK' /\ FilesOK'
  BY <1>2 DEF FuseInv, CacheOK, FilesOK, Granted
<1> QED
  BY <1>2, <1>4, <1>5, <1>6 DEF FuseInv

\* A step of one thread or handle, which does not edit the table.
LEMMA StepOfOne ==
  ASSUME FuseInv, NEW w \in Threads, TypeOK', UNCHANGED tableVars,
         \A v \in Threads \ {w} : call'[v] = call[v] /\ seen'[v] = seen[v],
         ThreadOK(w)', CacheOK', FilesOK'
  PROVE  FuseInv'
<1>1. ASSUME NEW v \in Threads \ {w} PROVE ThreadOK(v)'
  BY <1>1 DEF FuseInv, tableVars, ThreadOK, Witness, Informed, Granted
<1> QED
  BY <1>1 DEF FuseInv, tableVars

LEMMA SameCache ==
  ASSUME FuseInv, UNCHANGED <<tableVars, cache>>
  PROVE  CacheOK'
BY DEF FuseInv, CacheOK, tableVars

LEMMA SameFiles ==
  ASSUME FuseInv, UNCHANGED <<tableVars, files>>
  PROVE  FilesOK'
BY DEF FuseInv, FilesOK, Granted, tableVars

LEMMA BeginInv ==
  ASSUME FuseInv, NEW w \in Threads, NEW op \in {"path", "open", "list"}, NEW key \in Keys,
         op = "list" <=> key = Dir, Begin(w, op, key)
  PROVE  FuseInv'
<1>1. /\ call' = [call EXCEPT ![w] = [op |-> op, key |-> key, got |-> Unknown,
                                  pc |-> IF cached THEN "lookup" ELSE "query"]]
      /\ seen' = [seen EXCEPT ![w] = IF cached THEN past ELSE {table}]
      /\ UNCHANGED <<tableVars, cache, files>>
  BY DEF Begin
<1>2. TypeOK'
  BY <1>1 DEF FuseInv, TypeOK, tableVars, Ops, Calls
<1>3. call'[w] = [op |-> op, key |-> key, got |-> Unknown,
                  pc |-> IF cached THEN "lookup" ELSE "query"]
  BY <1>1 DEF FuseInv, TypeOK
<1>4. seen'[w] = IF cached THEN past ELSE {table}
  BY <1>1 DEF FuseInv, TypeOK
<1>5. ThreadOK(w)'
  BY <1>1, <1>3, <1>4 DEF FuseInv, ThreadOK, Witness, tableVars
<1>6. \A v \in Threads \ {w} : call'[v] = call[v] /\ seen'[v] = seen[v]
  BY <1>1 DEF FuseInv, TypeOK
<1> QED
  BY <1>1, <1>2, <1>5, <1>6, SameCache, SameFiles, StepOfOne

LEMMA CacheHitInv ==
  ASSUME FuseInv, NEW w \in Threads, CacheHit(w)
  PROVE  FuseInv'
<1>1. /\ call[w].pc = "lookup" /\ cache[call[w].key] # Unknown
      /\ Told(w, "answer", cache[call[w].key])
      /\ UNCHANGED <<tableVars, cache, seen, files>>
  BY DEF CacheHit, At
<1>2. call[w].key \in Keys /\ cache[call[w].key] \in Answers \cup {Unknown}
  BY DEF FuseInv, TypeOK, Calls
<1>3. /\ call'[w].pc = "answer" /\ call'[w].got = cache[call[w].key]
      /\ call'[w].op = call[w].op /\ call'[w].key = call[w].key
      /\ \A v \in Threads \ {w} : call'[v] = call[v] /\ seen'[v] = seen[v]
  BY <1>1, <1>2, ToldMeans DEF FuseInv
<1>4. TypeOK'
  BY <1>1, <1>2, ToldMeans DEF FuseInv, TypeOK, tableVars
<1>5. call[w].op # "read" /\ Witness(w) /\ cached
  BY <1>1 DEF FuseInv, ThreadOK, Idle
<1>6. Informed(w)'
  BY <1>1, <1>2, <1>3, <1>5 DEF FuseInv, CacheOK, Informed, Witness
<1>7. ThreadOK(w)'
  BY <1>1, <1>3, <1>5, <1>6 DEF ThreadOK, Witness, tableVars
<1> QED
  BY <1>1, <1>3, <1>4, <1>7, SameCache, SameFiles, StepOfOne

LEMMA CacheMissInv ==
  ASSUME FuseInv, NEW w \in Threads, CacheMiss(w)
  PROVE  FuseInv'
<1>1. /\ call[w].pc = "lookup" /\ Goto(w, "query")
      /\ UNCHANGED <<tableVars, cache, seen, files>>
  BY DEF CacheMiss, At
<1>2. TypeOK'
  BY <1>1, GotoMeans DEF FuseInv, TypeOK, tableVars
<1>3. ThreadOK(w)'
  BY <1>1, GotoMeans DEF FuseInv, ThreadOK, Witness, tableVars, Idle
<1>4. \A v \in Threads \ {w} : call'[v] = call[v] /\ seen'[v] = seen[v]
  BY <1>1, GotoMeans DEF FuseInv
<1> QED
  BY <1>1, <1>2, <1>3, <1>4, SameCache, SameFiles, StepOfOne

LEMMA QueryAnswersInv ==
  ASSUME FuseInv, NEW w \in Threads, QueryAnswers(w)
  PROVE  FuseInv'
<1> DEFINE pc == IF cached THEN "insert" ELSE "answer"
           got == Look(table, call[w].key)
<1>1. /\ call[w].pc = "query" /\ Told(w, pc, got)
      /\ UNCHANGED <<tableVars, cache, seen, files>>
  BY DEF QueryAnswers, At
<1>2. got \in Answers /\ pc \in {"query", "insert", "answer"}
  BY LookTyped DEF FuseInv, TypeOK, Calls
<1> HIDE DEF got
<1>3. /\ call'[w].pc = pc /\ call'[w].got = got
      /\ call'[w].op = call[w].op /\ call'[w].key = call[w].key
      /\ \A v \in Threads \ {w} : call'[v] = call[v] /\ seen'[v] = seen[v]
  BY <1>1, <1>2, ToldMeans DEF FuseInv
<1>4. TypeOK'
  BY <1>1, <1>2, ToldMeans DEF FuseInv, TypeOK, tableVars
<1>5. call[w].op # "read" /\ Witness(w)
  BY <1>1 DEF FuseInv, ThreadOK, Idle
<1>6. Informed(w)'
  BY <1>1, <1>3, <1>5 DEF Informed, Witness, got
<1>7. ThreadOK(w)'
  BY <1>1, <1>3, <1>5, <1>6 DEF ThreadOK, Witness, tableVars
<1> QED
  BY <1>1, <1>3, <1>4, <1>7, SameCache, SameFiles, StepOfOne

\* The answer a thread inserts is from a table of its call, so of the mount.
LEMMA CacheInsertInv ==
  ASSUME FuseInv, NEW w \in Threads, CacheInsert(w)
  PROVE  FuseInv'
<1>1. /\ call[w].pc = "insert" /\ Goto(w, "answer")
      /\ cache' = [cache EXCEPT ![call[w].key] = call[w].got]
      /\ UNCHANGED <<tableVars, seen, files>>
  BY DEF CacheInsert, At
<1>2. TypeOK'
  BY <1>1, GotoMeans DEF FuseInv, TypeOK, tableVars, Calls
<1>3. call[w].op # "read" /\ Witness(w) /\ cached /\ Informed(w)
  BY <1>1 DEF FuseInv, ThreadOK, Idle
<1>4. ThreadOK(w)'
  <2>1. Informed(w)'
    BY <1>1, <1>3, GotoMeans DEF FuseInv, Informed
  <2> QED
    BY <1>1, <1>3, <2>1, GotoMeans DEF FuseInv, ThreadOK, Witness, tableVars
<1>5. CacheOK'
  BY <1>1, <1>3 DEF FuseInv, CacheOK, TypeOK, Informed, Witness, tableVars
<1>6. \A v \in Threads \ {w} : call'[v] = call[v] /\ seen'[v] = seen[v]
  BY <1>1, GotoMeans DEF FuseInv
<1> QED
  BY <1>1, <1>2, <1>4, <1>5, <1>6, SameFiles, StepOfOne

\* A thread that is done has no answer any more.
LEMMA DoneMeans ==
  ASSUME FuseInv, NEW w \in Threads, Done(w)
  PROVE  /\ call'[w] = Idle /\ ThreadOK(w)'
         /\ \A v \in Threads \ {w} : call'[v] = call[v] /\ seen'[v] = seen[v]
         /\ UNCHANGED <<tableVars, cache, files>> => TypeOK'
<1>1. call'[w] = Idle /\ \A v \in Threads \ {w} : call'[v] = call[v] /\ seen'[v] = seen[v]
  BY DEF FuseInv, TypeOK, Done
<1>2. Idle \in Calls
  BY DEF Idle, Ops, Keys, Calls
<1>3. UNCHANGED <<tableVars, cache, files>> => TypeOK'
  BY <1>2 DEF FuseInv, TypeOK, Done, tableVars
<1> QED
  BY <1>1, <1>3 DEF ThreadOK

LEMMA FinishInv ==
  ASSUME FuseInv, NEW w \in Threads, QueryFails(w) \/ Return(w)
  PROVE  FuseInv'
<1>1. Done(w) /\ UNCHANGED <<tableVars, cache, files>>
  BY DEF QueryFails, Return, Done
<1> QED
  BY <1>1, DoneMeans, SameCache, SameFiles, StepOfOne

\* A file is opened only under an answer that names its real path.
LEMMA OpenOkInv ==
  ASSUME FuseInv, NEW w \in Threads, NEW h \in Handles, OpenOk(w, h)
  PROVE  FuseInv'
<1>1. /\ call[w].pc = "answer" /\ call[w].op = "open" /\ call[w].got # None
      /\ files' = [files EXCEPT ![h] = [path |-> call[w].key, real |-> call[w].got]]
      /\ Done(w) /\ UNCHANGED <<tableVars, cache>>
  BY DEF OpenOk, At
<1>2. Granted(call[w].key, call[w].got)
  <2>1. Witness(w) /\ Informed(w)
    BY <1>1 DEF FuseInv, ThreadOK, Idle
  <2>2. call[w].key \in Keys /\ call[w].key # Dir
    BY <1>1, <2>1 DEF FuseInv, TypeOK, Witness, Calls
  <2>3. PICK t \in past : call[w].got = Look(t, call[w].key)
    BY <2>1 DEF Informed, Witness
  <2>4. t \in Tables
    BY DEF FuseInv, TypeOK
  <2> QED
    BY <1>1, <2>2, <2>3, <2>4, LookTyped DEF Granted, Keys
<1>3. files' \in [Handles -> [path : Keys, real : Reals \cup {Unknown}]]
  BY <1>1, <1>2 DEF FuseInv, TypeOK, Granted, Keys
<1>4. TypeOK'
  BY <1>1, <1>3 DEF FuseInv, TypeOK, Done, tableVars, Idle, Ops, Keys, Calls
<1>5. FilesOK'
  BY <1>1, <1>2 DEF FuseInv, FilesOK, TypeOK, Granted, tableVars
<1> QED
  BY <1>1, <1>4, <1>5, DoneMeans, SameCache, StepOfOne

LEMMA ReadInv ==
  ASSUME FuseInv, NEW w \in Threads, NEW h \in Handles, Read(w, h)
  PROVE  FuseInv'
<1>1. /\ files[h] # NoFile
      /\ call' = [call EXCEPT ![w] = [op |-> "read", key |-> files[h].path, pc |-> "answer",
                                      got |-> files[h].real]]
      /\ seen' = [seen EXCEPT ![w] = {table}]
      /\ UNCHANGED <<tableVars, cache, files>>
  BY DEF Read
<1>2. Granted(files[h].path, files[h].real)
  BY <1>1 DEF FuseInv, FilesOK
<1>3. TypeOK'
  BY <1>1, <1>2 DEF FuseInv, TypeOK, tableVars, Ops, Granted, Keys, Answers, Calls
<1>4. ThreadOK(w)'
  <2>1. call'[w] = [op |-> "read", key |-> files[h].path, pc |-> "answer",
                    got |-> files[h].real]
    BY <1>1 DEF FuseInv, TypeOK
  <2> QED
    BY <1>1, <1>2, <2>1 DEF ThreadOK, Granted, tableVars
<1>5. \A v \in Threads \ {w} : call'[v] = call[v] /\ seen'[v] = seen[v]
  BY <1>1 DEF FuseInv, TypeOK
<1> QED
  BY <1>1, <1>3, <1>4, <1>5, SameCache, SameFiles, StepOfOne

LEMMA ReleaseInv ==
  ASSUME FuseInv, NEW h \in Handles, Release(h)
  PROVE  FuseInv'
<1>1. files' = [files EXCEPT ![h] = NoFile] /\ UNCHANGED <<tableVars, cache, call, seen>>
  BY DEF Release
<1>2. TypeOK'
  BY <1>1 DEF FuseInv, TypeOK, tableVars, NoFile, Keys
<1>3. FilesOK'
  BY <1>1 DEF FuseInv, TypeOK, FilesOK, Granted, tableVars
<1>4. \A w \in Threads : ThreadOK(w)'
  BY <1>1 DEF FuseInv, ThreadOK, Witness, Informed, Granted, tableVars
<1> QED
  BY <1>1, <1>2, <1>3, <1>4, SameCache DEF FuseInv, tableVars

LEMMA FuseStep == FuseInv /\ [Next]_vars => FuseInv'
<1>1. ASSUME FuseInv, UNCHANGED vars PROVE FuseInv'
  <2>1. TypeOK' /\ CacheOK' /\ FilesOK'
    BY <1>1, SameCache, SameFiles DEF vars, tableVars, FuseInv, TypeOK
  <2>2. \A w \in Threads : ThreadOK(w)'
    BY <1>1 DEF FuseInv, vars, ThreadOK, Witness, Informed, Granted
  <2> QED
    BY <1>1, <2>1, <2>2 DEF FuseInv, vars
<1>2. ASSUME FuseInv, NEW w \in Threads,
             \/ \E p \in Paths, op \in {"path", "open"} : Begin(w, op, p)
             \/ Begin(w, "list", Dir)
      PROVE  FuseInv'
  BY <1>2, BeginInv, ViewAssumption DEF Keys
<1> QED
  BY <1>1, <1>2, EditInv, CacheHitInv, CacheMissInv, QueryAnswersInv, CacheInsertInv,
     FinishInv, OpenOkInv, ReadInv, ReleaseInv DEF Next

-------------------------------------------------------------------------------
(* The operations implement View. *)

\* What may be given again for a key: the answer in the cache, and those on their
\* way into it.
LEMMA RememberedMeans ==
  ASSUME NEW key
  PROVE  \A a : a \in Remembered(key) <=>
           \/ a = cache[key] /\ a # Unknown
           \/ \E v \in Threads : call[v].pc = "insert" /\ call[v].key = key /\ a = call[v].got
BY DEF Remembered, At

LEMMA RememberedMeansAfter ==
  ASSUME NEW key
  PROVE  \A a : a \in Remembered(key)' <=>
           \/ a = cache'[key] /\ a # Unknown
           \/ \E v \in Threads : call'[v].pc = "insert" /\ call'[v].key = key /\ a = call'[v].got
BY DEF Remembered, At

\* A thread that is not on its way into the cache, before or after, leaves what may
\* be given again alone.
LEMMA SameMemory ==
  ASSUME NEW w \in Threads, cache' = cache, call[w].pc # "insert", call'[w].pc # "insert",
         \A v \in Threads \ {w} : call'[v] = call[v]
  PROVE  Memory' = Memory
<1>1. ASSUME NEW key PROVE Remembered(key)' = Remembered(key)
  <2>1. \A a : a \in Remembered(key)' <=> a \in Remembered(key)
    BY RememberedMeans, RememberedMeansAfter
  <2> QED
    BY <2>1
<1> QED
  BY <1>1 DEF Memory, Keys

\* A step of one thread changes its request only.
LEMMA OneRequest ==
  ASSUME NEW w \in Threads, \A v \in Threads \ {w} : call'[v] = call[v]
  PROVE  Requests' = [Requests EXCEPT ![w] = RequestOf(call'[w])]
<1>1. Requests' = [v \in Threads |-> RequestOf(call'[v])]
  BY DEF Requests, RequestOf
<1> QED
  BY <1>1 DEF Requests

\* A request is asked until an answer is known, and decided from then on.
LEMMA RequestStates ==
  ASSUME FuseInv, NEW w \in Threads
  PROVE  /\ Requests[w].op = call[w].op /\ Requests[w].key = call[w].key
         /\ Requests[w].answer = call[w].got
         /\ call[w].pc = "idle" => Requests[w].state = "idle"
         /\ call[w].pc \in {"lookup", "query"} =>
              Requests[w].state = "asked" /\ call[w].got = Unknown
         /\ call[w].pc \in {"insert", "answer"} =>
              Requests[w].state = "decided" /\ call[w].got # Unknown
<1>1. call[w].pc \in {"lookup", "query"} => call[w].got = Unknown
  BY DEF FuseInv, ThreadOK, Idle
<1>2. ASSUME call[w].pc \in {"insert", "answer"} PROVE call[w].got # Unknown
  <2>1. CASE Granted(call[w].key, call[w].got)
    BY <2>1, ViewAssumption DEF Granted
  <2>2. CASE Informed(w) /\ Witness(w)
    BY <2>2, LookTyped DEF Informed, Witness, FuseInv, TypeOK, Calls
  <2> QED
    BY <1>2, <2>1, <2>2 DEF FuseInv, ThreadOK, Idle
<1>3. call[w].pc \in {"idle", "lookup", "query", "insert", "answer"}
  BY DEF FuseInv, TypeOK, Calls
<1> DEFINE state == IF call[w].pc = "idle" THEN "idle"
                    ELSE IF call[w].got = Unknown THEN "asked" ELSE "decided"
<1>4. Requests[w] = [op |-> call[w].op, key |-> call[w].key, state |-> state,
                     answer |-> call[w].got]
  BY DEF Requests, RequestOf
<1>5. /\ call[w].pc = "idle" => state = "idle"
      /\ call[w].pc \in {"lookup", "query"} => state = "asked"
      /\ call[w].pc \in {"insert", "answer"} => state = "decided"
  BY <1>1, <1>2, <1>3
<1> HIDE DEF state
<1> QED
  BY <1>1, <1>2, <1>4, <1>5

LEMMA RestingIsIdle == RequestOf(Idle) = TheView!Resting
BY DEF RequestOf, Idle, TheView!Resting

LEMMA InitView == Init => TheView!Init
<1> SUFFICES ASSUME Init PROVE TheView!Init
  OBVIOUS
<1>1. \A k \in Keys : Remembered(k) = {}
  BY RememberedMeans DEF Init, Idle
<1>2. Memory = [k \in Keys |-> {}]
  BY <1>1 DEF Memory
<1>3. Requests = [w \in Threads |-> TheView!Resting]
  BY RestingIsIdle DEF Init, Requests
<1> QED
  BY <1>2, <1>3 DEF Init, Tables, NoFile, TheView!Init, TheView!NoFile, TheView!Keys, Keys

LEMMA EditIsEdit ==
  ASSUME Edit
  PROVE  TheView!Edit
<1>1. UNCHANGED <<Memory, Requests>>
  BY DEF Edit, Memory, Remembered, At, Requests, RequestOf, Keys
<1> QED
  BY <1>1 DEF Edit, TheView!Edit

LEMMA BeginAsks ==
  ASSUME FuseInv, NEW w \in Threads, NEW op \in {"path", "open", "list"}, NEW key \in Keys,
         op = "list" <=> key = Dir, Begin(w, op, key)
  PROVE  TheView!Ask(w)
<1>1. /\ call[w].pc = "idle"
      /\ call' = [call EXCEPT ![w] = [op |-> op, key |-> key, got |-> Unknown,
                                  pc |-> IF cached THEN "lookup" ELSE "query"]]
      /\ UNCHANGED <<cached, table, cache, files>>
  BY DEF Begin, At, tableVars
<1>2. /\ call'[w] = [op |-> op, key |-> key, got |-> Unknown,
                     pc |-> IF cached THEN "lookup" ELSE "query"]
      /\ \A v \in Threads \ {w} : call'[v] = call[v]
  BY <1>1 DEF FuseInv, TypeOK
<1>3. RequestOf(call'[w]) = [op |-> op, key |-> key, state |-> "asked", answer |-> Unknown]
  BY <1>2 DEF RequestOf
<1>4. Memory' = Memory
  BY <1>1, <1>2, SameMemory
<1>5. Requests[w].state = "idle"
  BY <1>1, RequestStates
<1>6. Requests' = [Requests EXCEPT ![w] = [op |-> op, key |-> key, state |-> "asked",
                                           answer |-> Unknown]]
  BY <1>2, <1>3, OneRequest
<1> QED
  BY <1>1, <1>4, <1>5, <1>6 DEF TheView!Ask, TheView!Keys, Keys

\* What Told leaves of the request.
LEMMA ToldDecides ==
  ASSUME FuseInv, NEW w \in Threads, call[w].pc \in {"lookup", "query"},
         NEW pc \in {"insert", "answer"}, NEW got \in Answers \ {Unknown}, Told(w, pc, got)
  PROVE  Requests' = [Requests EXCEPT ![w] = [op |-> Requests[w].op, key |-> Requests[w].key,
                                              state |-> "decided", answer |-> got]]
<1>1. /\ call'[w].pc = pc /\ call'[w].got = got
      /\ call'[w].op = call[w].op /\ call'[w].key = call[w].key
      /\ \A v \in Threads \ {w} : call'[v] = call[v]
  BY ToldMeans DEF FuseInv
<1>2. RequestOf(call'[w]) = [op |-> call[w].op, key |-> call[w].key, state |-> "decided",
                            answer |-> got]
  BY <1>1 DEF RequestOf
<1>3. Requests[w].op = call[w].op /\ Requests[w].key = call[w].key
  BY RequestStates
<1> QED
  BY <1>1, <1>2, <1>3, OneRequest

LEMMA CacheHitAnswersAgain ==
  ASSUME FuseInv, NEW w \in Threads, CacheHit(w)
  PROVE  TheView!AnswerAgain(w)
<1> DEFINE key == call[w].key
<1>1. /\ call[w].pc = "lookup" /\ cache[key] # Unknown /\ Told(w, "answer", cache[key])
      /\ UNCHANGED <<cached, table, cache, files>>
  BY DEF CacheHit, At, tableVars
<1>2. key \in Keys /\ cache[key] \in Answers
  BY <1>1 DEF FuseInv, TypeOK, Calls
<1>3. Requests' = [Requests EXCEPT ![w] = [op |-> Requests[w].op, key |-> Requests[w].key,
                                           state |-> "decided", answer |-> cache[key]]]
  BY <1>1, <1>2, ToldDecides
<1>4. cache[key] \in Memory[key] /\ Requests[w].key = key
  BY <1>1, <1>2, RememberedMeans DEF Memory, Requests, RequestOf
<1>5. Memory' = Memory
  BY <1>1, <1>2, ToldMeans, SameMemory DEF FuseInv
<1> QED
  BY <1>1, <1>3, <1>4, <1>5, RequestStates DEF TheView!AnswerAgain, TheView!Decide

LEMMA CacheMissIsStutter ==
  ASSUME FuseInv, NEW w \in Threads, CacheMiss(w)
  PROVE  UNCHANGED <<cached, table, Memory, Requests, files>>
<1>1. /\ call[w].pc = "lookup" /\ Goto(w, "query")
      /\ UNCHANGED <<cached, table, cache, files>>
  BY DEF CacheMiss, At, tableVars
<1>2. /\ call'[w].pc = "query" /\ call'[w].got = call[w].got
      /\ call'[w].op = call[w].op /\ call'[w].key = call[w].key
      /\ \A v \in Threads \ {w} : call'[v] = call[v]
  BY <1>1, GotoMeans DEF FuseInv
<1>3. Memory' = Memory
  BY <1>1, <1>2, SameMemory
<1>4. RequestOf(call'[w]) = RequestOf(call[w])
  BY <1>1, <1>2 DEF RequestOf
<1>5. Requests' = Requests
  BY <1>2, <1>4, OneRequest DEF Requests
<1> QED
  BY <1>1, <1>3, <1>5

\* The database answers: this is the moment at which the whitelist is read.
LEMMA QueryAnswersReads ==
  ASSUME FuseInv, NEW w \in Threads, QueryAnswers(w)
  PROVE  TheView!ReadWhitelist(w)
<1> DEFINE key == call[w].key
           pc == IF cached THEN "insert" ELSE "answer"
           got == Look(table, key)
<1>1. /\ call[w].pc = "query" /\ Told(w, pc, got)
      /\ UNCHANGED <<cached, table, cache, files>>
  BY DEF QueryAnswers, At, tableVars
<1>2. key \in Keys /\ got \in Answers /\ got # Unknown
  BY LookTyped DEF FuseInv, TypeOK, Calls
<1>3. got = TheView!Says(key)
  BY DEF Look, TheView!Says
<1> HIDE DEF got
<1>4. Requests' = [Requests EXCEPT ![w] = [op |-> Requests[w].op, key |-> Requests[w].key,
                                           state |-> "decided", answer |-> got]]
  BY <1>1, <1>2, ToldDecides
<1>5. /\ call'[w].pc = pc /\ call'[w].got = got /\ call'[w].key = key
      /\ \A v \in Threads \ {w} : call'[v] = call[v]
  BY <1>1, <1>2, ToldMeans DEF FuseInv
<1>6. Requests[w].state = "asked" /\ Requests[w].key = key
  BY <1>1, RequestStates
<1>7. CASE cached
  <2>1. ASSUME NEW k \in Keys
        PROVE  Remembered(k)' = IF k = key THEN Remembered(k) \cup {got} ELSE Remembered(k)
    <3>1. \A a : a \in Remembered(k)' <=> a \in Remembered(k) \/ (k = key /\ a = got)
      BY <1>1, <1>5, <1>7, RememberedMeans, RememberedMeansAfter
    <3> QED
      BY <3>1
  <2>2. Memory' = [k \in Keys |-> Remembered(k)']
    BY DEF Memory, Keys
  <2>3. Memory' = [Memory EXCEPT ![key] = @ \cup {got}]
    BY <1>2, <2>1, <2>2 DEF Memory
  <2> QED
    BY <1>1, <1>3, <1>4, <1>7, <1>6, <2>3
    DEF TheView!ReadWhitelist, TheView!Decide
<1>8. CASE ~cached
  <2>1. Memory' = Memory
    BY <1>1, <1>5, <1>8, SameMemory
  <2> QED
    BY <1>1, <1>3, <1>4, <1>8, <1>6, <2>1
    DEF TheView!ReadWhitelist, TheView!Decide
<1> QED
  BY <1>7, <1>8

\* The answer that was on its way into the cache replaces another: View forgets.
LEMMA CacheInsertForgets ==
  ASSUME FuseInv, NEW w \in Threads, CacheInsert(w)
  PROVE  TheView!Forget
<1> DEFINE key == call[w].key
<1>1. /\ call[w].pc = "insert" /\ Goto(w, "answer")
      /\ cache' = [cache EXCEPT ![key] = call[w].got]
      /\ UNCHANGED <<cached, table, files>>
  BY DEF CacheInsert, At, tableVars
<1>2. /\ call'[w].pc = "answer" /\ call'[w].got = call[w].got
      /\ call'[w].op = call[w].op /\ call'[w].key = key
      /\ \A v \in Threads \ {w} : call'[v] = call[v]
  BY <1>1, GotoMeans DEF FuseInv
<1>3. ASSUME NEW k \in Keys PROVE Remembered(k)' \subseteq Remembered(k)
  <2>1. cache'[k] = IF k = key THEN call[w].got ELSE cache[k]
    BY <1>1 DEF FuseInv, TypeOK
  <2>2. \A a : a \in Remembered(k)' => a \in Remembered(k)
    BY <1>1, <1>2, <2>1, RememberedMeans, RememberedMeansAfter
  <2> QED
    BY <2>2
<1>4. Memory' = [k \in Keys |-> Remembered(k)'] /\ Memory = [k \in Keys |-> Remembered(k)]
  BY DEF Memory, Keys
<1>5. \A k \in Keys : Memory'[k] \subseteq Memory[k]
  BY <1>3, <1>4
<1>6. Memory' \in [Keys -> SUBSET UNION {Memory[k] : k \in Keys}]
  BY <1>4, <1>5
<1>7. RequestOf(call'[w]) = RequestOf(call[w])
  BY <1>1, <1>2 DEF RequestOf
<1>8. Requests' = Requests
  BY <1>2, <1>7, OneRequest DEF Requests
<1> QED
  BY <1>1, <1>5, <1>6, <1>8 DEF TheView!Forget, TheView!Keys, Keys

LEMMA DoneRests ==
  ASSUME FuseInv, NEW w \in Threads, call[w].pc \in {"query", "answer"}, Done(w),
         cache' = cache
  PROVE  /\ Requests' = [Requests EXCEPT ![w] = TheView!Resting]
         /\ Memory' = Memory
<1>1. call'[w] = Idle /\ \A v \in Threads \ {w} : call'[v] = call[v]
  BY DoneMeans
<1> QED
  BY <1>1, OneRequest, RestingIsIdle, SameMemory DEF Idle

LEMMA EndIsFinish ==
  ASSUME FuseInv, NEW w \in Threads, QueryFails(w) \/ Return(w)
  PROVE  TheView!Finish(w)
<1>1. /\ call[w].pc \in {"query", "answer"} /\ Done(w)
      /\ UNCHANGED <<cached, table, cache, files>>
  BY DEF QueryFails, Return, Done, At, tableVars
<1> QED
  BY <1>1, DoneRests, RequestStates DEF TheView!Finish

LEMMA OpenOkGrants ==
  ASSUME FuseInv, NEW w \in Threads, NEW h \in Handles, OpenOk(w, h)
  PROVE  TheView!Grant(w, h)
<1>1. /\ call[w].pc = "answer" /\ call[w].op = "open" /\ call[w].got # None
      /\ files[h] = NoFile
      /\ files' = [files EXCEPT ![h] = [path |-> call[w].key, real |-> call[w].got]]
      /\ Done(w) /\ UNCHANGED <<cached, table, cache>>
  BY DEF OpenOk, At, tableVars
<1>2. /\ Requests[w].op = call[w].op /\ Requests[w].key = call[w].key
      /\ Requests[w].answer = call[w].got /\ Requests[w].state = "decided"
  BY <1>1, RequestStates
<1> QED
  BY <1>1, <1>2, DoneRests DEF TheView!Grant, TheView!NoFile, NoFile

LEMMA ReadReadsFile ==
  ASSUME FuseInv, NEW w \in Threads, NEW h \in Handles, Read(w, h)
  PROVE  TheView!ReadFile(w, h)
<1>1. /\ call[w].pc = "idle" /\ files[h] # NoFile
      /\ call' = [call EXCEPT ![w] = [op |-> "read", key |-> files[h].path, pc |-> "answer",
                                      got |-> files[h].real]]
      /\ UNCHANGED <<cached, table, cache, files>>
  BY DEF Read, At, tableVars
<1>2. /\ call'[w] = [op |-> "read", key |-> files[h].path, pc |-> "answer",
                     got |-> files[h].real]
      /\ \A v \in Threads \ {w} : call'[v] = call[v]
  BY <1>1 DEF FuseInv, TypeOK
<1>3. files[h].real # Unknown
  BY <1>1, ViewAssumption DEF FuseInv, FilesOK, Granted
<1>4. RequestOf(call'[w]) = [op |-> "read", key |-> files[h].path, state |-> "decided",
                             answer |-> files[h].real]
  BY <1>2, <1>3 DEF RequestOf
<1>5. Memory' = Memory
  BY <1>1, <1>2, SameMemory
<1> QED
  BY <1>1, <1>2, <1>4, <1>5, RequestStates, OneRequest
  DEF TheView!ReadFile, TheView!NoFile, NoFile

LEMMA ReleaseCloses ==
  ASSUME NEW h \in Handles, Release(h)
  PROVE  TheView!Close(h)
<1>1. UNCHANGED <<cache, call>>
  BY DEF Release
<1>2. UNCHANGED <<Memory, Requests>>
  BY <1>1 DEF Memory, Remembered, At, Requests, RequestOf, Keys
<1> QED
  BY <1>2 DEF Release, tableVars, TheView!Close, TheView!NoFile, NoFile

LEMMA ViewStep == FuseInv /\ [Next]_vars => [TheView!Next]_(TheView!viewVars)
<1> SUFFICES ASSUME FuseInv, [Next]_vars PROVE [TheView!Next]_(TheView!viewVars)
  OBVIOUS
<1>1. CASE UNCHANGED vars
  BY <1>1 DEF vars, TheView!viewVars, Memory, Remembered, At, Requests, RequestOf, Keys
<1>2. ASSUME NEW w \in Threads,
             \/ \E p \in Paths, op \in {"path", "open"} : Begin(w, op, p)
             \/ Begin(w, "list", Dir)
      PROVE  TheView!Ask(w)
  BY <1>2, BeginAsks, ViewAssumption DEF Keys
<1>3. ASSUME NEW w \in Threads, CacheMiss(w)
      PROVE  UNCHANGED TheView!viewVars
  BY <1>3, CacheMissIsStutter DEF TheView!viewVars
<1> QED
  BY <1>1, <1>2, <1>3, EditIsEdit, CacheHitAnswersAgain, QueryAnswersReads,
     CacheInsertForgets, EndIsFinish, OpenOkGrants, ReadReadsFile, ReleaseCloses
  DEF Next, TheView!Next

-------------------------------------------------------------------------------
(* Theorems. *)

\* Every answer, in a thread, in the cache or behind an open file, is one that the
\* whitelist gave, at a moment its holder may answer from.
THEOREM FuseInvariance == Spec => []FuseInv
BY InitFuse, FuseStep, PTL DEF Spec

\* Every variable of the view stays within its type.
THEOREM ViewTypeCorrect == Spec => []TypeOK
BY FuseInvariance, PTL DEF FuseInv

\* What an operation is told was so at a moment since it began or, with -w, since
\* the mount: whatever the cache holds and however the table is edited.
THEOREM AnswersComeFromTheTable == Spec => []AnswersWereTrue
<1>1. FuseInv => AnswersWereTrue
  BY DEF FuseInv, ThreadOK, Informed, AnswersWereTrue, At, Idle
<1> QED
  BY <1>1, FuseInvariance, PTL

\* read goes to a file that the whitelist gave its virtual path since the mount.
THEOREM OnlyGrantedFilesAreRead == Spec => []ReadsWereGranted
<1>1. FuseInv => ReadsWereGranted
  BY ViewAssumption DEF FuseInv, ThreadOK, Granted, ReadsWereGranted, At, Idle
<1> QED
  BY <1>1, FuseInvariance, PTL

\* The look-up, the query and the insertion of an operation act as one reading of
\* the whitelist, or as the repetition of one: the mount is a View.
THEOREM OperationsImplementView == Spec => ImplementsView
BY FuseInvariance, InitView, ViewStep, PTL DEF Spec, ImplementsView, TheView!Spec

=================================================================================
