----------------------------- MODULE DbQueryProofs -----------------------------
(***************************************************************************)
(* The connection pool, and the queries that walk through it, for every    *)
(* number of threads, every capacity, every set of connections and every   *)
(* number of failures.  The pool first: its inductive invariant PoolInv is *)
(* the type invariant, the slot accounting, the absence of lost wakeups,   *)
(* and Ownership (no connection is in two places).  A query is a walk      *)
(* through the pool, so all of it carries over; on top of it QueryInv      *)
(* counts, for each death of a connection, where it still is: in an open   *)
(* dead connection, in a call that has used its retry, or in half a call   *)
(* that failed.                                                            *)
(***************************************************************************)
EXTENDS DbQuery, FiniteSetTheorems, SequenceTheorems, TLAPS

-------------------------------------------------------------------------------
(* The pool. *)

\* A connection is in one place only: in one position of the idle stack, or in
\* the guard of one thread that holds it.
Ownership ==
  /\ \A t \in Threads : conn[t] = NoConn <=> pst[t] # "held"
  /\ \A i, j \in 1..Len(idle) : idle[i] = idle[j] => i = j
  /\ \A t, u \in At("held") : conn[t] = conn[u] => t = u
  /\ \A t \in At("held") : \A i \in 1..Len(idle) : idle[i] # conn[t]

PoolInv == TypeOK /\ SlotsAccounted /\ NoLostWakeup /\ Ownership

-------------------------------------------------------------------------------
(* Cardinalities of sets of threads. *)

LEMMA ThreadSets ==
  ASSUME NEW S \in SUBSET Threads
  PROVE  IsFiniteSet(S) /\ Cardinality(S) \in Nat
BY PoolAssumption, FS_Subset, FS_CardinalityType

LEMMA ThreadEnters ==
  ASSUME NEW S \in SUBSET Threads, NEW t, t \notin S
  PROVE  Cardinality(S \cup {t}) = Cardinality(S) + 1
BY ThreadSets, FS_AddElement

LEMMA ThreadLeaves ==
  ASSUME NEW S \in SUBSET Threads, NEW t \in S
  PROVE  Cardinality(S \ {t}) = Cardinality(S) - 1
BY ThreadSets, FS_RemoveElement

LEMMA ThreadMayLeave ==
  ASSUME NEW S \in SUBSET Threads, NEW t
  PROVE  Cardinality(S \ {t}) >= Cardinality(S) - 1
<1>1. Cardinality(S) \in Nat
  BY ThreadSets
<1> QED
  BY <1>1, ThreadSets, FS_RemoveElement

LEMMA AtSubset == \A w : At(w) \in SUBSET Threads /\ Busy \in SUBSET Threads
BY DEF At, Busy

\* The top of a stack, and the stack without it.
LEMMA PopProperties ==
  ASSUME NEW S, NEW s \in Seq(S), NEW n \in Nat, n = Len(s), s # <<>>
  PROVE  /\ n > 0
         /\ s[n] \in S
         /\ SubSeq(s, 1, n - 1) \in Seq(S)
         /\ Len(SubSeq(s, 1, n - 1)) = n - 1
         /\ \A i \in 1..(n - 1) : SubSeq(s, 1, n - 1)[i] = s[i]
<1> DEFINE r == SubSeq(s, 1, n - 1)
<1>1. n > 0 /\ n \in 1..Len(s)
  BY EmptySeq
<1>2. \A i \in 1..n : s[i] \in S
  BY ElementOfSeq
<1>3. \A i \in 1..(n - 1) : s[i] \in S
  BY <1>2
<1>4. 1 \in Int /\ n - 1 \in Int
  OBVIOUS
<1>5. /\ r \in Seq(S)
      /\ Len(r) = IF 1 <= n - 1 THEN (n - 1) - 1 + 1 ELSE 0
      /\ \A i \in 1..((n - 1) - 1 + 1) : r[i] = s[1 + i - 1]
  BY <1>3, <1>4, SubSeqProperties
<1> HIDE DEF r
<1>6. Len(r) = n - 1
  BY <1>1, <1>5
<1>7. ASSUME NEW i \in 1..(n - 1)
      PROVE  r[i] = s[i]
  <2>1. i \in 1..((n - 1) - 1 + 1) /\ 1 + i - 1 = i
    OBVIOUS
  <2> QED
    BY <1>5, <2>1
<1> QED
  BY <1>1, <1>2, <1>5, <1>6, <1>7 DEF r

\* What a critical section that ends in notify_one does to the threads: t
\* leaves with or without a waiter being woken, nobody else is disturbed.
LEMMA NotifyEffect ==
  ASSUME pst \in [Threads -> Where], NEW t \in Threads,
         pst[t] \in {"making", "held"}, NEW w \in {"out", "want"},
         MoveAndNotify(t, w)
  PROVE  /\ pst' \in [Threads -> Where]
         /\ Busy' = Busy \ {t}
         /\ At("held")' = At("held") \ {t}
         /\ At("making")' = At("making") \ {t}
         /\ At("waiting")' # {} =>
              \E u \in Threads \ At("awake") : At("awake")' = At("awake") \cup {u}
<1>1. CASE At("waiting") = {}
  <2>1. pst' = [pst EXCEPT ![t] = w]
    BY <1>1 DEF MoveAndNotify
  <2>2. At("waiting")' = {}
    BY <2>1, <1>1 DEF At
  <2> QED
    BY <2>1, <2>2 DEF At, Busy, Where
<1>2. CASE At("waiting") # {}
  <2>1. PICK u \in At("waiting") :
          pst' = [[pst EXCEPT ![t] = w] EXCEPT ![u] = "awake"]
    BY <1>2 DEF MoveAndNotify
  <2>2. u \in Threads /\ pst[u] = "waiting" /\ u # t
    BY DEF At
  <2>3. pst' = [x \in Threads |-> IF x = u THEN "awake"
                                  ELSE IF x = t THEN w ELSE pst[x]]
    BY <2>1, <2>2
  <2>4. At("awake")' = At("awake") \cup {u}
    BY <2>2, <2>3 DEF At
  <2> QED
    BY <2>2, <2>3, <2>4 DEF At, Busy, Where
<1> QED
  BY <1>1, <1>2
-------------------------------------------------------------------------------
(* The invariant holds initially and every action preserves it. *)

LEMMA PoolInitInv == PoolInit => PoolInv
<1> SUFFICES ASSUME PoolInit PROVE PoolInv
  OBVIOUS
<1>1. TypeOK
  BY PoolAssumption, EmptySeq DEF PoolInit, TypeOK, Where
<1>2. Busy = {} /\ At("waiting") = {} /\ At("held") = {}
  BY DEF PoolInit, Busy, At
<1>3. SlotsAccounted
  BY <1>2, FS_EmptySet DEF PoolInit, SlotsAccounted
<1>4. NoLostWakeup
  BY <1>2 DEF NoLostWakeup
<1>5. Ownership
  BY <1>2 DEF PoolInit, Ownership
<1> QED
  BY <1>1, <1>3, <1>4, <1>5 DEF PoolInv

LEMMA WantInv ==
  ASSUME PoolInv, NEW t \in Threads, Want(t)
  PROVE  PoolInv'
<1>1. TypeOK'
  BY DEF PoolInv, TypeOK, Want, Where
<1>2. /\ Busy' = Busy /\ At("waiting")' = At("waiting")
      /\ At("awake")' = At("awake") /\ At("held")' = At("held")
  BY DEF PoolInv, TypeOK, Want, Busy, At
<1>3. SlotsAccounted' /\ NoLostWakeup'
  BY <1>2 DEF PoolInv, SlotsAccounted, NoLostWakeup, Want
<1>4. Ownership'
  BY <1>2 DEF PoolInv, TypeOK, Ownership, Want
<1> QED
  BY <1>1, <1>3, <1>4 DEF PoolInv

LEMMA SpuriousWakeInv ==
  ASSUME PoolInv, NEW t \in Threads, SpuriousWake(t)
  PROVE  PoolInv'
<1>1. TypeOK'
  BY DEF PoolInv, TypeOK, SpuriousWake, Where
<1>2. /\ Busy' = Busy /\ At("held")' = At("held")
      /\ At("awake")' = At("awake") \cup {t}
      /\ t \in At("waiting") /\ t \notin At("awake")
  BY DEF PoolInv, TypeOK, SpuriousWake, Busy, At
<1>3. SlotsAccounted'
  BY <1>2 DEF PoolInv, SlotsAccounted, SpuriousWake
<1>4. NoLostWakeup'
  <2>1. Cardinality(At("awake")') = Cardinality(At("awake")) + 1
    BY <1>2, AtSubset, ThreadEnters
  <2>2. Cardinality(At("awake")) \in Nat
    BY AtSubset, ThreadSets
  <2>3. Len(idle) + (Max - created) <= Cardinality(At("awake"))
    BY <1>2 DEF PoolInv, NoLostWakeup
  <2>4. Len(idle) \in Nat /\ Max \in Nat /\ created \in Nat
    BY LenProperties, PoolAssumption DEF PoolInv, TypeOK
  <2>5. idle' = idle /\ created' = created
    BY DEF SpuriousWake
  <2> QED
    BY <2>1, <2>2, <2>3, <2>4, <2>5 DEF NoLostWakeup
<1>5. Ownership'
  BY <1>2 DEF PoolInv, TypeOK, Ownership, SpuriousWake
<1> QED
  BY <1>1, <1>3, <1>4, <1>5 DEF PoolInv
\* Facts about numbers every action needs.
LEMMA Numbers ==
  ASSUME PoolInv
  PROVE  /\ Len(idle) \in Nat /\ created \in Nat /\ Max \in Nat
         /\ created <= Max
         /\ Cardinality(Busy) \in Nat
         /\ Cardinality(At("awake")) \in Nat
         /\ created = Len(idle) + Cardinality(Busy)
BY LenProperties, PoolAssumption, AtSubset, ThreadSets
   DEF PoolInv, TypeOK, SlotsAccounted

LEMMA GetPopInv ==
  ASSUME PoolInv, NEW t \in Threads, GetPop(t)
  PROVE  PoolInv'
<1>0. /\ idle \in Seq(Conn) /\ idle # <<>>
      /\ idle' = SubSeq(idle, 1, Len(idle) - 1)
      /\ conn' = [conn EXCEPT ![t] = idle[Len(idle)]]
      /\ pst' = [pst EXCEPT ![t] = "held"] /\ created' = created
      /\ pst[t] \in {"want", "awake"}
  BY DEF PoolInv, TypeOK, GetPop, Locking
<1>1. /\ Len(idle) \in Nat \ {0}
      /\ idle[Len(idle)] \in Conn
      /\ idle' \in Seq(Conn)
      /\ Len(idle') = Len(idle) - 1
      /\ \A i \in 1..Len(idle') :
           i \in 1..Len(idle) /\ i # Len(idle) /\ idle'[i] = idle[i]
  <2>1. Len(idle) \in Nat
    BY <1>0, LenProperties
  <2>2. /\ Len(idle) > 0
        /\ idle[Len(idle)] \in Conn
        /\ idle' \in Seq(Conn)
        /\ Len(idle') = Len(idle) - 1
        /\ \A i \in 1..(Len(idle) - 1) : idle'[i] = idle[i]
    BY <1>0, <2>1, PopProperties
  <2> QED
    BY <2>1, <2>2
<1>2. TypeOK'
  BY <1>0, <1>1 DEF PoolInv, TypeOK, Where
<1>3. /\ Busy' = Busy \cup {t} /\ t \notin Busy
      /\ At("held")' = At("held") \cup {t} /\ t \notin At("held")
      /\ At("awake")' = At("awake") \ {t}
      /\ At("waiting")' = At("waiting")
  BY <1>0 DEF PoolInv, TypeOK, Busy, At
<1>4. SlotsAccounted'
  <2>1. Cardinality(Busy') = Cardinality(Busy) + 1
    BY <1>3, AtSubset, ThreadEnters
  <2>2. created' = created /\ Len(idle') = Len(idle) - 1
    BY <1>0, <1>1
  <2> QED
    BY <2>1, <2>2, Numbers DEF SlotsAccounted
<1>5. NoLostWakeup'
  <2>1. Cardinality(At("awake")') >= Cardinality(At("awake")) - 1
    BY <1>3, AtSubset, ThreadMayLeave
  <2>2. Cardinality(At("awake")') \in Nat
    BY <1>3, AtSubset, ThreadSets
  <2>3. At("waiting") # {} => Len(idle) + (Max - created) <= Cardinality(At("awake"))
    BY DEF PoolInv, NoLostWakeup
  <2>4. Len(idle') = Len(idle) - 1 /\ created' = created
    BY <1>0, <1>1
  <2>5. /\ Len(idle) \in Nat /\ Max \in Nat /\ created \in Nat
        /\ Cardinality(At("awake")) \in Nat
    BY Numbers
  <2>6. At("waiting")' # {} => Len(idle) + (Max - created) <= Cardinality(At("awake"))
    BY <2>3, <1>3
  <2>7. At("waiting")' # {} => Len(idle') + (Max - created') <= Cardinality(At("awake")')
    BY <2>1, <2>2, <2>4, <2>5, <2>6
  <2> QED
    BY <2>7 DEF NoLostWakeup
<1>6. Ownership'
  <2>1. conn'[t] = idle[Len(idle)] /\ conn'[t] \in Conn /\ conn'[t] # NoConn
    BY <1>0, <1>1, PoolAssumption DEF PoolInv, TypeOK
  <2>2. \A u \in Threads \ {t} : conn'[u] = conn[u] /\ pst'[u] = pst[u]
    BY <1>0 DEF PoolInv, TypeOK
  <2>3. pst'[t] = "held"
    BY <1>0 DEF PoolInv, TypeOK
  <2>4. \A u \in Threads : conn'[u] = NoConn <=> pst'[u] # "held"
    BY <2>1, <2>2, <2>3 DEF PoolInv, Ownership
  <2>5. \A i, j \in 1..Len(idle') : idle'[i] = idle'[j] => i = j
    <3>1. \A i, j \in 1..Len(idle) : idle[i] = idle[j] => i = j
      BY DEF PoolInv, Ownership
    <3> QED
      BY <1>1, <3>1
  <2>6. Len(idle) \in 1..Len(idle)
    BY <1>1
  <2>7. \A u \in At("held") : u # t /\ conn[u] # idle[Len(idle)]
    <3>1. Ownership
      BY DEF PoolInv
    <3>2. \A u \in At("held") : idle[Len(idle)] # conn[u]
      BY <2>6, <3>1 DEF Ownership
    <3> QED
      BY <3>2, <1>3
  <2>8. \A u, v \in At("held")' : conn'[u] = conn'[v] => u = v
    BY <2>1, <2>2, <2>7, <1>3, AtSubset DEF PoolInv, Ownership
  <2>9. ASSUME NEW u \in At("held")', NEW i \in 1..Len(idle')
        PROVE  idle'[i] # conn'[u]
    <3>1. CASE u = t
      BY <3>1, <2>1, <2>6, <1>1 DEF PoolInv, Ownership
    <3>2. CASE u # t
      BY <3>2, <2>2, <1>1, <1>3, AtSubset DEF PoolInv, Ownership
    <3> QED
      BY <3>1, <3>2
  <2> QED
    BY <2>4, <2>5, <2>8, <2>9 DEF Ownership
<1> QED
  BY <1>2, <1>4, <1>5, <1>6 DEF PoolInv

LEMMA GetReserveInv ==
  ASSUME PoolInv, NEW t \in Threads, GetReserve(t)
  PROVE  PoolInv'
<1>0. /\ idle' = idle /\ conn' = conn /\ created' = created + 1
      /\ pst' = [pst EXCEPT ![t] = "making"]
      /\ pst[t] \in {"want", "awake"} /\ created < Max
  BY DEF GetReserve, Locking
<1>1. TypeOK'
  BY <1>0, PoolAssumption DEF PoolInv, TypeOK, Where
<1>2. /\ Busy' = Busy \cup {t} /\ t \notin Busy
      /\ At("held")' = At("held")
      /\ At("awake")' = At("awake") \ {t}
      /\ At("waiting")' = At("waiting")
  <2>1. pst'[t] = "making" /\ \A u \in Threads \ {t} : pst'[u] = pst[u]
    BY <1>0 DEF PoolInv, TypeOK
  <2>2. pst[t] # "making" /\ pst[t] # "held" /\ pst[t] # "waiting"
    BY <1>0
  <2>3. At("held")' = At("held") /\ At("waiting")' = At("waiting")
    BY <2>1, <2>2 DEF At
  <2>4. At("awake")' = At("awake") \ {t}
    BY <2>1 DEF At
  <2>5. Busy' = Busy \cup {t} /\ t \notin Busy
    BY <2>1, <1>0 DEF Busy, At
  <2> QED
    BY <2>3, <2>4, <2>5
<1>3. SlotsAccounted'
  <2>1. Cardinality(Busy') = Cardinality(Busy) + 1
    BY <1>2, AtSubset, ThreadEnters
  <2> QED
    BY <2>1, <1>0, Numbers DEF SlotsAccounted
<1>4. NoLostWakeup'
  <2>1. Cardinality(At("awake")') >= Cardinality(At("awake")) - 1
    BY <1>2, AtSubset, ThreadMayLeave
  <2>2. Cardinality(At("awake")') \in Nat
    BY <1>2, AtSubset, ThreadSets
  <2>3. At("waiting") # {} => Len(idle) + (Max - created) <= Cardinality(At("awake"))
    BY DEF PoolInv, NoLostWakeup
  <2>4. Len(idle') = Len(idle) /\ created' = created + 1 /\ created' \in Nat
    BY <1>0, Numbers
  <2>5. At("waiting")' # {} => Len(idle') + (Max - created') <= Cardinality(At("awake")')
    <3>1. /\ Len(idle) \in Nat /\ Max \in Nat /\ created \in Nat
          /\ Cardinality(At("awake")) \in Nat
      BY Numbers
    <3>2. At("waiting")' # {} => Len(idle) + (Max - created) <= Cardinality(At("awake"))
      BY <2>3, <1>2
    <3> QED
      BY <2>1, <2>2, <2>4, <3>1, <3>2
  <2> QED
    BY <2>5 DEF NoLostWakeup
<1>5. Ownership'
  BY <1>0, <1>2 DEF PoolInv, TypeOK, Ownership
<1> QED
  BY <1>1, <1>3, <1>4, <1>5 DEF PoolInv

LEMMA GetWaitInv ==
  ASSUME PoolInv, NEW t \in Threads, GetWait(t)
  PROVE  PoolInv'
<1>0. /\ idle' = idle /\ conn' = conn /\ created' = created
      /\ pst' = [pst EXCEPT ![t] = "waiting"]
      /\ pst[t] \in {"want", "awake"} /\ created >= Max /\ idle = <<>>
  BY DEF GetWait, Locking
<1>1. TypeOK'
  BY <1>0 DEF PoolInv, TypeOK, Where
<1>2. Busy' = Busy /\ At("held")' = At("held")
  BY <1>0 DEF PoolInv, TypeOK, Busy, At
<1>3. SlotsAccounted'
  BY <1>0, <1>2 DEF PoolInv, SlotsAccounted
<1>4. NoLostWakeup'
  <2>1. Cardinality(At("awake")') \in Nat
    BY <1>0, ThreadSets DEF At
  <2>2. Len(idle') = 0 /\ Max - created' <= 0
    BY <1>0, Numbers
  <2> QED
    BY <2>1, <2>2, <1>0, Numbers DEF NoLostWakeup
<1>5. Ownership'
  BY <1>0, <1>2 DEF PoolInv, TypeOK, Ownership
<1> QED
  BY <1>1, <1>3, <1>4, <1>5 DEF PoolInv
LEMMA MakeOkInv ==
  ASSUME PoolInv, NEW t \in Threads, NEW c \in Conn, MakeOk(t, c)
  PROVE  PoolInv'
<1>0. /\ idle' = idle /\ created' = created
      /\ conn' = [conn EXCEPT ![t] = c]
      /\ pst' = [pst EXCEPT ![t] = "held"]
      /\ pst[t] = "making" /\ c \notin InUse
  BY DEF MakeOk
<1>1. TypeOK'
  BY <1>0 DEF PoolInv, TypeOK, Where
<1>2. /\ Busy' = Busy
      /\ At("held")' = At("held") \cup {t} /\ t \notin At("held")
      /\ At("awake")' = At("awake")
      /\ At("waiting")' = At("waiting")
  BY <1>0 DEF PoolInv, TypeOK, Busy, At
<1>3. SlotsAccounted' /\ NoLostWakeup'
  BY <1>0, <1>2 DEF PoolInv, SlotsAccounted, NoLostWakeup
<1>4. Ownership'
  <2>1. conn'[t] = c /\ c # NoConn /\ pst'[t] = "held"
    BY <1>0, PoolAssumption DEF PoolInv, TypeOK
  <2>2. \A u \in Threads \ {t} : conn'[u] = conn[u] /\ pst'[u] = pst[u]
    BY <1>0 DEF PoolInv, TypeOK
  <2>3. \A u \in Threads : conn'[u] = NoConn <=> pst'[u] # "held"
    BY <2>1, <2>2 DEF PoolInv, Ownership
  <2>4. /\ \A i \in 1..Len(idle) : idle[i] # c
        /\ \A u \in At("held") : conn[u] # c
    BY <1>0 DEF InUse, Idle
  <2> QED
    BY <2>1, <2>2, <2>3, <2>4, <1>0, <1>2, AtSubset DEF PoolInv, Ownership
<1> QED
  BY <1>1, <1>3, <1>4 DEF PoolInv

\* The part common to the three critical sections that end in notify_one:
\* when the sum of idle connections and free slots grows by at most one and a
\* waiter (if there is one) is woken, no wakeup is lost.
LEMMA NotifyKeepsWakeups ==
  ASSUME PoolInv, NEW t \in Threads, pst[t] \in {"making", "held"},
         NEW w \in {"out", "want"}, MoveAndNotify(t, w),
         Len(idle') \in Nat, created' \in Nat,
         Len(idle') + (Max - created') <= Len(idle) + (Max - created) + 1
  PROVE  NoLostWakeup'
<1> SUFFICES ASSUME At("waiting")' # {}
             PROVE  Len(idle') + (Max - created') <= Cardinality(At("awake")')
  BY DEF NoLostWakeup
<1>1. PICK u \in Threads \ At("awake") : At("awake")' = At("awake") \cup {u}
  BY NotifyEffect DEF PoolInv, TypeOK
<1>2. Cardinality(At("awake")') = Cardinality(At("awake")) + 1
  BY <1>1, AtSubset, ThreadEnters
<1>3. At("waiting") # {}
  BY DEF PoolInv, TypeOK, MoveAndNotify, At
<1>4. Len(idle) + (Max - created) <= Cardinality(At("awake"))
  BY <1>3 DEF PoolInv, NoLostWakeup
<1>5. /\ Len(idle) \in Nat /\ created \in Nat /\ Max \in Nat
      /\ Cardinality(At("awake")) \in Nat
  BY Numbers
<1> QED
  BY <1>2, <1>4, <1>5

LEMMA MakeFailInv ==
  ASSUME PoolInv, NEW t \in Threads, MakeFail(t)
  PROVE  PoolInv'
<1>0. /\ idle' = idle /\ conn' = conn /\ created' = created - 1
      /\ pst[t] = "making" /\ MoveAndNotify(t, "out")
  BY DEF MakeFail
<1>1. /\ pst' \in [Threads -> Where]
      /\ Busy' = Busy \ {t} /\ t \in Busy
      /\ At("held")' = At("held")
  <2>1. t \notin At("held") /\ t \in Busy
    BY <1>0 DEF At, Busy
  <2>2. /\ pst' \in [Threads -> Where]
        /\ Busy' = Busy \ {t}
        /\ At("held")' = At("held") \ {t}
    BY <1>0, NotifyEffect DEF PoolInv, TypeOK
  <2> QED
    BY <2>1, <2>2
<1>2. Cardinality(Busy') = Cardinality(Busy) - 1 /\ Cardinality(Busy') \in Nat
  BY <1>1, AtSubset, ThreadLeaves, ThreadSets
<1>3. created' \in Nat /\ created' <= Max
  BY <1>0, <1>2, Numbers
<1>4. TypeOK'
  BY <1>0, <1>1, <1>3, PoolAssumption DEF PoolInv, TypeOK
<1>5. SlotsAccounted'
  BY <1>0, <1>2, Numbers DEF SlotsAccounted
<1>6. NoLostWakeup'
  <2>1. idle' = idle /\ Len(idle') = Len(idle) /\ created' = created - 1
    BY <1>0
  <2>2. Len(idle') + (Max - created') <= Len(idle) + (Max - created) + 1
    <3>1. Len(idle) \in Nat /\ created \in Nat /\ Max \in Nat
      BY Numbers
    <3> QED
      BY <2>1, <3>1
  <2>3. Len(idle') \in Nat
    BY <2>1, Numbers
  <2> QED
    BY <1>0, <1>3, <2>2, <2>3, NotifyKeepsWakeups
<1>7. Ownership'
  <2>1. \A u \in Threads : pst'[u] = "held" <=> pst[u] = "held"
    BY <1>1 DEF At
  <2> QED
    BY <2>1, <1>0, <1>1 DEF PoolInv, Ownership
<1> QED
  BY <1>4, <1>5, <1>6, <1>7 DEF PoolInv

LEMMA PutInv ==
  ASSUME PoolInv, NEW t \in Threads, NEW w \in {"out", "want"}, Put(t, w)
  PROVE  PoolInv'
<1>0. /\ idle' = Append(idle, conn[t]) /\ created' = created
      /\ conn' = [conn EXCEPT ![t] = NoConn]
      /\ pst[t] = "held" /\ MoveAndNotify(t, w)
  BY DEF Put
<1>1. conn[t] \in Conn /\ t \in At("held") /\ t \in Busy
  BY <1>0 DEF PoolInv, TypeOK, Ownership, At, Busy
<1>2. /\ pst' \in [Threads -> Where]
      /\ Busy' = Busy \ {t}
      /\ At("held")' = At("held") \ {t}
  BY <1>0, NotifyEffect DEF PoolInv, TypeOK
<1>3. /\ idle' \in Seq(Conn)
      /\ Len(idle') = Len(idle) + 1
      /\ Len(idle') \in Nat
      /\ \A i \in 1..Len(idle) : idle'[i] = idle[i]
      /\ idle'[Len(idle) + 1] = conn[t]
  BY <1>0, <1>1, LenProperties DEF PoolInv, TypeOK
<1>4. TypeOK'
  BY <1>0, <1>2, <1>3 DEF PoolInv, TypeOK
<1>5. SlotsAccounted'
  <2>1. Cardinality(Busy') = Cardinality(Busy) - 1
    BY <1>1, <1>2, AtSubset, ThreadLeaves
  <2>2. Len(idle') = Len(idle) + 1
    BY <1>3
  <2> QED
    BY <2>1, <2>2, <1>0, Numbers DEF SlotsAccounted
<1>6. NoLostWakeup'
  <2>1. Len(idle') = Len(idle) + 1 /\ Len(idle') \in Nat
    BY <1>3
  <2> QED
    BY <2>1, <1>0, Numbers, NotifyKeepsWakeups
<1>7. Ownership'
  <2>1. \A u \in Threads : pst'[u] = "held" <=> pst[u] = "held" /\ u # t
    BY <1>2 DEF At
  <2>2. /\ conn'[t] = NoConn
        /\ \A u \in Threads \ {t} : conn'[u] = conn[u]
    BY <1>0 DEF PoolInv, TypeOK
  <2>3. \A u \in Threads : conn'[u] = NoConn <=> pst'[u] # "held"
    BY <2>1, <2>2 DEF PoolInv, Ownership
  <2>4. \A i \in 1..Len(idle') : i \in 1..Len(idle) \/ i = Len(idle) + 1
    BY <1>3, Numbers
  <2>5. \A i \in 1..Len(idle) : idle[i] # conn[t] /\ i # Len(idle) + 1
    BY <1>1, Numbers DEF PoolInv, Ownership
  <2>6. \A i, j \in 1..Len(idle') : idle'[i] = idle'[j] => i = j
    BY <2>4, <2>5, <1>3 DEF PoolInv, Ownership
  <2>7. \A u, v \in At("held")' : conn'[u] = conn'[v] => u = v
    BY <2>2, <1>2, AtSubset DEF PoolInv, Ownership
  <2>8. ASSUME NEW u \in At("held")', NEW i \in 1..Len(idle')
        PROVE  idle'[i] # conn'[u]
    <3>1. u \in At("held") /\ u # t /\ conn'[u] = conn[u] /\ conn[u] # conn[t]
      BY <2>2, <1>1, <1>2, AtSubset DEF PoolInv, Ownership
    <3>2. CASE i \in 1..Len(idle)
      BY <3>1, <3>2, <1>3 DEF PoolInv, Ownership
    <3>3. CASE i = Len(idle) + 1
      BY <3>1, <3>3, <1>3
    <3> QED
      BY <3>2, <3>3, <2>4
  <2> QED
    BY <2>3, <2>6, <2>7, <2>8 DEF Ownership
<1> QED
  BY <1>4, <1>5, <1>6, <1>7 DEF PoolInv

LEMMA DiscardInv ==
  ASSUME PoolInv, NEW t \in Threads, NEW w \in {"out", "want"}, Discard(t, w)
  PROVE  PoolInv'
<1>0. /\ idle' = idle /\ created' = created - 1
      /\ conn' = [conn EXCEPT ![t] = NoConn]
      /\ pst[t] = "held" /\ MoveAndNotify(t, w)
  BY DEF Discard
<1>1. t \in At("held") /\ t \in Busy
  BY <1>0 DEF At, Busy
<1>2. /\ pst' \in [Threads -> Where]
      /\ Busy' = Busy \ {t}
      /\ At("held")' = At("held") \ {t}
  BY <1>0, NotifyEffect DEF PoolInv, TypeOK
<1>3. Cardinality(Busy') = Cardinality(Busy) - 1 /\ Cardinality(Busy') \in Nat
  BY <1>1, <1>2, AtSubset, ThreadLeaves, ThreadSets
<1>4. created' \in Nat /\ created' <= Max
  BY <1>0, <1>3, Numbers
<1>5. TypeOK'
  <2>1. conn' \in [Threads -> Conn \cup {NoConn}]
    BY <1>0 DEF PoolInv, TypeOK
  <2>2. created' \in 0..Max
    BY <1>4, PoolAssumption
  <2> QED
    BY <2>1, <2>2, <1>0, <1>2 DEF PoolInv, TypeOK
<1>6. SlotsAccounted'
  BY <1>0, <1>3, Numbers DEF SlotsAccounted
<1>7. NoLostWakeup'
  <2>1. idle' = idle /\ Len(idle') = Len(idle) /\ created' = created - 1
    BY <1>0
  <2>2. Len(idle) \in Nat /\ created \in Nat /\ Max \in Nat
    BY Numbers
  <2>3. Len(idle') + (Max - created') <= Len(idle) + (Max - created) + 1
    BY <2>1, <2>2
  <2>4. Len(idle') \in Nat
    BY <2>1, <2>2
  <2> QED
    BY <1>0, <1>4, <2>3, <2>4, NotifyKeepsWakeups
<1>8. Ownership'
  <2>1. \A u \in Threads : pst'[u] = "held" <=> pst[u] = "held" /\ u # t
    BY <1>2 DEF At
  <2>2. /\ conn'[t] = NoConn
        /\ \A u \in Threads \ {t} : conn'[u] = conn[u]
    BY <1>0 DEF PoolInv, TypeOK
  <2>3. \A u \in Threads : conn'[u] = NoConn <=> pst'[u] # "held"
    BY <2>1, <2>2 DEF PoolInv, Ownership
  <2> QED
    BY <2>2, <2>3, <1>0, <1>2, AtSubset DEF PoolInv, Ownership
<1> QED
  BY <1>5, <1>6, <1>7, <1>8 DEF PoolInv
LEMMA PoolNextInv == PoolInv /\ [PoolNext]_poolVars => PoolInv'
<1> SUFFICES ASSUME PoolInv, [PoolNext]_poolVars PROVE PoolInv'
  OBVIOUS
<1>1. CASE UNCHANGED poolVars
  BY <1>1 DEF poolVars, PoolInv, TypeOK, SlotsAccounted, NoLostWakeup,
              Ownership, Busy, At
<1>2. CASE PoolNext
  <2>1. PICK t \in Threads : Want(t) \/ SpuriousWake(t) \/ Proceed(t)
    BY <1>2 DEF PoolNext
  <2>2. CASE Want(t)
    BY <2>2, WantInv
  <2>3. CASE SpuriousWake(t)
    BY <2>3, SpuriousWakeInv
  <2>4. CASE GetPop(t)
    BY <2>4, GetPopInv
  <2>5. CASE GetReserve(t)
    BY <2>5, GetReserveInv
  <2>6. CASE GetWait(t)
    BY <2>6, GetWaitInv
  <2>7. CASE MakeFail(t)
    BY <2>7, MakeFailInv
  <2>8. CASE \E c \in Conn : MakeOk(t, c)
    BY <2>8, MakeOkInv
  <2>9. CASE \E w \in {"out", "want"} : Put(t, w) \/ Discard(t, w)
    BY <2>9, PutInv, DiscardInv
  <2> QED
    BY <2>1, <2>2, <2>3, <2>4, <2>5, <2>6, <2>7, <2>8, <2>9 DEF Proceed
<1> QED
  BY <1>1, <1>2

THEOREM PoolInvariance == PoolSafety => []PoolInv
BY PoolInitInv, PoolNextInv, PTL DEF PoolSafety

\* The variables of Pool<T> always have their types.
THEOREM TypeCorrect == PoolSafety => []TypeOK
<1>1. PoolInv => TypeOK
  BY DEF PoolInv
<1> QED
  BY <1>1, PoolInvariance, PTL

\* `created` always equals the idle, connecting and checked-out connections:
\* no path through get, put, discard or a failed connect leaks a slot.
THEOREM NoSlotLeaks == PoolSafety => []SlotsAccounted
<1>1. PoolInv => SlotsAccounted
  BY DEF PoolInv
<1> QED
  BY <1>1, PoolInvariance, PTL

\* Nobody sleeps on the condition variable next to a connection or a free slot
\* that no awake thread is on its way to take, for any number of threads.
THEOREM NoWakeupIsLost == PoolSafety => []NoLostWakeup
<1>1. PoolInv => NoLostWakeup
  BY DEF PoolInv
<1> QED
  BY <1>1, PoolInvariance, PTL

-------------------------------------------------------------------------------
(* The pool implements the lease. *)

\* The open connections are at most the idle ones and the checked-out ones.
LEMMA InUseBound ==
  ASSUME PoolInv
  PROVE  /\ IsFiniteSet(InUse)
         /\ Cardinality(InUse) <= Len(idle) + Cardinality(At("held"))
<1> DEFINE n == Len(idle)
           H == {conn[t] : t \in At("held")}
           g == [t \in At("held") |-> conn[t]]
<1>1. n \in Nat /\ idle \in [1..n -> Conn]
  BY LenProperties DEF PoolInv, TypeOK
<1>2. IsFiniteSet(1..n) /\ Cardinality(1..n) = n
  BY <1>1, FS_Interval
<1>3. idle \in Surjection(1..n, Idle)
  BY <1>1 DEF Surjection, Idle
<1>4. IsFiniteSet(Idle) /\ Cardinality(Idle) <= n
  BY <1>2, <1>3, FS_Surjection
<1>5. IsFiniteSet(At("held"))
  BY AtSubset, ThreadSets
<1>6. g \in Surjection(At("held"), H)
  BY DEF Surjection
<1>7. IsFiniteSet(H) /\ Cardinality(H) <= Cardinality(At("held"))
  BY <1>5, <1>6, FS_Surjection
<1>8. InUse = Idle \cup H
  BY DEF InUse
<1>9. /\ IsFiniteSet(Idle \cup H)
      /\ Cardinality(Idle \cup H) =
           Cardinality(Idle) + Cardinality(H) - Cardinality(Idle \cap H)
      /\ Cardinality(Idle \cap H) \in Nat
      /\ Cardinality(Idle) \in Nat /\ Cardinality(H) \in Nat
  BY <1>4, <1>7, FS_Union, FS_Intersection, FS_CardinalityType
<1>10. Cardinality(At("held")) \in Nat
  BY <1>5, FS_CardinalityType
<1> HIDE DEF H, n, g
<1>11. Cardinality(Idle \cup H) <= n + Cardinality(At("held"))
  BY <1>1, <1>4, <1>7, <1>9, <1>10
<1> QED
  BY <1>8, <1>9, <1>11 DEF n
\* What the lease sees when a thread other than a holder moves: nothing.
LEMMA LeaseStutter ==
  ASSUME idle' = idle, conn' = conn, At("held")' = At("held")
  PROVE  UNCHANGED Promise!leaseVars
BY DEF Promise!leaseVars, InUse, Idle

LEMMA PopReuses ==
  ASSUME PoolInv, PoolInv', NEW t \in Threads, GetPop(t)
  PROVE  \E c \in Conn : Promise!Reuse(t, c)
<1> DEFINE c == idle[Len(idle)]
<1>1. /\ idle \in Seq(Conn) /\ Len(idle) \in Nat /\ idle # <<>>
      /\ idle' = SubSeq(idle, 1, Len(idle) - 1)
      /\ conn' = [conn EXCEPT ![t] = c] /\ pst[t] \in {"want", "awake"}
      /\ pst' = [pst EXCEPT ![t] = "held"]
  BY LenProperties DEF PoolInv, TypeOK, GetPop, Locking
<1>2. /\ Len(idle) > 0 /\ c \in Conn
      /\ Len(idle') = Len(idle) - 1
      /\ \A i \in 1..(Len(idle) - 1) : idle'[i] = idle[i]
  BY <1>1, PopProperties
<1>3. \A i \in 1..Len(idle) : i = Len(idle) \/ i \in 1..(Len(idle) - 1)
  BY <1>1
<1>4. Idle = Idle' \cup {c}
  <2>1. Idle' = {idle[i] : i \in 1..(Len(idle) - 1)}
    BY <1>2 DEF Idle
  <2>2. Len(idle) \in 1..Len(idle) /\ 1..(Len(idle) - 1) \subseteq 1..Len(idle)
    BY <1>1, <1>2
  <2> QED
    BY <2>1, <2>2, <1>3 DEF Idle
<1>5. At("held")' = At("held") \cup {t} /\ t \notin At("held")
  BY <1>1 DEF PoolInv, TypeOK, At
<1>6. {conn'[u] : u \in At("held")'} = {conn[u] : u \in At("held")} \cup {c}
  BY <1>1, <1>5, AtSubset DEF PoolInv, TypeOK
<1>7. InUse' = InUse
  BY <1>4, <1>6 DEF InUse
<1>8. c \in InUse /\ conn[t] = NoConn
  BY <1>1, <1>4 DEF InUse, PoolInv, Ownership
<1>9. \A u \in Threads : conn[u] # c
  <2>1. Len(idle) \in 1..Len(idle)
    BY <1>1, <1>2
  <2>2. c # NoConn
    BY <1>2, PoolAssumption
  <2> QED
    BY <2>1, <2>2 DEF PoolInv, Ownership, At
<1> QED
  BY <1>1, <1>2, <1>7, <1>8, <1>9 DEF Promise!Reuse, Promise!Held

LEMMA MakeConnects ==
  ASSUME PoolInv, NEW t \in Threads, NEW c \in Conn, MakeOk(t, c)
  PROVE  Promise!Connect(t, c)
<1>1. /\ idle' = idle /\ conn' = [conn EXCEPT ![t] = c]
      /\ pst' = [pst EXCEPT ![t] = "held"]
      /\ pst[t] = "making" /\ c \notin InUse
  BY DEF MakeOk
<1>2. Cardinality(InUse) < Max
  <2>1. At("held") \subseteq Busy \ {t} /\ t \in Busy
    BY <1>1 DEF At, Busy
  <2>2. Cardinality(At("held")) <= Cardinality(Busy \ {t})
    BY <2>1, AtSubset, ThreadSets, FS_Subset
  <2>3. Cardinality(Busy \ {t}) = Cardinality(Busy) - 1
    BY <2>1, AtSubset, ThreadLeaves
  <2>4. Cardinality(InUse) \in Nat /\ Cardinality(At("held")) \in Nat
    BY InUseBound, FS_CardinalityType, AtSubset, ThreadSets
  <2> QED
    BY <2>2, <2>3, <2>4, InUseBound, Numbers
<1>3. At("held")' = At("held") \cup {t} /\ t \notin At("held")
  BY <1>1 DEF PoolInv, TypeOK, At
<1>4. {conn'[u] : u \in At("held")'} = {conn[u] : u \in At("held")} \cup {c}
  BY <1>1, <1>3, AtSubset DEF PoolInv, TypeOK
<1>5. InUse' = InUse \cup {c}
  BY <1>1, <1>4 DEF InUse, Idle
<1>6. conn[t] = NoConn
  BY <1>1 DEF PoolInv, Ownership
<1> QED
  <2>1. Promise!Cardinality(InUse) = Cardinality(InUse)
    BY DEF Cardinality, Promise!Cardinality
  <2> QED
    BY <1>1, <1>2, <1>5, <1>6, <2>1 DEF Promise!Connect

LEMMA PutReturns ==
  ASSUME PoolInv, NEW t \in Threads, NEW w \in {"out", "want"}, Put(t, w)
  PROVE  Promise!Return(t)
<1>1. /\ idle' = Append(idle, conn[t])
      /\ conn' = [conn EXCEPT ![t] = NoConn]
      /\ pst[t] = "held" /\ MoveAndNotify(t, w)
      /\ idle \in Seq(Conn) /\ Len(idle) \in Nat
  BY LenProperties DEF Put, PoolInv, TypeOK
<1>2. conn[t] \in Conn /\ conn[t] # NoConn
  BY <1>1 DEF PoolInv, TypeOK, Ownership
<1>3. At("held")' = At("held") \ {t} /\ t \in At("held")
  BY <1>1, NotifyEffect DEF PoolInv, TypeOK, At
<1>4. Idle' = Idle \cup {conn[t]}
  <2>1. /\ Len(idle') = Len(idle) + 1
        /\ \A i \in 1..Len(idle) : idle'[i] = idle[i]
        /\ idle'[Len(idle) + 1] = conn[t]
    BY <1>1, <1>2
  <2>2. 1..Len(idle') = 1..Len(idle) \cup {Len(idle) + 1}
    BY <1>1, <2>1
  <2> QED
    BY <2>1, <2>2 DEF Idle
<1>5. {conn[u] : u \in At("held")}
        = {conn'[u] : u \in At("held")'} \cup {conn[t]}
  BY <1>1, <1>3, AtSubset DEF PoolInv, TypeOK
<1>6. InUse' = InUse
  BY <1>4, <1>5 DEF InUse
<1> QED
  BY <1>1, <1>2, <1>6 DEF Promise!Return

LEMMA DiscardCloses ==
  ASSUME PoolInv, NEW t \in Threads, NEW w \in {"out", "want"}, Discard(t, w)
  PROVE  Promise!Close(t)
<1>1. /\ idle' = idle /\ conn' = [conn EXCEPT ![t] = NoConn]
      /\ pst[t] = "held" /\ MoveAndNotify(t, w)
  BY DEF Discard
<1>2. conn[t] # NoConn
  BY <1>1 DEF PoolInv, Ownership
<1>3. At("held")' = At("held") \ {t} /\ t \in At("held")
  BY <1>1, NotifyEffect DEF PoolInv, TypeOK, At
<1>4. \A u \in At("held") \ {t} : conn'[u] = conn[u] /\ conn[u] # conn[t]
  BY <1>1, <1>3, AtSubset DEF PoolInv, TypeOK, Ownership
<1>5. Idle' = Idle /\ conn[t] \notin Idle
  BY <1>1, <1>3 DEF Idle, PoolInv, Ownership
<1>6. {conn'[u] : u \in At("held")'} = {conn[u] : u \in At("held")} \ {conn[t]}
  BY <1>3, <1>4
<1>7. InUse' = InUse \ {conn[t]}
  BY <1>5, <1>6 DEF InUse
<1> QED
  BY <1>1, <1>2, <1>7 DEF Promise!Close

\* Every step of the pool is a step of the lease or leaves it alone.
LEMMA PoolStepIsLeaseStep ==
  PoolInv /\ PoolInv' /\ [PoolNext]_poolVars
     => [Promise!Next]_(Promise!leaseVars)
<1> SUFFICES ASSUME PoolInv, PoolInv', [PoolNext]_poolVars
             PROVE  [Promise!Next]_(Promise!leaseVars)
  OBVIOUS
<1>1. CASE UNCHANGED poolVars
  BY <1>1, LeaseStutter DEF poolVars, At
<1>2. CASE PoolNext
  <2>1. PICK t \in Threads : Want(t) \/ SpuriousWake(t) \/ Proceed(t)
    BY <1>2 DEF PoolNext
  <2>2. CASE Want(t) \/ SpuriousWake(t) \/ GetReserve(t) \/ GetWait(t)
    <3>1. idle' = idle /\ conn' = conn
      BY <2>2 DEF Want, SpuriousWake, GetReserve, GetWait
    <3>2. At("held")' = At("held")
      BY <2>2 DEF Want, SpuriousWake, GetReserve, GetWait, Locking,
                  PoolInv, TypeOK, At
    <3> QED
      BY <3>1, <3>2, LeaseStutter
  <2>3. CASE MakeFail(t)
    <3>1. /\ idle' = idle /\ conn' = conn
          /\ pst[t] = "making" /\ MoveAndNotify(t, "out")
      BY <2>3 DEF MakeFail
    <3>2. At("held")' = At("held") \ {t} /\ t \notin At("held")
      BY <3>1, NotifyEffect DEF PoolInv, TypeOK, At
    <3>3. At("held")' = At("held")
      BY <3>2
    <3> QED
      BY <3>1, <3>3, LeaseStutter
  <2>4. CASE GetPop(t)
    BY <2>4, PopReuses DEF Promise!Next
  <2>5. CASE \E c \in Conn : MakeOk(t, c)
    BY <2>5, MakeConnects DEF Promise!Next
  <2>6. CASE \E w \in {"out", "want"} : Put(t, w) \/ Discard(t, w)
    BY <2>6, PutReturns, DiscardCloses DEF Promise!Next
  <2> QED
    BY <2>1, <2>2, <2>3, <2>4, <2>5, <2>6 DEF Proceed
<1> QED
  BY <1>1, <1>2

\* At most Max connections are ever open and each is used by one thread at a
\* time, whatever the threads do: Pool<T> implements the lease.
THEOREM PoolImplementsLease == PoolSafety => ImplementsLease
<1>1. PoolInit => Promise!Init
  BY DEF PoolInit, Promise!Init, InUse, Idle, At
<1>2. PoolInv /\ PoolInv' /\ [PoolNext]_poolVars
        => [Promise!Next]_(Promise!leaseVars)
  BY PoolStepIsLeaseStep
<1> QED
  BY <1>1, <1>2, PoolInvariance, PTL
     DEF PoolSafety, ImplementsLease, Promise!Spec

-------------------------------------------------------------------------------
(* The queries. *)

Retried == {t \in Threads : retried[t]}

\* Only open connections work, a verdict is about the connection held, and a
\* socket error was reported for a connection that no longer works.
Verdicts ==
  /\ alive \in SUBSET InUse
  /\ \A t \in Threads : verdict[t] # "none" => t \in At("held")
  /\ \A t \in Threads : verdict[t] = "io" => conn[t] \notin alive

Budget == 2 * fallout + Cardinality(Dead) + Cardinality(Retried) <= deaths

QueryInv == PoolInv /\ QueryTypeOK /\ Verdicts /\ Budget

-------------------------------------------------------------------------------
(* A query is a walk through the pool. *)

LEMMA QueryStepIsPoolStep == [Next]_vars => [PoolNext]_poolVars
<1> SUFFICES ASSUME [Next]_vars PROVE [PoolNext]_poolVars
  OBVIOUS
<1>1. CASE UNCHANGED vars
  BY <1>1 DEF vars
<1>2. ASSUME NEW t \in Threads, Call(t) \/ Wake(t) \/ Run(t)
      PROVE  [PoolNext]_poolVars
  BY <1>2 DEF Call, Wake, Run, Acquire, ConnectOk, ConnectFail, Query, Answer,
              IoRetry, IoFail, PoolNext, Proceed
<1>3. CASE (\E c \in Conn : Sever(c)) \/ Stop \/ Start
  BY <1>3 DEF Sever, Stop, Start
<1> QED
  BY <1>1, <1>2, <1>3 DEF Next

\* Whatever queries do, they use the pool as the pool allows, so everything
\* proved of the pool holds while they run.
THEOREM QueriesUsePool == Safety => PoolSafety
<1>1. Init => PoolInit
  BY DEF Init
<1> QED
  BY <1>1, QueryStepIsPoolStep, PTL DEF Safety, PoolSafety

-------------------------------------------------------------------------------
(* Counting. *)

LEMMA OpenSets ==
  ASSUME PoolInv, NEW S \in SUBSET InUse
  PROVE  IsFiniteSet(S) /\ Cardinality(S) \in Nat
BY InUseBound, FS_Subset, FS_CardinalityType

LEMMA OneLess ==
  ASSUME PoolInv, NEW S \in SUBSET InUse, NEW c \in S
  PROVE  Cardinality(S \ {c}) = Cardinality(S) - 1
BY OpenSets, FS_RemoveElement

LEMMA OneMore ==
  ASSUME PoolInv, NEW S \in SUBSET InUse, NEW c \in InUse, c \notin S
  PROVE  Cardinality(S \cup {c}) = Cardinality(S) + 1
BY OpenSets, FS_AddElement

\* The flag of the thread that ends its call, or begins one, is cleared.
LEMMA ClearRetried ==
  ASSUME QueryTypeOK, NEW t \in Threads,
         retried' = [retried EXCEPT ![t] = FALSE]
  PROVE  /\ Retried' = Retried \ {t}
         /\ Cardinality(Retried') \in Nat
         /\ Cardinality(Retried') <= Cardinality(Retried)
         /\ retried[t] => Cardinality(Retried') = Cardinality(Retried) - 1
<1>1. Retried' = Retried \ {t}
  BY DEF QueryTypeOK, Retried
<1>2. Retried \in SUBSET Threads /\ Retried' \in SUBSET Threads
  BY <1>1 DEF Retried
<1>3. /\ IsFiniteSet(Retried) /\ Cardinality(Retried) \in Nat
      /\ Cardinality(Retried') \in Nat
  BY <1>2, ThreadSets
<1>4. Cardinality(Retried') <= Cardinality(Retried)
  BY <1>1, <1>3, FS_Subset
<1>5. retried[t] => t \in Retried
  BY DEF Retried
<1> QED
  BY <1>1, <1>2, <1>3, <1>4, <1>5, ThreadLeaves

LEMMA Counts ==
  ASSUME QueryInv
  PROVE  /\ Cardinality(Dead) \in Nat /\ Cardinality(Retried) \in Nat
         /\ fallout \in Nat /\ deaths \in Nat
         /\ 2 * fallout + Cardinality(Dead) + Cardinality(Retried) <= deaths
<1>1. Dead \in SUBSET InUse /\ Retried \in SUBSET Threads
  BY DEF Dead, Retried
<1> QED
  BY <1>1, OpenSets, ThreadSets DEF QueryInv, QueryTypeOK, Budget
-------------------------------------------------------------------------------
(* The server and the network. *)

LEMMA StopInv ==
  ASSUME QueryInv, Stop
  PROVE  QueryTypeOK' /\ Verdicts' /\ Budget'
<1>1. PoolInv /\ PoolInv' /\ alive \in SUBSET InUse
  <2>1. UNCHANGED poolVars
    BY DEF Stop
  <2> QED
    BY <2>1, PoolNextInv DEF QueryInv, Verdicts
<1>2. InUse' = InUse /\ At("held")' = At("held") /\ Retried' = Retried
  BY DEF Stop, poolVars, callVars, InUse, Idle, At, Retried
<1>3. Dead' = InUse
  BY <1>2 DEF Stop, Dead
<1>4. Cardinality(InUse) = Cardinality(Dead) + Cardinality(alive)
  <2>1. IsFiniteSet(Dead) /\ IsFiniteSet(alive)
    BY <1>1, OpenSets DEF Dead
  <2>2. Dead \cup alive = InUse /\ Dead \cap alive = {}
    BY <1>1 DEF Dead
  <2>3. Cardinality(Dead) \in Nat /\ Cardinality(alive) \in Nat
    BY <2>1, FS_CardinalityType
  <2> QED
    BY <2>1, <2>2, <2>3, FS_Union, FS_EmptySet
<1>5. Cardinality(alive) \in Nat
  BY <1>1, OpenSets
<1>6. QueryTypeOK'
  <2>1. stops' \in 0..MaxStops /\ deaths' \in Nat
    BY <1>5, BlipAssumption DEF QueryInv, QueryTypeOK, Stop
  <2> QED
    BY <1>1, <2>1 DEF PoolInv, QueryInv, QueryTypeOK, Stop, callVars
<1>7. Verdicts'
  BY <1>2 DEF QueryInv, Verdicts, Stop, callVars, poolVars
<1>8. Budget'
  BY <1>2, <1>3, <1>4, <1>5, Counts DEF Budget, Stop
<1> QED
  BY <1>6, <1>7, <1>8

LEMMA StartInv ==
  ASSUME QueryInv, Start
  PROVE  QueryTypeOK' /\ Verdicts' /\ Budget'
<1>1. /\ InUse' = InUse /\ At("held")' = At("held") /\ Retried' = Retried
      /\ Dead' = Dead
  BY DEF Start, poolVars, callVars, InUse, Idle, At, Retried, Dead
<1>2. TypeOK'
  BY DEF QueryInv, QueryTypeOK, TypeOK, Start, poolVars
<1> QED
  BY <1>1, <1>2
     DEF QueryInv, QueryTypeOK, Verdicts, Budget, Start, poolVars, callVars

LEMMA SeverInv ==
  ASSUME QueryInv, NEW c \in Conn, Sever(c)
  PROVE  QueryTypeOK' /\ Verdicts' /\ Budget'
<1>1. PoolInv /\ PoolInv' /\ alive \in SUBSET InUse
  <2>1. UNCHANGED poolVars
    BY DEF Sever
  <2> QED
    BY <2>1, PoolNextInv DEF QueryInv, Verdicts
<1>2. InUse' = InUse /\ At("held")' = At("held") /\ Retried' = Retried
  BY DEF Sever, poolVars, callVars, InUse, Idle, At, Retried
<1>3. Dead' = Dead \cup {c} /\ c \notin Dead /\ c \in InUse /\ Dead \in SUBSET InUse
  BY <1>1, <1>2 DEF Sever, Dead
<1>4. Cardinality(Dead') = Cardinality(Dead) + 1
  BY <1>1, <1>3, OneMore
<1>5. QueryTypeOK'
  <2>1. severs' \in 0..MaxSevers /\ deaths' \in Nat
    BY BlipAssumption DEF QueryInv, QueryTypeOK, Sever
  <2> QED
    BY <1>1, <2>1 DEF PoolInv, QueryInv, QueryTypeOK, Sever, callVars
<1>6. Verdicts'
  BY <1>2 DEF QueryInv, Verdicts, Sever, callVars, poolVars
<1>7. Budget'
  BY <1>2, <1>4, Counts DEF Budget, Sever
<1> QED
  BY <1>5, <1>6, <1>7
-------------------------------------------------------------------------------
(* A call. *)

\* A step that moves a thread which holds nothing, and opens and closes nothing.
LEMMA NothingOpened ==
  ASSUME QueryInv, PoolInv', NEW t \in Threads,
         idle' = idle, conn' = conn, At("held")' = At("held"),
         UNCHANGED serverVars, UNCHANGED verdict
  PROVE  Verdicts' /\ Dead' = Dead
<1>1. InUse' = InUse
  BY DEF InUse, Idle
<1> QED
  BY <1>1 DEF QueryInv, Verdicts, Dead, serverVars

LEMMA CallInv ==
  ASSUME QueryInv, NEW t \in Threads, Call(t)
  PROVE  QueryTypeOK' /\ Verdicts' /\ Budget'
<1>1. PoolInv'
  BY WantInv DEF QueryInv, Call
<1>2. idle' = idle /\ conn' = conn /\ At("held")' = At("held")
  BY DEF Call, Want, At, QueryInv, QueryTypeOK, TypeOK
<1>3. Verdicts' /\ Dead' = Dead
  BY <1>1, <1>2, NothingOpened DEF Call
<1>4. QueryTypeOK'
  BY <1>1 DEF PoolInv, QueryInv, QueryTypeOK, Call, serverVars
<1>5. Budget'
  <2>1. /\ Cardinality(Retried') \in Nat
        /\ Cardinality(Retried') <= Cardinality(Retried)
    BY ClearRetried DEF QueryInv, Call
  <2>2. fallout' = fallout /\ deaths' = deaths
    BY DEF Call, serverVars
  <2> QED
    BY <1>3, <2>1, <2>2, Counts DEF Budget
<1> QED
  BY <1>3, <1>4, <1>5

LEMMA AcquireInv ==
  ASSUME QueryInv, NEW t \in Threads, Acquire(t) \/ Wake(t)
  PROVE  QueryTypeOK' /\ Verdicts' /\ Budget'
<1>0. /\ UNCHANGED <<serverVars, callVars, clean, fallout>>
      /\ GetPop(t) \/ GetReserve(t) \/ GetWait(t) \/ SpuriousWake(t)
  BY DEF Acquire, Wake
<1>1. PoolInv'
  BY <1>0, GetPopInv, GetReserveInv, GetWaitInv, SpuriousWakeInv DEF QueryInv
<1>2. QueryTypeOK'
  BY <1>0, <1>1 DEF PoolInv, QueryInv, QueryTypeOK, serverVars, callVars
<1>3. CASE GetPop(t)
  <2>1. PICK c \in Conn : Promise!Reuse(t, c)
    BY <1>1, <1>3, PopReuses DEF QueryInv
  <2>2. InUse' = InUse
    BY <2>1 DEF Promise!Reuse
  <2>3. At("held")' = At("held") \cup {t} /\ t \notin At("held")
    BY <1>3 DEF GetPop, Locking, At, QueryInv, QueryTypeOK, TypeOK
  <2>4. \A u \in Threads \ {t} : conn'[u] = conn[u]
    BY <1>3 DEF GetPop, QueryInv, QueryTypeOK, TypeOK
  <2>5. verdict[t] = "none"
    BY <2>3 DEF QueryInv, Verdicts
  <2>6. Verdicts'
    BY <1>0, <2>2, <2>3, <2>4, <2>5 DEF QueryInv, Verdicts, serverVars, callVars
  <2>7. Dead' = Dead /\ Retried' = Retried
    BY <1>0, <2>2 DEF Dead, Retried, serverVars, callVars
  <2> QED
    BY <1>0, <1>2, <2>6, <2>7, Counts DEF Budget, serverVars
<1>4. CASE GetReserve(t) \/ GetWait(t) \/ SpuriousWake(t)
  <2>1. idle' = idle /\ conn' = conn /\ At("held")' = At("held")
    BY <1>4 DEF GetReserve, GetWait, SpuriousWake, Locking, At,
                QueryInv, QueryTypeOK, TypeOK
  <2>2. Verdicts' /\ Dead' = Dead
    BY <1>0, <1>1, <2>1, NothingOpened DEF callVars
  <2>3. Retried' = Retried
    BY <1>0 DEF Retried, callVars
  <2> QED
    BY <1>0, <1>2, <2>2, <2>3, Counts DEF Budget, serverVars
<1> QED
  BY <1>0, <1>3, <1>4

LEMMA ConnectOkInv ==
  ASSUME QueryInv, NEW t \in Threads, NEW c \in Conn, ConnectOk(t, c)
  PROVE  QueryTypeOK' /\ Verdicts' /\ Budget'
<1>0. MakeOk(t, c) /\ alive' = alive \cup {c} /\ UNCHANGED callVars
  BY DEF ConnectOk
<1>1. PoolInv /\ PoolInv'
  BY <1>0, MakeOkInv DEF QueryInv
<1>2. InUse' = InUse \cup {c} /\ c \notin InUse
  <2>1. Promise!Connect(t, c)
    BY <1>0, <1>1, MakeConnects
  <2> QED
    BY <2>1 DEF Promise!Connect
<1>3. At("held")' = At("held") \cup {t} /\ t \notin At("held")
  BY <1>0 DEF MakeOk, At, QueryInv, QueryTypeOK, TypeOK
<1>4. \A u \in Threads \ {t} : conn'[u] = conn[u]
  BY <1>0 DEF MakeOk, QueryInv, QueryTypeOK, TypeOK
<1>5. verdict[t] = "none"
  BY <1>3 DEF QueryInv, Verdicts
<1>6. \A u \in At("held") : conn[u] \in InUse
  BY DEF InUse
<1>7. Verdicts'
  BY <1>0, <1>2, <1>3, <1>4, <1>5, <1>6 DEF QueryInv, Verdicts, callVars
<1>8. QueryTypeOK'
  BY <1>0, <1>1 DEF PoolInv, QueryInv, QueryTypeOK, ConnectOk, callVars
<1>9. Dead' \subseteq Dead /\ Dead \in SUBSET InUse /\ Retried' = Retried
  BY <1>0, <1>2 DEF Dead, Retried, callVars
<1>10. Cardinality(Dead') <= Cardinality(Dead) /\ Cardinality(Dead') \in Nat
  BY <1>1, <1>9, OpenSets, FS_Subset
<1>11. Budget'
  BY <1>9, <1>10, Counts DEF Budget, ConnectOk
<1> QED
  BY <1>7, <1>8, <1>11

LEMMA ConnectFailInv ==
  ASSUME QueryInv, NEW t \in Threads, ConnectFail(t)
  PROVE  QueryTypeOK' /\ Verdicts' /\ Budget'
<1>1. PoolInv'
  BY MakeFailInv DEF QueryInv, ConnectFail
<1>2. idle' = idle /\ conn' = conn /\ At("held")' = At("held")
  <2>1. /\ idle' = idle /\ conn' = conn
        /\ pst[t] = "making" /\ MoveAndNotify(t, "out")
    BY DEF ConnectFail, MakeFail
  <2>2. At("held")' = At("held") \ {t} /\ t \notin At("held")
    BY <2>1, NotifyEffect DEF QueryInv, QueryTypeOK, TypeOK, At
  <2> QED
    BY <2>1, <2>2
<1>3. Verdicts' /\ Dead' = Dead
  BY <1>1, <1>2, NothingOpened DEF ConnectFail
<1>4. QueryTypeOK'
  BY <1>1 DEF PoolInv, QueryInv, QueryTypeOK, ConnectFail, serverVars
<1>5. Budget'
  <2>1. /\ Cardinality(Retried') \in Nat
        /\ Cardinality(Retried') <= Cardinality(Retried)
    BY ClearRetried DEF QueryInv, ConnectFail
  <2>2. fallout' = fallout /\ deaths' = deaths
    BY DEF ConnectFail, serverVars
  <2> QED
    BY <1>3, <2>1, <2>2, Counts DEF Budget
<1> QED
  BY <1>3, <1>4, <1>5

LEMMA QueryKeepsInv ==
  ASSUME QueryInv, NEW t \in Threads, Query(t)
  PROVE  QueryTypeOK' /\ Verdicts' /\ Budget'
<1>1. PICK v \in IF conn[t] \in alive THEN {"rows", "dberr"} ELSE {"io"} :
        verdict' = [verdict EXCEPT ![t] = v]
  BY DEF Query
<1>2. /\ v \in {"rows", "dberr", "io"}
      /\ v = "io" => conn[t] \notin alive
  BY <1>1
<1>3. /\ InUse' = InUse /\ At("held")' = At("held") /\ Retried' = Retried
      /\ Dead' = Dead
  BY DEF Query, poolVars, serverVars, InUse, Idle, At, Retried, Dead
<1>4. t \in At("held")
  BY DEF Query, At
<1>5. TypeOK'
  BY DEF QueryInv, QueryTypeOK, TypeOK, Query, poolVars
<1>6. QueryTypeOK'
  BY <1>1, <1>2, <1>5 DEF QueryInv, QueryTypeOK, Query, serverVars
<1>7. Verdicts'
  BY <1>1, <1>2, <1>3, <1>4
     DEF QueryInv, QueryTypeOK, Verdicts, Query, poolVars, serverVars
<1>8. Budget'
  BY <1>3 DEF QueryInv, Budget, Query, serverVars
<1> QED
  BY <1>6, <1>7, <1>8

\* The guard goes back or its connection is closed: what that does to the open
\* connections, to the verdicts and to the dead ones.
LEMMA GuardReturns ==
  ASSUME QueryInv, NEW t \in Threads, Put(t, "out"),
         verdict' = [verdict EXCEPT ![t] = "none"], UNCHANGED serverVars
  PROVE  Verdicts' /\ Dead' = Dead
<1>1. InUse' = InUse
  <2>1. Promise!Return(t)
    BY PutReturns DEF QueryInv
  <2> QED
    BY <2>1 DEF Promise!Return
<1>2. At("held")' = At("held") \ {t}
  BY NotifyEffect DEF Put, QueryInv, QueryTypeOK, TypeOK
<1>3. \A u \in Threads \ {t} : conn'[u] = conn[u]
  BY DEF Put, QueryInv, QueryTypeOK, TypeOK
<1>4. verdict'[t] = "none" /\ \A u \in Threads \ {t} : verdict'[u] = verdict[u]
  BY DEF QueryInv, QueryTypeOK
<1> QED
  BY <1>1, <1>2, <1>3, <1>4 DEF QueryInv, Verdicts, Dead, serverVars

LEMMA GuardCloses ==
  ASSUME QueryInv, NEW t \in Threads, NEW w \in {"out", "want"}, Discard(t, w),
         verdict[t] = "io",
         verdict' = [verdict EXCEPT ![t] = "none"], UNCHANGED serverVars
  PROVE  /\ Verdicts'
         /\ Cardinality(Dead') = Cardinality(Dead) - 1
         /\ Cardinality(Dead') \in Nat
<1>1. InUse' = InUse \ {conn[t]}
  <2>1. Promise!Close(t)
    BY DiscardCloses DEF QueryInv
  <2> QED
    BY <2>1 DEF Promise!Close
<1>2. At("held")' = At("held") \ {t}
  BY NotifyEffect DEF Discard, QueryInv, QueryTypeOK, TypeOK
<1>3. \A u \in Threads \ {t} : conn'[u] = conn[u]
  BY DEF Discard, QueryInv, QueryTypeOK, TypeOK
<1>4. verdict'[t] = "none" /\ \A u \in Threads \ {t} : verdict'[u] = verdict[u]
  BY DEF QueryInv, QueryTypeOK
<1>5. t \in At("held") /\ conn[t] \notin alive
  BY DEF QueryInv, Verdicts
<1>6. conn[t] \in Dead /\ Dead' = Dead \ {conn[t]} /\ Dead \in SUBSET InUse
  BY <1>1, <1>5 DEF Dead, InUse, serverVars
<1>7. Verdicts'
  BY <1>1, <1>2, <1>3, <1>4, <1>5 DEF QueryInv, Verdicts, serverVars
<1>8. PoolInv
  BY DEF QueryInv
<1>9. Cardinality(Dead') = Cardinality(Dead) - 1
  BY <1>6, <1>8, OneLess
<1>10. IsFiniteSet(Dead')
  BY <1>6, <1>8, OpenSets, FS_Subset
<1> QED
  BY <1>7, <1>9, <1>10, FS_CardinalityType

LEMMA AnswerInv ==
  ASSUME QueryInv, NEW t \in Threads, Answer(t)
  PROVE  QueryTypeOK' /\ Verdicts' /\ Budget'
<1>1. PoolInv'
  BY PutInv DEF QueryInv, Answer
<1>2. Verdicts' /\ Dead' = Dead
  BY GuardReturns DEF Answer
<1>3. QueryTypeOK'
  BY <1>1 DEF PoolInv, QueryInv, QueryTypeOK, Answer, serverVars
<1>4. Budget'
  <2>1. /\ Cardinality(Retried') \in Nat
        /\ Cardinality(Retried') <= Cardinality(Retried)
    BY ClearRetried DEF QueryInv, Answer
  <2>2. fallout' = fallout /\ deaths' = deaths
    BY DEF Answer, serverVars
  <2> QED
    BY <1>2, <2>1, <2>2, Counts DEF Budget
<1> QED
  BY <1>2, <1>3, <1>4

\* The first socket error moves one death from the dead connection to the
\* call's retry ...
LEMMA IoRetryInv ==
  ASSUME QueryInv, NEW t \in Threads, IoRetry(t)
  PROVE  QueryTypeOK' /\ Verdicts' /\ Budget'
<1>1. PoolInv'
  BY DiscardInv DEF QueryInv, IoRetry
<1>2. /\ Verdicts'
      /\ Cardinality(Dead') = Cardinality(Dead) - 1
      /\ Cardinality(Dead') \in Nat
  BY GuardCloses DEF IoRetry
<1>3. Retried' = Retried \cup {t} /\ t \notin Retried
  BY DEF IoRetry, Retried, QueryInv, QueryTypeOK
<1>4. Cardinality(Retried') = Cardinality(Retried) + 1
  BY <1>3, ThreadEnters DEF Retried
<1>5. QueryTypeOK'
  BY <1>1 DEF PoolInv, QueryInv, QueryTypeOK, IoRetry, serverVars
<1>6. Budget'
  BY <1>2, <1>4, Counts DEF Budget, IoRetry, serverVars
<1> QED
  BY <1>2, <1>5, <1>6

\* ... and the second pays for the failed call with it.
LEMMA IoFailInv ==
  ASSUME QueryInv, NEW t \in Threads, IoFail(t)
  PROVE  QueryTypeOK' /\ Verdicts' /\ Budget'
<1>1. PoolInv'
  BY DiscardInv DEF QueryInv, IoFail
<1>2. /\ Verdicts'
      /\ Cardinality(Dead') = Cardinality(Dead) - 1
      /\ Cardinality(Dead') \in Nat
  BY GuardCloses DEF IoFail
<1>3. Cardinality(Retried') = Cardinality(Retried) - 1
  BY ClearRetried DEF IoFail, QueryInv
<1>4. fallout' = fallout + 1 /\ deaths' = deaths
  BY DEF IoFail, serverVars
<1>5. QueryTypeOK'
  BY <1>1 DEF PoolInv, QueryInv, QueryTypeOK, IoFail, serverVars
<1>6. Budget'
  BY <1>2, <1>3, <1>4, Counts DEF Budget
<1> QED
  BY <1>2, <1>5, <1>6
-------------------------------------------------------------------------------
(* The invariant. *)

LEMMA QueryInitInv == Init => QueryInv
<1> SUFFICES ASSUME Init PROVE QueryInv
  OBVIOUS
<1>1. PoolInv
  BY PoolInitInv DEF Init
<1>2. InUse = {} /\ Retried = {}
  BY DEF Init, PoolInit, InUse, Idle, At, Retried
<1>3. QueryTypeOK
  BY <1>1, BlipAssumption DEF PoolInv, QueryTypeOK, Init
<1>4. Verdicts
  BY DEF Init, Verdicts
<1>5. Budget
  BY <1>2, FS_EmptySet DEF Init, Budget, Dead
<1> QED
  BY <1>1, <1>3, <1>4, <1>5 DEF QueryInv

LEMMA QueryNextInv == QueryInv /\ [Next]_vars => QueryInv'
<1> SUFFICES ASSUME QueryInv, [Next]_vars PROVE QueryInv'
  OBVIOUS
<1>1. PoolInv'
  BY QueryStepIsPoolStep, PoolNextInv DEF QueryInv
<1>2. QueryTypeOK' /\ Verdicts' /\ Budget'
  <2>1. CASE UNCHANGED vars
    <3>1. /\ UNCHANGED poolVars /\ UNCHANGED callVars /\ UNCHANGED serverVars
          /\ UNCHANGED <<clean, fallout>>
      BY <2>1 DEF vars
    <3>2. /\ InUse' = InUse /\ At("held")' = At("held") /\ Retried' = Retried
          /\ Dead' = Dead
      BY <3>1 DEF poolVars, callVars, serverVars, InUse, Idle, At, Retried, Dead
    <3> QED
      BY <1>1, <3>1, <3>2
         DEF QueryInv, PoolInv, QueryTypeOK, Verdicts, Budget,
             poolVars, callVars, serverVars
  <2>2. CASE Stop \/ Start \/ \E c \in Conn : Sever(c)
    BY <2>2, StopInv, StartInv, SeverInv
  <2>3. ASSUME NEW t \in Threads, Call(t) \/ Wake(t) \/ Run(t)
        PROVE  QueryTypeOK' /\ Verdicts' /\ Budget'
    BY <2>3, CallInv, AcquireInv, ConnectOkInv, ConnectFailInv, QueryKeepsInv,
       AnswerInv, IoRetryInv, IoFailInv DEF Run
  <2> QED
    BY <2>1, <2>2, <2>3 DEF Next
<1> QED
  BY <1>1, <1>2 DEF QueryInv

THEOREM QueryInvariance == Safety => []QueryInv
BY QueryInitInv, QueryNextInv, PTL DEF Safety

\* Every variable of a query keeps its type, the pool's included.
THEOREM QueryTypeCorrect == Safety => []QueryTypeOK
<1>1. QueryInv => QueryTypeOK
  BY DEF QueryInv
<1> QED
  BY <1>1, QueryInvariance, PTL

\* Two connections die for every socket error that query_retry reports, however
\* the threads interleave, however large the pool and however often the server
\* stops.
THEOREM RetryPaysTwice == Safety => []RetryBudget
<1>1. QueryInv => RetryBudget
  BY Counts DEF RetryBudget
<1> QED
  BY <1>1, QueryInvariance, PTL
================================================================================
