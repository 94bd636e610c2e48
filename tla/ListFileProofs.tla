------------------------------ MODULE ListFileProofs ------------------------------
(***************************************************************************)
(* What a scan writes an import reads: for every set of trees, every field *)
(* width and buffer, a list that was written to its end has a row of its   *)
(* own for every entry the format can represent, and reading it line by    *)
(* line gives that row back, whatever stands next to it.                   *)
(***************************************************************************)
EXTENDS ListFile, WellFoundedInduction, SequenceTheorems, TLAPS

-----------------------------------------------------------------------------------
(* Induction over the natural numbers, in the form the provers can use: about *)
(* sets, not operators.                                                       *)

LEMMA LeastNumber ==
  ASSUME NEW T \in SUBSET Nat, T # {}
  PROVE  \E m \in T : \A k \in T : m <= k
<1> DEFINE R == {p \in Nat \X Nat : p[1] < p[2]}
<1>1. IsWellFoundedOn(R, Nat)
  BY NatLessThanWellFounded DEF OpToRel
<1>2. PICK m \in T : \A k \in T : <<k, m>> \notin R
  <2> HIDE DEF R
  <2> QED
    BY <1>1, WFMin
<1>3. ASSUME NEW k \in T PROVE m <= k
  <2>1. <<k, m>> \notin R /\ k \in Nat /\ m \in Nat
    BY <1>2
  <2>2. ~(k < m)
    BY <2>1
  <2> QED
    BY <2>1, <2>2
<1> QED
  BY <1>3

LEMMA InductionBySet ==
  ASSUME NEW T \in SUBSET Nat, 0 \in T, \A n \in T : n + 1 \in T
  PROVE  T = Nat
<1> SUFFICES ASSUME Nat \ T # {} PROVE FALSE
  OBVIOUS
<1>1. PICK m \in Nat \ T : \A k \in Nat \ T : m <= k
  BY LeastNumber
<1>2. m - 1 \in T
  BY <1>1
<1> QED
  BY <1>1, <1>2


\* The same up to a bound.
LEMMA InductionUpTo ==
  ASSUME NEW n \in Nat, NEW T, 0 \in T, \A k \in 0..(n - 1) : k \in T => k + 1 \in T
  PROVE  \A k \in 0..n : k \in T
<1> DEFINE U == {k \in Nat : k <= n => k \in T}
<1>1. U \in SUBSET Nat /\ 0 \in U
  OBVIOUS
<1>2. ASSUME NEW k \in U PROVE k + 1 \in U
  <2>1. CASE k + 1 <= n
    <3>1. k \in 0..(n - 1) /\ k \in T
      BY <2>1
    <3>2. k + 1 \in T
      BY <3>1
    <3> QED
      BY <3>2
  <2>2. CASE ~(k + 1 <= n)
    BY <2>2
  <2> QED
    BY <2>1, <2>2
<1>3. U = Nat
  <2> HIDE DEF U
  <2> QED
    BY <1>1, <1>2, InductionBySet
<1>4. ASSUME NEW k \in 0..n PROVE k \in T
  <2>1. k \in Nat /\ k <= n
    OBVIOUS
  <2>2. k \in U
    BY <1>3, <2>1
  <2> QED
    BY <2>1, <2>2
<1> QED
  BY <1>4

\* Recursion along a sequence: each state is made of the one before it.
Iterates(f, S, x, n, F) ==
  f \in [0..n -> S] /\ f[0] = x /\ \A i \in 1..n : f[i] = F[i][f[i - 1]]

LEMMA IterationExists ==
  ASSUME NEW S, NEW x \in S, NEW n \in Nat, NEW F \in [1..n -> [S -> S]]
  PROVE  \E f : Iterates(f, S, x, n, F)
<1> DEFINE Runs(f, k) ==
             f \in [0..k -> S] /\ f[0] = x /\ \A i \in 1..k : f[i] = F[i][f[i - 1]]
           Good == {k \in 0..n : \E f : Runs(f, k)}
<1>1. 0 \in Good
  <2> DEFINE f == [i \in 0..0 |-> x]
  <2>1. Runs(f, 0)
    OBVIOUS
  <2> HIDE DEF f, Runs
  <2>2. 0 \in 0..n /\ \E g : Runs(g, 0)
    BY <2>1
  <2> QED
    BY <2>2
<1>2. ASSUME NEW k \in 0..(n - 1), k \in Good PROVE k + 1 \in Good
  <2>1. PICK f : Runs(f, k)
    BY <1>2
  <2>2. F[k + 1] \in [S -> S] /\ f[k] \in S
    BY <2>1
  <2>3. F[k + 1][f[k]] \in S
    BY <2>2
  <2> DEFINE y == F[k + 1][f[k]]
             g == [i \in 0..(k + 1) |-> IF i <= k THEN f[i] ELSE y]
  <2>4. g \in [0..(k + 1) -> S] /\ g[0] = x
    BY <2>1, <2>3
  <2>5. ASSUME NEW i \in 1..(k + 1) PROVE g[i] = F[i][g[i - 1]]
    <3>1. CASE i <= k
      BY <2>1, <3>1
    <3>2. CASE i = k + 1
      <4>1. g[i] = y /\ g[i - 1] = f[k]
        BY <3>2
      <4> QED
        BY <3>2, <4>1
    <3> QED
      BY <3>1, <3>2
  <2>6. Runs(g, k + 1)
    BY <2>4, <2>5
  <2> HIDE DEF g, Runs
  <2>7. k + 1 \in 0..n /\ \E h : Runs(h, k + 1)
    BY <2>6
  <2> QED
    BY <2>7
<1>3. n \in Good
  <2> HIDE DEF Good
  <2>1. \A k \in 0..n : k \in Good
    BY <1>1, <1>2, InductionUpTo
  <2> QED
    BY <2>1
<1>4. PICK f : Runs(f, n)
  BY <1>3
<1> QED
  BY <1>4 DEF Iterates

-----------------------------------------------------------------------------------
(* Sequences. *)

LEMMA FunctionIsSequence ==
  ASSUME NEW S, NEW n \in Nat, NEW f \in [1..n -> S]
  PROVE  f \in Seq(S) /\ Len(f) = n
  OBVIOUS

\* Flattening goes piece by piece.
LEMMA FlattenStates ==
  ASSUME NEW S, NEW pieces \in Seq(Seq(S)), Len(pieces) > 0
  PROVE  \E f : /\ f = [i \in 1..Len(pieces) |-> IF i = 1 THEN pieces[i]
                                                ELSE f[i - 1] \o pieces[i]]
               /\ FlattenSeq(pieces) = f[Len(pieces)]
<1> DEFINE Def(f, i) == IF i = 1 THEN pieces[i] ELSE f[i - 1] \o pieces[i]
           Good == {k \in Nat : \E f : f = [i \in 1..k |-> Def(f, i)]}
<1>1. 0 \in Good
  <2> DEFINE f == [i \in 1..0 |-> <<>>]
  <2>1. f = [i \in 1..0 |-> Def(f, i)]
    OBVIOUS
  <2> QED
    BY <2>1
<1>2. ASSUME NEW k \in Good PROVE k + 1 \in Good
  <2>1. PICK f : f = [i \in 1..k |-> Def(f, i)]
    OBVIOUS
  <2> DEFINE g == [i \in 1..(k + 1) |-> IF i <= k THEN f[i] ELSE Def(f, i)]
  <2>2. ASSUME NEW i \in 1..(k + 1) PROVE g[i] = Def(g, i)
    <3>1. CASE i = 1
      BY <2>1, <3>1
    <3>2. CASE i \in 2..k
      <4>1. g[i] = f[i] /\ g[i - 1] = f[i - 1]
        BY <3>2
      <4>2. i \in 1..k /\ i # 1
        BY <3>2
      <4>3. f[i] = Def(f, i)
        <5> HIDE DEF Def
        <5> QED
          BY <2>1, <4>2
      <4> QED
        BY <4>1, <4>2, <4>3
    <3>3. CASE i = k + 1 /\ k > 0
      <4>1. g[i - 1] = f[k] /\ g[i] = Def(f, i)
        BY <3>3
      <4> QED
        BY <3>3, <4>1
    <3> QED
      BY <3>1, <3>2, <3>3
  <2>3. g = [i \in 1..(k + 1) |-> Def(g, i)]
    <3>1. g = [i \in 1..(k + 1) |-> g[i]]
      OBVIOUS
    <3> HIDE DEF g, Def
    <3>2. [i \in 1..(k + 1) |-> g[i]] = [i \in 1..(k + 1) |-> Def(g, i)]
      BY <2>2
    <3> QED
      BY <3>1, <3>2, Zenon
  <2> HIDE DEF g, Def
  <2>4. k + 1 \in Nat /\ \E h : h = [i \in 1..(k + 1) |-> Def(h, i)]
    BY <2>3
  <2> QED
    BY <2>4
<1>3. Len(pieces) \in Good
  <2>1. Good \in SUBSET Nat
    BY Zenon
  <2> HIDE DEF Good
  <2>2. Good = Nat
    BY <1>1, <1>2, <2>1, InductionBySet, Zenon
  <2> QED
    BY <2>2
<1> DEFINE F == CHOOSE f : f = [i \in 1..Len(pieces) |-> Def(f, i)]
<1>4. F = [i \in 1..Len(pieces) |-> Def(F, i)]
  BY <1>3, Zenon
<1>5. FlattenSeq(pieces) = F[Len(pieces)]
  BY DEF FlattenSeq
<1> QED
  BY <1>4, <1>5, Zenon

\* Flattening appends piece after piece, to nothing at first.
LEMMA FlattenGrows ==
  ASSUME NEW S, NEW pieces \in Seq(Seq(S))
  PROVE  \E f \in [0..Len(pieces) -> Seq(S)] :
           /\ f[0] = <<>> /\ FlattenSeq(pieces) = f[Len(pieces)]
           /\ \A i \in 1..Len(pieces) : f[i] = f[i - 1] \o pieces[i]
<1> DEFINE n == Len(pieces)
<1>1. n \in Nat /\ \A i \in 1..n : pieces[i] \in Seq(S)
  OBVIOUS
<1>2. CASE n = 0
  <2> DEFINE f == [i \in 0..0 |-> <<>>]
  <2>1. FlattenSeq(pieces) = pieces /\ pieces = <<>>
    BY <1>2 DEF FlattenSeq
  <2>2. <<>> \in Seq(S)
    OBVIOUS
  <2>3. f \in [0..n -> Seq(S)] /\ f[0] = <<>> /\ f[n] = <<>>
    BY <1>2, <2>2
  <2>4. \A i \in 1..n : f[i] = f[i - 1] \o pieces[i]
    BY <1>2
  <2> HIDE DEF f
  <2> QED
    BY <2>1, <2>3, <2>4
<1>3. CASE n > 0
  <2>1. PICK h : /\ h = [i \in 1..n |-> IF i = 1 THEN pieces[i] ELSE h[i - 1] \o pieces[i]]
                 /\ FlattenSeq(pieces) = h[n]
    BY <1>3, FlattenStates
  <2> HIDE DEF n
  <2>2. h[1] = pieces[1] /\ \A i \in 2..n : h[i] = h[i - 1] \o pieces[i]
    <3>1. \A i \in 1..n : h[i] = IF i = 1 THEN pieces[i] ELSE h[i - 1] \o pieces[i]
      BY <2>1, Zenon
    <3>2. 1 \in 1..n /\ \A i \in 2..n : i \in 1..n /\ i # 1
      BY <1>1, <1>3
    <3> QED
      BY <3>1, <3>2, Zenon
  <2> DEFINE T == {k \in 0..n : k = 0 \/ h[k] \in Seq(S)}
  <2>3. 0 \in T
    BY <1>1
  <2>4. ASSUME NEW k \in 0..(n - 1), k \in T PROVE k + 1 \in T
    <3>1. k + 1 \in 1..n /\ k + 1 \in 0..n /\ k + 1 - 1 = k
      BY <1>1
    <3>2. CASE k = 0
      BY <1>1, <2>2, <3>1, <3>2
    <3>3. CASE k # 0
      <4>1. k + 1 \in 2..n /\ h[k] \in Seq(S)
        BY <1>1, <2>4, <3>3
      <4>2. h[k + 1] = h[k] \o pieces[k + 1] /\ pieces[k + 1] \in Seq(S)
        <5>1. h[k + 1] = h[(k + 1) - 1] \o pieces[k + 1] /\ pieces[k + 1] \in Seq(S)
          BY <1>1, <2>2, <3>1, <4>1, Zenon
        <5> QED
          BY <3>1, <5>1
      <4>3. h[k + 1] \in Seq(S)
        BY <4>1, <4>2, ConcatProperties
      <4> QED
        BY <3>1, <4>3
    <3> QED
      BY <3>2, <3>3
  <2>5. \A k \in 1..n : h[k] \in Seq(S)
    <3> HIDE DEF T
    <3>1. \A k \in 0..n : k \in T
      BY <1>1, <2>3, <2>4, InductionUpTo
    <3>2. \A k \in 1..n : k \in 0..n /\ k # 0
      BY <1>1
    <3> QED
      BY <3>1, <3>2 DEF T
  <2> DEFINE f == [i \in 0..n |-> IF i = 0 THEN <<>> ELSE h[i]]
  <2>6. f \in [0..n -> Seq(S)] /\ f[0] = <<>> /\ f[n] = h[n]
    <3>1. <<>> \in Seq(S) /\ n # 0 /\ n \in 0..n /\ 0 \in 0..n
      BY <1>1, <1>3
    <3>2. \A i \in 0..n : i = 0 \/ i \in 1..n
      BY <1>1
    <3> QED
      BY <2>5, <3>1, <3>2
  <2>7. ASSUME NEW i \in 1..n PROVE f[i] = f[i - 1] \o pieces[i]
    <3>1. i \in 0..n /\ i # 0 /\ i - 1 \in 0..n /\ pieces[i] \in Seq(S)
      BY <1>1
    <3>2. CASE i = 1
      <4>1. f[i - 1] = <<>> /\ f[i] = pieces[i]
        BY <2>2, <3>1, <3>2
      <4>2. <<>> \o pieces[i] = pieces[i]
        BY <3>1, ConcatEmptySeq
      <4> QED
        BY <4>1, <4>2
    <3>3. CASE i # 1
      <4>1. i \in 2..n /\ i - 1 # 0
        BY <1>1, <3>3
      <4>2. f[i - 1] = h[i - 1] /\ f[i] = h[i]
        BY <3>1, <4>1
      <4> QED
        BY <2>2, <4>1, <4>2
    <3> QED
      BY <3>2, <3>3
  <2> HIDE DEF f
  <2>8. FlattenSeq(pieces) = f[n]
    BY <2>1, <2>6
  <2> QED
    BY <2>6, <2>7, <2>8 DEF n
<1>4. n = 0 \/ n > 0
  BY <1>1
<1> QED
  BY <1>2, <1>3, <1>4, Zenon

LEMMA FlattenTyped ==
  ASSUME NEW S, NEW pieces \in Seq(Seq(S))
  PROVE  FlattenSeq(pieces) \in Seq(S)
<1>1. PICK f \in [0..Len(pieces) -> Seq(S)] : FlattenSeq(pieces) = f[Len(pieces)]
  BY FlattenGrows
<1>2. Len(pieces) \in 0..Len(pieces)
  OBVIOUS
<1> QED
  BY <1>1, <1>2

-----------------------------------------------------------------------------------
(* The parser. *)

States == [cols : Seq(Seq(Chars)), cur : Seq(Chars), field : BOOLEAN,
           mode : {"plain", "quoted", "esc"}]

\* Reading s takes the parser from one state to another.
Reads(st, s, end) ==
  \E r \in [0..Len(s) -> States] :
    /\ r[0] = st /\ r[Len(s)] = end
    /\ \A i \in 1..Len(s) : r[i] = ParseChar(r[i - 1], s[i])

LEMMA CharsAre ==
  /\ Slash \in Chars /\ Space \in Chars /\ Quote \in Chars /\ Backslash \in Chars
  /\ Newline \in Chars /\ Raw \in Chars
  /\ Slash # Newline /\ Space # Newline /\ Quote # Newline /\ Backslash # Newline
  /\ Quote # Backslash /\ Quote \notin Blank /\ Backslash \notin Blank
  /\ Slash \notin Blank \cup {Quote, Backslash} /\ Space \in Blank /\ Newline \in Blank
  BY DEF Chars, Special, Slash, Space, Quote, Backslash, Newline, Raw, Blank

State(cols, cur, field, mode) == [cols |-> cols, cur |-> cur, field |-> field, mode |-> mode]

LEMMA StateTyped ==
  ASSUME NEW cols \in Seq(Seq(Chars)), NEW cur \in Seq(Chars), NEW field \in BOOLEAN,
         NEW mode \in {"plain", "quoted", "esc"}
  PROVE  State(cols, cur, field, mode) \in States
  BY DEF States, State

LEMMA StateIs ==
  ASSUME NEW st \in States
  PROVE  /\ st.cols \in Seq(Seq(Chars)) /\ st.cur \in Seq(Chars) /\ st.field \in BOOLEAN
         /\ st.mode \in {"plain", "quoted", "esc"}
         /\ st = State(st.cols, st.cur, st.field, st.mode)
  BY DEF States, State

LEMMA PushIs ==
  ASSUME NEW cols, NEW cur, NEW field, NEW mode, NEW s
  PROVE  Push(State(cols, cur, field, mode), s) = State(cols, cur \o s, field, mode)
<1> DEFINE st == State(cols, cur, field, mode)
           t == cur \o s
<1>1. st.cur = cur
  BY DEF State
<1>2. [st EXCEPT !.cur = t] = State(cols, t, field, mode)
  <2> HIDE DEF t
  <2> QED
    BY DEF State
<1>3. Push(st, s) = [st EXCEPT !.cur = t]
  <2> HIDE DEF st
  <2> QED
    BY <1>1, Zenon DEF Push
<1> QED
  BY <1>2, <1>3, Zenon

LEMMA EndFieldIs ==
  ASSUME NEW cols, NEW cur, NEW field \in BOOLEAN, NEW mode
  PROVE  EndField(State(cols, cur, field, mode))
           = IF ~field THEN State(cols, cur, field, mode)
             ELSE State(Append(cols, cur), <<>>, FALSE, mode)
<1> DEFINE st == State(cols, cur, field, mode)
           t == Append(cols, cur)
<1>1. st.cols = cols /\ st.cur = cur /\ st.field = field
  BY DEF State
<1>2. [st EXCEPT !.cols = t, !.cur = <<>>, !.field = FALSE] = State(t, <<>>, FALSE, mode)
  <2>1. [st EXCEPT !.cols = t, !.cur = <<>>, !.field = FALSE]
          = [[[st EXCEPT !.cols = t] EXCEPT !.cur = <<>>] EXCEPT !.field = FALSE]
    <3> HIDE DEF st, t
    <3> QED
      OBVIOUS
  <2> DEFINE none == <<>>
             no == FALSE
  <2> HIDE DEF t, none, no
  <2>2. [st EXCEPT !.cols = t] = State(t, cur, field, mode)
    BY DEF State
  <2>3. [State(t, cur, field, mode) EXCEPT !.cur = none] = State(t, none, field, mode)
    BY DEF State
  <2>4. [State(t, none, field, mode) EXCEPT !.field = no] = State(t, none, no, mode)
    BY DEF State
  <2> HIDE DEF st
  <2> QED
    BY <2>1, <2>2, <2>3, <2>4, Zenon DEF none, no
<1>3. EndField(st) = IF ~field THEN st ELSE [st EXCEPT !.cols = t, !.cur = <<>>, !.field = FALSE]
  <2> HIDE DEF st
  <2> QED
    BY <1>1, Zenon DEF EndField
<1> QED
  BY <1>2, <1>3, Zenon

LEMMA EndFieldTyped ==
  ASSUME NEW st \in States
  PROVE  EndField(st) \in States
<1>1. Append(st.cols, st.cur) \in Seq(Seq(Chars)) /\ <<>> \in Seq(Chars)
  BY StateIs, AppendProperties
<1>2. EndField(st) = IF ~st.field THEN st ELSE State(Append(st.cols, st.cur), <<>>, FALSE, st.mode)
  <2> DEFINE cols == st.cols  cur == st.cur  field == st.field  mode == st.mode
  <2>1. field \in BOOLEAN /\ st = State(cols, cur, field, mode)
    BY StateIs
  <2> HIDE DEF cols, cur, field, mode
  <2>2. EndField(st) = IF ~field THEN st ELSE State(Append(cols, cur), <<>>, FALSE, mode)
    <3>1. EndField(State(cols, cur, field, mode)) = IF ~field THEN State(cols, cur, field, mode)
                                                    ELSE State(Append(cols, cur), <<>>, FALSE, mode)
      BY <2>1, EndFieldIs, Zenon
    <3> QED
      BY <2>1, <3>1, Zenon
  <2> QED
    BY <2>2 DEF cols, cur, field, mode
<1>3. State(Append(st.cols, st.cur), <<>>, FALSE, st.mode) \in States
  BY <1>1, StateIs, StateTyped
<1> QED
  BY <1>2, <1>3

LEMMA PushTyped ==
  ASSUME NEW st \in States, NEW s \in Seq(Chars)
  PROVE  /\ Push(st, s) \in States
         /\ [Push(st, s) EXCEPT !.mode = "quoted"] \in States
         /\ [Push(st, s) EXCEPT !.field = TRUE] \in States
<1>1. st.cur \o s \in Seq(Chars)
  <2>1. st.cur \in Seq(Chars)
    BY DEF States
  <2> QED
    BY <2>1, ConcatProperties
<1> QED
  BY <1>1 DEF States, Push

LEMMA ParseCharTyped ==
  ASSUME NEW st \in States, NEW c \in Chars
  PROVE  ParseChar(st, c) \in States
<1>1. <<c>> \in Seq(Chars) /\ <<Backslash, c>> \in Seq(Chars)
  BY CharsAre
<1>2. CASE st.mode = "esc"
  <2> DEFINE kept == IF c \in Blank \cup {Quote, Backslash} THEN <<c>> ELSE <<Backslash, c>>
  <2>1. kept \in Seq(Chars)
    BY <1>1
  <2>2. ParseChar(st, c) = [Push(st, kept) EXCEPT !.mode = "quoted"]
    BY <1>2 DEF ParseChar
  <2> HIDE DEF kept
  <2> QED
    BY <2>1, <2>2, PushTyped
<1>3. CASE st.mode = "quoted"
  <2>1. \/ ParseChar(st, c) = [st EXCEPT !.mode = "esc"]
        \/ ParseChar(st, c) = [st EXCEPT !.mode = "plain"]
        \/ ParseChar(st, c) = Push(st, <<c>>)
    BY <1>3 DEF ParseChar
  <2>2. [st EXCEPT !.mode = "esc"] \in States /\ [st EXCEPT !.mode = "plain"] \in States
    BY DEF States
  <2>3. Push(st, <<c>>) \in States
    BY <1>1, PushTyped
  <2> QED
    BY <2>1, <2>2, <2>3, Zenon
<1>4. CASE st.mode = "plain"
  <2>1. \/ ParseChar(st, c) = [st EXCEPT !.mode = "quoted", !.field = TRUE]
        \/ ParseChar(st, c) = EndField(st)
        \/ ParseChar(st, c) = [Push(st, <<c>>) EXCEPT !.field = TRUE]
    BY <1>4 DEF ParseChar
  <2>2. [st EXCEPT !.mode = "quoted", !.field = TRUE] \in States
    BY DEF States
  <2>3. [Push(st, <<c>>) EXCEPT !.field = TRUE] \in States
    BY <1>1, PushTyped
  <2> QED
    BY <2>1, <2>2, <2>3, EndFieldTyped, Zenon
<1>5. st.mode \in {"plain", "quoted", "esc"}
  BY DEF States
<1> QED
  BY <1>2, <1>3, <1>4, <1>5

\* Every text can be read.
LEMMA ReadsSome ==
  ASSUME NEW st \in States, NEW s \in Seq(Chars)
  PROVE  \E end \in States : Reads(st, s, end)
<1> DEFINE n == Len(s)
           F == [i \in 1..n |-> [v \in States |-> ParseChar(v, s[i])]]
<1>1. n \in Nat /\ \A i \in 1..n : s[i] \in Chars
  OBVIOUS
<1> HIDE DEF n
<1>2. F \in [1..n -> [States -> States]]
  BY <1>1, ParseCharTyped
<1> HIDE DEF F
<1>3. PICK r : Iterates(r, States, st, n, F)
  <2> DEFINE S == States
  <2>1. st \in S /\ F \in [1..n -> [S -> S]]
    BY <1>2
  <2> HIDE DEF S
  <2>2. \E r : Iterates(r, S, st, n, F)
    BY <1>1, <2>1, IterationExists
  <2> QED
    BY <2>2 DEF S
<1>4. r \in [0..n -> States] /\ r[0] = st /\ \A i \in 1..n : r[i] = F[i][r[i - 1]]
  BY <1>3 DEF Iterates
<1>5. \A i \in 1..n : i - 1 \in 0..n
  BY <1>1
<1>6. ASSUME NEW i \in 1..n PROVE r[i] = ParseChar(r[i - 1], s[i])
  <2>1. r[i - 1] \in States
    BY <1>4, <1>5
  <2>2. F[i][r[i - 1]] = ParseChar(r[i - 1], s[i])
    BY <2>1 DEF F
  <2> QED
    BY <1>4, <2>2
<1>7. r[n] \in States
  BY <1>1, <1>4
<1>8. Reads(st, s, r[n])
  BY <1>4, <1>6, Zenon DEF Reads, n
<1> QED
  BY <1>7, <1>8

\* A text is read in one way.
LEMMA ParseIs ==
  ASSUME NEW s \in Seq(Chars), NEW end, Reads(Start, s, end)
  PROVE  Parse(s)[Len(s)] = end
<1> DEFINE n == Len(s)
           IsRun(g) == g = [i \in 0..n |-> IF i = 0 THEN Start ELSE ParseChar(g[i - 1], s[i])]
<1>1. PICK r \in [0..n -> States] :
        r[0] = Start /\ r[n] = end /\ \A i \in 1..n : r[i] = ParseChar(r[i - 1], s[i])
  BY Zenon DEF Reads
<1>2. n \in Nat
  OBVIOUS
<1> HIDE DEF n
<1>3. \A i \in 0..n : i = 0 \/ i \in 1..n
  BY <1>2
<1>4. IsRun(r)
  BY <1>1, <1>3
<1> DEFINE G == CHOOSE g : IsRun(g)
<1>5. IsRun(G)
  <2> HIDE DEF IsRun
  <2> QED
    BY <1>4, Zenon
<1>6. Parse(s) = G
  BY DEF Parse, n
<1> HIDE DEF G
<1>7. G[0] = Start /\ \A i \in 1..n : G[i] = ParseChar(G[i - 1], s[i])
  BY <1>2, <1>5
<1> DEFINE T == {k \in 0..n : G[k] = r[k]}
<1>8. 0 \in T
  BY <1>1, <1>2, <1>7
<1>9. ASSUME NEW k \in 0..(n - 1), k \in T PROVE k + 1 \in T
  <2>1. k + 1 \in 1..n /\ k + 1 \in 0..n /\ k + 1 - 1 = k /\ G[k] = r[k]
    BY <1>2, <1>9
  <2>2. G[k + 1] = ParseChar(G[(k + 1) - 1], s[k + 1]) /\ r[k + 1] = ParseChar(r[(k + 1) - 1], s[k + 1])
    BY <1>1, <1>7, <2>1, Zenon
  <2>3. G[k + 1] = r[k + 1]
    BY <2>1, <2>2
  <2> QED
    BY <2>1, <2>3
<1> HIDE DEF T
<1>10. \A k \in 0..n : k \in T
  BY <1>2, <1>8, <1>9, InductionUpTo
<1>11. n \in T
  BY <1>2, <1>10
<1> QED
  BY <1>1, <1>6, <1>11 DEF T, n

LEMMA ReadsNothing ==
  ASSUME NEW st \in States
  PROVE  Reads(st, <<>>, st)
<1> DEFINE r == [i \in 0..0 |-> st]
<1>1. r \in [0..Len(<<>>) -> States] /\ r[0] = st /\ r[Len(<<>>)] = st
  OBVIOUS
<1>2. \A i \in 1..Len(<<>>) : r[i] = ParseChar(r[i - 1], <<>>[i])
  OBVIOUS
<1> HIDE DEF r
<1> QED
  BY <1>1, <1>2, Zenon DEF Reads

LEMMA ReadsOne ==
  ASSUME NEW st \in States, NEW c \in Chars
  PROVE  Reads(st, <<c>>, ParseChar(st, c))
<1> DEFINE s == <<c>>
           end == ParseChar(st, c)
           r == [i \in 0..1 |-> IF i = 0 THEN st ELSE end]
<1>1. end \in States /\ Len(s) = 1 /\ s[1] = c
  BY ParseCharTyped
<1> HIDE DEF end
<1>2. r \in [0..1 -> States] /\ r[0] = st /\ r[1] = end
  BY <1>1
<1> HIDE DEF r, s
<1>3. ASSUME NEW i \in 1..Len(s) PROVE r[i] = ParseChar(r[i - 1], s[i])
  <2>1. i = 1 /\ i - 1 = 0
    BY <1>1
  <2> QED
    BY <1>1, <1>2, <2>1 DEF end
<1>4. r \in [0..Len(s) -> States] /\ r[Len(s)] = end
  BY <1>1, <1>2
<1>5. Reads(st, s, end)
  BY <1>2, <1>3, <1>4, Zenon DEF Reads
<1> QED
  BY <1>5 DEF s, end

LEMMA ReadsConcat ==
  ASSUME NEW s \in Seq(Chars), NEW t \in Seq(Chars), NEW a, NEW b, NEW c,
         Reads(a, s, b), Reads(b, t, c)
  PROVE  Reads(a, s \o t, c)
<1> DEFINE m == Len(s)
           n == Len(t)
           u == s \o t
<1>1. PICK p \in [0..m -> States] :
        p[0] = a /\ p[m] = b /\ \A i \in 1..m : p[i] = ParseChar(p[i - 1], s[i])
  BY Zenon DEF Reads
<1>2. PICK q \in [0..n -> States] :
        q[0] = b /\ q[n] = c /\ \A i \in 1..n : q[i] = ParseChar(q[i - 1], t[i])
  BY Zenon DEF Reads
<1>3. m \in Nat /\ n \in Nat /\ Len(u) = m + n
  BY ConcatProperties
<1>4. /\ \A i \in 1..m : u[i] = s[i]
      /\ \A i \in (m + 1)..(m + n) : u[i] = t[i - m]
  BY ConcatProperties
<1> HIDE DEF m, n, u
<1> DEFINE r == [i \in 0..(m + n) |-> IF i <= m THEN p[i] ELSE q[i - m]]
<1>5. r \in [0..(m + n) -> States]
  <2>1. ASSUME NEW i \in 0..(m + n) PROVE r[i] \in States
    <3>1. CASE i <= m
      <4>1. i \in 0..m
        BY <1>3, <3>1
      <4> QED
        BY <1>1, <3>1, <4>1
    <3>2. CASE ~(i <= m)
      <4>1. i - m \in 0..n
        BY <1>3, <3>2
      <4> QED
        BY <1>2, <3>2, <4>1
    <3> QED
      BY <3>1, <3>2
  <2> QED
    BY <2>1
<1>6. \A i \in 0..m : r[i] = p[i]
  BY <1>3
<1>7. \A i \in m..(m + n) : r[i] = q[i - m]
  <2>1. ASSUME NEW i \in m..(m + n) PROVE r[i] = q[i - m]
    <3>1. CASE i = m
      <4>1. i - m = 0 /\ r[i] = p[m]
        BY <1>3, <3>1
      <4> QED
        BY <1>1, <1>2, <4>1
    <3>2. CASE i # m
      BY <1>3, <3>2
    <3> QED
      BY <3>1, <3>2
  <2> QED
    BY <2>1
<1> HIDE DEF r
<1>8. r[0] = a /\ r[m + n] = c
  <2>1. 0 \in 0..m /\ m + n \in m..(m + n) /\ (m + n) - m = n
    BY <1>3
  <2> QED
    BY <1>1, <1>2, <1>6, <1>7, <2>1
<1>9. ASSUME NEW i \in 1..(m + n) PROVE r[i] = ParseChar(r[i - 1], u[i])
  <2>1. CASE i <= m
    <3>1. i \in 1..m /\ i \in 0..m /\ i - 1 \in 0..m
      BY <1>3, <2>1
    <3> QED
      BY <1>1, <1>4, <1>6, <3>1, Zenon
  <2>2. CASE ~(i <= m)
    <3>1. i \in (m + 1)..(m + n) /\ i \in m..(m + n) /\ i - 1 \in m..(m + n) /\ i - m \in 1..n
      BY <1>3, <2>2
    <3>2. (i - 1) - m = (i - m) - 1
      BY <1>3
    <3>3. r[i] = q[i - m] /\ r[i - 1] = q[(i - 1) - m] /\ u[i] = t[i - m]
      BY <1>4, <1>7, <3>1, Zenon
    <3>4. q[i - m] = ParseChar(q[(i - m) - 1], t[i - m])
      BY <1>2, <3>1, Zenon
    <3> QED
      BY <3>2, <3>3, <3>4
  <2> QED
    BY <2>1, <2>2
<1>10. Reads(a, u, c)
  BY <1>3, <1>5, <1>8, <1>9, Zenon DEF Reads
<1> QED
  BY <1>10 DEF u

\* What one character does between fields, in a field and between quotes.
LEMMA PlainChar ==
  ASSUME NEW cols, NEW cur, NEW field, NEW c, c \notin Blank \cup {Quote}
  PROVE  ParseChar(State(cols, cur, field, "plain"), c) = State(cols, cur \o <<c>>, TRUE, "plain")
<1> DEFINE st == State(cols, cur, field, "plain")
           t == cur \o <<c>>
<1>1. st.mode = "plain"
  BY DEF State
<1>2. ParseChar(st, c) = [Push(st, <<c>>) EXCEPT !.field = TRUE]
  <2> HIDE DEF st
  <2> QED
    BY <1>1, CharsAre DEF ParseChar
<1>3. Push(st, <<c>>) = State(cols, t, field, "plain")
  BY PushIs
<1>4. [State(cols, t, field, "plain") EXCEPT !.field = TRUE] = State(cols, t, TRUE, "plain")
  <2> DEFINE yes == TRUE
  <2> HIDE DEF t, yes
  <2>1. [State(cols, t, field, "plain") EXCEPT !.field = yes] = State(cols, t, yes, "plain")
    BY DEF State
  <2> QED
    BY <2>1 DEF yes
<1> QED
  BY <1>2, <1>3, <1>4, Zenon

LEMMA BlankChar ==
  ASSUME NEW cols, NEW cur, NEW field \in BOOLEAN, NEW c \in Blank
  PROVE  ParseChar(State(cols, cur, field, "plain"), c) = EndField(State(cols, cur, field, "plain"))
<1> DEFINE st == State(cols, cur, field, "plain")
<1>1. st.mode = "plain"
  BY DEF State
<1>2. ParseChar(st, c) = EndField(st)
  <2> HIDE DEF st
  <2> QED
    BY <1>1, CharsAre DEF ParseChar
<1> QED
  BY <1>2

LEMMA OpeningQuote ==
  ASSUME NEW cols, NEW cur
  PROVE  ParseChar(State(cols, cur, FALSE, "plain"), Quote) = State(cols, cur, TRUE, "quoted")
<1> DEFINE st == State(cols, cur, FALSE, "plain")
<1>1. st.mode = "plain"
  BY DEF State
<1>2. ParseChar(st, Quote) = [st EXCEPT !.mode = "quoted", !.field = TRUE]
  <2> HIDE DEF st
  <2> QED
    BY <1>1, CharsAre DEF ParseChar
<1>3. [st EXCEPT !.mode = "quoted", !.field = TRUE] = [[st EXCEPT !.mode = "quoted"] EXCEPT !.field = TRUE]
  <2> HIDE DEF st
  <2> QED
    OBVIOUS
<1> DEFINE no == FALSE
           yes == TRUE
<1> HIDE DEF no, yes
<1>4. [State(cols, cur, no, "plain") EXCEPT !.mode = "quoted"] = State(cols, cur, no, "quoted")
  BY DEF State
<1>5. [State(cols, cur, no, "quoted") EXCEPT !.field = yes] = State(cols, cur, yes, "quoted")
  BY DEF State
<1> QED
  BY <1>2, <1>3, <1>4, <1>5, Zenon DEF no, yes

LEMMA QuotedChar ==
  ASSUME NEW cols, NEW cur, NEW field, NEW c, c \notin {Quote, Backslash}
  PROVE  ParseChar(State(cols, cur, field, "quoted"), c) = State(cols, cur \o <<c>>, field, "quoted")
<1> DEFINE st == State(cols, cur, field, "quoted")
<1>1. st.mode = "quoted"
  BY DEF State
<1>2. ParseChar(st, c) = Push(st, <<c>>)
  <2> HIDE DEF st
  <2> QED
    BY <1>1 DEF ParseChar
<1> QED
  BY <1>2, PushIs

LEMMA QuotedSign ==
  ASSUME NEW cols, NEW cur, NEW field, NEW c \in {Quote, Backslash}
  PROVE  ParseChar(State(cols, cur, field, "quoted"), c)
           = State(cols, cur, field, IF c = Quote THEN "plain" ELSE "esc")
<1> DEFINE st == State(cols, cur, field, "quoted")
<1>1. st.mode = "quoted"
  BY DEF State
<1>2. ParseChar(st, c) = IF c = Quote THEN [st EXCEPT !.mode = "plain"] ELSE [st EXCEPT !.mode = "esc"]
  <2> HIDE DEF st
  <2> QED
    BY <1>1, CharsAre DEF ParseChar
<1>3. /\ [st EXCEPT !.mode = "plain"] = State(cols, cur, field, "plain")
      /\ [st EXCEPT !.mode = "esc"] = State(cols, cur, field, "esc")
  BY DEF State
<1> QED
  BY <1>2, <1>3, Zenon

LEMMA EscapedSign ==
  ASSUME NEW cols, NEW cur, NEW field, NEW c \in {Quote, Backslash}
  PROVE  ParseChar(State(cols, cur, field, "esc"), c) = State(cols, cur \o <<c>>, field, "quoted")
<1> DEFINE st == State(cols, cur, field, "esc")
           t == cur \o <<c>>
<1>1. st.mode = "esc" /\ c \in Blank \cup {Quote, Backslash}
  BY DEF State
<1>2. ParseChar(st, c) = [Push(st, <<c>>) EXCEPT !.mode = "quoted"]
  <2> HIDE DEF st
  <2> QED
    BY <1>1 DEF ParseChar
<1>3. Push(st, <<c>>) = State(cols, t, field, "esc")
  BY PushIs
<1>4. [State(cols, t, field, "esc") EXCEPT !.mode = "quoted"] = State(cols, t, field, "quoted")
  <2> HIDE DEF t
  <2> QED
    BY DEF State
<1> QED
  BY <1>2, <1>3, <1>4, Zenon

-----------------------------------------------------------------------------------
(* Quoting and splitting undo each other. *)

\* One character more of a part.
LEMMA PrefixGrows ==
  ASSUME NEW S, NEW s \in Seq(S), NEW i \in 1..Len(s)
  PROVE  /\ SubSeq(s, 1, i - 1) \in Seq(S) /\ s[i] \in S
         /\ SubSeq(s, 1, i) = SubSeq(s, 1, i - 1) \o <<s[i]>>
<1>1. 1 \in 1..Len(s) /\ Len(s) \in Nat /\ s[i] \in S
  OBVIOUS
<1>2. SubSeq(s, 1, i) = SubSeq(s, 1, i - 1) \o <<s[i]>>
  <2>1. i \in 1..Len(s)
    OBVIOUS
  <2> QED
    BY <1>1, <2>1, SubSeqRecursiveSecond
<1>3. SubSeq(s, 1, i - 1) \in Seq(S)
  <2>1. i - 1 \in Int /\ \A j \in 1..(i - 1) : s[j] \in S
    BY <1>1
  <2> QED
    BY <2>1, SubSeqProperties
<1> QED
  BY <1>1, <1>2, <1>3

LEMMA PrefixNone ==
  ASSUME NEW s
  PROVE  SubSeq(s, 1, 0) = <<>>
  BY SubSeqEmpty

\* Blanks end a field and do nothing more.
LEMMA SpacesRead ==
  ASSUME NEW cols \in Seq(Seq(Chars)), NEW cur \in Seq(Chars), NEW field \in BOOLEAN, NEW n \in Nat
  PROVE  LET st == State(cols, cur, field, "plain") IN
           Reads(st, Spaces(n), IF n = 0 THEN st ELSE EndField(st))
<1> DEFINE st == State(cols, cur, field, "plain")
           over == EndField(st)
           s == Spaces(n)
           r == [i \in 0..n |-> IF i = 0 THEN st ELSE over]
<1>1. st \in States /\ over \in States
  <2>1. st \in States
    BY StateTyped
  <2> HIDE DEF st
  <2> QED
    BY <2>1, EndFieldTyped
<1>2. Len(s) = n /\ \A i \in 1..n : s[i] = Space
  BY DEF Spaces
<1>3. ParseChar(st, Space) = over
  BY BlankChar, CharsAre
<1>4. ParseChar(over, Space) = over
  <2>1. CASE ~field
    <3>1. over = st
      BY <2>1, EndFieldIs
    <3> QED
      BY <1>3, <3>1
  <2>2. CASE field
    <3> DEFINE more == Append(cols, cur)
    <3>1. over = State(more, <<>>, FALSE, "plain")
      <4>1. over = IF ~field THEN st ELSE State(more, <<>>, FALSE, "plain")
        BY EndFieldIs, Zenon
      <4> QED
        BY <2>2, <4>1, Zenon
    <3> HIDE DEF more, st, over
    <3>2. ParseChar(over, Space) = EndField(over)
      BY <3>1, BlankChar, CharsAre
    <3>3. EndField(State(more, <<>>, FALSE, "plain")) = State(more, <<>>, FALSE, "plain")
      BY EndFieldIs
    <3> QED
      BY <3>1, <3>2, <3>3
  <2> QED
    BY <2>1, <2>2
<1> HIDE DEF st, over, s
<1>5. r \in [0..n -> States] /\ r[0] = st /\ r[n] = IF n = 0 THEN st ELSE over
  BY <1>1
<1>6. ASSUME NEW i \in 1..n PROVE r[i] = ParseChar(r[i - 1], s[i])
  <2>1. i \in 0..n /\ i # 0 /\ i - 1 \in 0..n /\ s[i] = Space
    BY <1>2
  <2>2. r[i] = over /\ r[i - 1] \in {st, over}
    BY <2>1
  <2> QED
    BY <1>3, <1>4, <2>1, <2>2
<1> HIDE DEF r
<1>7. Reads(st, s, IF n = 0 THEN st ELSE over)
  BY <1>2, <1>5, <1>6, Zenon DEF Reads
<1> QED
  BY <1>7 DEF st, over, s

\* A field without special characters.
LEMMA PlainReads ==
  ASSUME NEW cols \in Seq(Seq(Chars)), NEW s \in Seq(Chars), s # <<>>,
         \A i \in DOMAIN s : s[i] \notin Blank \cup {Quote, Backslash}
  PROVE  Reads(State(cols, <<>>, FALSE, "plain"), s, State(cols, s, TRUE, "plain"))
<1> DEFINE n == Len(s)
           part(i) == SubSeq(s, 1, i)
           r == [i \in 0..n |-> State(cols, part(i), i # 0, "plain")]
<1>1. n \in Nat /\ n # 0 /\ DOMAIN s = 1..n
  BY EmptySeq
<1>2. \A i \in 1..n : s[i] \notin Blank \cup {Quote}
  BY <1>1
<1>3. part(0) = <<>> /\ part(n) = s
  BY PrefixNone, SubSeqFull
<1>4. \A i \in 1..n : part(i) = part(i - 1) \o <<s[i]>> /\ part(i - 1) \in Seq(Chars)
  BY PrefixGrows
<1>5. \A i \in 0..n : part(i) \in Seq(Chars)
  <2>1. ASSUME NEW i \in 0..n PROVE part(i) \in Seq(Chars)
    <3>1. \A j \in 1..i : s[j] \in Chars
      BY <1>1
    <3> QED
      BY <3>1, SubSeqProperties
  <2> QED
    BY <2>1
<1> HIDE DEF n, part
<1>6. r \in [0..n -> States]
  <2>1. ASSUME NEW i \in 0..n PROVE State(cols, part(i), i # 0, "plain") \in States
    BY <1>5, StateTyped
  <2> QED
    BY <2>1
<1>7. r[0] = State(cols, <<>>, FALSE, "plain") /\ r[n] = State(cols, s, TRUE, "plain")
  <2>1. r[0] = State(cols, part(0), 0 # 0, "plain") /\ r[n] = State(cols, part(n), n # 0, "plain")
    BY <1>1
  <2>2. (0 # 0) = FALSE /\ (n # 0) = TRUE
    BY <1>1
  <2> QED
    BY <1>3, <2>1, <2>2, Zenon
<1>8. ASSUME NEW i \in 1..n PROVE r[i] = ParseChar(r[i - 1], s[i])
  <2>1. i \in 0..n /\ i - 1 \in 0..n /\ (i # 0) = TRUE
    BY <1>1
  <2> DEFINE before == i - 1 # 0
  <2>2. r[i] = State(cols, part(i), TRUE, "plain") /\ r[i - 1] = State(cols, part(i - 1), before, "plain")
    <3>1. r[i] = State(cols, part(i), i # 0, "plain") /\ r[i - 1] = State(cols, part(i - 1), i - 1 # 0, "plain")
      BY <2>1
    <3> QED
      BY <2>1, <3>1, Zenon
  <2> HIDE DEF before, r
  <2>3. ParseChar(State(cols, part(i - 1), before, "plain"), s[i])
          = State(cols, part(i - 1) \o <<s[i]>>, TRUE, "plain")
    <3>1. s[i] \notin Blank \cup {Quote}
      BY <1>2
    <3> DEFINE c == s[i]
               u == part(i - 1)
    <3> HIDE DEF c, u
    <3>2. ParseChar(State(cols, u, before, "plain"), c) = State(cols, u \o <<c>>, TRUE, "plain")
      BY <3>1, PlainChar DEF c
    <3> QED
      BY <3>2 DEF c, u
  <2> QED
    BY <1>4, <2>2, <2>3, Zenon
<1> HIDE DEF r
<1> QED
  BY <1>6, <1>7, <1>8, Zenon DEF Reads, n

\* What one escaped character is read as.
LEMMA EscapeReads ==
  ASSUME NEW cols \in Seq(Seq(Chars)), NEW cur \in Seq(Chars), NEW c \in Chars
  PROVE  Reads(State(cols, cur, TRUE, "quoted"), Escape(c), State(cols, cur \o <<c>>, TRUE, "quoted"))
<1> DEFINE st == State(cols, cur, TRUE, "quoted")
           end == State(cols, cur \o <<c>>, TRUE, "quoted")
<1>1. st \in States
  BY StateTyped
<1>2. CASE c \in {Quote, Backslash}
  <2> DEFINE esc == State(cols, cur, TRUE, "esc")
  <2>1. esc \in States
    BY StateTyped
  <2>2. ParseChar(st, Backslash) = esc
    BY QuotedSign, CharsAre
  <2>3. ParseChar(esc, c) = end
    BY <1>2, EscapedSign
  <2> HIDE DEF st, esc, end
  <2>4. Reads(st, <<Backslash>>, esc) /\ Reads(esc, <<c>>, end)
    <3>1. Backslash \in Chars
      BY CharsAre
    <3> QED
      BY <1>1, <2>1, <2>2, <2>3, <3>1, ReadsOne
  <2>5. <<Backslash>> \in Seq(Chars) /\ <<c>> \in Seq(Chars)
    BY CharsAre
  <2>6. Reads(st, <<Backslash>> \o <<c>>, end)
    BY <2>4, <2>5, ReadsConcat
  <2>7. Escape(c) = <<Backslash>> \o <<c>>
    BY <1>2 DEF Escape
  <2> QED
    BY <2>6, <2>7 DEF st, end
<1>3. CASE c \notin {Quote, Backslash}
  <2>1. ParseChar(st, c) = end
    BY <1>3, QuotedChar
  <2> HIDE DEF st, end
  <2>2. Reads(st, <<c>>, end)
    BY <1>1, <2>1, ReadsOne
  <2>3. Escape(c) = <<c>>
    BY <1>3 DEF Escape
  <2> QED
    BY <2>2, <2>3 DEF st, end
<1> QED
  BY <1>2, <1>3

LEMMA EscapeTyped ==
  ASSUME NEW C, {Quote, Backslash, Space} \subseteq C, NEW s \in Seq(C)
  PROVE  [i \in DOMAIN s |-> Escape(s[i])] \in Seq(Seq(C)) /\ Len([i \in DOMAIN s |-> Escape(s[i])]) = Len(s)
<1>1. Len(s) \in Nat /\ DOMAIN s = 1..Len(s)
  OBVIOUS
<1>2. ASSUME NEW i \in 1..Len(s) PROVE Escape(s[i]) \in Seq(C)
  <2>1. s[i] \in C /\ Backslash \in C
    OBVIOUS
  <2>2. <<s[i]>> \in Seq(C) /\ <<Backslash, s[i]>> \in Seq(C)
    BY <2>1
  <2> QED
    BY <2>2 DEF Escape
<1> DEFINE n == Len(s)
           p == [i \in 1..n |-> Escape(s[i])]
<1>3. p \in [1..n -> Seq(C)]
  BY <1>2
<1>4. p \in Seq(Seq(C)) /\ Len(p) = n
  <2> HIDE DEF p, n
  <2>1. n \in Nat
    BY <1>1 DEF n
  <2> DEFINE S == Seq(C)
  <2>2. p \in [1..n -> S]
    BY <1>3
  <2> HIDE DEF S
  <2>3. p \in Seq(S) /\ Len(p) = n
    BY <2>1, <2>2, FunctionIsSequence
  <2> QED
    BY <2>3 DEF S
<1> QED
  BY <1>1, <1>4, Zenon

\* A quoted field, between its quotes.
LEMMA QuotedReads ==
  ASSUME NEW cols \in Seq(Seq(Chars)), NEW s \in Seq(Chars)
  PROVE  LET inside == FlattenSeq([i \in DOMAIN s |-> Escape(s[i])]) IN
           /\ inside \in Seq(Chars)
           /\ Reads(State(cols, <<>>, TRUE, "quoted"), inside, State(cols, s, TRUE, "quoted"))
<1> DEFINE n == Len(s)
           pieces == [i \in DOMAIN s |-> Escape(s[i])]
           part(i) == SubSeq(s, 1, i)
           from == State(cols, <<>>, TRUE, "quoted")
           mid(i) == State(cols, part(i), TRUE, "quoted")
<1>1. n \in Nat /\ DOMAIN s = 1..n /\ \A i \in 1..n : s[i] \in Chars
  OBVIOUS
<1>2. pieces \in Seq(Seq(Chars)) /\ Len(pieces) = n
  <2>1. {Quote, Backslash, Space} \subseteq Chars
    BY CharsAre
  <2> QED
    BY <2>1, EscapeTyped
<1>3. \A i \in 1..n : pieces[i] = Escape(s[i])
  OBVIOUS
<1> HIDE DEF pieces
<1>4. PICK f \in [0..Len(pieces) -> Seq(Chars)] :
        /\ f[0] = <<>> /\ FlattenSeq(pieces) = f[Len(pieces)]
        /\ \A i \in 1..Len(pieces) : f[i] = f[i - 1] \o pieces[i]
  BY <1>2, FlattenGrows
<1>5. /\ f \in [0..n -> Seq(Chars)] /\ f[0] = <<>> /\ FlattenSeq(pieces) = f[n]
      /\ \A i \in 1..n : f[i] = f[i - 1] \o Escape(s[i]) /\ Escape(s[i]) \in Seq(Chars)
  <2>1. \A i \in 1..n : pieces[i] \in Seq(Chars)
    BY <1>2
  <2> QED
    BY <1>2, <1>3, <1>4, <2>1
<1>6. part(0) = <<>> /\ part(n) = s
  BY PrefixNone, SubSeqFull
<1>7. \A i \in 1..n : part(i) = part(i - 1) \o <<s[i]>> /\ part(i - 1) \in Seq(Chars)
  BY PrefixGrows
<1> HIDE DEF n, part
<1> DEFINE T == {k \in 0..n : Reads(from, f[k], mid(k))}
<1>8. 0 \in T
  <2>1. from \in States
    BY EmptySeq, StateTyped
  <2>2. mid(0) = from
    BY <1>6
  <2> HIDE DEF from, mid
  <2>3. Reads(from, f[0], mid(0))
    BY <1>5, <2>1, <2>2, ReadsNothing
  <2> QED
    BY <1>1, <2>3
<1>9. ASSUME NEW k \in 0..(n - 1), k \in T PROVE k + 1 \in T
  <2>1. k + 1 \in 1..n /\ k + 1 \in 0..n /\ k \in 0..n /\ (k + 1) - 1 = k
    BY <1>1
  <2>2. Reads(from, f[k], mid(k))
    BY <1>9
  <2>3. part(k) \in Seq(Chars) /\ part(k + 1) = part(k) \o <<s[k + 1]>> /\ s[k + 1] \in Chars
    <3>1. part(k + 1) = part((k + 1) - 1) \o <<s[k + 1]>> /\ part((k + 1) - 1) \in Seq(Chars)
      BY <1>7, <2>1, Zenon
    <3> QED
      BY <1>1, <2>1, <3>1
  <2>4. Reads(mid(k), Escape(s[k + 1]), mid(k + 1))
    <3>1. Reads(State(cols, part(k), TRUE, "quoted"), Escape(s[k + 1]),
                State(cols, part(k) \o <<s[k + 1]>>, TRUE, "quoted"))
      BY <2>3, EscapeReads
    <3> QED
      BY <2>3, <3>1, Zenon
  <2>5. f[k + 1] = f[k] \o Escape(s[k + 1]) /\ Escape(s[k + 1]) \in Seq(Chars) /\ f[k] \in Seq(Chars)
    <3>1. f[k + 1] = f[(k + 1) - 1] \o Escape(s[k + 1]) /\ Escape(s[k + 1]) \in Seq(Chars)
      BY <1>5, <2>1, Zenon
    <3> QED
      BY <1>5, <2>1, <3>1
  <2> HIDE DEF from, mid
  <2>6. Reads(from, f[k] \o Escape(s[k + 1]), mid(k + 1))
    BY <2>2, <2>4, <2>5, ReadsConcat
  <2> QED
    BY <2>1, <2>5, <2>6
<1> HIDE DEF T
<1>10. \A k \in 0..n : k \in T
  BY <1>1, <1>8, <1>9, InductionUpTo
<1>11. n \in T /\ n \in 0..n
  BY <1>1, <1>10
<1>12. Reads(from, f[n], mid(n)) /\ mid(n) = State(cols, s, TRUE, "quoted") /\ f[n] \in Seq(Chars)
  BY <1>5, <1>6, <1>11 DEF T
<1> QED
  BY <1>5, <1>12, Zenon DEF pieces

LEMMA SpacesTyped ==
  ASSUME NEW C, Space \in C, NEW n \in Nat
  PROVE  Spaces(n) \in Seq(C) /\ Len(Spaces(n)) = n
  BY DEF Spaces

\* A field is written with what it is made of, quotes, backslashes and blanks.
LEMMA PadTyped ==
  ASSUME NEW C, {Quote, Backslash, Space} \subseteq C, NEW s \in Seq(C), ListFileAssumption
  PROVE  pad_field(s) \in Seq(C)
<1> DEFINE special == \E i \in DOMAIN s : s[i] \in Blank \cup {Quote, Backslash}
           inside == FlattenSeq([i \in DOMAIN s |-> Escape(s[i])])
           k == IF Len(s) < Width THEN Width - Len(s) ELSE 0
           q == <<Quote>>
<1>1. inside \in Seq(C)
  <2>1. [i \in DOMAIN s |-> Escape(s[i])] \in Seq(Seq(C))
    BY EscapeTyped
  <2> QED
    BY <2>1, FlattenTyped
<1>2. k \in Nat
  <2>1. Len(s) \in Nat /\ Width \in Nat
    BY DEF ListFileAssumption
  <2> QED
    BY <2>1
<1>3. q \in Seq(C)
  OBVIOUS
<1>4. pad_field(s) = IF special THEN q \o inside \o q ELSE s \o Spaces(k)
  BY Zenon DEF pad_field
<1> HIDE DEF special, inside, k, q
<1>5. Spaces(k) \in Seq(C)
  <2>1. Space \in C
    OBVIOUS
  <2> QED
    BY <1>2, <2>1, SpacesTyped
<1>6. q \o inside \o q \in Seq(C) /\ s \o Spaces(k) \in Seq(C)
  BY <1>1, <1>3, <1>5, ConcatProperties
<1> QED
  BY <1>4, <1>6

\* A field is read back as it is, whether or not a blank has ended it yet.
LEMMA PadReads ==
  ASSUME ListFileAssumption, NEW cols \in Seq(Seq(Chars)), NEW s \in Seq(Chars), s # <<>>
  PROVE  \E field \in BOOLEAN :
           LET read == State(cols, s, TRUE, "plain") IN
             Reads(State(cols, <<>>, FALSE, "plain"), pad_field(s), IF field THEN read ELSE EndField(read))
<1> DEFINE special == \E i \in DOMAIN s : s[i] \in Blank \cup {Quote, Backslash}
           inside == FlattenSeq([i \in DOMAIN s |-> Escape(s[i])])
           k == IF Len(s) < Width THEN Width - Len(s) ELSE 0
           q == <<Quote>>
           st == State(cols, <<>>, FALSE, "plain")
           read == State(cols, s, TRUE, "plain")
<1>1. pad_field(s) = IF special THEN q \o inside \o q ELSE s \o Spaces(k)
  BY Zenon DEF pad_field
<1>2. CASE special
  <2> DEFINE a == State(cols, <<>>, TRUE, "quoted")
             b == State(cols, s, TRUE, "quoted")
  <2>1. inside \in Seq(Chars) /\ Reads(a, inside, b)
    BY QuotedReads, Zenon
  <2>2. q \in Seq(Chars) /\ Quote \in Chars
    BY CharsAre
  <2>3. ParseChar(st, Quote) = a
    BY OpeningQuote
  <2>4. ParseChar(b, Quote) = read
    BY QuotedSign
  <2>5. st \in States /\ b \in States
    BY EmptySeq, StateTyped
  <2> HIDE DEF special, inside, st, a, b, read
  <2>6. Reads(st, q, a)
    BY <2>2, <2>3, <2>5, ReadsOne
  <2>7. Reads(b, q, read)
    BY <2>2, <2>4, <2>5, ReadsOne
  <2> HIDE DEF q
  <2>8. Reads(st, q \o inside, b) /\ q \o inside \in Seq(Chars)
    BY <2>1, <2>2, <2>6, ReadsConcat, ConcatProperties
  <2>9. Reads(st, q \o inside \o q, read)
    BY <2>2, <2>7, <2>8, ReadsConcat
  <2>10. Reads(st, pad_field(s), IF TRUE THEN read ELSE EndField(read))
    BY <1>1, <1>2, <2>9
  <2> QED
    BY <2>10 DEF st, read
<1>3. CASE ~special
  <2>1. Reads(st, s, read)
    <3>1. \A i \in DOMAIN s : s[i] \notin Blank \cup {Quote, Backslash}
      BY <1>3
    <3> QED
      BY <3>1, PlainReads
  <2>2. k \in Nat
    <3>1. Len(s) \in Nat /\ Width \in Nat
      BY DEF ListFileAssumption
    <3> QED
      BY <3>1
  <2> HIDE DEF k, special, inside
  <2>3. Reads(read, Spaces(k), IF k = 0 THEN read ELSE EndField(read))
    BY <2>2, SpacesRead, Zenon
  <2>4. Spaces(k) \in Seq(Chars)
    BY <2>2, CharsAre, SpacesTyped
  <2> HIDE DEF st, read
  <2>5. Reads(st, s \o Spaces(k), IF k = 0 THEN read ELSE EndField(read))
    BY <2>1, <2>3, <2>4, ReadsConcat
  <2>6. \E field \in BOOLEAN : Reads(st, pad_field(s), IF field THEN read ELSE EndField(read))
    <3>1. Reads(st, pad_field(s), IF k = 0 THEN read ELSE EndField(read))
      BY <1>1, <1>3, <2>5
    <3>2. CASE k = 0
      <4>1. Reads(st, pad_field(s), IF TRUE THEN read ELSE EndField(read))
        BY <3>1, <3>2
      <4> QED
        BY <4>1
    <3>3. CASE k # 0
      <4>1. Reads(st, pad_field(s), IF FALSE THEN read ELSE EndField(read))
        BY <3>1, <3>3
      <4> QED
        BY <4>1
    <3> QED
      BY <3>2, <3>3
  <2> QED
    BY <2>6 DEF st, read
<1> QED
  BY <1>2, <1>3

\* Reading a field ends it, at the latest with the blanks after it.
LEMMA EndOfField ==
  ASSUME NEW cols, NEW s, NEW field \in BOOLEAN
  PROVE  LET read == State(cols, s, TRUE, "plain")
             end == State(Append(cols, s), <<>>, FALSE, "plain")
         IN  EndField(read) = end /\ EndField(end) = end
<1> DEFINE read == State(cols, s, TRUE, "plain")
           end == State(Append(cols, s), <<>>, FALSE, "plain")
<1>1. EndField(read) = end
  <2> DEFINE yes == TRUE
  <2>1. yes \in BOOLEAN
    OBVIOUS
  <2> HIDE DEF yes
  <2>2. EndField(State(cols, s, yes, "plain")) = IF ~yes THEN State(cols, s, yes, "plain") ELSE end
    BY <2>1, EndFieldIs, Zenon
  <2> QED
    BY <2>2 DEF yes
<1>2. EndField(end) = end
  <2> DEFINE more == Append(cols, s)
  <2> HIDE DEF more
  <2>1. EndField(State(more, <<>>, FALSE, "plain"))
          = IF ~FALSE THEN State(more, <<>>, FALSE, "plain") ELSE State(Append(more, <<>>), <<>>, FALSE, "plain")
    BY EndFieldIs, Zenon
  <2> QED
    BY <2>1 DEF more
<1> QED
  BY <1>1, <1>2

\* A field and the blanks after it.
LEMMA FieldReads ==
  ASSUME ListFileAssumption, NEW cols \in Seq(Seq(Chars)), NEW s \in Seq(Chars), s # <<>>
  PROVE  Reads(State(cols, <<>>, FALSE, "plain"), pad_field(s) \o Spaces(2),
               State(Append(cols, s), <<>>, FALSE, "plain"))
<1> DEFINE st == State(cols, <<>>, FALSE, "plain")
           read == State(cols, s, TRUE, "plain")
           end == State(Append(cols, s), <<>>, FALSE, "plain")
<1>1. PICK field \in BOOLEAN : Reads(st, pad_field(s), IF field THEN read ELSE EndField(read))
  BY PadReads
<1>2. EndField(read) = end /\ EndField(end) = end
  BY EndOfField
<1>3. Append(cols, s) \in Seq(Seq(Chars)) /\ <<>> \in Seq(Chars)
  BY AppendProperties
<1>4. Reads(read, Spaces(2), EndField(read)) /\ Reads(end, Spaces(2), EndField(end))
  <2>1. Reads(read, Spaces(2), IF 2 = 0 THEN read ELSE EndField(read))
    BY SpacesRead, Zenon
  <2>2. Reads(end, Spaces(2), IF 2 = 0 THEN end ELSE EndField(end))
    <3> DEFINE more == Append(cols, s)
    <3> HIDE DEF more
    <3>1. Reads(State(more, <<>>, FALSE, "plain"), Spaces(2),
                IF 2 = 0 THEN State(more, <<>>, FALSE, "plain") ELSE EndField(State(more, <<>>, FALSE, "plain")))
      BY <1>3, SpacesRead, Zenon DEF more
    <3> QED
      BY <3>1, Zenon DEF more
  <2>3. 2 # 0
    OBVIOUS
  <2> HIDE DEF read, end
  <2> QED
    BY <2>1, <2>2, <2>3
<1>5. pad_field(s) \in Seq(Chars) /\ Spaces(2) \in Seq(Chars)
  <2>1. {Quote, Backslash, Space} \subseteq Chars
    BY CharsAre
  <2> QED
    BY <2>1, PadTyped, SpacesTyped
<1> HIDE DEF st, read, end
<1>6. Reads(st, pad_field(s) \o Spaces(2), end)
  <2>1. CASE field
    <3>1. Reads(st, pad_field(s), read) /\ Reads(read, Spaces(2), end)
      BY <1>1, <1>2, <1>4, <2>1
    <3> QED
      BY <1>5, <3>1, ReadsConcat
  <2>2. CASE ~field
    <3>1. Reads(st, pad_field(s), end) /\ Reads(end, Spaces(2), end)
      BY <1>1, <1>2, <1>4, <2>2
    <3> QED
      BY <1>5, <3>1, ReadsConcat
  <2> QED
    BY <2>1, <2>2
<1> QED
  BY <1>6 DEF st, end

\* The text of a row of three fields.
RowText(a, b, c) == (pad_field(a) \o Spaces(2)) \o (pad_field(b) \o Spaces(2)) \o pad_field(c)

\* It is read back as these fields.
LEMMA RowReads ==
  ASSUME ListFileAssumption,
         NEW a \in Seq(Chars), NEW b \in Seq(Chars), NEW c \in Seq(Chars),
         a # <<>>, b # <<>>, c # <<>>
  PROVE  parse_row(RowText(a, b, c)) = <<a, b, c>>
<1> DEFINE from(cols) == State(cols, <<>>, FALSE, "plain")
           pa == pad_field(a) \o Spaces(2)
           pb == pad_field(b) \o Spaces(2)
           pc == pad_field(c)
           read == State(<<a, b>>, c, TRUE, "plain")
           line == RowText(a, b, c)
<1>1. pa \in Seq(Chars) /\ pb \in Seq(Chars) /\ pc \in Seq(Chars)
  <2>1. {Quote, Backslash, Space} \subseteq Chars /\ Space \in Chars
    BY CharsAre
  <2>2. pad_field(a) \in Seq(Chars) /\ pad_field(b) \in Seq(Chars) /\ pad_field(c) \in Seq(Chars)
    BY <2>1, PadTyped
  <2>3. Spaces(2) \in Seq(Chars)
    BY <2>1, SpacesTyped
  <2> QED
    BY <2>2, <2>3, ConcatProperties
<1>2. /\ <<>> \in Seq(Seq(Chars)) /\ <<a>> \in Seq(Seq(Chars)) /\ <<a, b>> \in Seq(Seq(Chars))
      /\ Append(<<>>, a) = <<a>> /\ Append(<<a>>, b) = <<a, b>> /\ Append(<<a, b>>, c) = <<a, b, c>>
  <2> DEFINE S == Seq(Chars)
  <2>1. a \in S /\ b \in S /\ c \in S
    OBVIOUS
  <2> HIDE DEF S
  <2>2. <<>> \in Seq(S) /\ <<a>> \in Seq(S) /\ <<a, b>> \in Seq(S)
    BY <2>1
  <2>3. Append(<<>>, a) = <<a>>
    <3>1. Append(<<>>, a) = <<>> \o <<a>> /\ <<a>> \in Seq(S)
      BY <2>1, <2>2, AppendIsConcat
    <3> QED
      BY <3>1, ConcatEmptySeq
  <2>4. Append(<<a>>, b) = <<a, b>>
    <3> DEFINE s == Append(<<a>>, b)
               t == <<a, b>>
    <3>1. s \in Seq(S) /\ Len(s) = 2 /\ s[1] = a /\ s[2] = b
      BY <2>1, <2>2, AppendProperties
    <3>2. t \in Seq(S) /\ Len(t) = 2 /\ t[1] = a /\ t[2] = b
      BY <2>1
    <3> HIDE DEF s, t
    <3>3. s = t
      BY <3>1, <3>2, SeqEqual
    <3> QED
      BY <3>3 DEF s, t
  <2>5. Append(<<a, b>>, c) = <<a, b, c>>
    <3> DEFINE s == Append(<<a, b>>, c)
               t == <<a, b, c>>
    <3>1. s \in Seq(S) /\ Len(s) = 3 /\ s[1] = a /\ s[2] = b /\ s[3] = c
      BY <2>1, <2>2, AppendProperties
    <3>2. t \in Seq(S) /\ Len(t) = 3 /\ t[1] = a /\ t[2] = b /\ t[3] = c
      BY <2>1
    <3> HIDE DEF s, t
    <3>3. s = t
      BY <3>1, <3>2, SeqEqual
    <3> QED
      BY <3>3 DEF s, t
  <2> QED
    BY <2>2, <2>3, <2>4, <2>5 DEF S
<1>3. Reads(from(<<>>), pa, from(<<a>>))
  BY <1>2, FieldReads
<1>4. Reads(from(<<a>>), pb, from(<<a, b>>))
  BY <1>2, FieldReads
<1>5. PICK field \in BOOLEAN : Reads(from(<<a, b>>), pc, IF field THEN read ELSE EndField(read))
  BY <1>2, PadReads
<1>6. EndField(read) = from(<<a, b, c>>) /\ EndField(from(<<a, b, c>>)) = from(<<a, b, c>>)
  BY <1>2, EndOfField
<1>7. Start = from(<<>>) /\ read.mode = "plain" /\ from(<<a, b, c>>).mode = "plain" /\ from(<<a, b, c>>).cols = <<a, b, c>>
  BY DEF Start, State
<1>8. line = pa \o pb \o pc
  BY DEF RowText
<1> HIDE DEF from, pa, pb, pc, read, line
<1>9. Reads(Start, pa \o pb, from(<<a, b>>)) /\ pa \o pb \in Seq(Chars)
  BY <1>1, <1>3, <1>4, <1>7, ReadsConcat, ConcatProperties
<1> DEFINE last == IF field THEN read ELSE from(<<a, b, c>>)
<1>10. Reads(Start, line, last) /\ line \in Seq(Chars)
  <2>1. Reads(from(<<a, b>>), pc, last)
    BY <1>5, <1>6
  <2> HIDE DEF last
  <2> QED
    BY <1>1, <1>8, <1>9, <2>1, ReadsConcat, ConcatProperties
<1>11. last.mode = "plain" /\ EndField(last) = from(<<a, b, c>>)
  BY <1>6, <1>7
<1> HIDE DEF last
<1>12. Parse(line)[Len(line)] = last
  BY <1>10, ParseIs
<1>13. parse_row(line) = EndField(last).cols
  BY <1>11, <1>12 DEF parse_row
<1> QED
  BY <1>7, <1>11, <1>13 DEF line

-----------------------------------------------------------------------------------
(* The rows of a tree. *)

Entries(C) == {e \in Seq(Seq(C)) : e # <<>> /\ \A i \in 1..Len(e) : e[i] # <<>>}

Row(e) == RowText(RowOf(e)[1], RowOf(e)[2], RowOf(e)[3])
Line(e) == Row(e) \o <<Newline>>

LEMMA PathTyped ==
  ASSUME NEW C, Slash \in C, NEW e \in Seq(Seq(C))
  PROVE  PathOf(e) \in Seq(C) /\ PathOf(e) # <<>>
<1> DEFINE n == Len(e)
           pieces == [i \in DOMAIN e |-> <<Slash>> \o e[i]]
<1>1. n \in Nat /\ DOMAIN e = 1..n /\ \A i \in 1..n : e[i] \in Seq(C)
  OBVIOUS
<1>2. CASE e = <<>>
  <2>1. PathOf(e) = <<Slash>>
    BY <1>2 DEF PathOf
  <2> QED
    BY <2>1
<1>3. CASE e # <<>>
  <2>1. n > 0
    BY <1>3, EmptySeq
  <2>2. ASSUME NEW i \in 1..n
        PROVE  <<Slash>> \o e[i] \in Seq(C) /\ Len(<<Slash>> \o e[i]) > 0
    <3>1. <<Slash>> \in Seq(C) /\ Len(<<Slash>>) = 1 /\ e[i] \in Seq(C) /\ Len(e[i]) \in Nat
      BY <1>1
    <3>2. <<Slash>> \o e[i] \in Seq(C) /\ Len(<<Slash>> \o e[i]) = 1 + Len(e[i])
      BY <3>1, ConcatProperties
    <3> QED
      BY <3>1, <3>2
  <2>3. PathOf(e) = FlattenSeq(pieces)
    BY <1>3 DEF PathOf, Join
  <2>4. pieces \in [1..n -> Seq(C)] /\ \A i \in 1..n : Len(pieces[i]) > 0
    BY <1>1, <2>2
  <2> HIDE DEF pieces, n
  <2>5. pieces \in Seq(Seq(C)) /\ Len(pieces) = n
    <3> DEFINE S == Seq(C)
    <3>1. pieces \in [1..n -> S]
      BY <2>4
    <3> HIDE DEF S
    <3>2. pieces \in Seq(S) /\ Len(pieces) = n
      BY <1>1, <3>1, FunctionIsSequence
    <3> QED
      BY <3>2 DEF S
  <2>6. PICK f \in [0..n -> Seq(C)] :
          /\ f[0] = <<>> /\ FlattenSeq(pieces) = f[n]
          /\ \A i \in 1..n : f[i] = f[i - 1] \o pieces[i]
    BY <2>5, FlattenGrows
  <2>7. f[n] \in Seq(C) /\ f[n - 1] \in Seq(C) /\ pieces[n] \in Seq(C) /\ n \in 1..n
    BY <1>1, <2>1, <2>4, <2>6
  <2>8. f[n] = f[n - 1] \o pieces[n] /\ Len(pieces[n]) > 0
    BY <2>4, <2>6, <2>7
  <2>9. Len(f[n]) = Len(f[n - 1]) + Len(pieces[n]) /\ Len(f[n - 1]) \in Nat
    BY <2>7, <2>8, ConcatProperties
  <2>10. f[n] # <<>>
    <3> DEFINE x == f[n]
               y == f[n - 1]
               z == pieces[n]
    <3>1. Len(x) = Len(y) + Len(z) /\ Len(y) \in Nat /\ Len(z) > 0 /\ z \in Seq(C)
      BY <2>7, <2>8, <2>9
    <3> HIDE DEF x, y, z
    <3>2. Len(x) > 0
      BY <3>1
    <3>3. x # <<>>
      BY <3>2
    <3> QED
      BY <3>3 DEF x
  <2> QED
    BY <2>3, <2>6, <2>7, <2>10
<1> QED
  BY <1>2, <1>3

LEMMA RowTyped ==
  ASSUME NEW C, Slash \in C, NEW e \in Entries(C)
  PROVE  /\ RowOf(e)[1] \in Seq(C) /\ RowOf(e)[2] \in Seq(C) /\ RowOf(e)[3] \in Seq(C)
         /\ RowOf(e)[1] # <<>> /\ RowOf(e)[2] # <<>> /\ RowOf(e)[3] # <<>>
<1>1. e \in Seq(Seq(C)) /\ e # <<>> /\ \A i \in 1..Len(e) : e[i] # <<>>
  BY DEF Entries
<1>2. Len(e) \in 1..Len(e) /\ Len(e) \in Nat
  BY <1>1, EmptySeq
<1>3. Dir(e) \in Seq(Seq(C))
  <2> DEFINE S == Seq(C)
  <2>1. e \in Seq(S)
    BY <1>1
  <2> HIDE DEF S
  <2>2. Len(e) - 1 \in Int /\ \A i \in 1..(Len(e) - 1) : e[i] \in S
    BY <1>2, <2>1
  <2>3. Dir(e) \in Seq(S)
    BY <2>2, SubSeqProperties DEF Dir, Front
  <2> QED
    BY <2>3 DEF S
<1>4. Last(e) \in Seq(C) /\ Last(e) # <<>>
  BY <1>1, <1>2 DEF Last
<1>5. PathOf(Dir(e)) \in Seq(C) /\ PathOf(Dir(e)) # <<>> /\ PathOf(e) \in Seq(C) /\ PathOf(e) # <<>>
  BY <1>1, <1>3, PathTyped
<1>6. RowOf(e)[1] = PathOf(Dir(e)) /\ RowOf(e)[2] = Last(e) /\ RowOf(e)[3] = PathOf(e)
  BY DEF RowOf
<1> QED
  BY <1>4, <1>5, <1>6

\* The row of an entry is made of the characters of its names and of the format.
LEMMA RowMadeOf ==
  ASSUME NEW C, {Slash, Quote, Backslash, Space} \subseteq C, NEW e \in Entries(C),
         ListFileAssumption
  PROVE  Row(e) \in Seq(C)
<1> DEFINE a == RowOf(e)[1]  b == RowOf(e)[2]  c == RowOf(e)[3]
<1>1. a \in Seq(C) /\ b \in Seq(C) /\ c \in Seq(C)
  <2>1. Slash \in C
    OBVIOUS
  <2> QED
    BY <2>1, RowTyped
<1> HIDE DEF a, b, c
<1>2. pad_field(a) \in Seq(C) /\ pad_field(b) \in Seq(C) /\ pad_field(c) \in Seq(C)
  <2>1. {Quote, Backslash, Space} \subseteq C
    OBVIOUS
  <2> QED
    BY <1>1, <2>1, PadTyped
<1>3. Spaces(2) \in Seq(C)
  <2>1. Space \in C
    OBVIOUS
  <2> QED
    BY <2>1, SpacesTyped
<1>4. pad_field(a) \o Spaces(2) \in Seq(C) /\ pad_field(b) \o Spaces(2) \in Seq(C)
  BY <1>2, <1>3, ConcatProperties
<1>5. (pad_field(a) \o Spaces(2)) \o (pad_field(b) \o Spaces(2)) \in Seq(C)
  BY <1>4, ConcatProperties
<1>6. RowText(a, b, c) \in Seq(C)
  BY <1>2, <1>5, ConcatProperties DEF RowText
<1> QED
  BY <1>6 DEF Row, a, b, c

LEMMA RowIsRead ==
  ASSUME NEW e \in Entries(Chars), ListFileAssumption
  PROVE  /\ Row(e) \in Seq(Chars) /\ parse_row(Row(e)) = RowOf(e)
         /\ Line(e) \in Seq(Chars) /\ Len(Line(e)) = Len(Row(e)) + 1 /\ Len(Row(e)) \in Nat
         /\ \A i \in 1..Len(Row(e)) : Line(e)[i] = Row(e)[i]
         /\ Line(e)[Len(Row(e)) + 1] = Newline
<1>1. Row(e) \in Seq(Chars) /\ <<Newline>> \in Seq(Chars) /\ Len(<<Newline>>) = 1 /\ <<Newline>>[1] = Newline
  BY CharsAre, RowMadeOf
<1>2. parse_row(Row(e)) = RowOf(e)
  <2> DEFINE a == RowOf(e)[1]  b == RowOf(e)[2]  c == RowOf(e)[3]
  <2>1. a \in Seq(Chars) /\ b \in Seq(Chars) /\ c \in Seq(Chars) /\ a # <<>> /\ b # <<>> /\ c # <<>>
    BY CharsAre, RowTyped
  <2>2. RowOf(e) = <<a, b, c>>
    BY DEF RowOf
  <2> HIDE DEF a, b, c
  <2>3. parse_row(RowText(a, b, c)) = <<a, b, c>>
    BY <2>1, RowReads
  <2> QED
    BY <2>2, <2>3 DEF Row, a, b, c
<1> DEFINE s == Row(e)
           t == <<Newline>>
<1>3. /\ s \o t \in Seq(Chars) /\ Len(s \o t) = Len(s) + Len(t) /\ Len(s) \in Nat
      /\ \A i \in 1..(Len(s) + Len(t)) : (s \o t)[i] = IF i <= Len(s) THEN s[i] ELSE t[i - Len(s)]
  <2> HIDE DEF s, t
  <2> QED
    BY <1>1, ConcatProperties DEF s, t
<1>4. \A i \in 1..Len(s) : (s \o t)[i] = s[i]
  <2> HIDE DEF s, t
  <2> QED
    BY <1>1, <1>3 DEF t
<1>5. (s \o t)[Len(s) + 1] = Newline
  <2> HIDE DEF s
  <2>1. Len(s) + 1 \in 1..(Len(s) + Len(t)) /\ ~(Len(s) + 1 <= Len(s)) /\ (Len(s) + 1) - Len(s) = 1
    BY <1>1, <1>3
  <2> QED
    BY <1>1, <1>3, <2>1
<1> QED
  BY <1>1, <1>2, <1>3, <1>4, <1>5 DEF Line

\* The row of an entry without newlines is a line of its own.
LEMMA RowHasNoNewline ==
  ASSUME NEW e \in Entries(Chars), ~HasNewline(e), ListFileAssumption, NEW i \in 1..Len(Row(e))
  PROVE  Row(e)[i] # Newline
<1> DEFINE C == Chars \ {Newline}
<1>1. e \in Seq(Seq(Chars)) /\ e # <<>> /\ \A j \in 1..Len(e) : e[j] # <<>>
  BY DEF Entries
<1>2. Len(e) \in Nat /\ DOMAIN e = 1..Len(e) /\ \A j \in 1..Len(e) : e[j] \in Seq(Chars)
  BY <1>1
<1>3. ASSUME NEW j \in 1..Len(e) PROVE e[j] \in Seq(C)
  <2> DEFINE s == e[j]
  <2>1. s \in Seq(Chars) /\ ~Contains(s, Newline)
    BY <1>2 DEF HasNewline
  <2> HIDE DEF s
  <2>2. \A k \in 1..Len(s) : s[k] \in C
    BY <2>1 DEF Contains
  <2>3. Len(s) \in Nat /\ s \in [1..Len(s) -> Chars]
    BY <2>1
  <2> HIDE DEF C
  <2>4. s \in [1..Len(s) -> C]
    BY <2>2, <2>3
  <2>5. s \in Seq(C)
    BY <2>3, <2>4, FunctionIsSequence
  <2> QED
    BY <2>5 DEF s
<1> HIDE DEF C
<1>4. e \in Seq(Seq(C))
  <2> DEFINE S == Seq(C)
             n == Len(e)
  <2>1. e \in [1..n -> Seq(Chars)] /\ n \in Nat
    BY <1>1
  <2>2. \A j \in 1..n : e[j] \in S
    BY <1>3
  <2> HIDE DEF S, n
  <2>3. e \in [1..n -> S]
    BY <2>1, <2>2
  <2>4. e \in Seq(S)
    BY <2>1, <2>3, FunctionIsSequence
  <2> QED
    BY <2>4 DEF S
<1>5. e \in Entries(C)
  BY <1>1, <1>4 DEF Entries
<1>6. {Slash, Quote, Backslash, Space} \subseteq C
  BY CharsAre DEF C
<1>7. Row(e) \in Seq(C)
  BY <1>5, <1>6, RowMadeOf
<1> DEFINE r == Row(e)
<1> HIDE DEF r
<1>8. r \in Seq(C) /\ i \in 1..Len(r)
  BY <1>7 DEF r
<1>9. r[i] \in C
  BY <1>8
<1> QED
  BY <1>9 DEF C, r

-----------------------------------------------------------------------------------
(* The writer. *)

\* In the form in which a prover that does not look into sequences can use it.
LEMMA Regroup == \A s, t, u \in Seq(Chars) : (s \o t) \o u = s \o (t \o u)
<1> SUFFICES ASSUME NEW s \in Seq(Chars), NEW t \in Seq(Chars), NEW u \in Seq(Chars)
             PROVE  (s \o t) \o u = s \o (t \o u)
  OBVIOUS
<1> DEFINE S == Chars
<1>1. s \in Seq(S) /\ t \in Seq(S) /\ u \in Seq(S)
  OBVIOUS
<1> HIDE DEF S
<1> QED
  BY <1>1, ConcatAssociative

Writers == [text : Seq(Chars), buf : Seq(Chars), room : Nat, ok : BOOLEAN]

\* What it was given and kept; and a writer that will not get rid of it.
All(st) == st.text \o st.buf
Stuck(st) == st.room = 0 /\ st.buf # <<>>

LEMMA FlushMoves ==
  ASSUME NEW st \in Writers
  PROVE  /\ Flush(st) \in Writers /\ All(Flush(st)) = All(st)
         /\ Flush(st).room <= st.room /\ Len(Flush(st).buf) <= Len(st.buf)
         /\ Flush(st).ok => Flush(st).buf = <<>> /\ Flush(st).text = All(st)
         /\ ~Flush(st).ok => Stuck(Flush(st))
         /\ Stuck(st) => ~Flush(st).ok
<1> DEFINE b == st.buf
           t == st.text
           n == IF Len(st.buf) <= st.room THEN Len(st.buf) ELSE st.room
           out == SubSeq(b, 1, n)
           kept == SubSeq(b, n + 1, Len(b))
           end == Flush(st)
<1>1. b \in Seq(Chars) /\ t \in Seq(Chars) /\ Len(b) \in Nat /\ st.room \in Nat
  BY DEF Writers
<1>2. /\ n \in Nat /\ n <= Len(b) /\ n <= st.room
      /\ n # Len(b) => n = st.room /\ n < Len(b)
      /\ st.room = 0 => n = 0
  BY <1>1
<1>3. /\ end.text = t \o out /\ end.buf = kept /\ end.room = st.room - n /\ end.ok = (n = Len(b))
      /\ end = [text |-> end.text, buf |-> end.buf, room |-> end.room, ok |-> end.ok]
  BY DEF Flush
<1> HIDE DEF n, end
<1>4. out \in Seq(Chars) /\ kept \in Seq(Chars) /\ Len(kept) = Len(b) - n /\ out \o kept = b
  <2> HIDE DEF b
  <2>1. (\A i \in 1..n : b[i] \in Chars) /\ (\A i \in (n + 1)..Len(b) : b[i] \in Chars)
    BY <1>1, <1>2
  <2>2. out \in Seq(Chars)
    BY <1>2, <2>1, SubSeqProperties
  <2>3. kept \in Seq(Chars) /\ Len(kept) = Len(b) - n
    <3>1. n + 1 \in Int /\ Len(b) \in Int
      BY <1>1, <1>2
    <3>2. kept \in Seq(Chars) /\ Len(kept) = IF n + 1 <= Len(b) THEN Len(b) - (n + 1) + 1 ELSE 0
      BY <2>1, <3>1, SubSeqProperties
    <3> HIDE DEF kept
    <3> QED
      BY <1>1, <1>2, <3>2
  <2>4. out \o kept = SubSeq(b, 1, Len(b))
    <3>1. 1 \in 1..(Len(b) + 1) /\ n \in (1 - 1)..Len(b) /\ Len(b) \in n..Len(b)
      BY <1>1, <1>2
    <3> QED
      BY <1>1, <3>1, ConcatAdjacentSubSeq
  <2> QED
    BY <1>1, <2>2, <2>3, <2>4, SubSeqFull
<1> HIDE DEF b, t, out, kept
<1>5. t \o out \in Seq(Chars) /\ (t \o out) \o kept = t \o b
  <2>1. t \o out \in Seq(Chars)
    BY <1>1, <1>4, ConcatProperties
  <2>2. (t \o out) \o kept = t \o (out \o kept)
    BY <1>1, <1>4, Regroup, Zenon
  <2> QED
    BY <1>4, <2>1, <2>2, Zenon
<1>6. All(end) = All(st)
  BY <1>3, <1>5 DEF All, b, t
<1>7. st.room - n \in Nat /\ st.room - n <= st.room /\ Len(kept) <= Len(b)
  BY <1>1, <1>2, <1>4
<1>8. end \in Writers
  <2>1. end.text \in Seq(Chars) /\ end.buf \in Seq(Chars) /\ end.room \in Nat /\ end.ok \in BOOLEAN
    BY <1>3, <1>4, <1>5, <1>7
  <2> QED
    BY <1>3, <2>1 DEF Writers
<1>9. ASSUME end.ok PROVE end.buf = <<>> /\ end.text = All(st)
  <2>1. n = Len(b) /\ Len(kept) = 0
    <3>1. n = Len(b)
      BY <1>3, <1>9, Zenon
    <3> DEFINE k == Len(kept)
    <3>2. k = Len(b) - n
      BY <1>4
    <3> HIDE DEF k
    <3>3. k = 0
      BY <1>1, <3>1, <3>2
    <3> QED
      BY <3>1, <3>3 DEF k
  <2>2. kept = <<>>
    BY <1>4, <2>1, EmptySeq
  <2>3. (t \o out) \o <<>> = t \o out
    BY <1>5, ConcatEmptySeq
  <2> QED
    BY <1>3, <1>5, <2>2, <2>3 DEF All, b, t
<1>10. ASSUME ~end.ok PROVE Stuck(end)
  <2>1. n = st.room /\ n < Len(b)
    BY <1>2, <1>3, <1>10
  <2>2. Len(kept) > 0 /\ end.room = 0
    BY <1>1, <1>2, <1>3, <1>4, <2>1
  <2>3. kept # <<>>
    BY <2>2
  <2> QED
    BY <1>3, <2>2, <2>3 DEF Stuck
<1>11. ASSUME Stuck(st) PROVE ~end.ok
  <2>1. n = 0 /\ Len(b) # 0
    BY <1>1, <1>2, <1>11, EmptySeq DEF Stuck, b
  <2> QED
    BY <1>3, <2>1
<1>12. end.room <= st.room /\ Len(end.buf) <= Len(st.buf)
  BY <1>3, <1>7 DEF b
<1> QED
  BY <1>6, <1>8, <1>9, <1>10, <1>11, <1>12 DEF end

\* How far a writer is that has been given a text, or part of it.
Progress(st, from, done) ==
  /\ st \in Writers /\ Len(st.buf) <= Capacity /\ st.room <= from.room
  /\ Stuck(from) => Stuck(st)
  /\ IF st.ok THEN All(st) = All(from) \o done ELSE Stuck(st)

LEMMA PieceWritten ==
  ASSUME ListFileAssumption, NEW from \in Writers, NEW st, NEW done \in Seq(Chars),
         NEW p \in Seq(Chars), Progress(st, from, done), Len(p) < Capacity
  PROVE  Progress(WritePiece(st, p), from, done \o p)
<1> DEFINE ready == IF Len(st.buf) + Len(p) > Capacity THEN Flush(st) ELSE st
           end == WritePiece(st, p)
<1>1. /\ st \in Writers /\ Len(st.buf) <= Capacity /\ st.room <= from.room
      /\ Stuck(from) => Stuck(st)
      /\ st.ok => All(st) = All(from) \o done
      /\ ~st.ok => Stuck(st)
  BY DEF Progress
<1>2. /\ st.buf \in Seq(Chars) /\ st.text \in Seq(Chars) /\ st.room \in Nat
      /\ from.room \in Nat /\ All(from) \in Seq(Chars) /\ Capacity \in Nat
  <2>1. from.text \in Seq(Chars) /\ from.buf \in Seq(Chars) /\ from.room \in Nat
    BY DEF Writers
  <2>2. All(from) \in Seq(Chars)
    BY <2>1, ConcatProperties DEF All
  <2>3. st.buf \in Seq(Chars) /\ st.text \in Seq(Chars) /\ st.room \in Nat
    BY <1>1 DEF Writers
  <2> QED
    BY <2>1, <2>2, <2>3 DEF ListFileAssumption
<1>3. end = IF st.ok /\ ready.ok THEN [ready EXCEPT !.buf = ready.buf \o p]
            ELSE IF st.ok THEN ready ELSE st
  BY DEF WritePiece
<1>4. CASE ~st.ok
  <2>1. end = st
    BY <1>3, <1>4
  <2> QED
    BY <1>1, <1>4, <2>1 DEF Progress
<1>5. /\ ready \in Writers /\ ready.room <= st.room /\ All(ready) = All(st)
      /\ Len(ready.buf) <= Capacity /\ Len(ready.buf) \in Nat /\ ready.room \in Nat
      /\ ready.ok => Len(ready.buf) + Len(p) <= Capacity
      /\ st.ok /\ ~ready.ok => Stuck(ready)
      /\ Stuck(st) /\ ready.ok => Stuck(ready)
  <2>1. Len(p) \in Nat /\ Len(st.buf) \in Nat
    BY <1>2
  <2>2. CASE Len(st.buf) + Len(p) > Capacity
    <3>1. ready = Flush(st)
      BY <2>2
    <3>2. /\ ready \in Writers /\ All(ready) = All(st)
          /\ ready.room <= st.room /\ Len(ready.buf) <= Len(st.buf)
          /\ ready.ok => ready.buf = <<>>
          /\ ~ready.ok => Stuck(ready)
          /\ Stuck(st) => ~ready.ok
      BY <1>1, <3>1, FlushMoves
    <3> HIDE DEF ready
    <3>3. Len(ready.buf) \in Nat /\ ready.room \in Nat /\ (ready.ok => Len(ready.buf) = 0)
      BY <3>2 DEF Writers
    <3> QED
      BY <1>1, <1>2, <2>1, <3>2, <3>3
  <2>3. CASE ~(Len(st.buf) + Len(p) > Capacity)
    <3>1. ready = st
      BY <2>3
    <3> HIDE DEF ready
    <3> QED
      BY <1>1, <1>2, <2>1, <2>3, <3>1
  <2> QED
    BY <2>2, <2>3
<1> HIDE DEF ready, end
<1>6. CASE st.ok /\ ~ready.ok
  <2>1. end = ready
    BY <1>3, <1>6
  <2> QED
    BY <1>1, <1>2, <1>5, <1>6, <2>1 DEF Progress, end
<1>7. CASE st.ok /\ ready.ok
  <2> DEFINE more == ready.buf \o p
  <2>1. /\ ready.buf \in Seq(Chars) /\ ready.text \in Seq(Chars) /\ ready.room \in Nat
        /\ ready.ok \in BOOLEAN
    BY <1>5 DEF Writers
  <2>2. more \in Seq(Chars) /\ Len(more) = Len(ready.buf) + Len(p)
    BY <2>1, ConcatProperties
  <2>3. end = [ready EXCEPT !.buf = more]
    BY <1>3, <1>7
  <2>4. end \in Writers /\ end.buf = more /\ end.text = ready.text /\ end.room = ready.room /\ end.ok
    <3> HIDE DEF more
    <3> QED
      BY <1>5, <1>7, <2>2, <2>3 DEF Writers
  <2>5. All(end) = All(from) \o (done \o p)
    <3>1. All(end) = ready.text \o (ready.buf \o p)
      BY <2>4 DEF All
    <3>2. ready.text \o (ready.buf \o p) = All(ready) \o p
      <4> DEFINE t == ready.text
                 b == ready.buf
      <4>1. t \in Seq(Chars) /\ b \in Seq(Chars)
        BY <2>1
      <4> HIDE DEF t, b
      <4>2. (t \o b) \o p = t \o (b \o p)
        BY <4>1, Regroup, Zenon
      <4> QED
        BY <4>2 DEF All, t, b
    <3>3. All(ready) \o p = (All(from) \o done) \o p
      BY <1>1, <1>5, <1>7
    <3>4. (All(from) \o done) \o p = All(from) \o (done \o p)
      <4> DEFINE a == All(from)
      <4>1. a \in Seq(Chars)
        BY <1>2
      <4> HIDE DEF a
      <4>2. (a \o done) \o p = a \o (done \o p)
        BY <4>1, Regroup, Zenon
      <4> QED
        BY <4>2 DEF a
    <3> QED
      BY <3>1, <3>2, <3>3, <3>4, Zenon
  <2>6. Len(end.buf) <= Capacity /\ end.room <= from.room
    BY <1>1, <1>2, <1>5, <1>7, <2>2, <2>4
  <2>7. Stuck(ready) => Stuck(end)
    <3>1. ready.buf # <<>> => more # <<>>
      BY <2>1, ConcatSimplifications, <2>2, EmptySeq
    <3> HIDE DEF more
    <3> QED
      BY <2>4, <3>1 DEF Stuck
  <2>8. Stuck(from) => Stuck(end)
    BY <1>1, <1>5, <1>7, <2>7
  <2> QED
    BY <2>4, <2>5, <2>6, <2>8 DEF Progress, end
<1> QED
  BY <1>4, <1>6, <1>7

\* The recursion over the pieces goes piece by piece.
LEMMA WriteRowStates ==
  ASSUME NEW from, NEW pieces, Len(pieces) = 6
  PROVE  LET after == WriteRow(from, pieces) IN
           after[0] = from /\ \A i \in 1..6 : after[i] = WritePiece(after[i - 1], pieces[i])
<1> DEFINE s1 == WritePiece(from, pieces[1])
           s2 == WritePiece(s1, pieces[2])
           s3 == WritePiece(s2, pieces[3])
           s4 == WritePiece(s3, pieces[4])
           s5 == WritePiece(s4, pieces[5])
           s6 == WritePiece(s5, pieces[6])
           f == [i \in 0..6 |-> CASE i = 0 -> from [] i = 1 -> s1 [] i = 2 -> s2 [] i = 3 -> s3
                                  [] i = 4 -> s4 [] i = 5 -> s5 [] i = 6 -> s6]
           IsRun(g) == g = [i \in 0..6 |-> IF i = 0 THEN from ELSE WritePiece(g[i - 1], pieces[i])]
<1>1. IsRun(f)
  <2>1. /\ s1 = WritePiece(from, pieces[1]) /\ s2 = WritePiece(s1, pieces[2])
        /\ s3 = WritePiece(s2, pieces[3]) /\ s4 = WritePiece(s3, pieces[4])
        /\ s5 = WritePiece(s4, pieces[5]) /\ s6 = WritePiece(s5, pieces[6])
    BY Zenon
  <2> HIDE DEF s1, s2, s3, s4, s5, s6
  <2>2. /\ f[0] = from /\ f[1] = s1 /\ f[2] = s2 /\ f[3] = s3 /\ f[4] = s4 /\ f[5] = s5 /\ f[6] = s6
    OBVIOUS
  <2>3. f = [i \in 0..6 |-> f[i]]
    OBVIOUS
  <2> HIDE DEF f
  <2>4. ASSUME NEW i \in 0..6
        PROVE  f[i] = IF i = 0 THEN from ELSE WritePiece(f[i - 1], pieces[i])
    <3>1. i = 0 \/ i = 1 \/ i = 2 \/ i = 3 \/ i = 4 \/ i = 5 \/ i = 6
      OBVIOUS
    <3>2. CASE i = 0
      BY <2>2, <3>2
    <3>3. CASE i = 1
      BY <2>1, <2>2, <3>3
    <3>4. CASE i = 2
      BY <2>1, <2>2, <3>4
    <3>5. CASE i = 3
      BY <2>1, <2>2, <3>5
    <3>6. CASE i = 4
      BY <2>1, <2>2, <3>6
    <3>7. CASE i = 5
      BY <2>1, <2>2, <3>7
    <3>8. CASE i = 6
      BY <2>1, <2>2, <3>8
    <3> QED
      BY <3>1, <3>2, <3>3, <3>4, <3>5, <3>6, <3>7, <3>8, Zenon
  <2> DEFINE step(i) == IF i = 0 THEN from ELSE WritePiece(f[i - 1], pieces[i])
  <2>5. \A i \in 0..6 : f[i] = step(i)
    BY <2>4, Zenon
  <2> HIDE DEF step
  <2>6. f = [i \in 0..6 |-> step(i)]
    BY <2>3, <2>5, Zenon
  <2> QED
    BY <2>6 DEF step
<1> DEFINE G == CHOOSE g : IsRun(g)
<1>2. IsRun(G)
  <2> HIDE DEF IsRun, f
  <2> QED
    BY <1>1, Zenon
<1>3. WriteRow(from, pieces) = G
  <2>1. WriteRow(from, pieces)
          = CHOOSE g : g = [i \in 0..Len(pieces) |-> IF i = 0 THEN from ELSE WritePiece(g[i - 1], pieces[i])]
    BY Zenon DEF WriteRow
  <2> QED
    BY <2>1, Zenon
<1> HIDE DEF G, f, s1, s2, s3, s4, s5, s6
<1>4. G[0] = from
  BY <1>2
<1>5. ASSUME NEW i \in 1..6 PROVE G[i] = WritePiece(G[i - 1], pieces[i])
  <2>1. i \in 0..6 /\ i # 0
    OBVIOUS
  <2>2. G[i] = IF i = 0 THEN from ELSE WritePiece(G[i - 1], pieces[i])
    BY <1>2, <2>1
  <2> QED
    BY <2>1, <2>2, Zenon
<1> QED
  BY <1>3, <1>4, <1>5, Zenon

\* A row is written as a whole, or the writer is stuck.
LEMMA RowWritten ==
  ASSUME ListFileAssumption, NEW entries \in Trees, NEW e \in entries, e \in Entries(Chars),
         NEW from \in Writers, from.ok, Len(from.buf) <= Capacity
  PROVE  LET end == WriteRow(from, Pieces(e))[6] IN
           /\ end \in Writers /\ Len(end.buf) <= Capacity /\ end.room <= from.room
           /\ Stuck(from) => Stuck(end)
           /\ Stuck(end) \/ All(end) = All(from) \o Line(e)
<1> DEFINE p == Pieces(e)
           after == WriteRow(from, p)
           p1 == pad_field(RowOf(e)[1])
           p3 == pad_field(RowOf(e)[2])
           p5 == pad_field(RowOf(e)[3])
           sp == Spaces(2)
           nl == <<Newline>>
<1>1. /\ Len(p) = 6 /\ p[1] = p1 /\ p[2] = sp /\ p[3] = p3 /\ p[4] = sp /\ p[5] = p5 /\ p[6] = nl
  BY DEF Pieces
<1>2. p1 \in Seq(Chars) /\ p3 \in Seq(Chars) /\ p5 \in Seq(Chars) /\ sp \in Seq(Chars) /\ nl \in Seq(Chars)
  <2>1. {Quote, Backslash, Space} \subseteq Chars /\ Slash \in Chars /\ Newline \in Chars
    BY CharsAre
  <2>2. RowOf(e)[1] \in Seq(Chars) /\ RowOf(e)[2] \in Seq(Chars) /\ RowOf(e)[3] \in Seq(Chars)
    BY <2>1, RowTyped
  <2>3. sp \in Seq(Chars)
    BY <2>1, SpacesTyped
  <2> DEFINE a == RowOf(e)[1]  b == RowOf(e)[2]  c == RowOf(e)[3]
  <2>4. a \in Seq(Chars) /\ b \in Seq(Chars) /\ c \in Seq(Chars)
    BY <2>2
  <2> HIDE DEF a, b, c
  <2>5. pad_field(a) \in Seq(Chars) /\ pad_field(b) \in Seq(Chars) /\ pad_field(c) \in Seq(Chars)
    BY <2>1, <2>4, PadTyped
  <2>6. nl \in Seq(Chars)
    BY <2>1
  <2> QED
    BY <2>3, <2>5, <2>6 DEF a, b, c
<1>3. \A i \in 1..6 : Len(p[i]) < Capacity
  BY DEF ListFileAssumption
<1>4. after[0] = from /\ \A i \in 1..6 : after[i] = WritePiece(after[i - 1], p[i])
  <2> HIDE DEF p
  <2> QED
    BY <1>1, WriteRowStates
<1>5. Line(e) = (((p1 \o sp) \o (p3 \o sp)) \o p5) \o nl
  BY DEF Line, Row, RowText
<1> HIDE DEF p, after, p1, p3, p5, sp, nl
<1>6. Progress(after[0], from, <<>>)
  <2>1. All(from) \in Seq(Chars)
    <3>1. from.text \in Seq(Chars) /\ from.buf \in Seq(Chars)
      BY DEF Writers
    <3> QED
      BY <3>1, ConcatProperties DEF All
  <2>2. All(from) \o <<>> = All(from)
    BY <2>1, ConcatEmptySeq
  <2>3. from.room <= from.room
    BY DEF Writers
  <2> QED
    BY <1>4, <2>2, <2>3 DEF Progress
<1> DEFINE d1 == <<>> \o p1
           d2 == d1 \o sp
           d3 == d2 \o p3
           d4 == d3 \o sp
           d5 == d4 \o p5
           d6 == d5 \o nl
<1>7. /\ d1 \in Seq(Chars) /\ d2 \in Seq(Chars) /\ d3 \in Seq(Chars) /\ d4 \in Seq(Chars)
      /\ d5 \in Seq(Chars) /\ <<>> \in Seq(Chars)
  BY <1>2, ConcatProperties
<1>8. d6 = Line(e)
  <2>1. d1 = p1
    BY <1>2, ConcatEmptySeq
  <2>2. (d2 \o p3) \o sp = d2 \o (p3 \o sp)
    <3>1. d2 \in Seq(Chars) /\ p3 \in Seq(Chars) /\ sp \in Seq(Chars)
      BY <1>2, <1>7
    <3> HIDE DEF d2
    <3> QED
      BY <3>1, Regroup, Zenon
  <2> QED
    BY <1>5, <2>1, <2>2, Zenon
<1>9. /\ after[1] = WritePiece(after[0], p1) /\ after[2] = WritePiece(after[1], sp)
      /\ after[3] = WritePiece(after[2], p3) /\ after[4] = WritePiece(after[3], sp)
      /\ after[5] = WritePiece(after[4], p5) /\ after[6] = WritePiece(after[5], nl)
  <2>1. ASSUME NEW i \in 0..5 PROVE after[i + 1] = WritePiece(after[i], p[i + 1])
    <3>1. i + 1 \in 1..6 /\ (i + 1) - 1 = i
      OBVIOUS
    <3>2. after[i + 1] = WritePiece(after[(i + 1) - 1], p[i + 1])
      BY <1>4, <3>1, Zenon
    <3> QED
      BY <3>1, <3>2
  <2>2. /\ after[0 + 1] = WritePiece(after[0], p[0 + 1]) /\ after[1 + 1] = WritePiece(after[1], p[1 + 1])
        /\ after[2 + 1] = WritePiece(after[2], p[2 + 1]) /\ after[3 + 1] = WritePiece(after[3], p[3 + 1])
        /\ after[4 + 1] = WritePiece(after[4], p[4 + 1]) /\ after[5 + 1] = WritePiece(after[5], p[5 + 1])
    BY <2>1
  <2> QED
    BY <1>1, <2>2
<1>10. /\ Len(p1) < Capacity /\ Len(sp) < Capacity /\ Len(p3) < Capacity /\ Len(p5) < Capacity
       /\ Len(nl) < Capacity
  <2>1. /\ Len(p[1]) < Capacity /\ Len(p[2]) < Capacity /\ Len(p[3]) < Capacity /\ Len(p[5]) < Capacity
        /\ Len(p[6]) < Capacity
    BY <1>3
  <2> QED
    BY <1>1, <2>1
<1> HIDE DEF d1, d2, d3, d4, d5, d6
<1>11. Progress(after[1], from, d1)
  BY <1>2, <1>6, <1>7, <1>9, <1>10, PieceWritten DEF d1
<1>12. Progress(after[2], from, d2)
  BY <1>2, <1>11, <1>7, <1>9, <1>10, PieceWritten DEF d2
<1>13. Progress(after[3], from, d3)
  BY <1>2, <1>12, <1>7, <1>9, <1>10, PieceWritten DEF d3
<1>14. Progress(after[4], from, d4)
  BY <1>2, <1>13, <1>7, <1>9, <1>10, PieceWritten DEF d4
<1>15. Progress(after[5], from, d5)
  BY <1>2, <1>14, <1>7, <1>9, <1>10, PieceWritten DEF d5
<1>16. Progress(after[6], from, d6)
  BY <1>2, <1>15, <1>7, <1>9, <1>10, PieceWritten DEF d6
<1> DEFINE end == after[6]
<1>17. /\ end \in Writers /\ Len(end.buf) <= Capacity /\ end.room <= from.room
       /\ Stuck(from) => Stuck(end)
       /\ Stuck(end) \/ All(end) = All(from) \o Line(e)
  <2> HIDE DEF end
  <2> QED
    BY <1>8, <1>16 DEF Progress, end
<1> QED
  BY <1>17 DEF after, p

-----------------------------------------------------------------------------------
(* The invariant. *)

\* The row of an entry stands in a list from position p on, where a line starts.
RowAt(all, p, e) ==
  /\ p + Len(Line(e)) <= Len(all)
  /\ \A i \in 1..Len(Line(e)) : all[p + i] = Line(e)[i]
IsStart(all, p) == p = 0 \/ all[p] = Newline
Has(all, e) == \E p \in 0..Len(all) : IsStart(all, p) /\ RowAt(all, p, e)

\* A list without names with newlines has rows of its tree and nothing else.
AllPlain(entries) == \A e \in entries : ~HasNewline(e)
OnlyRows(entries, all) ==
  \A p \in 0..Len(all) : p < Len(all) /\ IsStart(all, p) =>
    \E e \in entries : Representable(e) /\ RowAt(all, p, e)

\* The walk has yet to come to an entry, or to a directory above it.
Pending(dirs, e) == \E j \in 1..Len(dirs) : \E n \in 1..Len(e) : SubSeq(e, 1, n) \in dirs[j]

\* What a list is worth as far as the walk has come.
Written(entries, dirs, all) ==
  /\ IsStart(all, Len(all))
  /\ \A e \in entries : Representable(e) => Has(all, e) \/ Pending(dirs, e)
  /\ AllPlain(entries) => OnlyRows(entries, all)

\* The entries the walk is to come to are in directories with names it can write.
Open(dirs) == \A j \in 1..Len(dirs) : \A e \in dirs[j] : \A i \in 1..Len(e) :
                i < Len(e) => Utf8(e[i])

\* What has been read of the list was loaded.
Loaded ==
  /\ IsStart(text, at)
  /\ \A e \in tree : \A p \in 0..Len(text) :
       p < at /\ IsStart(text, p) /\ Representable(e) /\ RowAt(text, p, e) => RowOf(e) \in loaded
  /\ AllPlain(tree) => /\ \A row \in loaded : \E e \in tree : Representable(e) /\ row = RowOf(e)
                       /\ skipped = 0

Stages ==
  /\ scan # "walking" => stack = <<>>
  /\ scan # "ok" => at = 0 /\ loaded = {} /\ skipped = 0
  /\ skipped <= at

\* The disk is full while there is something to write.
Stuffed == room = 0 /\ buf # <<>>

ListInv ==
  /\ TypeOK /\ Open(stack) /\ Stages
  /\ ~freed /\ scan = "walking" => Stuffed \/ Written(tree, stack, text \o buf)
  /\ ~freed /\ scan = "ok" => Written(tree, stack, text) /\ Loaded

LEMMA TreeKnown ==
  ASSUME ListFileAssumption, NEW entries \in Trees, NEW e \in entries
  PROVE  /\ e \in Entries(Chars) /\ Len(e) \in Nat /\ Len(e) > 0
         /\ \A n \in 1..Len(e) : SubSeq(e, 1, n) \in entries
         /\ \A i \in 1..Len(e) : e[i] \in Seq(Chars)
<1> DEFINE N == Seq(Chars \ {Slash}) \ {<<>>}
<1>1. e \in Seq(N) /\ e # <<>> /\ \A n \in 1..Len(e) : SubSeq(e, 1, n) \in entries
  BY DEF ListFileAssumption, IsTree
<1>2. N \subseteq Seq(Chars)
  BY SeqMonotonic
<1>3. \A i \in 1..Len(e) : e[i] # <<>> /\ e[i] \in Seq(Chars)
  <2>1. \A i \in 1..Len(e) : e[i] \in N
    <3> HIDE DEF N
    <3> QED
      BY <1>1
  <2> QED
    BY <1>2, <2>1
<1>4. e \in Seq(Seq(Chars))
  <2> DEFINE S == Seq(Chars)
  <2>1. N \subseteq S
    BY <1>2
  <2> HIDE DEF N, S
  <2>2. e \in Seq(S)
    BY <1>1, <2>1, SeqMonotonic
  <2> QED
    BY <2>2 DEF S
<1>5. Len(e) \in Nat /\ Len(e) > 0
  <2> HIDE DEF N
  <2> QED
    BY <1>1, EmptySeq
<1> QED
  BY <1>1, <1>3, <1>4, <1>5 DEF Entries

\* A row more leaves the rows before it where they are.
LEMMA RowAppended ==
  ASSUME ListFileAssumption, NEW all \in Seq(Chars), IsStart(all, Len(all)), NEW e \in Entries(Chars)
  PROVE  LET more == all \o Line(e) IN
           /\ more \in Seq(Chars) /\ IsStart(more, Len(more))
           /\ Len(more) = Len(all) + Len(Line(e)) /\ Len(Line(e)) \in Nat /\ Len(Line(e)) > 0
           /\ \A p \in 0..Len(all) : IsStart(more, p) <=> IsStart(all, p)
           /\ \A f \in Entries(Chars) : \A p \in 0..Len(all) : RowAt(all, p, f) => RowAt(more, p, f)
           /\ RowAt(more, Len(all), e)
           /\ ~HasNewline(e) =>
                \A p \in 0..Len(more) : Len(all) < p /\ p < Len(more) => ~IsStart(more, p)
<1> DEFINE l == Line(e)
           r == Row(e)
           m == Len(all)
           n == Len(l)
           more == all \o l
<1>1. /\ l \in Seq(Chars) /\ n = Len(r) + 1 /\ Len(r) \in Nat /\ l[n] = Newline
      /\ \A i \in 1..Len(r) : l[i] = r[i]
  BY RowIsRead
<1>2. m \in Nat /\ n \in Nat /\ n > 0
  BY <1>1
<1>3. ~HasNewline(e) => \A i \in 1..Len(r) : r[i] # Newline
  BY RowHasNoNewline
<1> HIDE DEF l, r
<1>4. /\ more \in Seq(Chars) /\ Len(more) = m + n
      /\ \A i \in 1..(m + n) : more[i] = IF i <= m THEN all[i] ELSE l[i - m]
  BY <1>1, ConcatProperties
<1> HIDE DEF m, n, more
<1>5. \A i \in 1..m : more[i] = all[i]
  BY <1>2, <1>4
<1>6. ASSUME NEW i \in 1..n PROVE more[m + i] = l[i]
  <2>1. m + i \in 1..(m + n) /\ ~(m + i <= m) /\ (m + i) - m = i
    BY <1>2
  <2> QED
    BY <1>4, <2>1
<1>7. IsStart(more, Len(more))
  <2>1. n \in 1..n
    BY <1>2
  <2>2. more[m + n] = Newline
    BY <1>1, <1>6, <2>1
  <2> QED
    BY <1>4, <2>2 DEF IsStart
<1>8. ASSUME NEW p \in 0..m PROVE IsStart(more, p) <=> IsStart(all, p)
  <2>1. p = 0 \/ p \in 1..m
    BY <1>2
  <2> QED
    BY <1>5, <2>1 DEF IsStart
<1>9. ASSUME NEW f \in Entries(Chars), NEW p \in 0..m, RowAt(all, p, f)
      PROVE  RowAt(more, p, f)
  <2> DEFINE k == Len(Line(f))
  <2>1. k \in Nat /\ p + k <= m /\ \A i \in 1..k : all[p + i] = Line(f)[i]
    <3>1. Len(Line(f)) = Len(Row(f)) + 1 /\ Len(Row(f)) \in Nat
      BY RowIsRead
    <3> QED
      BY <1>9, <3>1 DEF RowAt, m
  <2> HIDE DEF k
  <2>2. \A i \in 1..k : more[p + i] = Line(f)[i]
    <3>1. \A i \in 1..k : p + i \in 1..m
      BY <1>2, <2>1
    <3> QED
      BY <1>5, <2>1, <3>1
  <2>3. p + k <= Len(more)
    BY <1>2, <1>4, <2>1
  <2> QED
    BY <2>2, <2>3 DEF RowAt, k
<1>10. RowAt(more, m, e)
  <2>1. m + n <= Len(more) /\ \A i \in 1..n : more[m + i] = l[i]
    BY <1>2, <1>4, <1>6
  <2> QED
    BY <2>1 DEF RowAt, n, l
<1>11. ASSUME ~HasNewline(e), NEW p \in 0..Len(more), m < p, p < Len(more)
       PROVE  ~IsStart(more, p)
  <2> DEFINE i == p - m
  <2>1. i \in 1..Len(r) /\ i \in 1..n /\ m + i = p /\ p # 0
    BY <1>1, <1>2, <1>4, <1>11
  <2> HIDE DEF i
  <2>2. more[m + i] = l[i] /\ l[i] = r[i] /\ r[i] # Newline
    BY <1>1, <1>3, <1>6, <1>11, <2>1
  <2> QED
    BY <2>1, <2>2 DEF IsStart
<1> QED
  BY <1>2, <1>4, <1>7, <1>8, <1>9, <1>10, <1>11 DEF m, n, l, more

\* A line that starts where a row does is that row.
LEMMA LineFound ==
  ASSUME ListFileAssumption, NEW all \in Seq(Chars), NEW p \in Nat, NEW e \in Entries(Chars),
         ~HasNewline(e), RowAt(all, p, e),
         NEW end \in (p + 1)..Len(all), all[end] = Newline \/ end = Len(all),
         \A i \in (p + 1)..(end - 1) : all[i] # Newline
  PROVE  /\ all[end] = Newline /\ end = p + Len(Line(e))
         /\ SubSeq(all, p + 1, end - 1) = Row(e)
<1> DEFINE l == Line(e)
           r == Row(e)
           m == Len(r)
<1>1. /\ r \in Seq(Chars) /\ m \in Nat /\ Len(l) = m + 1 /\ l[m + 1] = Newline
      /\ \A i \in 1..m : l[i] = r[i]
  BY RowIsRead
<1>2. \A i \in 1..m : r[i] # Newline
  BY RowHasNoNewline
<1>3. p + (m + 1) <= Len(all) /\ \A i \in 1..(m + 1) : all[p + i] = l[i]
  BY <1>1 DEF RowAt
<1>4. Len(all) \in Nat
  OBVIOUS
<1> HIDE DEF l, r, m
<1>5. \A i \in 1..m : all[p + i] = r[i] /\ all[p + i] # Newline
  <2>1. \A i \in 1..m : i \in 1..(m + 1)
    BY <1>1
  <2> QED
    BY <1>1, <1>2, <1>3, <2>1
<1>6. all[p + (m + 1)] = Newline
  <2>1. m + 1 \in 1..(m + 1)
    BY <1>1
  <2> QED
    BY <1>1, <1>3, <2>1
<1>7. end = p + (m + 1)
  <2>1. ~(end < p + (m + 1))
    <3>1. SUFFICES ASSUME end < p + (m + 1) PROVE FALSE
      OBVIOUS
    <3> DEFINE i == end - p
    <3>2. i \in 1..m /\ p + i = end /\ end # Len(all)
      BY <1>1, <1>3, <1>4, <3>1
    <3> HIDE DEF i
    <3>3. all[p + i] # Newline
      BY <1>5, <3>2
    <3> QED
      BY <3>2, <3>3
  <2>2. ~(end > p + (m + 1))
    <3>1. SUFFICES ASSUME end > p + (m + 1) PROVE FALSE
      OBVIOUS
    <3>2. p + (m + 1) \in (p + 1)..(end - 1)
      BY <1>1, <3>1
    <3> QED
      BY <1>6, <3>2
  <2> QED
    BY <1>1, <2>1, <2>2
<1>8. SubSeq(all, p + 1, end - 1) = r
  <2> DEFINE s == SubSeq(all, p + 1, end - 1)
  <2>1. p + 1 \in Int /\ end - 1 = p + m /\ end - 1 \in Int
    BY <1>1, <1>7
  <2>2. \A i \in (p + 1)..(end - 1) : all[i] \in Chars
    BY <1>4
  <2>3. /\ s \in Seq(Chars)
        /\ Len(s) = IF p + 1 <= end - 1 THEN (end - 1) - (p + 1) + 1 ELSE 0
        /\ \A i \in 1..((end - 1) - (p + 1) + 1) : s[i] = all[(p + 1) + i - 1]
    BY <2>1, <2>2, SubSeqProperties
  <2> HIDE DEF s
  <2>4. Len(s) = m /\ (end - 1) - (p + 1) + 1 = m
    BY <1>1, <2>1, <2>3
  <2>5. ASSUME NEW i \in 1..m PROVE s[i] = r[i]
    <3>1. s[i] = all[(p + 1) + i - 1] /\ (p + 1) + i - 1 = p + i
      BY <1>1, <2>3, <2>4
    <3> QED
      BY <1>5, <3>1
  <2>6. s = r
    BY <1>1, <2>3, <2>4, <2>5, SeqEqual DEF m
  <2> QED
    BY <2>6 DEF s
<1> QED
  BY <1>1, <1>6, <1>7, <1>8 DEF l, r

-----------------------------------------------------------------------------------
(* The walk. *)

\* A stack without its top.
LEMMA FrontIs ==
  ASSUME NEW S, NEW dirs \in Seq(S), dirs # <<>>
  PROVE  LET rest == Front(dirs)
             n == Len(dirs)
         IN  /\ rest \in Seq(S) /\ Len(rest) = n - 1 /\ n \in Nat /\ n > 0
             /\ \A j \in 1..(n - 1) : rest[j] = dirs[j]
<1> DEFINE n == Len(dirs)
           rest == Front(dirs)
<1>1. n \in Nat /\ n > 0
  BY EmptySeq
<1>2. n - 1 \in Int /\ \A i \in 1..(n - 1) : dirs[i] \in S
  BY <1>1
<1>3. rest = SubSeq(dirs, 1, n - 1)
  BY DEF Front
<1> HIDE DEF n, rest
<1>4. /\ SubSeq(dirs, 1, n - 1) \in Seq(S)
      /\ Len(SubSeq(dirs, 1, n - 1)) = IF 1 <= n - 1 THEN (n - 1) - 1 + 1 ELSE 0
      /\ \A i \in 1..((n - 1) - 1 + 1) : SubSeq(dirs, 1, n - 1)[i] = dirs[1 + i - 1]
  BY <1>2, SubSeqProperties
<1>5. (n - 1) - 1 + 1 = n - 1 /\ \A i \in 1..(n - 1) : 1 + i - 1 = i
  BY <1>1
<1>6. rest \in Seq(S) /\ Len(rest) = n - 1 /\ \A i \in 1..(n - 1) : rest[i] = dirs[i]
  BY <1>1, <1>3, <1>4, <1>5
<1> QED
  BY <1>1, <1>6 DEF n, rest

\* Its top replaced.
LEMMA TopReplaced ==
  ASSUME NEW S, NEW dirs \in Seq(S), dirs # <<>>, NEW x \in S
  PROVE  LET rest == Append(Front(dirs), x)
             n == Len(dirs)
         IN  /\ rest \in Seq(S) /\ Len(rest) = n /\ rest[n] = x /\ n \in 1..n
             /\ \A j \in 1..n : j # n => rest[j] = dirs[j]
<1> DEFINE n == Len(dirs)
           front == Front(dirs)
           rest == Append(front, x)
<1>1. /\ n \in Nat /\ n > 0 /\ front \in Seq(S) /\ Len(front) = n - 1
      /\ \A i \in 1..(n - 1) : front[i] = dirs[i]
  BY FrontIs
<1> HIDE DEF n, front
<1>2. /\ rest \in Seq(S) /\ Len(rest) = (n - 1) + 1 /\ rest[(n - 1) + 1] = x
      /\ \A i \in 1..(n - 1) : rest[i] = front[i]
  BY <1>1, AppendProperties
<1> HIDE DEF rest
<1>3. (n - 1) + 1 = n /\ n \in 1..n /\ \A j \in 1..n : j # n => j \in 1..(n - 1)
  BY <1>1
<1>4. \A j \in 1..n : j # n => rest[j] = dirs[j]
  BY <1>1, <1>2, <1>3
<1> QED
  BY <1>2, <1>3, <1>4 DEF rest, front, n

\* And something put on top.
LEMMA TopAdded ==
  ASSUME NEW S, NEW dirs \in Seq(S), NEW x \in S
  PROVE  LET more == Append(dirs, x)
             n == Len(dirs)
         IN  /\ more \in Seq(S) /\ Len(more) = n + 1 /\ n \in Nat /\ more[n + 1] = x
             /\ \A j \in 1..n : more[j] = dirs[j]
  BY AppendProperties

\* An entry below another is the child of it, or is below one.
LEMMA Below ==
  ASSUME ListFileAssumption, NEW entries \in Trees, NEW g \in entries, NEW n \in 1..Len(g), n < Len(g)
  PROVE  LET c == SubSeq(g, 1, n + 1) IN
           /\ n + 1 \in 1..Len(g) /\ c \in entries
           /\ Len(c) = Len(SubSeq(g, 1, n)) + 1 /\ Dir(c) = SubSeq(g, 1, n)
<1> DEFINE c == SubSeq(g, 1, n + 1)
           e == SubSeq(g, 1, n)
           C == Seq(Chars)
<1>1. Len(g) \in Nat /\ c \in entries /\ n + 1 \in 1..Len(g)
  <2>1. Len(g) \in Nat
    BY TreeKnown
  <2>2. n + 1 \in 1..Len(g)
    BY <2>1
  <2> QED
    BY <2>1, <2>2, TreeKnown
<1>2. \A i \in 1..Len(g) : g[i] \in C
  BY TreeKnown
<1> HIDE DEF C
<1>3. /\ c \in Seq(C) /\ Len(c) = n + 1 /\ \A i \in 1..(n + 1) : c[i] = g[i]
  <2>1. n + 1 \in Int /\ \A i \in 1..(n + 1) : g[i] \in C
    BY <1>1, <1>2
  <2>2. /\ SubSeq(g, 1, n + 1) \in Seq(C)
        /\ Len(SubSeq(g, 1, n + 1)) = IF 1 <= n + 1 THEN (n + 1) - 1 + 1 ELSE 0
        /\ \A i \in 1..((n + 1) - 1 + 1) : SubSeq(g, 1, n + 1)[i] = g[1 + i - 1]
    BY <2>1, SubSeqProperties
  <2>3. (n + 1) - 1 + 1 = n + 1 /\ 1 <= n + 1 /\ \A i \in 1..(n + 1) : 1 + i - 1 = i
    BY <1>1
  <2> QED
    BY <2>2, <2>3
<1>4. /\ e \in Seq(C) /\ Len(e) = n /\ \A i \in 1..n : e[i] = g[i]
  <2>1. n \in Int /\ \A i \in 1..n : g[i] \in C
    BY <1>1, <1>2
  <2>2. /\ SubSeq(g, 1, n) \in Seq(C)
        /\ Len(SubSeq(g, 1, n)) = IF 1 <= n THEN n - 1 + 1 ELSE 0
        /\ \A i \in 1..(n - 1 + 1) : SubSeq(g, 1, n)[i] = g[1 + i - 1]
    BY <2>1, SubSeqProperties
  <2>3. n - 1 + 1 = n /\ 1 <= n /\ \A i \in 1..n : 1 + i - 1 = i
    BY <1>1
  <2> QED
    BY <2>2, <2>3
<1> HIDE DEF c, e
<1>5. Dir(c) = e
  <2> DEFINE d == SubSeq(c, 1, n)
  <2>1. Dir(c) = d
    <3>1. Len(c) - 1 = n
      BY <1>3
    <3> QED
      BY <3>1 DEF Dir, Front
  <2>2. \A i \in 1..n : c[i] \in C /\ c[i] = g[i]
    BY <1>1, <1>2, <1>3
  <2>3. d \in Seq(C) /\ Len(d) = n /\ \A i \in 1..n : d[i] = c[i]
    <3>1. n \in Int
      OBVIOUS
    <3>2. /\ SubSeq(c, 1, n) \in Seq(C)
          /\ Len(SubSeq(c, 1, n)) = IF 1 <= n THEN n - 1 + 1 ELSE 0
          /\ \A i \in 1..(n - 1 + 1) : SubSeq(c, 1, n)[i] = c[1 + i - 1]
      BY <2>2, <3>1, SubSeqProperties
    <3>3. n - 1 + 1 = n /\ 1 <= n /\ \A i \in 1..n : 1 + i - 1 = i
      BY <1>1
    <3> QED
      BY <3>2, <3>3
  <2> HIDE DEF d
  <2>4. d = e
    BY <1>4, <2>2, <2>3, SeqEqual
  <2> QED
    BY <2>1, <2>4
<1> QED
  BY <1>1, <1>3, <1>4, <1>5 DEF c, e

\* The children of an entry of a tree.
ChildrenIn(entries, e) == {c \in entries : Len(c) = Len(e) + 1 /\ Dir(c) = e}

\* The walk writes an entry and goes down: it stays pending nowhere, what is below
\* it pending in its children.
LEMMA WalkedDown ==
  ASSUME ListFileAssumption, NEW entries \in Trees, NEW dirs \in Seq(SUBSET entries), dirs # <<>>,
         NEW e \in Last(dirs), NEW all \in Seq(Chars), Written(entries, dirs, all),
         Open(dirs), Utf8(Last(e))
  PROVE  LET next == Append(Append(Front(dirs), Last(dirs) \ {e}), ChildrenIn(entries, e))
         IN  Written(entries, next, all \o Line(e))
<1> DEFINE n == Len(dirs)
           rest == Append(Front(dirs), Last(dirs) \ {e})
           below == ChildrenIn(entries, e)
           next == Append(rest, below)
           more == all \o Line(e)
<1>1. /\ n \in Nat /\ n \in 1..n /\ Last(dirs) = dirs[n] /\ dirs[n] \in SUBSET entries
      /\ e \in dirs[n] /\ e \in entries
  <2>1. n \in Nat /\ n > 0
    BY EmptySeq
  <2>2. n \in 1..n /\ dirs[n] \in SUBSET entries
    BY <2>1
  <2> QED
    BY <2>1, <2>2 DEF Last
<1>2. below \in SUBSET entries /\ Last(dirs) \ {e} \in SUBSET entries
  BY <1>1 DEF ChildrenIn
<1>3. /\ rest \in Seq(SUBSET entries) /\ Len(rest) = n /\ rest[n] = dirs[n] \ {e}
      /\ \A j \in 1..n : j # n => rest[j] = dirs[j]
  <2> DEFINE x == Last(dirs) \ {e}
             S == SUBSET entries
  <2>1. x \in S /\ dirs \in Seq(S)
    BY <1>2
  <2>2. x = dirs[n] \ {e}
    BY <1>1
  <2> HIDE DEF x, S
  <2> QED
    BY <2>1, <2>2, TopReplaced DEF x, S
<1> HIDE DEF rest, below
<1>4. /\ Len(next) = n + 1 /\ next[n + 1] = below /\ \A j \in 1..n : next[j] = rest[j]
  <2> DEFINE S == SUBSET entries
  <2>1. below \in S /\ rest \in Seq(S)
    BY <1>2, <1>3
  <2> HIDE DEF S
  <2> QED
    BY <1>3, <2>1, TopAdded
<1> HIDE DEF n, next
<1>5. /\ e \in Entries(Chars) /\ Len(e) \in Nat /\ Len(e) > 0
      /\ \A f \in entries : f \in Entries(Chars)
  BY <1>1, TreeKnown
<1>6. /\ IsStart(all, Len(all))
      /\ \A g \in entries : Representable(g) => Has(all, g) \/ Pending(dirs, g)
      /\ AllPlain(entries) => OnlyRows(entries, all)
  BY DEF Written
<1>7. /\ more \in Seq(Chars) /\ IsStart(more, Len(more))
      /\ Len(more) = Len(all) + Len(Line(e)) /\ Len(Line(e)) \in Nat /\ Len(Line(e)) > 0
      /\ \A p \in 0..Len(all) : IsStart(more, p) <=> IsStart(all, p)
      /\ \A f \in Entries(Chars) : \A p \in 0..Len(all) : RowAt(all, p, f) => RowAt(more, p, f)
      /\ RowAt(more, Len(all), e)
      /\ ~HasNewline(e) =>
           \A p \in 0..Len(more) : Len(all) < p /\ p < Len(more) => ~IsStart(more, p)
  BY <1>5, <1>6, RowAppended
<1>8. Len(all) \in Nat /\ Len(all) \in 0..Len(all) /\ Len(all) \in 0..Len(more)
      /\ 0..Len(all) \subseteq 0..Len(more)
  <2>1. Len(all) \in Nat
    OBVIOUS
  <2> HIDE DEF more
  <2> QED
    BY <1>7, <2>1
<1> HIDE DEF more
<1>9. Has(more, e)
  <2>1. IsStart(more, Len(all))
    BY <1>6, <1>7, <1>8
  <2> QED
    BY <1>7, <1>8, <2>1 DEF Has
<1>10. ASSUME NEW g \in entries, Has(all, g) PROVE Has(more, g)
  <2>1. PICK p \in 0..Len(all) : IsStart(all, p) /\ RowAt(all, p, g)
    BY <1>10 DEF Has
  <2>2. IsStart(more, p) /\ RowAt(more, p, g) /\ p \in 0..Len(more)
    BY <1>5, <1>7, <1>8, <2>1
  <2> QED
    BY <2>2 DEF Has
<1>11. ASSUME NEW g \in entries, Pending(dirs, g) PROVE Has(more, g) \/ Pending(next, g)
  <2>1. PICK j \in 1..n, k \in 1..Len(g) : SubSeq(g, 1, k) \in dirs[j]
    BY <1>11 DEF Pending, n
  <2>2. j \in 1..Len(next) /\ n + 1 \in 1..Len(next)
    BY <1>1, <1>4
  <2>3. CASE j = n /\ SubSeq(g, 1, k) = e
    <3>1. Len(g) \in Nat
      BY TreeKnown
    <3>2. CASE k = Len(g)
      <4>1. g = e
        <5>1. g \in Seq(Seq(Chars))
          BY <1>5 DEF Entries
        <5>2. SubSeq(g, 1, Len(g)) = g
          <6> DEFINE C == Seq(Chars)
          <6>1. g \in Seq(C)
            BY <5>1
          <6> HIDE DEF C
          <6> QED
            BY <6>1, SubSeqFull
        <5> QED
          BY <2>3, <3>2, <5>2
      <4> QED
        BY <1>9, <4>1
    <3>3. CASE k # Len(g)
      <4>1. k < Len(g)
        BY <3>1, <3>3
      <4>2. /\ k + 1 \in 1..Len(g) /\ SubSeq(g, 1, k + 1) \in entries
            /\ Len(SubSeq(g, 1, k + 1)) = Len(SubSeq(g, 1, k)) + 1
            /\ Dir(SubSeq(g, 1, k + 1)) = SubSeq(g, 1, k)
        BY <4>1, Below
      <4>3. SubSeq(g, 1, k + 1) \in next[n + 1]
        BY <1>4, <2>3, <4>2 DEF below, ChildrenIn
      <4>4. Pending(next, g)
        BY <2>2, <4>2, <4>3 DEF Pending
      <4> QED
        BY <4>4
    <3> QED
      BY <3>2, <3>3
  <2>4. CASE ~(j = n /\ SubSeq(g, 1, k) = e)
    <3>1. SubSeq(g, 1, k) \in next[j]
      <4>1. next[j] = rest[j]
        BY <1>4
      <4>2. CASE j = n
        BY <1>3, <2>1, <2>4, <4>1, <4>2
      <4>3. CASE j # n
        BY <1>3, <2>1, <4>1, <4>3
      <4> QED
        BY <4>2, <4>3
    <3>2. Pending(next, g)
      BY <2>2, <3>1 DEF Pending
    <3> QED
      BY <3>2
  <2> QED
    BY <2>3, <2>4
<1>12. ASSUME AllPlain(entries) PROVE OnlyRows(entries, more)
  <2>1. ~HasNewline(e) /\ OnlyRows(entries, all)
    BY <1>1, <1>6, <1>12 DEF AllPlain
  <2>2. Representable(e)
    <3>1. ASSUME NEW i \in 1..Len(e) PROVE Utf8(e[i])
      <4>1. CASE i < Len(e)
        BY <1>1, <4>1 DEF Open, n
      <4>2. CASE ~(i < Len(e))
        <5>1. i = Len(e)
          BY <1>5, <4>2
        <5> QED
          BY <5>1 DEF Last
      <4> QED
        BY <4>1, <4>2
    <3>2. DOMAIN e = 1..Len(e)
      BY <1>5 DEF Entries
    <3> QED
      BY <2>1, <3>1, <3>2 DEF Representable
  <2>3. ASSUME NEW p \in 0..Len(more), p < Len(more), IsStart(more, p)
        PROVE  \E f \in entries : Representable(f) /\ RowAt(more, p, f)
    <3>1. CASE p < Len(all)
      <4>1. p \in 0..Len(all)
        BY <1>8, <3>1
      <4>2. IsStart(all, p)
        BY <1>7, <2>3, <4>1
      <4>3. PICK f \in entries : Representable(f) /\ RowAt(all, p, f)
        BY <2>1, <3>1, <4>1, <4>2 DEF OnlyRows
      <4>4. RowAt(more, p, f)
        BY <1>5, <1>7, <4>1, <4>3
      <4> QED
        BY <4>3, <4>4
    <3>2. CASE p = Len(all)
      BY <1>1, <1>7, <2>2, <3>2
    <3>3. CASE Len(all) < p
      BY <1>7, <2>1, <2>3, <3>3
    <3> QED
      BY <1>8, <3>1, <3>2, <3>3
  <2> QED
    BY <2>3 DEF OnlyRows
<1>13. \A g \in entries : Representable(g) => Has(more, g) \/ Pending(next, g)
  BY <1>6, <1>10, <1>11
<1>14. Written(entries, next, more)
  BY <1>7, <1>12, <1>13 DEF Written
<1> QED
  BY <1>14 DEF next, rest, below, more

\* An entry that is not UTF-8 is left out: nothing representable is below it.
LEMMA WalkedPast ==
  ASSUME ListFileAssumption, NEW entries \in Trees, NEW dirs \in Seq(SUBSET entries), dirs # <<>>,
         NEW e \in Last(dirs), NEW all, Written(entries, dirs, all), ~Utf8(Last(e))
  PROVE  Written(entries, Append(Front(dirs), Last(dirs) \ {e}), all)
<1> DEFINE n == Len(dirs)
           rest == Append(Front(dirs), Last(dirs) \ {e})
<1>1. /\ n \in Nat /\ n \in 1..n /\ Last(dirs) = dirs[n] /\ e \in entries
      /\ Last(dirs) \ {e} \in SUBSET entries
  <2>1. n \in Nat /\ n > 0
    BY EmptySeq
  <2>2. n \in 1..n /\ dirs[n] \in SUBSET entries
    BY <2>1
  <2> QED
    BY <2>1, <2>2 DEF Last
<1>2. /\ Len(rest) = n /\ rest[n] = dirs[n] \ {e}
      /\ \A j \in 1..n : j # n => rest[j] = dirs[j]
  <2> DEFINE x == Last(dirs) \ {e}
             S == SUBSET entries
  <2>1. x \in S /\ dirs \in Seq(S)
    BY <1>1
  <2>2. x = dirs[n] \ {e}
    BY <1>1
  <2> HIDE DEF x, S
  <2> QED
    BY <2>1, <2>2, TopReplaced DEF x, S
<1> HIDE DEF rest, n
<1>3. ASSUME NEW g \in entries, Representable(g), Pending(dirs, g) PROVE Pending(rest, g)
  <2>1. PICK j \in 1..n, k \in 1..Len(g) : SubSeq(g, 1, k) \in dirs[j]
    BY <1>3 DEF Pending, n
  <2>2. SubSeq(g, 1, k) # e
    <3>1. SUFFICES ASSUME SubSeq(g, 1, k) = e PROVE FALSE
      OBVIOUS
    <3>2. Len(g) \in Nat /\ \A i \in 1..Len(g) : g[i] \in Seq(Chars)
      BY TreeKnown
    <3>3. Last(e) = g[k]
      <4> DEFINE C == Seq(Chars)
                 s == SubSeq(g, 1, k)
      <4>1. k \in Int /\ \A i \in 1..k : g[i] \in C
        BY <3>2
      <4> HIDE DEF C
      <4>2. /\ Len(s) = IF 1 <= k THEN k - 1 + 1 ELSE 0
            /\ \A i \in 1..(k - 1 + 1) : s[i] = g[1 + i - 1]
        BY <4>1, SubSeqProperties
      <4> HIDE DEF s
      <4>3. k - 1 + 1 = k /\ 1 <= k /\ 1 + k - 1 = k /\ k \in 1..k
        BY <3>2
      <4>4. Len(s) = k /\ s[k] = g[k]
        BY <4>2, <4>3
      <4>5. e = s
        BY <3>1 DEF s
      <4> QED
        BY <4>4, <4>5 DEF Last
    <3>4. Utf8(g[k])
      <4>1. k \in DOMAIN g
        <5>1. g \in Entries(Chars)
          BY TreeKnown
        <5> QED
          BY <5>1 DEF Entries
      <4> QED
        BY <1>3, <4>1 DEF Representable
    <3> QED
      BY <3>3, <3>4
  <2>3. SubSeq(g, 1, k) \in rest[j]
    <3>1. CASE j = n
      BY <1>2, <2>1, <2>2, <3>1
    <3>2. CASE j # n
      BY <1>2, <2>1, <3>2
    <3> QED
      BY <3>1, <3>2
  <2> QED
    BY <1>2, <2>1, <2>3 DEF Pending
<1>4. Written(entries, rest, all)
  BY <1>3 DEF Written
<1> QED
  BY <1>4 DEF rest

\* A directory that is through holds nothing that is pending.
LEMMA WalkedUp ==
  ASSUME NEW entries, NEW dirs \in Seq(SUBSET entries), dirs # <<>>, Last(dirs) = {}, NEW all,
         Written(entries, dirs, all)
  PROVE  Written(entries, Front(dirs), all)
<1> DEFINE n == Len(dirs)
           S == SUBSET entries
           rest == Front(dirs)
<1>1. n \in Nat /\ n > 0 /\ dirs[n] = {}
  BY EmptySeq DEF Last
<1>2. Len(rest) = n - 1 /\ \A j \in 1..(n - 1) : rest[j] = dirs[j]
  BY FrontIs
<1> HIDE DEF rest, S, n
<1>3. ASSUME NEW g, Pending(dirs, g) PROVE Pending(rest, g)
  <2>1. PICK j \in 1..n, k \in 1..Len(g) : SubSeq(g, 1, k) \in dirs[j]
    BY <1>3 DEF Pending, n
  <2>2. j # n
    BY <1>1, <2>1
  <2>3. j \in 1..(n - 1)
    BY <1>1, <2>2
  <2>4. j \in 1..Len(rest) /\ SubSeq(g, 1, k) \in rest[j]
    BY <1>2, <2>1, <2>3
  <2> QED
    BY <2>1, <2>4 DEF Pending
<1>4. Written(entries, rest, all)
  BY <1>3 DEF Written
<1> QED
  BY <1>4 DEF rest

-----------------------------------------------------------------------------------
(* The steps. *)

LEMMA WriterTyped ==
  ASSUME TypeOK
  PROVE  /\ Writer \in Writers /\ Writer.ok /\ Writer.buf = buf /\ Writer.text = text
         /\ Writer.room = room /\ All(Writer) = text \o buf /\ (Stuck(Writer) <=> Stuffed)
<1>1. text \in Seq(Chars) /\ buf \in Seq(Chars) /\ room \in Nat
  BY DEF TypeOK
<1>2. Writer = [text |-> text, buf |-> buf, room |-> room, ok |-> TRUE]
  BY DEF Writer
<1> QED
  BY <1>1, <1>2 DEF Writers, All, Stuck, Stuffed

LEMMA Begins == ListFileAssumption /\ Init => ListInv
<1> SUFFICES ASSUME ListFileAssumption, Init PROVE ListInv
  OBVIOUS
<1> DEFINE first == {e \in tree : Len(e) = 1}
<1>1. /\ tree \in Trees /\ stack = <<first>> /\ buf = <<>> /\ text = <<>> /\ room \in Rooms(tree)
      /\ freed = FALSE /\ scan = "walking" /\ at = 0 /\ loaded = {} /\ skipped = 0
  BY DEF Init
<1>2. Len(stack) = 1 /\ stack[1] = first /\ stack \in Seq(SUBSET tree)
  <2> DEFINE S == SUBSET tree
  <2>1. first \in S
    OBVIOUS
  <2> HIDE DEF first, S
  <2> QED
    BY <1>1, <2>1 DEF S
<1> HIDE DEF first
<1>3. TypeOK
  <2>1. room \in 0..Enough /\ Capacity \in Nat
    BY <1>1 DEF ListFileAssumption
  <2>2. <<>> \in Seq(Chars) /\ Len(<<>>) = 0
    OBVIOUS
  <2>3. at \in 0..Len(text) /\ skipped \in 0..Len(text) /\ Len(buf) <= Capacity
    BY <1>1, <2>1, <2>2
  <2> QED
    BY <1>1, <1>2, <2>1, <2>2, <2>3 DEF TypeOK
<1>4. Open(stack)
  <2>1. ASSUME NEW j \in 1..Len(stack), NEW e \in stack[j], NEW i \in 1..Len(e), i < Len(e)
        PROVE  Utf8(e[i])
    <3>1. j = 1
      BY <1>2
    <3>2. Len(e) = 1
      BY <1>2, <3>1 DEF first
    <3>3. FALSE
      BY <2>1, <3>2
    <3> QED
      BY <3>3
  <2> QED
    BY <2>1 DEF Open
<1>5. Stages
  BY <1>1 DEF Stages
<1>6. Written(tree, stack, text \o buf)
  <2>1. text \o buf = <<>> /\ Len(<<>>) = 0
    <3>1. <<>> \in Seq(Chars)
      OBVIOUS
    <3>2. <<>> \o <<>> = <<>>
      BY <3>1, ConcatEmptySeq
    <3> QED
      BY <1>1, <3>2
  <2>2. ASSUME NEW e \in tree PROVE Pending(stack, e)
    <3>1. /\ Len(e) \in Nat /\ Len(e) > 0 /\ \A n \in 1..Len(e) : SubSeq(e, 1, n) \in tree
          /\ \A i \in 1..Len(e) : e[i] \in Seq(Chars)
      BY <1>1, TreeKnown
    <3>2. 1 \in 1..Len(e) /\ 1 \in 1..Len(stack)
      BY <1>2, <3>1
    <3>3. Len(SubSeq(e, 1, 1)) = 1
      <4> DEFINE C == Seq(Chars)
      <4>1. \A i \in 1..1 : e[i] \in C
        BY <3>1, <3>2
      <4> HIDE DEF C
      <4>2. Len(SubSeq(e, 1, 1)) = IF 1 <= 1 THEN 1 - 1 + 1 ELSE 0
        BY <4>1, SubSeqProperties
      <4> QED
        BY <4>2
    <3>4. SubSeq(e, 1, 1) \in stack[1]
      BY <1>2, <3>1, <3>2, <3>3 DEF first
    <3> QED
      BY <3>2, <3>4 DEF Pending
  <2>3. OnlyRows(tree, <<>>) /\ IsStart(<<>>, Len(<<>>))
    BY DEF OnlyRows, IsStart
  <2> QED
    BY <2>1, <2>2, <2>3 DEF Written
<1> QED
  BY <1>1, <1>3, <1>4, <1>5, <1>6 DEF ListInv

LEMMA WalkStep ==
  ASSUME ListFileAssumption, ListInv, Walk
  PROVE  ListInv'
<1>1. /\ stack # <<>> /\ scan = "walking" /\ at = 0 /\ loaded = {} /\ skipped = 0
      /\ UNCHANGED <<tree, freed, scan, at, loaded, skipped>>
  BY DEF ListInv, Stages, Walk
<1>2. /\ tree \in Trees /\ stack \in Seq(SUBSET tree) /\ text \in Seq(Chars) /\ buf \in Seq(Chars)
      /\ Len(buf) <= Capacity /\ room \in 0..Enough /\ freed \in BOOLEAN /\ Enough \in Nat
  BY DEF ListInv, TypeOK, ListFileAssumption
<1>3. PICK e \in Top :
        LET rest == Append(Front(stack), Top \ {e}) IN
          IF Utf8(Last(e))
            THEN /\ LET end == WriteRow(Writer, Pieces(e))[6] IN
                      buf' = end.buf /\ text' = end.text /\ room' = end.room
                 /\ stack' = Append(rest, Children(e))
            ELSE /\ UNCHANGED <<buf, text, room>>
                 /\ stack' = rest
  BY DEF Walk
<1>4. Top = Last(stack) /\ e \in Last(stack) /\ Children(e) = ChildrenIn(tree, e)
  BY DEF Top, Children, ChildrenIn
<1> DEFINE n == Len(stack)
           rest == Append(Front(stack), Last(stack) \ {e})
<1>5. /\ n \in Nat /\ n > 0 /\ n \in 1..n /\ Last(stack) = stack[n] /\ e \in stack[n] /\ e \in tree
      /\ Last(stack) \ {e} \in SUBSET tree
  <2>1. n \in Nat /\ n > 0
    BY <1>1, <1>2, EmptySeq
  <2>2. n \in 1..n /\ stack[n] \in SUBSET tree
    BY <1>2, <2>1
  <2> QED
    BY <1>4, <2>1, <2>2 DEF Last
<1>6. /\ rest \in Seq(SUBSET tree) /\ Len(rest) = n /\ rest[n] = stack[n] \ {e}
      /\ \A j \in 1..n : j # n => rest[j] = stack[j]
  <2> DEFINE x == Last(stack) \ {e}
             S == SUBSET tree
  <2>1. x \in S /\ stack \in Seq(S)
    BY <1>2, <1>5
  <2>2. x = stack[n] \ {e}
    BY <1>5
  <2> HIDE DEF x, S
  <2> QED
    BY <1>1, <2>1, <2>2, TopReplaced DEF x, S
<1>7. Open(stack) /\ Open(rest)
  <2>1. Open(stack)
    BY DEF ListInv
  <2> HIDE DEF rest
  <2>2. ASSUME NEW j \in 1..Len(rest), NEW f \in rest[j] PROVE j \in 1..n /\ f \in stack[j]
    BY <1>6
  <2>3. Open(rest)
    BY <2>1, <2>2 DEF Open, n
  <2> QED
    BY <2>1, <2>3
<1> HIDE DEF n
<1>8. CASE Utf8(Last(e))
  <2> DEFINE end == WriteRow(Writer, Pieces(e))[6]
             below == ChildrenIn(tree, e)
  <2>1. /\ buf' = end.buf /\ text' = end.text /\ room' = end.room
        /\ stack' = Append(rest, below)
    BY <1>3, <1>4, <1>8
  <2>2. /\ end \in Writers /\ Len(end.buf) <= Capacity /\ end.room <= room
        /\ Stuffed => Stuck(end)
        /\ Stuck(end) \/ All(end) = (text \o buf) \o Line(e)
    <3>1. /\ Writer \in Writers /\ Writer.ok /\ Writer.buf = buf /\ Writer.room = room
          /\ All(Writer) = text \o buf /\ (Stuck(Writer) <=> Stuffed)
      <4>1. TypeOK
        BY DEF ListInv
      <4> QED
        BY <4>1, WriterTyped
    <3>2. e \in Entries(Chars)
      BY <1>2, <1>5, TreeKnown
    <3> DEFINE from == Writer
    <3>3. from \in Writers /\ from.ok /\ Len(from.buf) <= Capacity
      BY <1>2, <3>1
    <3> HIDE DEF from
    <3>4. LET last == WriteRow(from, Pieces(e))[6] IN
            /\ last \in Writers /\ Len(last.buf) <= Capacity /\ last.room <= from.room
            /\ Stuck(from) => Stuck(last)
            /\ Stuck(last) \/ All(last) = All(from) \o Line(e)
      BY <1>2, <1>5, <3>2, <3>3, RowWritten
    <3>5. WriteRow(from, Pieces(e))[6] = end
      BY DEF from
    <3> HIDE DEF end
    <3>6. /\ end \in Writers /\ Len(end.buf) <= Capacity /\ end.room <= from.room
          /\ Stuck(from) => Stuck(end)
          /\ Stuck(end) \/ All(end) = All(from) \o Line(e)
      BY <3>4, <3>5
    <3>7. from.room = room /\ All(from) = text \o buf /\ (Stuck(from) <=> Stuffed)
      BY <3>1 DEF from
    <3> QED
      BY <3>6, <3>7
  <2> HIDE DEF end
  <2>3. /\ end.buf \in Seq(Chars) /\ end.text \in Seq(Chars) /\ end.room \in 0..Enough
    <3>1. end.buf \in Seq(Chars) /\ end.text \in Seq(Chars) /\ end.room \in Nat
      BY <2>2 DEF Writers
    <3> QED
      BY <1>2, <2>2, <3>1
  <2>4. below \in SUBSET tree
    BY DEF ChildrenIn
  <2>5. /\ stack' \in Seq(SUBSET tree) /\ Len(stack') = n + 1 /\ n \in Nat /\ stack'[n + 1] = below
        /\ \A j \in 1..n : stack'[j] = rest[j]
    <3> DEFINE S == SUBSET tree
    <3>1. below \in S /\ rest \in Seq(S)
      BY <1>6, <2>4
    <3> HIDE DEF S, rest, below
    <3> QED
      BY <1>6, <2>1, <3>1, TopAdded DEF S
  <2>6. TypeOK'
    <3>1. /\ tree' \in Trees /\ stack' \in Seq(SUBSET tree') /\ buf' \in Seq(Chars) /\ Len(buf') <= Capacity
          /\ room' \in 0..Enough /\ freed' \in BOOLEAN /\ scan' = "walking" /\ text' \in Seq(Chars)
      BY <1>1, <1>2, <2>1, <2>2, <2>3, <2>5
    <3>2. at' = 0 /\ skipped' = 0 /\ loaded' = {} /\ 0 \in 0..Len(text')
      <4>1. Len(text') \in Nat
        BY <3>1
      <4> QED
        BY <1>1, <4>1
    <3> QED
      BY <3>1, <3>2 DEF TypeOK
  <2>7. Open(stack')
    <3>1. ASSUME NEW c \in below, NEW i \in 1..Len(c), i < Len(c) PROVE Utf8(c[i])
      <4>1. c \in tree /\ Len(c) = Len(e) + 1 /\ Dir(c) = e
        BY DEF ChildrenIn
      <4>2. Len(c) \in Nat /\ Len(e) \in Nat /\ c \in Seq(Seq(Chars)) /\ \A k \in 1..Len(c) : c[k] \in Seq(Chars)
        BY <1>2, <1>5, <4>1, TreeKnown DEF Entries
      <4>3. i \in 1..Len(e)
        BY <3>1, <4>1, <4>2
      <4>4. c[i] = e[i]
        <5> DEFINE C == Seq(Chars)
                   m == Len(c) - 1
        <5>1. m \in Int /\ m = Len(e) /\ \A k \in 1..m : c[k] \in C
          BY <4>1, <4>2
        <5>2. e = SubSeq(c, 1, m)
          BY <4>1 DEF Dir, Front
        <5> HIDE DEF C, m
        <5>3. \A k \in 1..(m - 1 + 1) : SubSeq(c, 1, m)[k] = c[1 + k - 1]
          BY <5>1, SubSeqProperties
        <5>4. m - 1 + 1 = m /\ 1 + i - 1 = i /\ i \in 1..m
          BY <4>3, <5>1
        <5>5. SubSeq(c, 1, m)[i] = c[i]
          BY <5>3, <5>4
        <5> QED
          BY <5>2, <5>5
      <4>5. Utf8(e[i])
        <5>1. CASE i < Len(e)
          BY <1>5, <1>7, <4>3, <5>1 DEF Open, n
        <5>2. CASE ~(i < Len(e))
          <6>1. i = Len(e)
            BY <4>2, <4>3, <5>2
          <6> QED
            BY <1>8, <6>1 DEF Last
        <5> QED
          BY <5>1, <5>2
      <4> QED
        BY <4>4, <4>5
    <3> HIDE DEF below, rest
    <3>2. ASSUME NEW j \in 1..Len(stack'), NEW c \in stack'[j], NEW i \in 1..Len(c), i < Len(c)
          PROVE  Utf8(c[i])
      <4>1. CASE j = n + 1
        BY <2>5, <3>1, <3>2, <4>1
      <4>2. CASE j # n + 1
        <5>1. j \in 1..n /\ stack'[j] = rest[j]
          BY <2>5, <4>2
        <5> QED
          BY <1>6, <1>7, <3>2, <5>1 DEF Open
      <4> QED
        BY <4>1, <4>2
    <3> QED
      BY <3>2 DEF Open
  <2>8. Stages'
    BY <1>1 DEF Stages
  <2>9. ASSUME ~freed PROVE Stuffed' \/ Written(tree, stack', text' \o buf')
    <3>1. Stuck(end) <=> Stuffed'
      BY <2>1 DEF Stuck, Stuffed
    <3>2. text' \o buf' = All(end)
      BY <2>1 DEF All
    <3>3. CASE Stuck(end)
      BY <3>1, <3>3
    <3>4. CASE ~Stuck(end)
      <4>1. Written(tree, stack, text \o buf)
        BY <1>1, <2>2, <2>9, <3>4 DEF ListInv
      <4>2. text \o buf \in Seq(Chars)
        BY <1>2, ConcatProperties
      <4> DEFINE all == text \o buf
      <4>3. all \in Seq(Chars) /\ Written(tree, stack, all)
        BY <4>1, <4>2
      <4> HIDE DEF all
      <4>4. Written(tree, Append(rest, below), all \o Line(e))
        BY <1>1, <1>2, <1>4, <1>7, <1>8, <4>3, WalkedDown
      <4>5. text' \o buf' = all \o Line(e)
        BY <2>2, <3>2, <3>4 DEF all
      <4> QED
        BY <2>1, <4>4, <4>5
    <3> QED
      BY <3>3, <3>4
  <2> QED
    BY <1>1, <2>6, <2>7, <2>8, <2>9 DEF ListInv
<1>9. CASE ~Utf8(Last(e))
  <2>1. UNCHANGED <<buf, text, room>> /\ stack' = rest
    BY <1>3, <1>4, <1>9
  <2>2. TypeOK'
    <3> HIDE DEF rest
    <3>1. stack' \in Seq(SUBSET tree')
      BY <1>1, <1>6, <2>1
    <3> QED
      BY <1>1, <2>1, <3>1 DEF ListInv, TypeOK
  <2>3. Stages'
    BY <1>1 DEF Stages
  <2>4. ASSUME ~freed PROVE Stuffed' \/ Written(tree, stack', text' \o buf')
    <3>1. Stuffed' <=> Stuffed
      BY <2>1 DEF Stuffed
    <3> DEFINE all == text \o buf
    <3>2. CASE Written(tree, stack, all)
      <4> HIDE DEF all
      <4>1. Written(tree, rest, all)
        BY <1>1, <1>2, <1>4, <1>9, <3>2, WalkedPast
      <4> QED
        BY <2>1, <4>1 DEF all
    <3> QED
      BY <1>1, <2>4, <3>1, <3>2 DEF ListInv
  <2> QED
    BY <1>1, <1>7, <2>1, <2>2, <2>3, <2>4 DEF ListInv
<1> QED
  BY <1>8, <1>9

LEMMA WalkUpStep ==
  ASSUME ListInv, WalkUp
  PROVE  ListInv'
<1>1. /\ stack # <<>> /\ Last(stack) = {} /\ stack' = Front(stack)
      /\ UNCHANGED <<tree, buf, text, room, freed, scan, at, loaded, skipped>>
      /\ scan = "walking" /\ at = 0 /\ loaded = {} /\ skipped = 0
  BY DEF WalkUp, Top, fileVars, ListInv, Stages
<1>2. stack \in Seq(SUBSET tree)
  BY DEF ListInv, TypeOK
<1> DEFINE n == Len(stack)
<1>3. /\ stack' \in Seq(SUBSET tree) /\ Len(stack') = n - 1 /\ n \in Nat /\ n > 0
      /\ \A j \in 1..(n - 1) : stack'[j] = stack[j]
  BY <1>1, <1>2, FrontIs
<1>4. TypeOK'
  BY <1>1, <1>3 DEF ListInv, TypeOK
<1>5. Open(stack')
  <2>1. \A j \in 1..Len(stack') : j \in 1..n /\ stack'[j] = stack[j]
    <3> HIDE DEF n
    <3> QED
      BY <1>3
  <2> QED
    BY <2>1 DEF ListInv, Open
<1>6. Stages'
  BY <1>1 DEF Stages
<1>7. ASSUME ~freed PROVE Stuffed' \/ Written(tree, stack', text' \o buf')
  <2>1. Stuffed' <=> Stuffed
    BY <1>1 DEF Stuffed
  <2> DEFINE all == text \o buf
  <2>2. CASE Written(tree, stack, all)
    <3> HIDE DEF all
    <3>1. Written(tree, Front(stack), all)
      BY <1>1, <1>2, <2>2, WalkedUp
    <3> QED
      BY <1>1, <3>1 DEF all
  <2> QED
    BY <1>1, <1>7, <2>1, <2>2 DEF ListInv
<1> QED
  BY <1>1, <1>4, <1>5, <1>6, <1>7 DEF ListInv

LEMMA EndScanStep ==
  ASSUME ListFileAssumption, ListInv, EndScan
  PROVE  ListInv'
<1> DEFINE end == Flush(Writer)
<1>1. /\ stack = <<>> /\ scan = "walking" /\ at = 0 /\ loaded = {} /\ skipped = 0
      /\ buf' = end.buf /\ text' = end.text /\ room' = end.room
      /\ scan' = IF end.ok THEN "ok" ELSE "failed"
      /\ UNCHANGED <<tree, stack, freed, at, loaded, skipped>>
  BY DEF EndScan, ListInv, Stages
<1>2. /\ tree \in Trees /\ stack \in Seq(SUBSET tree) /\ Len(buf) <= Capacity /\ room \in 0..Enough
      /\ freed \in BOOLEAN /\ Enough \in Nat /\ Capacity \in Nat /\ buf \in Seq(Chars)
  BY DEF ListInv, TypeOK, ListFileAssumption
<1>3. /\ end \in Writers /\ end.room <= room /\ Len(end.buf) <= Len(buf)
      /\ end.ok => end.buf = <<>> /\ end.text = text \o buf
      /\ Stuffed => ~end.ok
  <2>1. Writer \in Writers /\ Writer.buf = buf /\ Writer.room = room /\ All(Writer) = text \o buf
        /\ (Stuck(Writer) <=> Stuffed)
    <3>1. TypeOK
      BY DEF ListInv
    <3> QED
      BY <3>1, WriterTyped
  <2> DEFINE from == Writer
  <2> HIDE DEF from
  <2>2. from \in Writers
    BY <2>1 DEF from
  <2>3. /\ Flush(from) \in Writers /\ Flush(from).room <= from.room /\ Len(Flush(from).buf) <= Len(from.buf)
        /\ Flush(from).ok => Flush(from).buf = <<>> /\ Flush(from).text = All(from)
        /\ Stuck(from) => ~Flush(from).ok
    BY <2>2, FlushMoves
  <2> QED
    BY <2>1, <2>3 DEF from
<1> HIDE DEF end
<1>4. end.buf \in Seq(Chars) /\ end.text \in Seq(Chars) /\ end.room \in 0..Enough
  <2>1. end.buf \in Seq(Chars) /\ end.text \in Seq(Chars) /\ end.room \in Nat
    BY <1>3 DEF Writers
  <2> QED
    BY <1>2, <1>3, <2>1
<1>5. TypeOK'
  <2>1. Len(text') \in Nat /\ Len(buf') <= Capacity
    <3>1. Len(end.buf) \in Nat /\ Len(end.text) \in Nat /\ Len(buf) \in Nat
      BY <1>2, <1>4
    <3> QED
      BY <1>1, <1>2, <1>3, <3>1
  <2>2. at' = 0 /\ skipped' = 0 /\ loaded' = {} /\ 0 \in 0..Len(text')
    BY <1>1, <2>1
  <2> QED
    BY <1>1, <1>2, <1>4, <2>1, <2>2 DEF TypeOK
<1>6. Stages' /\ Open(stack')
  BY <1>1 DEF Stages, ListInv
<1>7. ASSUME ~freed', scan' = "ok" PROVE Written(tree, stack, text') /\ Loaded'
  <2>1. end.ok /\ ~freed
    BY <1>1, <1>7
  <2>2. text' = text \o buf /\ ~Stuffed
    BY <1>1, <1>3, <2>1
  <2>3. Written(tree, stack, text')
    BY <1>1, <2>1, <2>2 DEF ListInv
  <2>4. Loaded'
    <3>1. at' = 0 /\ loaded' = {} /\ skipped' = 0 /\ ~(\E p \in 0..Len(text') : p < 0)
      BY <1>1
    <3> QED
      BY <3>1 DEF Loaded, IsStart
  <2> QED
    BY <2>3, <2>4
<1>8. scan' # "walking"
  BY <1>1
<1> QED
  BY <1>1, <1>5, <1>6, <1>7, <1>8 DEF ListInv

LEMMA FreeRoomStep ==
  ASSUME ListFileAssumption, ListInv, FreeRoom
  PROVE  ListInv'
<1>1. /\ room' = Enough /\ freed' = TRUE /\ UNCHANGED <<tree, stack, buf, text, scan, at, loaded, skipped>>
  BY DEF FreeRoom
<1>2. Enough \in 0..Enough
  BY DEF ListFileAssumption
<1>3. TypeOK' /\ Stages' /\ Open(stack')
  BY <1>1, <1>2 DEF ListInv, TypeOK, Stages
<1> QED
  BY <1>1, <1>3 DEF ListInv

\* Whatever a line is, its columns are texts.
LEMMA ParseRowTyped ==
  ASSUME NEW line \in Seq(Chars)
  PROVE  parse_row(line) \in Seq(Seq(Chars))
<1>1. Start \in States
  <2>1. Start = State(<<>>, <<>>, FALSE, "plain")
    BY DEF Start, State
  <2>2. <<>> \in Seq(Chars) /\ <<>> \in Seq(Seq(Chars))
    OBVIOUS
  <2> QED
    BY <2>1, <2>2, StateTyped
<1>2. PICK st \in States : Reads(Start, line, st)
  BY <1>1, ReadsSome
<1>3. Parse(line)[Len(line)] = st
  BY <1>2, ParseIs
<1> DEFINE over == IF st.mode = "esc" THEN Push(st, <<Backslash>>) ELSE st
<1>4. over \in States
  <2>1. <<Backslash>> \in Seq(Chars)
    BY CharsAre
  <2>2. Push(st, <<Backslash>>) \in States
    BY <2>1, PushTyped
  <2> QED
    BY <2>2
<1>5. parse_row(line) = EndField(over).cols
  BY <1>3, Zenon DEF parse_row
<1> HIDE DEF over
<1>6. EndField(over) \in States
  BY <1>4, EndFieldTyped
<1> QED
  BY <1>5, <1>6, StateIs

LEMMA ReadLineStep ==
  ASSUME ListFileAssumption, ListInv, ReadLine
  PROVE  ListInv'
<1>1. /\ scan = "ok" /\ at < Len(text) /\ stack = <<>> /\ skipped <= at
      /\ UNCHANGED <<tree, stack, buf, text, room, freed, scan>>
  BY DEF ReadLine, fileVars, ListInv, Stages
<1>2. /\ tree \in Trees /\ text \in Seq(Chars) /\ Len(text) \in Nat /\ at \in 0..Len(text)
      /\ skipped \in 0..Len(text) /\ \A row \in loaded : row \in Seq(Seq(Chars)) /\ Len(row) = 3
  <2>1. text \in Seq(Chars)
    BY DEF ListInv, TypeOK
  <2> QED
    BY <2>1 DEF ListInv, TypeOK
<1>3. PICK end \in (at + 1)..Len(text) :
        /\ text[end] = Newline \/ end = Len(text)
        /\ \A i \in (at + 1)..(end - 1) : text[i] # Newline
        /\ LET line == SubSeq(text, at + 1, IF text[end] = Newline THEN end - 1 ELSE end)
           IN  Load(parse_row(line), line)
        /\ at' = end
  BY DEF ReadLine
<1> DEFINE line == SubSeq(text, at + 1, IF text[end] = Newline THEN end - 1 ELSE end)
           cols == parse_row(line)
<1>4. Load(cols, line)
  BY <1>3
<1>5. line \in Seq(Chars)
  <2> DEFINE last == IF text[end] = Newline THEN end - 1 ELSE end
  <2>1. last \in Int /\ last <= Len(text) /\ at + 1 \in Int /\ at + 1 > 0
    BY <1>2, <1>3
  <2>2. line = SubSeq(text, at + 1, last)
    OBVIOUS
  <2> HIDE DEF last, line
  <2>3. \A i \in (at + 1)..last : text[i] \in Chars
    BY <1>2, <2>1
  <2>4. SubSeq(text, at + 1, last) \in Seq(Chars)
    BY <2>1, <2>3, SubSeqProperties
  <2> QED
    BY <2>2, <2>4
<1>6. cols \in Seq(Seq(Chars))
  <2> HIDE DEF line
  <2> QED
    BY <1>5, ParseRowTyped
<1>7. /\ Len(cols) = 3 => loaded' = loaded \cup {cols} /\ skipped' = skipped
      /\ Len(cols) # 3 => loaded' = loaded /\ (skipped' = skipped + 1 \/ skipped' = skipped + 0)
  <2> HIDE DEF line, cols
  <2> QED
    BY <1>4 DEF Load
<1> HIDE DEF cols
<1>8. /\ at' \in 0..Len(text) /\ at < at' /\ at' = end
      /\ skipped' \in 0..Len(text) /\ skipped' <= at'
      /\ \A row \in loaded' : row \in Seq(Seq(Chars)) /\ Len(row) = 3
  <2>1. at' \in 0..Len(text) /\ at < at' /\ at' = end
    BY <1>2, <1>3
  <2>2. skipped' \in 0..Len(text) /\ skipped' <= at'
    <3>1. skipped' = skipped \/ skipped' = skipped + 1
      BY <1>2, <1>7
    <3> QED
      BY <1>1, <1>2, <2>1, <3>1
  <2>3. \A row \in loaded' : row \in Seq(Seq(Chars)) /\ Len(row) = 3
    <3>1. CASE Len(cols) = 3
      BY <1>2, <1>6, <1>7, <3>1
    <3>2. CASE Len(cols) # 3
      BY <1>2, <1>7, <3>2
    <3> QED
      BY <3>1, <3>2
  <2> QED
    BY <2>1, <2>2, <2>3
<1>9. TypeOK'
  <2>1. /\ tree' \in Trees /\ stack' \in Seq(SUBSET tree') /\ buf' \in Seq(Chars) /\ Len(buf') <= Capacity
        /\ room' \in 0..Enough /\ freed' \in BOOLEAN /\ scan' \in {"walking", "ok", "failed"}
        /\ text' \in Seq(Chars)
    BY <1>1 DEF ListInv, TypeOK
  <2>2. at' \in 0..Len(text') /\ skipped' \in 0..Len(text')
    BY <1>1, <1>8
  <2> QED
    BY <1>8, <2>1, <2>2 DEF TypeOK
<1>10. Stages' /\ Open(stack')
  BY <1>1, <1>8 DEF ListInv, Stages
<1>11. ASSUME ~freed PROVE Written(tree, stack, text) /\ Loaded'
  <2>1. Written(tree, stack, text) /\ Loaded
    BY <1>1, <1>11 DEF ListInv
  <2>2. text[end] = Newline
    BY <1>2, <1>3, <2>1 DEF Written, IsStart
  <2>3. ASSUME NEW e \in tree, Representable(e), RowAt(text, at, e)
        PROVE  loaded' = loaded \cup {RowOf(e)} /\ skipped' = skipped
    <3>1. e \in Entries(Chars) /\ ~HasNewline(e) /\ at \in Nat
      BY <1>2, <2>3, TreeKnown DEF Representable
    <3>2. SubSeq(text, at + 1, end - 1) = Row(e)
      BY <1>2, <1>3, <2>3, <3>1, LineFound
    <3>3. line = Row(e)
      BY <2>2, <3>2
    <3>4. parse_row(Row(e)) = RowOf(e)
      BY <3>1, RowIsRead
    <3>5. cols = RowOf(e)
      <4> HIDE DEF line
      <4> QED
        BY <3>3, <3>4 DEF cols
    <3>6. Len(RowOf(e)) = 3
      BY DEF RowOf
    <3> QED
      BY <1>7, <3>5, <3>6
  <2> HIDE DEF line
  <2>4. loaded \subseteq loaded'
    BY <1>7
  <2>5. ASSUME NEW e \in tree, NEW p \in 0..Len(text), p < at', IsStart(text, p), Representable(e),
               RowAt(text, p, e)
        PROVE  RowOf(e) \in loaded'
    <3>1. CASE p < at
      BY <2>1, <2>4, <2>5, <3>1 DEF Loaded
    <3>2. CASE p = at
      BY <2>3, <2>5, <3>2
    <3>3. ~(p > at)
      <4>1. SUFFICES ASSUME p > at PROVE FALSE
        OBVIOUS
      <4>2. p \in (at + 1)..(end - 1) /\ p # 0
        BY <1>2, <1>3, <2>5, <4>1
      <4> QED
        BY <1>3, <2>5, <4>2 DEF IsStart
    <3> QED
      BY <1>2, <3>1, <3>2, <3>3
  <2>6. ASSUME AllPlain(tree)
        PROVE  /\ \A row \in loaded' : \E e \in tree : Representable(e) /\ row = RowOf(e)
               /\ skipped' = 0
    <3>1. OnlyRows(tree, text) /\ IsStart(text, at)
      BY <2>1, <2>6 DEF Written, Loaded
    <3>2. PICK e \in tree : Representable(e) /\ RowAt(text, at, e)
      BY <1>1, <1>2, <3>1 DEF OnlyRows
    <3>3. loaded' = loaded \cup {RowOf(e)} /\ skipped' = skipped
      BY <2>3, <3>2
    <3>4. /\ \A row \in loaded : \E f \in tree : Representable(f) /\ row = RowOf(f)
          /\ skipped = 0
      BY <2>1, <2>6 DEF Loaded
    <3> QED
      BY <3>2, <3>3, <3>4
  <2>7. IsStart(text, at')
    BY <1>8, <2>2 DEF IsStart
  <2>8. tree' = tree /\ text' = text
    BY <1>1
  <2>9. Loaded'
    BY <2>5, <2>6, <2>7, <2>8 DEF Loaded
  <2> QED
    BY <2>1, <2>9
<1> QED
  BY <1>1, <1>9, <1>10, <1>11 DEF ListInv

LEMMA StutterStep ==
  ASSUME ListInv, UNCHANGED vars
  PROVE  ListInv'
  BY DEF vars, fileVars, ListInv, TypeOK, Stages, Stuffed, Loaded

LEMMA Steps == ListFileAssumption /\ ListInv /\ [Next]_vars => ListInv'
<1> SUFFICES ASSUME ListFileAssumption, ListInv, [Next]_vars PROVE ListInv'
  OBVIOUS
<1>1. CASE Walk
  BY <1>1, WalkStep
<1>2. CASE WalkUp
  BY <1>2, WalkUpStep
<1>3. CASE EndScan
  BY <1>3, EndScanStep
<1>4. CASE FreeRoom
  BY <1>4, FreeRoomStep
<1>5. CASE ReadLine
  BY <1>5, ReadLineStep
<1>6. CASE Finished \/ UNCHANGED vars
  BY <1>6, StutterStep DEF Finished
<1> QED
  BY <1>1, <1>2, <1>3, <1>4, <1>5, <1>6, Zenon DEF Next

\* What the list and what was loaded of it are worth at every point of scan_to_file()
\* and of the import of yourfs_tool.rs: the inductive invariant of the list file.
THEOREM ListFileInvariance == Spec => []ListInv
<1>1. Init => ListInv
  BY Begins, ListFileAssumption
<1>2. ListInv /\ [Next]_vars => ListInv'
  BY Steps, ListFileAssumption
<1> QED
  BY <1>1, <1>2, PTL DEF Spec

\* Types: the buffer never outgrows its capacity, and the loader never reads past the
\* end of the file, nor gives insert() anything but three columns.
THEOREM ListFileTypeCorrect == Spec => []TypeOK
<1>1. ListInv => TypeOK
  BY DEF ListInv
<1> QED
  BY <1>1, ListFileInvariance, PTL

\* When main() is through with a list whose scan ended well, every entry with a name
\* the format can represent was given to the database unaltered, for every tree, every
\* field width, every buffer and every disk: pad_field() and parse_row() undo each other,
\* walk() comes to every entry, and write_all() and flush() lose nothing unnoticed.
THEOREM GoodRowsAreLoaded == Spec => []GoodEntriesLoaded
<1>1. ASSUME ListInv PROVE GoodEntriesLoaded
  <2> SUFFICES ASSUME Over, ~freed, NEW e \in tree, Representable(e) PROVE RowOf(e) \in loaded
    BY DEF GoodEntriesLoaded
  <2>1. /\ scan = "ok" /\ at = Len(text) /\ stack = <<>> /\ tree \in Trees /\ text \in Seq(Chars)
        /\ Written(tree, stack, text) /\ Loaded
    BY <1>1 DEF Over, ListInv, Stages, TypeOK
  <2>2. ~Pending(stack, e)
    <3>1. ~(\E j \in 1..Len(stack) : TRUE)
      BY <2>1
    <3> QED
      BY <3>1 DEF Pending
  <2>3. PICK p \in 0..Len(text) : IsStart(text, p) /\ RowAt(text, p, e)
    BY <2>1, <2>2 DEF Written, Has
  <2>4. p < at
    <3>1. e \in Entries(Chars)
      BY <2>1, ListFileAssumption, TreeKnown
    <3>2. Len(Line(e)) = Len(Row(e)) + 1 /\ Len(Row(e)) \in Nat
      BY <3>1, ListFileAssumption, RowIsRead
    <3>3. p + Len(Line(e)) <= Len(text) /\ Len(text) \in Nat
      BY <2>1, <2>3 DEF RowAt
    <3> QED
      BY <2>1, <3>2, <3>3
  <2> QED
    BY <2>1, <2>3, <2>4 DEF Loaded
<1> QED
  BY <1>1, ListFileInvariance, PTL

\* And of a tree in which no name has a newline nothing else is loaded: no column is
\* mispaired, no row is malformed, no line of the list is torn or glued to another.
THEOREM NothingElseIsLoaded == Spec => []NothingElseLoaded
<1>1. ASSUME ListInv PROVE NothingElseLoaded
  <2> SUFFICES ASSUME ~freed, \A e \in tree : ~HasNewline(e)
               PROVE  /\ \A row \in loaded : \E e \in tree : Representable(e) /\ row = RowOf(e)
                      /\ skipped = 0
    BY DEF NothingElseLoaded
  <2>1. CASE scan = "ok"
    BY <1>1, <2>1 DEF ListInv, Loaded, AllPlain
  <2>2. CASE scan # "ok"
    BY <1>1, <2>2 DEF ListInv, Stages
  <2> QED
    BY <2>1, <2>2
<1> QED
  BY <1>1, ListFileInvariance, PTL

===================================================================================
