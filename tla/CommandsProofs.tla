----------------------------- MODULE CommandsProofs -----------------------------
(***************************************************************************)
(* Both programs read every command line as getopt_long() would and leave  *)
(* nothing open; a mount of yourfs serves what was asked, and yourfs-tool  *)
(* gives up an old list only for what it was asked: for every pair of      *)
(* option tables, all command lines and files.                             *)
(***************************************************************************)
EXTENDS Commands, WellFoundedInduction, FiniteSetTheorems, SequenceTheorems, TLAPS

-----------------------------------------------------------------------------------
(* Induction over the natural numbers, in the form the provers can use: about *)
(* sets, not operators.                                                       *)

LEMMA LeastNumber ==
  ASSUME NEW T \in SUBSET Nat, T # {}
  PROVE  \E m \in T : \A k \in T : m <= k
<1> DEFINE R == {p \in Nat \X Nat : p[1] < p[2]}
<1>1. IsWellFoundedOn(R, Nat)
  BY NatLessThanWellFounded DEF OpToRel
<1>2. PICK m \in T : \A k \in T : <<k, m>> \notin R
  <2> HIDE DEF R
  <2> QED
    BY <1>1, WFMin
<1>3. ASSUME NEW k \in T PROVE m <= k
  <2>1. <<k, m>> \notin R /\ k \in Nat /\ m \in Nat
    BY <1>2
  <2>2. ~(k < m)
    BY <2>1
  <2> QED
    BY <2>1, <2>2
<1> QED
  BY <1>3

LEMMA InductionBySet ==
  ASSUME NEW T \in SUBSET Nat, 0 \in T, \A n \in T : n + 1 \in T
  PROVE  T = Nat
<1> SUFFICES ASSUME Nat \ T # {} PROVE FALSE
  OBVIOUS
<1>1. PICK m \in Nat \ T : \A k \in Nat \ T : m <= k
  BY LeastNumber
<1>2. m - 1 \in T
  BY <1>1
<1> QED
  BY <1>1, <1>2


\* The same up to a bound.
LEMMA InductionUpTo ==
  ASSUME NEW n \in Nat, NEW T, 0 \in T, \A k \in 0..(n - 1) : k \in T => k + 1 \in T
  PROVE  \A k \in 0..n : k \in T
<1> DEFINE U == {k \in Nat : k <= n => k \in T}
<1>1. U \in SUBSET Nat /\ 0 \in U
  OBVIOUS
<1>2. ASSUME NEW k \in U PROVE k + 1 \in U
  <2>1. CASE k + 1 <= n
    <3>1. k \in 0..(n - 1) /\ k \in T
      BY <2>1
    <3>2. k + 1 \in T
      BY <3>1
    <3> QED
      BY <3>2
  <2>2. CASE ~(k + 1 <= n)
    BY <2>2
  <2> QED
    BY <2>1, <2>2
<1>3. U = Nat
  <2> HIDE DEF U
  <2> QED
    BY <1>1, <1>2, InductionBySet
<1>4. ASSUME NEW k \in 0..n PROVE k \in T
  <2>1. k \in Nat /\ k <= n
    OBVIOUS
  <2>2. k \in U
    BY <1>3, <2>1
  <2> QED
    BY <2>1, <2>2
<1> QED
  BY <1>4

\* Recursion along a sequence: each state is made of the one before it.
Iterates(f, S, x, n, F) ==
  f \in [0..n -> S] /\ f[0] = x /\ \A i \in 1..n : f[i] = F[i][f[i - 1]]

LEMMA IterationExists ==
  ASSUME NEW S, NEW x \in S, NEW n \in Nat, NEW F \in [1..n -> [S -> S]]
  PROVE  \E f : Iterates(f, S, x, n, F)
<1> DEFINE Runs(f, k) ==
             f \in [0..k -> S] /\ f[0] = x /\ \A i \in 1..k : f[i] = F[i][f[i - 1]]
           Good == {k \in 0..n : \E f : Runs(f, k)}
<1>1. 0 \in Good
  <2> DEFINE f == [i \in 0..0 |-> x]
  <2>1. Runs(f, 0)
    OBVIOUS
  <2> HIDE DEF f, Runs
  <2>2. 0 \in 0..n /\ \E g : Runs(g, 0)
    BY <2>1
  <2> QED
    BY <2>2
<1>2. ASSUME NEW k \in 0..(n - 1), k \in Good PROVE k + 1 \in Good
  <2>1. PICK f : Runs(f, k)
    BY <1>2
  <2>2. F[k + 1] \in [S -> S] /\ f[k] \in S
    BY <2>1
  <2>3. F[k + 1][f[k]] \in S
    BY <2>2
  <2> DEFINE y == F[k + 1][f[k]]
             g == [i \in 0..(k + 1) |-> IF i <= k THEN f[i] ELSE y]
  <2>4. g \in [0..(k + 1) -> S] /\ g[0] = x
    BY <2>1, <2>3
  <2>5. ASSUME NEW i \in 1..(k + 1) PROVE g[i] = F[i][g[i - 1]]
    <3>1. CASE i <= k
      BY <2>1, <3>1
    <3>2. CASE i = k + 1
      <4>1. g[i] = y /\ g[i - 1] = f[k]
        BY <3>2
      <4> QED
        BY <3>2, <4>1
    <3> QED
      BY <3>1, <3>2
  <2>6. Runs(g, k + 1)
    BY <2>4, <2>5
  <2> HIDE DEF g, Runs
  <2>7. k + 1 \in 0..n /\ \E h : Runs(h, k + 1)
    BY <2>6
  <2> QED
    BY <2>7
<1>3. n \in Good
  <2> HIDE DEF Good
  <2>1. \A k \in 0..n : k \in Good
    BY <1>1, <1>2, InductionUpTo
  <2> QED
    BY <2>1
<1>4. PICK f : Runs(f, n)
  BY <1>3
<1> QED
  BY <1>4 DEF Iterates

-----------------------------------------------------------------------------------
(* Sequences. *)

LEMMA FunctionIsSequence ==
  ASSUME NEW S, NEW n \in Nat, NEW f \in [1..n -> S]
  PROVE  f \in Seq(S) /\ Len(f) = n
  OBVIOUS

\* A part of a sequence is a sequence.
LEMMA CutTyped ==
  ASSUME NEW S, NEW s \in Seq(S), NEW m \in Int, NEW n \in Int, m >= 1, n <= Len(s)
  PROVE  SubSeq(s, m, n) \in Seq(S)
<1>1. \A i \in m..n : s[i] \in S
  OBVIOUS
<1> QED
  BY <1>1, SubSeqProperties

\* The first of a sequence moves to the end of what precedes it.
LEMMA HeadMoves ==
  ASSUME NEW S, NEW s \in Seq(S), NEW t \in Seq(S), t # <<>>
  PROVE  Append(s, Head(t)) \o Tail(t) = s \o t
<1>1. /\ Head(t) \in S /\ Tail(t) \in Seq(S) /\ Len(t) \in Nat \ {0}
      /\ Len(Tail(t)) = Len(t) - 1 /\ Head(t) = t[1]
      /\ \A i \in 1..(Len(t) - 1) : Tail(t)[i] = t[i + 1]
  OBVIOUS
<1> DEFINE h == Head(t)
           u == Tail(t)
<1> HIDE DEF h, u
<1>2. h \in S /\ u \in Seq(S) /\ Len(u) = Len(t) - 1 /\ h = t[1]
  BY <1>1 DEF h, u
<1>3. \A i \in 1..(Len(t) - 1) : u[i] = t[i + 1]
  BY <1>1 DEF u
<1>4. /\ Append(s, h) \in Seq(S) /\ Len(Append(s, h)) = Len(s) + 1
      /\ Append(s, h)[Len(s) + 1] = h /\ \A i \in 1..Len(s) : Append(s, h)[i] = s[i]
  BY <1>2
<1>5. Append(s, h) \o u \in Seq(S) /\ s \o t \in Seq(S)
  BY <1>2, <1>4
<1>6. Len(Append(s, h) \o u) = Len(s) + Len(t) /\ Len(s \o t) = Len(s) + Len(t)
  BY <1>1, <1>2, <1>4
<1>7. ASSUME NEW i \in 1..(Len(s) + Len(t))
      PROVE  (Append(s, h) \o u)[i] = (s \o t)[i]
  <2>1. CASE i <= Len(s)
    BY <1>1, <1>2, <1>4, <2>1
  <2>2. CASE i = Len(s) + 1
    BY <1>1, <1>2, <1>4, <2>2
  <2>3. CASE i > Len(s) + 1
    <3>1. i - (Len(s) + 1) \in 1..(Len(t) - 1)
      BY <1>1, <2>3
    <3>2. (Append(s, h) \o u)[i] = u[i - (Len(s) + 1)]
      BY <1>2, <1>4, <2>3, <3>1
    <3>3. (s \o t)[i] = t[i - Len(s)]
      BY <1>1, <2>3
    <3>4. u[i - (Len(s) + 1)] = t[i - (Len(s) + 1) + 1]
      BY <1>3, <3>1
    <3>5. i - (Len(s) + 1) + 1 = i - Len(s)
      OBVIOUS
    <3> QED
      BY <3>2, <3>3, <3>4, <3>5
  <2>4. i <= Len(s) \/ i = Len(s) + 1 \/ i > Len(s) + 1
    OBVIOUS
  <2> QED
    BY <2>1, <2>2, <2>3, <2>4, Zenon
<1>8. Append(s, h) \o u = s \o t
  BY <1>5, <1>6, <1>7, SeqEqual
<1> QED
  BY <1>8 DEF h, u

\* The first position of what is looked for is a position of it, and the first.
LEMMA FirstPosition ==
  ASSUME NEW n \in Nat, NEW I \in SUBSET (1..n), I # {}
  PROVE  Min(I) \in I /\ Min(I) \in 1..n /\ \A j \in I : Min(I) <= j
<1>1. I \in SUBSET Nat
  OBVIOUS
<1>2. PICK m \in I : \A k \in I : m <= k
  BY <1>1, LeastNumber
<1> QED
  BY <1>2 DEF Min

\* And the last position.
LEMMA LastPosition ==
  ASSUME NEW n \in Nat, NEW I \in SUBSET (1..n), I # {}
  PROVE  Max(I) \in I /\ Max(I) \in 1..n /\ \A j \in I : j <= Max(I)
<1> DEFINE T == {k \in 0..n : (n - k) \in I}
<1>1. T \in SUBSET Nat
  OBVIOUS
<1>2. T # {}
  <2>1. PICK i \in I : TRUE
    OBVIOUS
  <2>2. i \in 1..n
    BY <2>1
  <2>3. n - i \in 0..n /\ n - (n - i) = i
    BY <2>2
  <2>4. n - i \in T
    BY <2>1, <2>3
  <2> QED
    BY <2>4
<1>3. PICK m \in T : \A k \in T : m <= k
  <2> HIDE DEF T
  <2> QED
    BY <1>1, <1>2, LeastNumber
<1>4. ASSUME NEW j \in I PROVE j <= n - m
  <2>1. j \in 1..n /\ m \in 0..n
    OBVIOUS
  <2>2. n - j \in 0..n /\ n - (n - j) = j
    BY <2>1
  <2>3. n - j \in T
    BY <2>2
  <2>4. m <= n - j
    BY <1>3, <2>3
  <2> QED
    BY <2>1, <2>4
<1>5. \E x \in I : \A y \in I : x >= y
  <2>1. n - m \in I /\ m \in 0..n
    BY <1>3
  <2>2. \A y \in I : y \in Int
    OBVIOUS
  <2>3. \A y \in I : n - m >= y
    BY <1>4, <2>1, <2>2
  <2> QED
    BY <2>1, <2>3
<1>6. Max(I) \in I /\ \A y \in I : Max(I) >= y
  BY <1>5 DEF Max
<1>7. Max(I) \in 1..n /\ \A y \in I : y \in 1..n
  BY <1>6
<1>8. \A y \in I : y <= Max(I)
  <2> DEFINE m0 == Max(I)
  <2> HIDE DEF m0
  <2>1. m0 \in 1..n /\ \A y \in I : m0 >= y /\ y \in 1..n
    BY <1>6, <1>7 DEF m0
  <2>2. \A y \in I : y <= m0
    BY <2>1
  <2> QED
    BY <2>2 DEF m0
<1> QED
  BY <1>6, <1>7, <1>8

-----------------------------------------------------------------------------------
(* Numbers. *)

\* The first character that is not in the set, or the end.
LEMMA PastIsFirst ==
  ASSUME NEW s, Len(s) \in Nat, NEW n \in Nat, n <= Len(s) + 1, NEW chars
  PROVE  Past(s, n, chars) \in n..(Len(s) + 1)
<1> DEFINE T == {i \in n..(Len(s) + 1) : i = Len(s) + 1 \/ s[i] \notin chars}
<1>1. Len(s) + 1 \in T /\ T \in SUBSET Nat
  OBVIOUS
<1>2. PICK m \in T : \A k \in T : m <= k
  BY <1>1, LeastNumber
<1>3. ASSUME NEW j \in n..(m - 1) PROVE s[j] \in chars
  <2>1. j \in n..(Len(s) + 1) /\ j \in Int /\ m \in Int /\ ~(m <= j)
    BY <1>2
  <2>2. j \notin T
    BY <1>2, <2>1
  <2> QED
    BY <2>1, <2>2
<1> QED
  BY <1>2, <1>3 DEF Past

\* A character has a value as a numeral, whatever it is.
LEMMA DigitTyped == \A c : Digit(c) \in Int
<1> SUFFICES ASSUME NEW c PROVE Digit(c) \in Int
  OBVIOUS
<1> DEFINE n == Len(Numerals)
           I == {i \in 1..n : Numerals[i] = c}
<1>1. n = 10
  BY DEF Numerals
<1>2. n \in Nat /\ I \in SUBSET (1..n)
  BY <1>1
<1>3. I # {} => Min(I) \in 1..n
  <2> HIDE DEF I, n
  <2> QED
    BY <1>2, FirstPosition
<1>4. SelectInSeq(Numerals, LAMBDA d : d = c) = IF I # {} THEN Min(I) ELSE 0
  BY DEF SelectInSeq
<1> HIDE DEF I, n
<1>5. (IF I # {} THEN Min(I) ELSE 0) \in Int
  BY <1>2, <1>3
<1> QED
  BY <1>4, <1>5 DEF Digit

\* The value of a text of digits is an integer.
LEMMA NumberTyped ==
  ASSUME NEW digits, Len(digits) \in Nat
  PROVE  Number10(digits)[Len(digits)] \in Int
<1> DEFINE n == Len(digits)
           Next10(v, i) == 10 * v + Digit(digits[i])
           F == [i \in 1..n |-> [v \in Int |-> Next10(v, i)]]
           IsRun(g) == g = [i \in 0..n |-> IF i = 0 THEN 0 ELSE Next10(g[i - 1], i)]
<1>1. \A v \in Int : \A i : Next10(v, i) \in Int
  BY DigitTyped
<1>2. F \in [1..n -> [Int -> Int]]
  <2> HIDE DEF Next10, n
  <2> QED
    BY <1>1
<1>3. PICK f \in [0..n -> Int] : f[0] = 0 /\ \A i \in 1..n : f[i] = F[i][f[i - 1]]
  <2> HIDE DEF F, n
  <2> DEFINE S == Int
             x == 0
  <2>1. n \in Nat /\ x \in S /\ F \in [1..n -> [S -> S]]
    BY <1>2 DEF n
  <2> HIDE DEF S, x
  <2>2. \E f : Iterates(f, S, x, n, F)
    BY <2>1, IterationExists
  <2> QED
    BY <2>2 DEF S, x, Iterates
<1>4. IsRun(f)
  <2>1. \A i \in 1..n : f[i - 1] \in Int
    <3> HIDE DEF F, n
    <3>1. n \in Nat
      BY DEF n
    <3>2. \A i \in 1..n : i - 1 \in 0..n
      BY <3>1
    <3> QED
      BY <1>3, <3>2
  <2> HIDE DEF Next10, n
  <2>2. \A i \in 1..n : F[i][f[i - 1]] = Next10(f[i - 1], i)
    BY <2>1
  <2> HIDE DEF F
  <2>3. \A i \in 0..n : i = 0 \/ i \in 1..n
    <3>1. n \in Nat
      BY DEF n
    <3> QED
      BY <3>1
  <2> QED
    BY <1>3, <2>2, <2>3
<1> DEFINE G == CHOOSE g : IsRun(g)
<1>5. IsRun(G)
  <2> HIDE DEF IsRun
  <2> QED
    BY <1>4
<1>6. Number10(digits) = G
  BY DEF Number10
<1> HIDE DEF G
<1> DEFINE T == {k \in 0..n : G[k] \in Int}
<1>7. 0 \in T
  BY <1>5
<1>8. ASSUME NEW k \in 0..(n - 1), k \in T PROVE k + 1 \in T
  <2>1. G[k] \in Int /\ k + 1 \in 0..n
    BY <1>8
  <2>2. G[k + 1] = Next10(G[k], k + 1)
    <3> HIDE DEF Next10
    <3>1. k + 1 # 0 /\ k + 1 - 1 = k
      OBVIOUS
    <3> QED
      BY <1>5, <2>1, <3>1
  <2> HIDE DEF Next10
  <2> QED
    BY <1>1, <2>1, <2>2
<1>9. n \in T
  <2> HIDE DEF T, n
  <2>1. n \in Nat
    BY DEF n
  <2>2. \A k \in 0..n : k \in T
    BY <1>7, <1>8, <2>1, InductionUpTo
  <2> QED
    BY <2>1, <2>2
<1> QED
  BY <1>6, <1>9

\* parse_i64 returns an integer for any text, so sizes and counts can be clamped.
LEMMA ParsesToInt ==
  ASSUME NEW s \in Seq(STRING)
  PROVE  parse_i64(s) \in Int
<1> DEFINE start == Past(s, 1, {" "})
           signed == start <= Len(s) /\ s[start] \in {"+", Dash}
           first == IF signed THEN start + 1 ELSE start
           end == Past(s, first, {Numerals[i] : i \in 1..10}) - 1
           digits == SubSeq(s, first, end)
           size == Number10(digits)[Len(digits)]
<1>1. Len(s) \in Nat
  OBVIOUS
<1>2. start \in 1..(Len(s) + 1)
  <2>1. 1 \in Nat /\ 1 <= Len(s) + 1
    BY <1>1
  <2> DEFINE chars == {" "}
  <2> HIDE DEF chars
  <2>2. Past(s, 1, chars) \in 1..(Len(s) + 1)
    BY <1>1, <2>1, PastIsFirst
  <2> QED
    BY <2>2 DEF chars
<1>3. first \in 1..(Len(s) + 1)
  <2> HIDE DEF start
  <2> QED
    BY <1>1, <1>2
<1> HIDE DEF first
<1>4. end + 1 \in first..(Len(s) + 1)
  <2>1. first \in Nat /\ first <= Len(s) + 1
    BY <1>1, <1>3
  <2> DEFINE chars == {Numerals[i] : i \in 1..10}
  <2> HIDE DEF chars
  <2>2. Past(s, first, chars) \in first..(Len(s) + 1)
    BY <1>1, <2>1, PastIsFirst
  <2>3. Past(s, first, chars) - 1 + 1 = Past(s, first, chars)
    BY <1>1, <2>1, <2>2
  <2> QED
    BY <2>2, <2>3 DEF chars
<1>5. digits \in Seq(STRING)
  <2>1. end \in Int
    <3> DEFINE p == Past(s, first, {Numerals[i] : i \in 1..10})
    <3> HIDE DEF p
    <3>1. p \in Int
      <4>1. first \in Nat /\ first <= Len(s) + 1
        BY <1>1, <1>3
      <4>2. p \in first..(Len(s) + 1)
        BY <1>1, <4>1, PastIsFirst DEF p
      <4> QED
        BY <1>1, <4>1, <4>2
    <3> QED
      BY <3>1 DEF p
  <2> HIDE DEF end
  <2>2. first \in Int /\ first >= 1 /\ end <= Len(s)
    BY <1>1, <1>3, <1>4, <2>1
  <2> QED
    BY <2>1, <2>2, CutTyped
<1>6. size \in Int
  <2> HIDE DEF digits
  <2>1. Len(digits) \in Nat
    BY <1>5
  <2> QED
    BY <2>1, NumberTyped
<1>7. parse_i64(s) = IF signed /\ s[start] = Dash THEN -size ELSE size
  BY DEF parse_i64, first
<1> HIDE DEF size, signed, start
<1> QED
  BY <1>6, <1>7

-----------------------------------------------------------------------------------
(* The states that getopt_long() reads a command line in. *)

Cmds == [opt : STRING, val : Seq(STRING)]
States == [out : Seq(Cmds), want : STRING \cup {"none"}, text : Seq(STRING), stop : BOOLEAN, bad : BOOLEAN]

\* Between two arguments, with nothing wrong so far.
Reading(out, stop) ==
  State(out, "none", <<>>, stop, FALSE)

LEMMA OptTyped ==
  ASSUME NEW c \in STRING, NEW v \in Seq(STRING)
  PROVE  Opt(c, v) \in Cmds
  BY DEF Opt, Cmds

\* An option of the table is a letter other than "none".
LEMMA OptionTyped ==
  ASSUME NEW tab, Unambiguous(tab), NEW s \in tab
  PROVE  s.short \in STRING /\ s.short # "none" /\ s.long \in Seq(STRING) /\ s.arg \in BOOLEAN
<1>1. s \in [short : STRING \ {"none"}, long : Seq(STRING), arg : BOOLEAN]
  BY DEF Unambiguous
<1> QED
  BY <1>1

\* A letter that the table knows is not the mark for "no option".
LEMMA KnownIsLetter ==
  ASSUME NEW tab, Unambiguous(tab), NEW c, Known(tab, c) \/ Takes(tab, c)
  PROVE  c \in STRING /\ c # "none"
  BY OptionTyped DEF Known, Takes

\* A name that means one option means that one.
LEMMA FoundLong ==
  ASSUME NEW tab, Unambiguous(tab), NEW name, Cardinality(find_long(tab, name)) = 1
  PROVE  \E s \in tab : find_long(tab, name) = {s}
<1>1. find_long(tab, name) \in SUBSET tab
  BY DEF find_long
<1>2. IsFiniteSet(find_long(tab, name))
  BY <1>1, FS_Subset DEF Unambiguous
<1>3. \E s : find_long(tab, name) = {s}
  BY <1>2, FS_Singleton
<1> QED
  BY <1>1, <1>3

\* The position of "=" in a long option, 0 where there is none.
LEMMA EqualsTyped ==
  ASSUME NEW a \in Seq(STRING)
  PROVE  Equals(a) \in 0..Len(a)
<1> DEFINE n == Len(a)
           I == {i \in 1..n : a[i] = "="}
<1>1. n \in Nat /\ I \in SUBSET (1..n)
  OBVIOUS
<1>2. I # {} => Min(I) \in 1..n
  <2> HIDE DEF I, n
  <2> QED
    BY <1>1, FirstPosition
<1>3. Equals(a) = IF I # {} THEN Min(I) ELSE 0
  BY DEF Equals, SelectInSeq
<1> HIDE DEF I, n
<1>4. (IF I # {} THEN Min(I) ELSE 0) \in 0..n
  BY <1>1, <1>2
<1> QED
  BY <1>3, <1>4 DEF n

LEMMA InlineTyped ==
  ASSUME NEW a \in Seq(STRING)
  PROVE  Inline(a) \in Seq(STRING)
<1>1. Equals(a) \in 0..Len(a) /\ Len(a) \in Nat
  BY EqualsTyped
<1>2. Equals(a) + 1 \in Int /\ Equals(a) + 1 >= 1 /\ Len(a) \in Int /\ Len(a) <= Len(a)
  BY <1>1
<1> QED
  BY <1>2, CutTyped DEF Inline

LEMMA EmitTyped ==
  ASSUME NEW st \in States, NEW c \in STRING, NEW v \in Seq(STRING)
  PROVE  Emit(st, c, v) \in States
<1>1. Opt(c, v) \in Cmds /\ st.out \in Seq(Cmds) /\ st.stop \in BOOLEAN /\ st.bad \in BOOLEAN
  BY OptTyped DEF States
<1>2. Append(st.out, Opt(c, v)) \in Seq(Cmds) /\ <<>> \in Seq(STRING)
  BY <1>1
<1> QED
  BY <1>1, <1>2 DEF State, Emit, States

LEMMA RefuseTyped ==
  ASSUME NEW st \in States
  PROVE  Refuse(st) \in States
  BY DEF State, Refuse, States

LEMMA AwaitTyped ==
  ASSUME NEW st \in States, NEW c \in STRING
  PROVE  Await(st, c) \in States /\ Collect(st, c) \in States /\ Finish(st) \in States
<1>1. st.text \in Seq(STRING)
  BY DEF States
<1>2. Append(st.text, c) \in Seq(STRING)
  BY <1>1
<1> QED
  BY <1>2 DEF State, Await, Collect, Finish, States

\* One letter takes a state of the reader to a state of it.
LEMMA ReadLetterTyped ==
  ASSUME NEW tab, Unambiguous(tab), NEW st \in States, NEW c \in STRING
  PROVE  ReadLetter(tab, st, c) \in States
<1>1. <<>> \in Seq(STRING)
  OBVIOUS
<1>2. Emit(st, c, <<>>) \in States
  BY <1>1, EmitTyped
<1> QED
  BY <1>2, AwaitTyped, RefuseTyped DEF ReadLetter

\* The recursion over the letters defines a run, state by state.
LEMMA ReadLettersStates ==
  ASSUME NEW tab, Unambiguous(tab), NEW st \in States, NEW letters \in Seq(STRING)
  PROVE  /\ ReadLetters(tab, st, letters) \in [0..Len(letters) -> States]
         /\ ReadLetters(tab, st, letters)[0] = st
         /\ \A i \in 1..Len(letters) :
              ReadLetters(tab, st, letters)[i] =
                ReadLetter(tab, ReadLetters(tab, st, letters)[i - 1], letters[i])
<1> DEFINE n == Len(letters)
           F == [i \in 1..n |-> [v \in States |-> ReadLetter(tab, v, letters[i])]]
           IsRun(g) == g = [i \in 0..n |-> IF i = 0 THEN st
                                           ELSE ReadLetter(tab, g[i - 1], letters[i])]
<1>1. n \in Nat /\ \A i \in 1..n : letters[i] \in STRING
  OBVIOUS
<1>2. F \in [1..n -> [States -> States]]
  <2> HIDE DEF n
  <2> QED
    BY <1>1, ReadLetterTyped
<1>3. PICK f \in [0..n -> States] : f[0] = st /\ \A i \in 1..n : f[i] = F[i][f[i - 1]]
  <2> HIDE DEF F, n
  <2> DEFINE S == States
             x == st
  <2>1. n \in Nat /\ x \in S /\ F \in [1..n -> [S -> S]]
    BY <1>1, <1>2
  <2> HIDE DEF S, x
  <2>2. \E f : Iterates(f, S, x, n, F)
    BY <2>1, IterationExists
  <2> QED
    BY <2>2 DEF S, x, Iterates
<1>4. IsRun(f)
  <2> HIDE DEF n
  <2>1. \A i \in 1..n : f[i - 1] \in States
    <3> HIDE DEF F
    <3>1. \A i \in 1..n : i - 1 \in 0..n
      BY <1>1
    <3> QED
      BY <1>3, <3>1
  <2>2. \A i \in 1..n : F[i][f[i - 1]] = ReadLetter(tab, f[i - 1], letters[i])
    BY <2>1
  <2> HIDE DEF F
  <2>3. \A i \in 0..n : i = 0 \/ i \in 1..n
    BY <1>1
  <2> QED
    BY <1>3, <2>2, <2>3
<1> DEFINE G == CHOOSE g : IsRun(g)
<1>5. IsRun(G)
  <2> HIDE DEF IsRun
  <2> QED
    BY <1>4
<1>6. ReadLetters(tab, st, letters) = G
  BY DEF ReadLetters
<1> HIDE DEF G
<1>7. G[0] = st /\ \A i \in 1..n : G[i] = ReadLetter(tab, G[i - 1], letters[i])
  <2> HIDE DEF n
  <2> QED
    BY <1>1, <1>5
<1> DEFINE T == {k \in 0..n : G[k] \in States}
<1>8. 0 \in T
  BY <1>7
<1>9. ASSUME NEW k \in 0..(n - 1), k \in T PROVE k + 1 \in T
  <2>1. G[k] \in States /\ k + 1 \in 1..n /\ k + 1 \in 0..n /\ k + 1 - 1 = k
    BY <1>1, <1>9
  <2>2. G[k + 1] = ReadLetter(tab, G[k], letters[k + 1]) /\ letters[k + 1] \in STRING
    <3> HIDE DEF n, T
    <3> QED
      BY <1>1, <1>7, <2>1
  <2>3. G[k + 1] \in States
    BY <2>1, <2>2, ReadLetterTyped
  <2> QED
    BY <2>1, <2>3
<1>10. \A k \in 0..n : G[k] \in States
  <2> HIDE DEF T, n
  <2>1. \A k \in 0..n : k \in T
    BY <1>1, <1>8, <1>9, InductionUpTo
  <2> QED
    BY <2>1 DEF T
<1>11. G \in [0..n -> States]
  <2> HIDE DEF n
  <2> QED
    BY <1>5, <1>10
<1> HIDE DEF n
<1>12. /\ G \in [0..n -> States] /\ G[0] = st
       /\ \A i \in 1..n : G[i] = ReadLetter(tab, G[i - 1], letters[i])
  BY <1>7, <1>11
<1> QED
  BY <1>6, <1>12 DEF n

\* The cases of a letter: read no more, part of a value, an option that takes a
\* value, a flag, or unknown.
LEMMA LetterCases ==
  ASSUME NEW tab, NEW st, NEW c
  PROVE  \/ st.stop /\ ReadLetter(tab, st, c) = st
         \/ st.want # "none" /\ ReadLetter(tab, st, c) = Collect(st, c)
         \/ Takes(tab, c) /\ ReadLetter(tab, st, c) = Await(st, c)
         \/ ReadLetter(tab, st, c) = Emit(st, c, <<>>)
         \/ ReadLetter(tab, st, c) = Refuse(st)
  BY DEF ReadLetter

\* One long option takes a state of the reader to a state of it, with or without "=".
LEMMA ReadLongTyped ==
  ASSUME NEW tab, Unambiguous(tab), NEW st \in States, NEW a \in Seq(STRING)
  PROVE  ReadLong(tab, st, a) \in States
<1> DEFINE hits == find_long(tab, LongName(a))
           s == CHOOSE s \in hits : TRUE
<1>1. CASE Cardinality(hits) # 1
  BY <1>1, RefuseTyped DEF ReadLong
<1>2. CASE Cardinality(hits) = 1
  <2>1. s \in tab
    <3>1. \E t \in tab : hits = {t}
      BY <1>2, FoundLong
    <3> QED
      BY <3>1
  <2>2. s.short \in STRING /\ s.arg \in BOOLEAN
    <3> HIDE DEF s
    <3> QED
      BY <2>1, OptionTyped
  <2>3. ReadLong(tab, st, a) = CASE ~s.arg -> Emit(st, s.short, <<>>)
                                 [] s.arg /\ Equals(a) # 0 -> Emit(st, s.short, Inline(a))
                                 [] OTHER -> Await(st, s.short)
    BY <1>2 DEF ReadLong
  <2> HIDE DEF s, hits
  <2>4. <<>> \in Seq(STRING) /\ Inline(a) \in Seq(STRING)
    BY InlineTyped
  <2>5. Emit(st, s.short, <<>>) \in States
    BY <2>2, <2>4, EmitTyped
  <2>6. Emit(st, s.short, Inline(a)) \in States
    BY <2>2, <2>4, EmitTyped
  <2>7. Await(st, s.short) \in States
    BY <2>2, AwaitTyped
  <2> QED
    BY <2>2, <2>3, <2>5, <2>6, <2>7
<1> QED
  BY <1>1, <1>2

\* And so does one cluster, whose tail may be a value.
LEMMA ReadClusterTyped ==
  ASSUME NEW tab, Unambiguous(tab), NEW st \in States, st.want = "none", st.text = <<>>,
         NEW a \in Seq(STRING), IsCluster(a)
  PROVE  ReadCluster(tab, st, a) \in States
<1> DEFINE letters == Tail(a)
           n == Len(a) - 1
           R == ReadLetters(tab, st, letters)
           after == R[n]
<1>1. letters \in Seq(STRING) /\ n \in Nat /\ n = Len(letters)
  <2>1. a # <<>>
    BY DEF IsCluster
  <2> QED
    BY <2>1, HeadTailProperties
<1> HIDE DEF letters, n
<1>2. /\ R \in [0..n -> States] /\ R[0] = st
      /\ \A i \in 1..n : R[i] = ReadLetter(tab, R[i - 1], letters[i])
  BY <1>1, ReadLettersStates
<1> HIDE DEF R
<1> DEFINE T == {k \in 0..n : R[k].want = "none" => R[k].text = <<>>}
<1>3. 0 \in T
  BY <1>1, <1>2
<1>4. ASSUME NEW k \in 0..(n - 1), k \in T PROVE k + 1 \in T
  <2>1. R[k + 1] = ReadLetter(tab, R[k], letters[k + 1]) /\ R[k] \in States
    BY <1>1, <1>2
  <2> DEFINE v == R[k]
             w == R[k + 1]
             c == letters[k + 1]
  <2>2. v \in States /\ (v.want = "none" => v.text = <<>>) /\ w = ReadLetter(tab, v, c)
    BY <1>4, <2>1
  <2>3. c \in STRING
    BY <1>1
  <2> HIDE DEF v, w, c
  <2>4. w.want = "none" => w.text = <<>>
    <3>1. Takes(tab, c) => c # "none"
      BY KnownIsLetter
    <3>2. Await(v, c).want = c /\ Collect(v, c).want = v.want
      BY <2>2 DEF State, Await, Collect, States
    <3>3. Emit(v, c, <<>>).text = <<>> /\ Refuse(v).want = v.want /\ Refuse(v).text = v.text
      BY DEF State, Emit, Refuse
    <3>4. CASE v.stop /\ w = v
      BY <2>2, <3>4
    <3>5. CASE v.want # "none" /\ w = Collect(v, c)
      BY <3>2, <3>5
    <3>6. CASE Takes(tab, c) /\ w = Await(v, c)
      BY <3>1, <3>2, <3>6
    <3>7. CASE w = Emit(v, c, <<>>)
      BY <3>3, <3>7
    <3>8. CASE w = Refuse(v)
      BY <2>2, <3>3, <3>8
    <3> QED
      BY <2>2, <3>4, <3>5, <3>6, <3>7, <3>8, LetterCases
  <2>5. k + 1 \in 0..n
    BY <1>1
  <2> QED
    BY <2>4, <2>5 DEF w
<1>5. after.want = "none" => after.text = <<>>
  <2> HIDE DEF T
  <2>1. n \in T
    <3>1. \A k \in 0..n : k \in T
      BY <1>1, <1>3, <1>4, InductionUpTo
    <3> QED
      BY <1>1, <3>1
  <2> QED
    BY <2>1 DEF T
<1>6. after \in States
  BY <1>1, <1>2
<1>7. ReadCluster(tab, st, a) = IF after.text # <<>> THEN Emit(after, after.want, after.text)
                                ELSE after
  BY DEF ReadCluster, R, letters, n
<1> HIDE DEF after
<1>8. CASE after.text # <<>>
  <2>1. after.want \in STRING /\ after.text \in Seq(STRING)
    BY <1>5, <1>6, <1>8 DEF States
  <2>2. Emit(after, after.want, after.text) \in States
    BY <1>6, <2>1, EmitTyped
  <2> QED
    BY <1>7, <1>8, <2>2
<1> QED
  BY <1>6, <1>7, <1>8

\* Between two arguments no text waits to become a value.
Rests == {st \in States : st.text = <<>>}

\* The cases of an argument: read no more, a value that was waited for, a long
\* option, a cluster, or the end of the options.
LEMMA ArgumentCases ==
  ASSUME NEW tab, NEW st, NEW a
  PROVE  \/ st.stop /\ ReadArgument(tab, st, a) = st
         \/ /\ ~st.stop /\ st.want # "none"
            /\ ReadArgument(tab, st, a) = Emit(st, st.want, a)
         \/ /\ ~st.stop /\ st.want = "none"
            /\ \/ IsLong(a) /\ ReadArgument(tab, st, a) = ReadLong(tab, st, a)
               \/ /\ ~IsLong(a) /\ IsCluster(a)
                  /\ ReadArgument(tab, st, a) = ReadCluster(tab, st, a)
               \/ /\ ~IsLong(a) /\ ~IsCluster(a)
                  /\ ReadArgument(tab, st, a) = Finish(st)
  BY DEF ReadArgument

LEMMA EmitRests ==
  ASSUME NEW st, NEW c, NEW v
  PROVE  Emit(st, c, v).text = <<>>
  BY DEF State, Emit

LEMMA LongRests ==
  ASSUME NEW tab, NEW st \in Rests, NEW a
  PROVE  ReadLong(tab, st, a).text = <<>>
<1>1. \A c : Await(st, c).text = <<>> /\ Refuse(st).text = <<>>
  BY DEF State, Await, Refuse, Rests, States
<1> QED
  BY <1>1, EmitRests DEF ReadLong

\* Between two arguments no text of a value is collected.
LEMMA ReadArgumentTyped ==
  ASSUME NEW tab, Unambiguous(tab), NEW st \in Rests, NEW a \in Seq(STRING)
  PROVE  ReadArgument(tab, st, a) \in Rests
<1> DEFINE w == ReadArgument(tab, st, a)
<1>1. st \in States /\ st.text = <<>>
  BY DEF Rests
<1>2. CASE st.stop /\ w = st
  BY <1>1, <1>2 DEF Rests
<1>3. CASE st.want # "none" /\ w = Emit(st, st.want, a)
  <2>1. st.want \in STRING
    BY <1>1, <1>3 DEF States
  <2>2. Emit(st, st.want, a) \in States
    BY <1>1, <2>1, EmitTyped
  <2> QED
    BY <1>3, <2>2, EmitRests DEF Rests
<1>4. CASE w = ReadLong(tab, st, a)
  BY <1>1, <1>4, ReadLongTyped, LongRests DEF Rests
<1>5. CASE st.want = "none" /\ IsCluster(a) /\ w = ReadCluster(tab, st, a)
  <2>1. ReadCluster(tab, st, a) \in States
    BY <1>1, <1>5, ReadClusterTyped
  <2>2. ReadCluster(tab, st, a).text = <<>>
    BY EmitRests DEF ReadCluster
  <2> QED
    BY <1>5, <2>1, <2>2 DEF Rests
<1>6. CASE w = Finish(st)
  <2>1. Finish(st).text = <<>>
    BY <1>1 DEF State, Finish, States
  <2>2. Finish(st) \in States
    BY <1>1 DEF State, Finish, States
  <2> QED
    BY <1>6, <2>1, <2>2 DEF Rests
<1> QED
  BY <1>2, <1>3, <1>4, <1>5, <1>6, ArgumentCases

\* The reader starts with nothing read.
LEMMA BeginRests == Begin \in Rests /\ Begin = Reading(<<>>, FALSE)
  BY DEF State, Begin, Reading, Rests, States

\* The recursion over the arguments defines a run, state by state.
LEMMA ReadArgumentsStates ==
  ASSUME NEW tab, Unambiguous(tab), NEW line \in Seq(Seq(STRING))
  PROVE  /\ ReadArguments(tab, line) \in [0..Len(line) -> Rests]
         /\ ReadArguments(tab, line)[0] = Begin
         /\ \A i \in 1..Len(line) :
              ReadArguments(tab, line)[i] =
                ReadArgument(tab, ReadArguments(tab, line)[i - 1], line[i])
<1> DEFINE n == Len(line)
           F == [i \in 1..n |-> [v \in Rests |-> ReadArgument(tab, v, line[i])]]
           IsRun(g) == g = [i \in 0..n |-> IF i = 0 THEN Begin
                                           ELSE ReadArgument(tab, g[i - 1], line[i])]
<1>1. n \in Nat /\ \A i \in 1..n : line[i] \in Seq(STRING)
  OBVIOUS
<1>2. F \in [1..n -> [Rests -> Rests]]
  <2> HIDE DEF n
  <2> QED
    BY <1>1, ReadArgumentTyped
<1>3. PICK f \in [0..n -> Rests] : f[0] = Begin /\ \A i \in 1..n : f[i] = F[i][f[i - 1]]
  <2> HIDE DEF F, n
  <2> DEFINE S == Rests
             x == Begin
  <2>1. n \in Nat /\ x \in S /\ F \in [1..n -> [S -> S]]
    BY <1>1, <1>2, BeginRests
  <2> HIDE DEF S, x
  <2>2. \E f : Iterates(f, S, x, n, F)
    BY <2>1, IterationExists
  <2> QED
    BY <2>2 DEF S, x, Iterates
<1>4. IsRun(f)
  <2> HIDE DEF n
  <2>1. \A i \in 1..n : f[i - 1] \in Rests
    <3> HIDE DEF F
    <3>1. \A i \in 1..n : i - 1 \in 0..n
      BY <1>1
    <3> QED
      BY <1>3, <3>1
  <2>2. \A i \in 1..n : F[i][f[i - 1]] = ReadArgument(tab, f[i - 1], line[i])
    BY <2>1
  <2> HIDE DEF F
  <2>3. \A i \in 0..n : i = 0 \/ i \in 1..n
    BY <1>1
  <2> QED
    BY <1>3, <2>2, <2>3
<1> DEFINE G == CHOOSE g : IsRun(g)
<1>5. IsRun(G)
  <2> HIDE DEF IsRun
  <2> QED
    BY <1>4
<1>6. ReadArguments(tab, line) = G
  BY DEF ReadArguments
<1> HIDE DEF G
<1>7. G[0] = Begin /\ \A i \in 1..n : G[i] = ReadArgument(tab, G[i - 1], line[i])
  <2> HIDE DEF n
  <2> QED
    BY <1>1, <1>5
<1> DEFINE T == {k \in 0..n : G[k] \in Rests}
<1>8. 0 \in T
  <2>1. 0 \in 0..n
    BY <1>1
  <2> HIDE DEF n
  <2> QED
    BY <1>7, <2>1, BeginRests
<1>9. ASSUME NEW k \in 0..(n - 1), k \in T PROVE k + 1 \in T
  <2>1. G[k] \in Rests /\ k + 1 \in 1..n /\ k + 1 \in 0..n /\ k + 1 - 1 = k
    BY <1>1, <1>9
  <2>2. G[k + 1] = ReadArgument(tab, G[k], line[k + 1]) /\ line[k + 1] \in Seq(STRING)
    <3> HIDE DEF n, T
    <3> QED
      BY <1>1, <1>7, <2>1
  <2>3. G[k + 1] \in Rests
    BY <2>1, <2>2, ReadArgumentTyped
  <2> QED
    BY <2>1, <2>3
<1>10. \A k \in 0..n : G[k] \in Rests
  <2> HIDE DEF T, n
  <2>1. \A k \in 0..n : k \in T
    BY <1>1, <1>8, <1>9, InductionUpTo
  <2> QED
    BY <2>1 DEF T
<1>11. G \in [0..n -> Rests]
  <2> HIDE DEF n
  <2> QED
    BY <1>5, <1>10
<1> HIDE DEF n
<1>12. /\ G \in [0..n -> Rests] /\ G[0] = Begin
       /\ \A i \in 1..n : G[i] = ReadArgument(tab, G[i - 1], line[i])
  BY <1>7, <1>11
<1> QED
  BY <1>6, <1>12 DEF n

-----------------------------------------------------------------------------------
(* What is read of each kind of argument. *)

FlagsOf(letters, n) == [i \in 1..n |-> Opt(letters[i], <<>>)]
Flag(tab, c) == Known(tab, c) /\ ~Takes(tab, c)

\* What n flags return.
LEMMA FlagsTyped ==
  ASSUME NEW letters \in Seq(STRING), NEW n \in 0..Len(letters)
  PROVE  FlagsOf(letters, n) \in Seq(Cmds) /\ Len(FlagsOf(letters, n)) = n
<1>1. \A i \in 1..n : letters[i] \in STRING /\ <<>> \in Seq(STRING)
  OBVIOUS
<1>2. \A i \in 1..n : Opt(letters[i], <<>>) \in Cmds
  BY <1>1, OptTyped
<1>3. FlagsOf(letters, n) \in [1..n -> Cmds]
  BY <1>2 DEF FlagsOf
<1> QED
  BY <1>3, FunctionIsSequence

LEMMA ReadingTyped ==
  ASSUME NEW out \in Seq(Cmds), NEW stop \in BOOLEAN
  PROVE  Reading(out, stop) \in Rests
  BY DEF State, Reading, Rests, States

\* One flag more.
LEMMA AppendFlag ==
  ASSUME NEW out \in Seq(Cmds), NEW letters \in Seq(STRING), NEW k \in 0..(Len(letters) - 1)
  PROVE  Append(out \o FlagsOf(letters, k), Opt(letters[k + 1], <<>>))
           = out \o FlagsOf(letters, k + 1)
<1> DEFINE f == FlagsOf(letters, k)
           g == FlagsOf(letters, k + 1)
           e == Opt(letters[k + 1], <<>>)
<1>1. f \in Seq(Cmds) /\ Len(f) = k
  BY FlagsTyped
<1>2. g \in Seq(Cmds) /\ Len(g) = k + 1
  <2>1. k + 1 \in 0..Len(letters)
    OBVIOUS
  <2> QED
    BY <2>1, FlagsTyped
<1>3. e \in Cmds
  <2>1. letters[k + 1] \in STRING /\ <<>> \in Seq(STRING)
    OBVIOUS
  <2> QED
    BY <2>1, OptTyped
<1>4. g[k + 1] = e /\ \A i \in 1..k : g[i] = f[i]
  BY DEF FlagsOf
<1> HIDE DEF e, f, g
<1>5. /\ out \o f \in Seq(Cmds) /\ Len(out \o f) = Len(out) + k
      /\ out \o g \in Seq(Cmds) /\ Len(out \o g) = Len(out) + k + 1
  <2>1. out \o f \in Seq(Cmds) /\ out \o g \in Seq(Cmds)
    BY <1>1, <1>2
  <2>2. Len(out \o f) = Len(out) + Len(f)
    BY <1>1
  <2>3. Len(out \o g) = Len(out) + Len(g)
    BY <1>2
  <2> QED
    BY <1>1, <1>2, <2>1, <2>2, <2>3
<1>6. /\ \A i \in 1..Len(out) : (out \o f)[i] = out[i] /\ (out \o g)[i] = out[i]
      /\ \A i \in 1..k : (out \o f)[Len(out) + i] = f[i] /\ (out \o g)[Len(out) + i] = g[i]
      /\ (out \o g)[Len(out) + k + 1] = g[k + 1]
  BY <1>1, <1>2
<1> DEFINE u == out \o f
           v == out \o g
<1>7. Append(u, e) = v
  <2> HIDE DEF u, v
  <2>1. u \in Seq(Cmds) /\ Len(u) = Len(out) + k /\ v \in Seq(Cmds) /\ Len(v) = Len(out) + k + 1
    BY <1>5 DEF u, v
  <2>2. v[Len(out) + k + 1] = e
    BY <1>4, <1>6 DEF v
  <2>3. ASSUME NEW i \in 1..(Len(out) + k) PROVE u[i] = v[i]
    <3>1. CASE i \in 1..Len(out)
      BY <1>6, <3>1 DEF u, v
    <3>2. CASE i - Len(out) \in 1..k
      <4>1. i = Len(out) + (i - Len(out))
        OBVIOUS
      <4> QED
        BY <1>4, <1>6, <3>2, <4>1 DEF u, v
    <3>3. i \in 1..Len(out) \/ i - Len(out) \in 1..k
      OBVIOUS
    <3> QED
      BY <3>1, <3>2, <3>3, Zenon
  <2>4. Append(u, e) \in Seq(Cmds) /\ Len(Append(u, e)) = Len(out) + k + 1
    BY <2>1, <1>3
  <2>5. ASSUME NEW i \in 1..(Len(out) + k + 1) PROVE Append(u, e)[i] = v[i]
    BY <2>1, <2>2, <2>3, <1>3
  <2> QED
    BY <2>1, <2>4, <2>5, SeqEqual
<1> QED
  BY <1>7 DEF e, f, g

\* After n flags the reader has returned the n flags and reads on.
LEMMA LettersOfFlags ==
  ASSUME NEW tab, Unambiguous(tab), NEW out \in Seq(Cmds), NEW letters \in Seq(STRING),
         NEW n \in 0..Len(letters), \A i \in 1..n : Flag(tab, letters[i])
  PROVE  ReadLetters(tab, Reading(out, FALSE), letters)[n]
           = Reading(out \o FlagsOf(letters, n), FALSE)
<1> DEFINE R == ReadLetters(tab, Reading(out, FALSE), letters)
           Then(k) == Reading(out \o FlagsOf(letters, k), FALSE)
           T == {k \in 0..n : R[k] = Then(k)}
<1>1. /\ R[0] = Reading(out, FALSE)
      /\ \A i \in 1..Len(letters) : R[i] = ReadLetter(tab, R[i - 1], letters[i])
  <2> DEFINE st == Reading(out, FALSE)
  <2>1. st \in States
    BY ReadingTyped DEF Rests
  <2> HIDE DEF st
  <2>2. /\ ReadLetters(tab, st, letters)[0] = st
        /\ \A i \in 1..Len(letters) :
             ReadLetters(tab, st, letters)[i] =
               ReadLetter(tab, ReadLetters(tab, st, letters)[i - 1], letters[i])
    BY <2>1, ReadLettersStates
  <2> QED
    BY <2>2 DEF st
<1> HIDE DEF R
<1>2. R[0] = Then(0)
  <2>1. FlagsOf(letters, 0) = <<>>
    <3>1. 0 \in 0..Len(letters)
      OBVIOUS
    <3> QED
      BY <3>1, FlagsTyped, EmptySeq
  <2>2. out \o <<>> = out
    OBVIOUS
  <2> QED
    BY <1>1, <2>1, <2>2
<1> HIDE DEF Then
<1>3. 0 \in T
  BY <1>2
<1>4. ASSUME NEW k \in 0..(n - 1), k \in T PROVE k + 1 \in T
  <2>1. k + 1 \in 1..n /\ k + 1 \in 1..Len(letters) /\ k + 1 - 1 = k
    OBVIOUS
  <2>2. R[k + 1] = ReadLetter(tab, Then(k), letters[k + 1])
    <3> HIDE DEF Then
    <3>1. R[k] = Then(k)
      BY <1>4
    <3> QED
      BY <1>1, <2>1, <3>1
  <2>3. Flag(tab, letters[k + 1])
    BY <2>1
  <2>4. ReadLetter(tab, Then(k), letters[k + 1])
          = Emit(Then(k), letters[k + 1], <<>>)
    BY <2>3 DEF State, ReadLetter, Flag, Reading, Then
  <2>5. Emit(Then(k), letters[k + 1], <<>>)
          = Reading(Append(out \o FlagsOf(letters, k), Opt(letters[k + 1], <<>>)), FALSE)
    BY DEF State, Emit, Reading, Then
  <2>6. Append(out \o FlagsOf(letters, k), Opt(letters[k + 1], <<>>))
          = out \o FlagsOf(letters, k + 1)
    <3>1. k \in 0..(Len(letters) - 1)
      OBVIOUS
    <3> QED
      BY <3>1, AppendFlag
  <2>7. R[k + 1] = Then(k + 1)
    BY <2>2, <2>4, <2>5, <2>6 DEF Then
  <2>8. k + 1 \in 0..n
    OBVIOUS
  <2> QED
    BY <2>7, <2>8
<1>5. n \in T
  <2> HIDE DEF T
  <2>1. n \in Nat /\ n \in 0..n
    OBVIOUS
  <2>2. \A k \in 0..n : k \in T
    BY <1>3, <1>4, <2>1, InductionUpTo
  <2> QED
    BY <2>1, <2>2
<1> QED
  BY <1>5 DEF R, Then

\* Once the options are over no letter changes anything.
LEMMA LettersStopped ==
  ASSUME NEW tab, Unambiguous(tab), NEW st \in States, NEW letters \in Seq(STRING),
         NEW k \in 0..Len(letters), ReadLetters(tab, st, letters)[k].stop
  PROVE  ReadLetters(tab, st, letters)[Len(letters)] = ReadLetters(tab, st, letters)[k]
<1> DEFINE R == ReadLetters(tab, st, letters)
           n == Len(letters)
           T == {j \in 0..n : j >= k => R[j] = R[k]}
<1>1. n \in Nat /\ k \in 0..n /\ \A i \in 1..n : R[i] = ReadLetter(tab, R[i - 1], letters[i])
  BY ReadLettersStates
<1>2. R[k].stop
  OBVIOUS
<1> HIDE DEF R, n
<1>3. 0 \in T
  BY <1>1
<1>4. ASSUME NEW j \in 0..(n - 1), j \in T PROVE j + 1 \in T
  <2>1. j + 1 \in 1..n /\ j + 1 \in 0..n /\ j + 1 - 1 = j
    BY <1>1
  <2>2. CASE j >= k
    <3>1. R[j] = R[k]
      BY <1>4, <2>2
    <3>2. R[j + 1] = ReadLetter(tab, R[j], letters[j + 1])
      BY <1>1, <2>1
    <3>3. R[j + 1] = R[k]
      BY <1>2, <3>1, <3>2 DEF ReadLetter
    <3> QED
      BY <2>1, <3>3
  <2>3. CASE ~(j >= k)
    <3>1. j + 1 >= k => j + 1 = k
      BY <1>1, <2>3
    <3> QED
      BY <2>1, <3>1
  <2> QED
    BY <2>2, <2>3
<1>5. n \in T
  <2> HIDE DEF T
  <2>1. \A j \in 0..n : j \in T
    BY <1>1, <1>3, <1>4, InductionUpTo
  <2> QED
    BY <1>1, <2>1
<1>6. R[n] = R[k]
  <2>1. n >= k
    BY <1>1
  <2> QED
    BY <1>5, <2>1
<1> QED
  BY <1>6 DEF R, n

\* Where an option waits for its value the letters that follow are the text of it.
LEMMA LettersCollected ==
  ASSUME NEW tab, Unambiguous(tab), NEW out \in Seq(Cmds), NEW letters \in Seq(STRING),
         NEW k \in 1..Len(letters), \A i \in 1..(k - 1) : Flag(tab, letters[i]),
         Takes(tab, letters[k])
  PROVE  ReadLetters(tab, Reading(out, FALSE), letters)[Len(letters)]
           = State(out \o FlagsOf(letters, k - 1), letters[k],
                   SubSeq(letters, k + 1, Len(letters)), FALSE, FALSE)
<1> DEFINE R == ReadLetters(tab, Reading(out, FALSE), letters)
           n == Len(letters)
           o == out \o FlagsOf(letters, k - 1)
           Waiting(j) == State(o, letters[k], SubSeq(letters, k + 1, j), FALSE, FALSE)
           T == {j \in 0..n : j >= k => R[j] = Waiting(j)}
<1>1. n \in Nat /\ k \in 1..n /\ \A i \in 1..n : R[i] = ReadLetter(tab, R[i - 1], letters[i])
  <2> DEFINE st == Reading(out, FALSE)
  <2>1. st \in States
    BY ReadingTyped DEF Rests
  <2> HIDE DEF st
  <2>2. \A i \in 1..Len(letters) :
          ReadLetters(tab, st, letters)[i] =
            ReadLetter(tab, ReadLetters(tab, st, letters)[i - 1], letters[i])
    BY <2>1, ReadLettersStates
  <2>3. n \in Nat /\ k \in 1..n
    OBVIOUS
  <2>4. \A i \in 1..n : R[i] = ReadLetter(tab, R[i - 1], letters[i])
    BY <2>2 DEF st
  <2> QED
    BY <2>3, <2>4
<1>2. R[k] = Waiting(k)
  <2>1. R[k - 1] = Reading(o, FALSE)
    <3>1. k - 1 \in 0..Len(letters)
      OBVIOUS
    <3> QED
      BY <3>1, LettersOfFlags
  <2> HIDE DEF R, o, n
  <2>2. R[k] = ReadLetter(tab, Reading(o, FALSE), letters[k])
    BY <1>1, <2>1
  <2>3. ReadLetter(tab, Reading(o, FALSE), letters[k]) = Await(Reading(o, FALSE), letters[k])
    BY DEF State, ReadLetter, Reading
  <2>4. SubSeq(letters, k + 1, k) = <<>>
    BY SubSeqEmpty
  <2>5. Await(Reading(o, FALSE), letters[k])
          = State(o, letters[k], <<>>, FALSE, FALSE)
    BY DEF State, Await, Reading
  <2> QED
    BY <2>2, <2>3, <2>4, <2>5
<1>3. letters[k] # "none" /\ letters \in Seq(STRING)
  BY KnownIsLetter
<1> HIDE DEF R, o
<1>4. 0 \in T
  <2>1. 0 \in 0..n /\ ~(0 >= k)
    BY <1>1
  <2> HIDE DEF n, Waiting
  <2> QED
    BY <2>1
<1>5. ASSUME NEW j \in 0..(n - 1), j \in T PROVE j + 1 \in T
  <2>1. j + 1 \in 1..n /\ j + 1 \in 0..n /\ j + 1 - 1 = j
    BY <1>1
  <2>2. CASE j >= k
    <3>1. R[j] = Waiting(j)
      BY <1>5, <2>2
    <3>2. R[j + 1] = ReadLetter(tab, R[j], letters[j + 1])
      <4> HIDE DEF n
      <4> QED
        BY <1>1, <2>1
    <3>3. ReadLetter(tab, Waiting(j), letters[j + 1]) = Collect(Waiting(j), letters[j + 1])
      BY <1>3 DEF ReadLetter, State
    <3>4. Append(SubSeq(letters, k + 1, j), letters[j + 1]) = SubSeq(letters, k + 1, j + 1)
      BY <1>3, <2>1, <2>2
    <3>5. Collect(Waiting(j), letters[j + 1]) = Waiting(j + 1)
      <4> DEFINE t == SubSeq(letters, k + 1, j)
                 c == letters[j + 1]
                 w == letters[k]
                 v == State(o, w, t, FALSE, FALSE)
      <4> HIDE DEF t, c, w
      <4>1. Collect(v, c) = State(o, w, Append(t, c), FALSE, FALSE)
        BY DEF State, Collect
      <4> QED
        BY <3>4, <4>1 DEF t, c, w
    <3> QED
      BY <2>1, <3>1, <3>2, <3>3, <3>5
  <2>3. CASE ~(j >= k)
    <3>1. j + 1 >= k => j + 1 = k
      BY <1>1, <2>3
    <3> QED
      BY <1>2, <2>1, <3>1
  <2> QED
    BY <2>2, <2>3
<1>6. n \in T
  <2> HIDE DEF T, n
  <2>1. \A j \in 0..n : j \in T
    BY <1>1, <1>4, <1>5, InductionUpTo
  <2> QED
    BY <1>1, <2>1
<1>7. R[n] = Waiting(n)
  <2>1. n >= k
    BY <1>1
  <2> QED
    BY <1>6, <2>1
<1> QED
  BY <1>7 DEF R, o

\* A cluster has at least one letter after its dash.
LEMMA LettersOf ==
  ASSUME NEW a \in Seq(STRING), IsCluster(a)
  PROVE  Tail(a) \in Seq(STRING) /\ Len(Tail(a)) = Len(a) - 1 /\ Len(Tail(a)) >= 1
<1>1. a # <<>> /\ Len(a) > 1
  BY DEF IsCluster
<1> QED
  BY <1>1, HeadTailProperties

\* A cluster is its letters, and the text they collected is the value.
LEMMA ClusterIs ==
  ASSUME NEW tab, NEW st, NEW a \in Seq(STRING), IsCluster(a), NEW after,
         after = ReadLetters(tab, st, Tail(a))[Len(Tail(a))]
  PROVE  ReadCluster(tab, st, a) =
           IF after.text # <<>> THEN Emit(after, after.want, after.text) ELSE after
  BY LettersOf DEF ReadCluster

\* A cluster that is all flags returns them.
LEMMA ClusterOfFlagsRead ==
  ASSUME NEW tab, Unambiguous(tab), NEW out \in Seq(Cmds), NEW a \in Seq(STRING),
         IsCluster(a), \A i \in 1..Len(Tail(a)) : Flag(tab, Tail(a)[i])
  PROVE  ReadCluster(tab, Reading(out, FALSE), a)
           = Reading(out \o FlagsOf(Tail(a), Len(Tail(a))), FALSE)
<1> DEFINE letters == Tail(a)
           n == Len(letters)
           last == Reading(out \o FlagsOf(letters, n), FALSE)
<1>1. letters \in Seq(STRING) /\ n \in 0..Len(letters)
  BY LettersOf
<1>2. last = ReadLetters(tab, Reading(out, FALSE), letters)[n]
  <2> HIDE DEF letters
  <2>1. \A i \in 1..n : Flag(tab, letters[i])
    BY DEF letters
  <2> QED
    BY <1>1, <2>1, LettersOfFlags
<1>3. last.text = <<>>
  BY DEF Reading, State
<1> HIDE DEF last
<1>4. ReadCluster(tab, Reading(out, FALSE), a)
        = IF last.text # <<>> THEN Emit(last, last.want, last.text) ELSE last
  BY <1>2, ClusterIs
<1> QED
  BY <1>3, <1>4 DEF last

\* A cluster whose letter k takes a value: the rest of it is the value, or the
\* next argument if it is the last letter.
LEMMA ClusterWithValue ==
  ASSUME NEW tab, Unambiguous(tab), NEW out \in Seq(Cmds), NEW a \in Seq(STRING),
         IsCluster(a), NEW k \in 1..Len(Tail(a)),
         \A i \in 1..(k - 1) : Flag(tab, Tail(a)[i]), Takes(tab, Tail(a)[k])
  PROVE  /\ k < Len(Tail(a)) =>
              ReadCluster(tab, Reading(out, FALSE), a)
                = Reading(Append(out \o FlagsOf(Tail(a), k - 1),
                                 Opt(Tail(a)[k], SubSeq(Tail(a), k + 1, Len(Tail(a))))), FALSE)
         /\ k = Len(Tail(a)) =>
              ReadCluster(tab, Reading(out, FALSE), a)
                = State(out \o FlagsOf(Tail(a), k - 1), Tail(a)[k], <<>>, FALSE, FALSE)
<1> DEFINE letters == Tail(a)
           n == Len(letters)
           o == out \o FlagsOf(letters, k - 1)
           c == letters[k]
           t == SubSeq(letters, k + 1, n)
           last == State(o, c, t, FALSE, FALSE)
<1>1. letters \in Seq(STRING) /\ n \in Nat /\ k \in 1..n
  BY LettersOf
<1>2. last = ReadLetters(tab, Reading(out, FALSE), letters)[n]
  <2> HIDE DEF letters
  <2>1. \A i \in 1..(k - 1) : Flag(tab, letters[i])
    BY DEF letters
  <2>2. Takes(tab, letters[k])
    BY DEF letters
  <2> QED
    BY <1>1, <2>1, <2>2, LettersCollected
<1>3. (k < n => t # <<>>) /\ (k = n => t = <<>>)
  <2> HIDE DEF letters
  <2> HIDE DEF n
  <2>1. k < n => Len(t) = n - k /\ Len(t) # 0
    BY <1>1
  <2>2. k < n => t # <<>>
    BY <2>1, EmptySeq
  <2>3. k = n => t = <<>>
    <3>1. k + 1 \in Int /\ n \in Int /\ n = k => n < k + 1
      BY <1>1
    <3> QED
      BY <1>1, <3>1, SubSeqEmpty
  <2> QED
    BY <2>2, <2>3
<1> HIDE DEF o, c, t
<1>4. last.text = t /\ last.want = c /\ last.out = o /\ last.stop = FALSE /\ last.bad = FALSE
  BY DEF State
<1> HIDE DEF last
<1>5. ReadCluster(tab, Reading(out, FALSE), a)
        = IF last.text # <<>> THEN Emit(last, last.want, last.text) ELSE last
  BY <1>2, ClusterIs
<1>6. Emit(last, c, t) = Reading(Append(o, Opt(c, t)), FALSE)
  BY <1>4 DEF Emit, Reading
<1>7. k < n => ReadCluster(tab, Reading(out, FALSE), a) = Reading(Append(o, Opt(c, t)), FALSE)
  BY <1>3, <1>4, <1>5, <1>6
<1>8. k = n => ReadCluster(tab, Reading(out, FALSE), a) = State(o, c, <<>>, FALSE, FALSE)
  BY <1>3, <1>4, <1>5 DEF last
<1> QED
  BY <1>7, <1>8 DEF o, c, t

\* A cluster whose letter k is unknown: the flags before it, then refused.
LEMMA ClusterRefused ==
  ASSUME NEW tab, Unambiguous(tab), NEW out \in Seq(Cmds), NEW a \in Seq(STRING),
         IsCluster(a), NEW k \in 1..Len(Tail(a)),
         \A i \in 1..(k - 1) : Flag(tab, Tail(a)[i]), ~Known(tab, Tail(a)[k])
  PROVE  ReadCluster(tab, Reading(out, FALSE), a)
           = State(out \o FlagsOf(Tail(a), k - 1), "none", <<>>, TRUE, TRUE)
<1> DEFINE letters == Tail(a)
           n == Len(letters)
           o == out \o FlagsOf(letters, k - 1)
           st == Reading(out, FALSE)
           R == ReadLetters(tab, st, letters)
           last == State(o, "none", <<>>, TRUE, TRUE)
<1>1. letters \in Seq(STRING) /\ n \in Nat /\ k \in 1..n /\ k \in 0..n /\ k - 1 \in 0..n
  BY LettersOf
<1>2. R[k - 1] = Reading(o, FALSE)
  <2> HIDE DEF letters
  <2>1. \A i \in 1..(k - 1) : Flag(tab, letters[i])
    BY DEF letters
  <2> QED
    BY <1>1, <2>1, LettersOfFlags
<1>3. st \in States
  BY ReadingTyped DEF Rests
<1>4. R[k] = ReadLetter(tab, R[k - 1], letters[k])
  <2> HIDE DEF letters, st
  <2> QED
    BY <1>1, <1>3, ReadLettersStates
<1>5. ~Takes(tab, letters[k]) /\ ~Known(tab, letters[k])
  BY DEF Takes, Known
<1> HIDE DEF o
<1>6. ReadLetter(tab, Reading(o, FALSE), letters[k]) = Refuse(Reading(o, FALSE))
  BY <1>5 DEF ReadLetter, Reading, State
<1>7. Refuse(Reading(o, FALSE)) = last
  BY DEF Refuse, Reading, State
<1>8. R[k] = last
  <2> HIDE DEF last, R, letters, st
  <2> QED
    BY <1>2, <1>4, <1>6, <1>7
<1>9. last.stop /\ last.text = <<>>
  BY DEF State
<1> HIDE DEF last
<1>10. ReadLetters(tab, st, letters)[n] = last
  <2> HIDE DEF letters, st
  <2> QED
    BY <1>1, <1>3, <1>8, <1>9, LettersStopped
<1>11. ReadCluster(tab, st, a) = IF last.text # <<>> THEN Emit(last, last.want, last.text) ELSE last
  <2> HIDE DEF st
  <2> QED
    BY <1>10, ClusterIs
<1> QED
  BY <1>9, <1>11 DEF last, o

\* The first letter of a cluster that is no flag, and what is before it.
FirstOther(tab, letters) ==
  LET I == {i \in 1..Len(letters) : ~Known(tab, letters[i]) \/ Takes(tab, letters[i])}
  IN  IF I # {} THEN Min(I) ELSE 0

\* The letter at which the parser leaves a cluster is the first that is no flag.
LEMMA StopMeans ==
  ASSUME NEW tab, NEW letters \in Seq(STRING), NEW stop, stop = FirstOther(tab, letters)
  PROVE  /\ stop = 0 => \A i \in 1..Len(letters) : Flag(tab, letters[i])
         /\ stop # 0 => /\ stop \in 1..Len(letters) /\ ~Flag(tab, letters[stop])
                        /\ \A i \in 1..(stop - 1) : Flag(tab, letters[i])
<1> DEFINE n == Len(letters)
           I == {i \in 1..n : ~Known(tab, letters[i]) \/ Takes(tab, letters[i])}
<1>1. n \in Nat /\ I \in SUBSET (1..n)
  OBVIOUS
<1>2. stop = IF I # {} THEN Min(I) ELSE 0
  BY DEF FirstOther
<1>3. \A i \in 1..n : i \in I <=> ~Flag(tab, letters[i])
  BY DEF Flag
<1> HIDE DEF n, I
<1>4. CASE I = {}
  <2>1. stop = 0
    BY <1>2, <1>4
  <2>2. \A i \in 1..n : Flag(tab, letters[i])
    BY <1>3, <1>4
  <2> QED
    BY <2>1, <2>2 DEF n
<1>5. CASE I # {}
  <2>1. stop \in I /\ stop \in 1..n /\ \A j \in I : stop <= j
    <3> DEFINE m == Min(I)
    <3>1. m \in I /\ m \in 1..n /\ \A j \in I : m <= j
      BY <1>1, <1>5, FirstPosition
    <3>2. stop = m
      BY <1>2, <1>5
    <3> HIDE DEF m
    <3> QED
      BY <3>1, <3>2
  <2>2. ~Flag(tab, letters[stop])
    BY <1>3, <2>1
  <2>3. ASSUME NEW i \in 1..(stop - 1) PROVE Flag(tab, letters[i])
    <3>1. i \in 1..n /\ ~(stop <= i)
      BY <1>1, <2>1
    <3>2. i \notin I
      BY <2>1, <3>1
    <3> QED
      BY <1>3, <3>1, <3>2
  <2>4. stop # 0
    BY <1>1, <2>1
  <2> QED
    BY <2>1, <2>2, <2>3, <2>4 DEF n
<1> QED
  BY <1>4, <1>5

-----------------------------------------------------------------------------------
(* What stays of what was read. *)

Starts(s, t) == Len(s) <= Len(t) /\ \A i \in 1..Len(s) : t[i] = s[i]

LEMMA StartsIsPrefix ==
  ASSUME NEW s \in Seq(Cmds), NEW t \in Seq(Cmds), Starts(s, t)
  PROVE  IsPrefix(s, t)
<1>1. Len(s) \in Nat /\ Len(t) \in Nat /\ Len(s) <= Len(t)
  BY DEF Starts
<1>2. SubSeq(s, 1, Len(s)) \in Seq(Cmds) /\ SubSeq(t, 1, Len(s)) \in Seq(Cmds)
  <2>1. 1 \in Int /\ Len(s) \in Int /\ 1 >= 1 /\ Len(s) <= Len(s)
    BY <1>1
  <2> QED
    BY <1>1, <2>1, CutTyped
<1>3. Len(SubSeq(s, 1, Len(s))) = Len(s) /\ Len(SubSeq(t, 1, Len(s))) = Len(s)
  BY <1>1
<1>4. ASSUME NEW i \in 1..Len(s) PROVE SubSeq(s, 1, Len(s))[i] = SubSeq(t, 1, Len(s))[i]
  <2>1. t[i] = s[i]
    BY DEF Starts
  <2> QED
    BY <1>1, <2>1
<1>5. SubSeq(s, 1, Len(s)) = SubSeq(t, 1, Len(s))
  BY <1>2, <1>3, <1>4, SeqEqual
<1> QED
  BY <1>1, <1>5 DEF IsPrefix

\* What was returned early is returned still after two runs.
LEMMA StartsTransitive ==
  ASSUME NEW s \in Seq(Cmds), NEW t \in Seq(Cmds), NEW u \in Seq(Cmds),
         Starts(s, t), Starts(t, u)
  PROVE  Starts(s, u)
<1>1. Len(s) \in Nat /\ Len(t) \in Nat /\ Len(u) \in Nat
  OBVIOUS
<1>2. \A i \in 1..Len(s) : i \in 1..Len(t)
  BY <1>1 DEF Starts
<1> QED
  BY <1>1, <1>2 DEF Starts

\* The reader only adds to what it has returned: an option more,
LEMMA EmitStarts ==
  ASSUME NEW st \in States, NEW c \in STRING, NEW v \in Seq(STRING)
  PROVE  Starts(st.out, Emit(st, c, v).out)
<1>1. st.out \in Seq(Cmds) /\ Opt(c, v) \in Cmds
  BY OptTyped DEF States
<1>2. Emit(st, c, v).out = Append(st.out, Opt(c, v))
  BY DEF Emit, State
<1> QED
  BY <1>1, <1>2 DEF Starts

LEMMA SameStarts ==
  ASSUME NEW st \in States, NEW w, w.out = st.out
  PROVE  Starts(st.out, w.out)
<1>1. st.out \in Seq(Cmds)
  BY DEF States
<1> QED
  BY <1>1 DEF Starts

\* nothing more when it waits, collects, stops or refuses,
LEMMA KeptOut ==
  ASSUME NEW st, NEW c
  PROVE  /\ Await(st, c).out = st.out /\ Collect(st, c).out = st.out
         /\ Finish(st).out = st.out /\ Refuse(st).out = st.out
  BY DEF Await, Collect, Finish, Refuse, State

\* and so with each letter.
LEMMA ReadLetterStarts ==
  ASSUME NEW tab, NEW st \in States, NEW c \in STRING
  PROVE  Starts(st.out, ReadLetter(tab, st, c).out)
<1> DEFINE w == ReadLetter(tab, st, c)
<1>1. CASE w = Emit(st, c, <<>>)
  <2>1. <<>> \in Seq(STRING)
    OBVIOUS
  <2> HIDE DEF w
  <2> QED
    BY <1>1, <2>1, EmitStarts DEF w
<1>2. CASE w \in {st, Await(st, c), Collect(st, c), Refuse(st)}
  <2>1. w.out = st.out
    BY <1>2, KeptOut
  <2> QED
    BY <2>1, SameStarts
<1> QED
  BY <1>1, <1>2, LetterCases

LEMMA ReadLettersStarts ==
  ASSUME NEW tab, Unambiguous(tab), NEW st \in States, NEW letters \in Seq(STRING)
  PROVE  Starts(st.out, ReadLetters(tab, st, letters)[Len(letters)].out)
<1> DEFINE R == ReadLetters(tab, st, letters)
           n == Len(letters)
           T == {k \in 0..n : Starts(st.out, R[k].out)}
<1>1. /\ n \in Nat /\ R \in [0..n -> States] /\ R[0] = st
      /\ \A i \in 1..n : R[i] = ReadLetter(tab, R[i - 1], letters[i])
      /\ \A i \in 1..n : letters[i] \in STRING
  BY ReadLettersStates
<1> HIDE DEF R, n
<1>2. 0 \in T
  <2>1. Starts(st.out, R[0].out)
    BY <1>1, SameStarts
  <2> QED
    BY <1>1, <2>1
<1>3. ASSUME NEW k \in 0..(n - 1), k \in T PROVE k + 1 \in T
  <2>1. k + 1 \in 1..n /\ k + 1 \in 0..n /\ k + 1 - 1 = k /\ k \in 0..n
    BY <1>1
  <2>2. R[k + 1] = ReadLetter(tab, R[k], letters[k + 1])
    <3> HIDE DEF T
    <3> QED
      BY <1>1, <2>1
  <2>3. R[k] \in States /\ R[k + 1] \in States /\ letters[k + 1] \in STRING
    BY <1>1, <2>1
  <2>4. Starts(R[k].out, R[k + 1].out)
    BY <2>2, <2>3, ReadLetterStarts
  <2>5. Starts(st.out, R[k].out)
    BY <1>3
  <2>6. st.out \in Seq(Cmds) /\ R[k].out \in Seq(Cmds) /\ R[k + 1].out \in Seq(Cmds)
    BY <2>3 DEF States
  <2>7. Starts(st.out, R[k + 1].out)
    BY <2>4, <2>5, <2>6, StartsTransitive
  <2> QED
    BY <2>1, <2>7
<1>4. n \in T
  <2> HIDE DEF T
  <2>1. \A k \in 0..n : k \in T
    BY <1>1, <1>2, <1>3, InductionUpTo
  <2> QED
    BY <1>1, <2>1
<1> QED
  BY <1>4 DEF R, n

LEMMA ReadArgumentStarts ==
  ASSUME NEW tab, Unambiguous(tab), NEW st \in Rests, NEW a \in Seq(STRING)
  PROVE  Starts(st.out, ReadArgument(tab, st, a).out)
<1> DEFINE w == ReadArgument(tab, st, a)
<1>1. st \in States
  BY DEF Rests
<1>2. CASE w = st \/ w = Finish(st)
  <2>1. w.out = st.out
    BY <1>2, KeptOut
  <2> QED
    BY <1>1, <2>1, SameStarts
<1>3. CASE st.want # "none" /\ w = Emit(st, st.want, a)
  <2>1. st.want \in STRING
    BY <1>1, <1>3 DEF States
  <2> QED
    BY <1>1, <1>3, <2>1, EmitStarts
<1>4. CASE w = ReadLong(tab, st, a)
  <2> DEFINE hits == find_long(tab, LongName(a))
             s == CHOOSE s \in hits : TRUE
  <2>1. CASE Cardinality(hits) # 1
    <3>1. w = Refuse(st)
      BY <1>4, <2>1 DEF ReadLong
    <3> QED
      BY <1>1, <3>1, KeptOut, SameStarts
  <2>2. CASE Cardinality(hits) = 1
    <3>1. s \in tab
      <4>1. \E t \in tab : hits = {t}
        BY <2>2, FoundLong
      <4> QED
        BY <4>1
    <3>2. w \in {Emit(st, s.short, <<>>), Emit(st, s.short, Inline(a)), Await(st, s.short)}
      BY <1>4, <2>2 DEF ReadLong
    <3> HIDE DEF s, w
    <3>3. s.short \in STRING /\ Inline(a) \in Seq(STRING) /\ <<>> \in Seq(STRING)
      BY <3>1, OptionTyped, InlineTyped
    <3>4. CASE w = Await(st, s.short)
      <4>1. w.out = st.out
        BY <3>4, KeptOut
      <4> QED
        BY <1>1, <4>1, SameStarts DEF w
    <3>5. CASE w = Emit(st, s.short, <<>>) \/ w = Emit(st, s.short, Inline(a))
      BY <1>1, <3>3, <3>5, EmitStarts DEF w
    <3> QED
      BY <3>2, <3>4, <3>5
  <2> QED
    BY <2>1, <2>2
<1>5. CASE st.want = "none" /\ IsCluster(a) /\ w = ReadCluster(tab, st, a)
  <2> DEFINE after == ReadLetters(tab, st, Tail(a))[Len(Tail(a))]
  <2>1. w = IF after.text # <<>> THEN Emit(after, after.want, after.text) ELSE after
    <3> HIDE DEF w
    <3> QED
      BY <1>5, ClusterIs
  <2>2. Starts(st.out, after.out)
    BY <1>1, <1>5, LettersOf, ReadLettersStarts
  <2>3. after \in States
    <3>1. Tail(a) \in Seq(STRING) /\ Len(Tail(a)) \in 0..Len(Tail(a))
      BY <1>5, LettersOf
    <3> QED
      BY <1>1, <3>1, ReadLettersStates
  <2> HIDE DEF after, w
  <2>4. st.out \in Seq(Cmds) /\ after.out \in Seq(Cmds)
    BY <1>1, <2>3 DEF States
  <2>5. CASE after.text = <<>>
    BY <2>1, <2>2, <2>5 DEF w
  <2>6. CASE after.text # <<>>
    <3>1. w.out = Append(after.out, Opt(after.want, after.text))
      BY <2>1, <2>6 DEF Emit, State
    <3>2. w \in States
      BY <1>1, ReadArgumentTyped DEF w, Rests
    <3>3. Starts(after.out, w.out)
      <4> DEFINE s == after.out
                 e == Opt(after.want, after.text)
      <4> HIDE DEF s, e
      <4>1. w.out = Append(s, e) /\ s \in Seq(Cmds)
        BY <2>4, <3>1 DEF s, e
      <4>2. s \in Seq(Cmds \cup {e}) /\ e \in Cmds \cup {e}
        BY <4>1, SeqMonotonic
      <4>3. Starts(s, Append(s, e))
        BY <4>2, AppendProperties DEF Starts
      <4> QED
        BY <4>1, <4>3 DEF s
    <3>4. w.out \in Seq(Cmds)
      BY <3>2 DEF States
    <3>5. Starts(st.out, w.out)
      BY <2>2, <2>4, <3>3, <3>4, StartsTransitive
    <3> QED
      BY <3>5 DEF w
  <2> QED
    BY <2>5, <2>6
<1> QED
  BY <1>2, <1>3, <1>4, <1>5, ArgumentCases

\* What was read at some point is the beginning of all that is read; and once the
\* options are over nothing is read any more.
\* Reading on keeps what was returned, and a reader that stopped reads nothing more.
LEMMA RunGoesOn ==
  ASSUME NEW tab, Unambiguous(tab), NEW line \in Seq(Seq(STRING)), NEW k \in 0..Len(line)
  PROVE  /\ Starts(ReadArguments(tab, line)[k].out, ReadArguments(tab, line)[Len(line)].out)
         /\ ReadArguments(tab, line)[k].stop =>
              ReadArguments(tab, line)[Len(line)] = ReadArguments(tab, line)[k]
<1> DEFINE R == ReadArguments(tab, line)
           n == Len(line)
           T == {j \in 0..n : j >= k => /\ Starts(R[k].out, R[j].out)
                                        /\ R[k].stop => R[j] = R[k]}
<1>1. /\ n \in Nat /\ k \in 0..n /\ R \in [0..n -> Rests]
      /\ \A i \in 1..n : R[i] = ReadArgument(tab, R[i - 1], line[i])
      /\ \A i \in 1..n : line[i] \in Seq(STRING)
  BY ReadArgumentsStates
<1> HIDE DEF R, n
<1>2. R[k] \in Rests /\ R[k] \in States
  BY <1>1 DEF Rests
<1>3. Starts(R[k].out, R[k].out)
  BY <1>2, SameStarts
<1>4. 0 \in T
  <2>1. 0 \in 0..n /\ (0 >= k => k = 0)
    BY <1>1
  <2> QED
    BY <1>3, <2>1
<1>5. ASSUME NEW j \in 0..(n - 1), j \in T PROVE j + 1 \in T
  <2>1. j + 1 \in 1..n /\ j + 1 \in 0..n /\ j + 1 - 1 = j /\ j \in 0..n
    BY <1>1
  <2>2. CASE j >= k
    <3>1. Starts(R[k].out, R[j].out) /\ (R[k].stop => R[j] = R[k])
      BY <1>5, <2>2
    <3> HIDE DEF T
    <3>2. R[j + 1] = ReadArgument(tab, R[j], line[j + 1])
      BY <1>1, <2>1
    <3>3. R[j] \in Rests /\ R[j + 1] \in Rests /\ line[j + 1] \in Seq(STRING)
      BY <1>1, <2>1
    <3>4. Starts(R[j].out, R[j + 1].out)
      BY <3>2, <3>3, ReadArgumentStarts
    <3>5. R[k].out \in Seq(Cmds) /\ R[j].out \in Seq(Cmds) /\ R[j + 1].out \in Seq(Cmds)
      BY <1>2, <3>3 DEF Rests, States
    <3>6. Starts(R[k].out, R[j + 1].out)
      BY <3>1, <3>4, <3>5, StartsTransitive
    <3>7. R[k].stop => R[j + 1] = R[k]
      BY <3>1, <3>2 DEF ReadArgument
    <3> QED
      BY <2>1, <3>6, <3>7 DEF T
  <2>3. CASE ~(j >= k)
    <3>1. j + 1 >= k => j + 1 = k
      BY <1>1, <2>3
    <3> QED
      BY <1>3, <2>1, <3>1
  <2> QED
    BY <2>2, <2>3
<1>6. n \in T
  <2> HIDE DEF T
  <2>1. \A j \in 0..n : j \in T
    BY <1>1, <1>4, <1>5, InductionUpTo
  <2> QED
    BY <1>1, <2>1
<1>7. Starts(R[k].out, R[n].out) /\ (R[k].stop => R[n] = R[k])
  <2>1. n >= k
    BY <1>1
  <2> QED
    BY <1>6, <2>1
<1> QED
  BY <1>7 DEF R, n

-----------------------------------------------------------------------------------
(* The parser follows that reading. *)

CliTypes ==
  /\ Unambiguous(specs) /\ args \in Seq(Seq(STRING))
  /\ idx \in 1..(Len(args) + 1) /\ done \in BOOLEAN
  /\ queue \in Seq(Cmds) /\ got \in Seq(Cmds)
  /\ over \in {"no", "end", "unknown"}

\* What is missing of a malformed command line are flags.
FlagsMissing(tab, g, out) ==
  /\ Starts(g, out)
  /\ \A i \in (Len(g) + 1)..Len(out) : out[i].val = <<>> /\ Flag(tab, out[i].opt)

\* Before it is over the parser has returned or queued what is read of the arguments
\* it has passed; where the options are done, that is all there is.
Follows(tab, line, i, d, q, g, o) ==
  /\ o = "no" /\ ~d => ReadArguments(tab, line)[i - 1] = Reading(g \o q, FALSE)
  /\ o = "no" /\ d => ReadArguments(tab, line)[Len(line)] = Reading(g \o q, TRUE)
  /\ o = "end" => Getopt(tab, line).out = g /\ ~Getopt(tab, line).bad
  /\ o = "unknown" => Getopt(tab, line).bad /\ FlagsMissing(tab, g, Getopt(tab, line).out)

CliInv == CliTypes /\ Follows(specs, args, idx, done, queue, got, over)

LEMMA GetoptWell ==
  ASSUME NEW tab, NEW line, NEW g, NEW stop \in BOOLEAN,
         ReadArguments(tab, line)[Len(line)] = Reading(g, stop)
  PROVE  Getopt(tab, line).out = g /\ ~Getopt(tab, line).bad
  BY DEF Getopt, Reading, State

LEMMA GetoptWaiting ==
  ASSUME NEW tab, NEW line, NEW g, NEW c, c # "none",
         ReadArguments(tab, line)[Len(line)] = State(g, c, <<>>, FALSE, FALSE)
  PROVE  Getopt(tab, line).out = g /\ Getopt(tab, line).bad
  BY DEF Getopt, Refuse, State

LEMMA GetoptRefused ==
  ASSUME NEW tab, NEW line, NEW g,
         ReadArguments(tab, line)[Len(line)] = State(g, "none", <<>>, TRUE, TRUE)
  PROVE  Getopt(tab, line).out = g /\ Getopt(tab, line).bad
  BY DEF Getopt, State

\* The options that are missing of one that is refused in the middle of a cluster.
LEMMA ClusterMissing ==
  ASSUME NEW tab, NEW g \in Seq(Cmds), NEW letters \in Seq(STRING), NEW k \in 1..Len(letters),
         \A i \in 1..(k - 1) : Flag(tab, letters[i])
  PROVE  FlagsMissing(tab, g, g \o FlagsOf(letters, k - 1))
<1> DEFINE f == FlagsOf(letters, k - 1)
<1>1. f \in Seq(Cmds) /\ Len(f) = k - 1
  <2>1. k - 1 \in 0..Len(letters)
    OBVIOUS
  <2> QED
    BY <2>1, FlagsTyped
<1>2. \A i \in 1..(k - 1) : f[i].val = <<>> /\ f[i].opt = letters[i]
  BY DEF FlagsOf, Opt
<1>3. \A i \in 1..(k - 1) : f[i].val = <<>> /\ Flag(tab, f[i].opt)
  <2> HIDE DEF f
  <2> QED
    BY <1>2
<1> HIDE DEF f
<1>4. g \o f \in Seq(Cmds) /\ Len(g \o f) = Len(g) + k - 1 /\ Len(g) \in Nat
  BY <1>1
<1>5. Starts(g, g \o f)
  BY <1>1, <1>4 DEF Starts
<1>6. ASSUME NEW i \in (Len(g) + 1)..Len(g \o f)
      PROVE  (g \o f)[i].val = <<>> /\ Flag(tab, (g \o f)[i].opt)
  <2>1. i - Len(g) \in 1..(k - 1)
    BY <1>4
  <2>2. (g \o f)[i] = f[i - Len(g)]
    BY <1>1, <1>4, <2>1
  <2> QED
    BY <1>3, <2>1, <2>2
<1>7. FlagsMissing(tab, g, g \o f)
  BY <1>5, <1>6 DEF FlagsMissing
<1> QED
  BY <1>7 DEF f

\* Nothing is missing of what was returned in full.
LEMMA NothingMissing ==
  ASSUME NEW tab, NEW g \in Seq(Cmds)
  PROVE  FlagsMissing(tab, g, g)
  BY DEF FlagsMissing, Starts

\* A command line that is not yet read, where both have returned nothing.
LEMMA CliStart ==
  ASSUME NEW tab, Unambiguous(tab), NEW lines, AreLines(lines), CliInit(tab, lines)
  PROVE  CliInv
<1>1. CliTypes
  <2>1. Unambiguous(specs)
    BY DEF CliInit
  <2>2. args \in Seq(Seq(STRING))
    BY DEF CliInit, AreLines
  <2>3. /\ idx = 1 /\ done = FALSE /\ queue = <<>> /\ got = <<>> /\ over = "no"
        /\ <<>> \in Seq(Cmds) /\ Len(args) \in Nat
    BY <2>2 DEF CliInit
  <2>4. idx \in 1..(Len(args) + 1)
    BY <2>3
  <2>5. /\ done \in BOOLEAN /\ queue \in Seq(Cmds) /\ got \in Seq(Cmds)
        /\ over \in {"no", "end", "unknown"}
    BY <2>3
  <2> QED
    BY <2>1, <2>2, <2>4, <2>5 DEF CliTypes
<1>2. ReadArguments(specs, args)[0] = Begin
  BY <1>1, ReadArgumentsStates DEF CliTypes
<1>3. Begin = Reading(<<>> \o <<>>, FALSE)
  BY BeginRests
<1>4. idx = 1 /\ ~done /\ queue = <<>> /\ got = <<>> /\ over = "no" /\ idx - 1 = 0
  BY DEF CliInit
<1>5. Follows(specs, args, idx, done, queue, got, over)
  BY <1>2, <1>3, <1>4 DEF Follows
<1> QED
  BY <1>1, <1>5 DEF CliInv

\* The argument at hand is read next.
LEMMA ReadsCur ==
  ASSUME CliInv, Parsing
  PROVE  /\ over = "no" /\ queue = <<>> /\ ~done /\ idx \in 1..Len(args)
         /\ Cur \in Seq(STRING)
         /\ ReadArguments(specs, args)[idx - 1] = Reading(got, FALSE)
         /\ ReadArguments(specs, args)[idx] =
              IF IsLong(Cur) THEN ReadLong(specs, Reading(got, FALSE), Cur)
              ELSE IF IsCluster(Cur) THEN ReadCluster(specs, Reading(got, FALSE), Cur)
              ELSE Reading(got, TRUE)
<1>1. over = "no" /\ queue = <<>> /\ ~done /\ idx \in 1..Len(args) /\ Cur \in Seq(STRING)
  BY DEF CliInv, CliTypes, Parsing, Cur
<1>2. ReadArguments(specs, args)[idx - 1] = Reading(got \o queue, FALSE)
  BY <1>1 DEF CliInv, Follows
<1>3. got \o queue = got
  BY <1>1 DEF CliInv, CliTypes
<1> DEFINE st == Reading(got, FALSE)
<1>4. ReadArguments(specs, args)[idx] = ReadArgument(specs, st, Cur)
  <2>1. ReadArguments(specs, args)[idx]
          = ReadArgument(specs, ReadArguments(specs, args)[idx - 1], args[idx])
    BY <1>1, ReadArgumentsStates DEF CliInv, CliTypes
  <2> QED
    BY <1>2, <1>3, <2>1 DEF Cur
<1>5. st.stop = FALSE /\ st.want = "none" /\ Finish(st) = Reading(got, TRUE)
  BY DEF Reading, Finish, State
<1> HIDE DEF st
<1>6. ReadArgument(specs, st, Cur) =
        IF IsLong(Cur) THEN ReadLong(specs, st, Cur)
        ELSE IF IsCluster(Cur) THEN ReadCluster(specs, st, Cur) ELSE Reading(got, TRUE)
  BY <1>5 DEF ReadArgument
<1> QED
  BY <1>1, <1>2, <1>3, <1>4, <1>6 DEF st

LEMMA FromQueueStep ==
  ASSUME CliInv, FromQueue
  PROVE  CliInv'
<1>1. queue \in Seq(Cmds) /\ queue # <<>> /\ got \in Seq(Cmds)
  BY DEF CliInv, CliTypes, FromQueue
<1>2. Head(queue) \in Cmds /\ Tail(queue) \in Seq(Cmds)
  BY <1>1, HeadTailProperties
<1>3. /\ got' = Append(got, Head(queue)) /\ queue' = Tail(queue) /\ over = "no"
      /\ UNCHANGED <<specs, args, idx, done, over>>
  BY DEF FromQueue
<1>4. got' \in Seq(Cmds) /\ queue' \in Seq(Cmds)
  BY <1>1, <1>2, <1>3
<1>5. CliTypes'
  BY <1>3, <1>4 DEF CliInv, CliTypes
<1>6. got' \o queue' = got \o queue
  <2>1. queue = <<Head(queue)>> \o Tail(queue)
    BY <1>1
  <2>2. Append(got, Head(queue)) = got \o <<Head(queue)>>
    BY <1>1, <1>2, AppendIsConcat
  <2>3. (got \o <<Head(queue)>>) \o Tail(queue) = got \o (<<Head(queue)>> \o Tail(queue))
    <3>1. <<Head(queue)>> \in Seq(Cmds)
      BY <1>2
    <3> QED
      BY <1>1, <1>2, <3>1, ConcatAssociative
  <2> QED
    BY <1>3, <2>1, <2>2, <2>3
<1>7. Follows(specs', args', idx', done', queue', got', over')
  BY <1>3, <1>6 DEF CliInv, Follows
<1> QED
  BY <1>5, <1>7 DEF CliInv

LEMMA NoMoreStep ==
  ASSUME CliInv, NoMore
  PROVE  CliInv'
<1>1. /\ over = "no" /\ queue = <<>> /\ (done \/ idx > Len(args)) /\ over' = "end"
      /\ UNCHANGED <<specs, args, idx, done, queue, got>>
  BY DEF NoMore
<1>2. CliTypes'
  BY <1>1 DEF CliInv, CliTypes
<1>3. got \o queue = got
  BY <1>1 DEF CliInv, CliTypes
<1>4. ReadArguments(specs, args)[Len(args)] = Reading(got, done)
  <2>1. CASE done
    <3>1. done = TRUE
      BY <2>1 DEF CliInv, CliTypes
    <3> QED
      BY <1>1, <1>3, <3>1 DEF CliInv, Follows
  <2>2. CASE ~done
    <3>1. done = FALSE /\ idx - 1 = Len(args)
      BY <1>1, <2>2 DEF CliInv, CliTypes
    <3> QED
      BY <1>1, <1>3, <3>1 DEF CliInv, Follows
  <2> QED
    BY <2>1, <2>2
<1>5. Getopt(specs, args).out = got /\ ~Getopt(specs, args).bad
  BY <1>4, GetoptWell DEF CliInv, CliTypes
<1>6. Follows(specs', args', idx', done', queue', got', over')
  BY <1>1, <1>5 DEF Follows
<1> QED
  BY <1>2, <1>6 DEF CliInv

\* Where the step leaves the parser before the next argument ...
LEMMA GoesOn ==
  ASSUME CliInv, over' = "no", ~done', idx' \in 2..(Len(args) + 1), queue' \in Seq(Cmds),
         got' \in Seq(Cmds), UNCHANGED <<specs, args, done>>,
         ReadArguments(specs, args)[idx' - 1] = Reading(got' \o queue', FALSE)
  PROVE  CliInv'
<1>1. CliTypes'
  BY DEF CliInv, CliTypes
<1>2. Follows(specs', args', idx', done', queue', got', over')
  BY DEF Follows
<1> QED
  BY <1>1, <1>2 DEF CliInv

\* ... where it ends the options ...
LEMMA IsDone ==
  ASSUME CliInv, Parsing, over' = "no", done' = TRUE, idx' \in 1..(Len(args) + 1),
         UNCHANGED <<specs, args, queue, got>>,
         ReadArguments(specs, args)[idx] = Reading(got, TRUE)
  PROVE  CliInv'
<1>1. CliTypes'
  BY DEF CliInv, CliTypes
<1>2. queue = <<>> /\ got \o queue = got /\ idx \in 0..Len(args)
  BY DEF CliInv, CliTypes, Parsing
<1>3. ReadArguments(specs, args)[idx].stop
  BY DEF Reading, State
<1>4. ReadArguments(specs, args)[Len(args)] = Reading(got \o queue, TRUE)
  BY <1>2, <1>3, RunGoesOn DEF CliInv, CliTypes
<1>5. Follows(specs', args', idx', done', queue', got', over')
  BY <1>4 DEF Follows
<1> QED
  BY <1>1, <1>5 DEF CliInv

\* ... and where it refuses the command line.
LEMMA IsRefused ==
  ASSUME CliInv, over' = "unknown", idx' \in 1..(Len(args) + 1),
         UNCHANGED <<specs, args, done, queue, got>>,
         Getopt(specs, args).bad, FlagsMissing(specs, got, Getopt(specs, args).out)
  PROVE  CliInv'
<1>1. CliTypes'
  BY DEF CliInv, CliTypes
<1>2. Follows(specs', args', idx', done', queue', got', over')
  BY DEF Follows
<1> QED
  BY <1>1, <1>2 DEF CliInv

LEMMA DashDashStep ==
  ASSUME CliInv, DashDash
  PROVE  CliInv'
<1>1. Parsing /\ Cur = Dashes /\ idx' = idx + 1 /\ done' = TRUE
      /\ UNCHANGED <<specs, args, queue, got, over>>
  BY DEF DashDash
<1>2. ~IsLong(Cur) /\ ~IsCluster(Cur)
  BY <1>1 DEF IsLong, IsCluster, Dashes, Dash
<1>3. ReadArguments(specs, args)[idx] = Reading(got, TRUE) /\ idx \in 1..Len(args) /\ over = "no"
  BY <1>1, <1>2, ReadsCur
<1>4. idx' \in 1..(Len(args) + 1) /\ over' = "no"
  BY <1>1, <1>3 DEF CliInv, CliTypes
<1> QED
  BY <1>1, <1>3, <1>4, IsDone

LEMMA PositionalStep ==
  ASSUME CliInv, Positional
  PROVE  CliInv'
<1>1. Parsing /\ ~IsLong(Cur) /\ ~IsCluster(Cur) /\ done' = TRUE
      /\ UNCHANGED <<specs, args, idx, queue, got, over>>
  BY DEF Positional
<1>2. ReadArguments(specs, args)[idx] = Reading(got, TRUE) /\ over = "no"
  BY <1>1, ReadsCur
<1>3. idx' \in 1..(Len(args) + 1) /\ over' = "no"
  BY <1>1, <1>2 DEF CliInv, CliTypes
<1> QED
  BY <1>1, <1>2, <1>3, IsDone

\* A long option is the one that its name means; where that takes a value and none is
\* attached, the next argument is the value, or there is none.
LEMMA LongStep ==
  ASSUME CliInv, Long
  PROVE  CliInv'
<1> DEFINE st == Reading(got, FALSE)
           n == Len(args)
           Run == ReadArguments(specs, args)
           hits == find_long(specs, LongName(Cur))
<1>1. Parsing /\ IsLong(Cur) /\ Unambiguous(specs) /\ args \in Seq(Seq(STRING)) /\ got \in Seq(Cmds)
  BY DEF Long, CliInv, CliTypes
<1>2. /\ over = "no" /\ queue = <<>> /\ ~done /\ idx \in 1..n /\ Cur \in Seq(STRING)
      /\ Run[idx] = ReadLong(specs, st, Cur) /\ n \in Nat
  <2>1. /\ over = "no" /\ queue = <<>> /\ ~done /\ idx \in 1..n /\ Cur \in Seq(STRING)
        /\ Run[idx] = IF IsLong(Cur) THEN ReadLong(specs, st, Cur)
                      ELSE IF IsCluster(Cur) THEN ReadCluster(specs, st, Cur)
                      ELSE Reading(got, TRUE)
    BY <1>1, ReadsCur
  <2>2. n \in Nat
    BY <1>1
  <2> HIDE DEF n, Run, st
  <2> QED
    BY <1>1, <2>1, <2>2
<1>3. PICK s \in hits :
        /\ Cardinality(hits) = 1
        /\ \/ ~s.arg /\ Give(Opt(s.short, <<>>), 1)
           \/ s.arg /\ Equals(Cur) # 0 /\ Give(Opt(s.short, Inline(Cur)), 1)
           \/ s.arg /\ Equals(Cur) = 0 /\ HasNext /\ Give(Opt(s.short, args[idx + 1]), 2)
           \/ s.arg /\ Equals(Cur) = 0 /\ ~HasNext /\ Malformed(1)
  BY DEF Long
<1>4. hits = {s} /\ s \in specs
  <2>1. \E t \in specs : hits = {t}
    BY <1>1, <1>3, FoundLong
  <2> QED
    BY <1>3, <2>1
<1>5. s.short \in STRING /\ s.short # "none" /\ s.arg \in BOOLEAN
  BY <1>1, <1>4, OptionTyped
<1>6. ReadLong(specs, st, Cur) = CASE ~s.arg -> Emit(st, s.short, <<>>)
                                   [] s.arg /\ Equals(Cur) # 0 -> Emit(st, s.short, Inline(Cur))
                                   [] OTHER -> Await(st, s.short)
  <2>1. (CHOOSE t \in hits : TRUE) = s
    BY <1>4
  <2>2. ReadLong(specs, st, Cur) =
          LET t == CHOOSE t \in hits : TRUE IN
            CASE ~t.arg -> Emit(st, t.short, <<>>)
              [] t.arg /\ Equals(Cur) # 0 -> Emit(st, t.short, Inline(Cur))
              [] OTHER -> Await(st, t.short)
    BY <1>3 DEF ReadLong
  <2> HIDE DEF hits, st
  <2> QED
    BY <2>1, <2>2
<1>7. \A v : Emit(st, s.short, v) = Reading(Append(got, Opt(s.short, v)), FALSE)
  BY DEF Emit, Reading, State
<1>8. Await(st, s.short) = State(got, s.short, <<>>, FALSE, FALSE)
  BY DEF Await, Reading, State
<1> HIDE DEF st, hits
\* It is returned with its value, and the parser goes on behind both.
<1>9. ASSUME NEW v \in Seq(STRING), NEW k \in 1..2, idx + k <= n + 1, Give(Opt(s.short, v), k),
             Run[idx + k - 1] = Reading(Append(got, Opt(s.short, v)), FALSE)
      PROVE  CliInv'
  <2>1. /\ got' = Append(got, Opt(s.short, v)) /\ idx' = idx + k
        /\ UNCHANGED <<specs, args, done, queue, over>>
    BY <1>9 DEF Give
  <2>2. Opt(s.short, v) \in Cmds
    BY <1>5, OptTyped
  <2>3. got' \in Seq(Cmds) /\ queue' \in Seq(Cmds) /\ got' \o queue' = got' /\ queue' = <<>>
    BY <1>1, <1>2, <2>1, <2>2
  <2>4. idx' \in 2..(n + 1) /\ over' = "no" /\ ~done' /\ UNCHANGED <<specs, args, done>>
    BY <1>2, <1>9, <2>1
  <2>5. Run[idx' - 1] = Reading(got' \o queue', FALSE)
    <3>1. idx' - 1 = idx + k - 1
      BY <1>2, <2>1
    <3>2. got' \o queue' = Append(got, Opt(s.short, v))
      BY <2>1, <2>3
    <3> HIDE DEF Run
    <3> QED
      BY <1>9, <3>1, <3>2
  <2> QED
    BY <2>3, <2>4, <2>5, GoesOn
<1>10. CASE ~s.arg /\ Give(Opt(s.short, <<>>), 1)
  <2>1. Run[idx] = Reading(Append(got, Opt(s.short, <<>>)), FALSE)
    BY <1>2, <1>6, <1>7, <1>10
  <2>2. idx + 1 <= n + 1 /\ idx + 1 - 1 = idx /\ <<>> \in Seq(STRING) /\ 1 \in 1..2
    BY <1>2
  <2> QED
    BY <1>9, <1>10, <2>1, <2>2
<1>11. CASE s.arg /\ Equals(Cur) # 0 /\ Give(Opt(s.short, Inline(Cur)), 1)
  <2>1. Run[idx] = Reading(Append(got, Opt(s.short, Inline(Cur))), FALSE)
    BY <1>2, <1>6, <1>7, <1>11
  <2>2. idx + 1 <= n + 1 /\ idx + 1 - 1 = idx /\ 1 \in 1..2
    BY <1>2
  <2>3. Inline(Cur) \in Seq(STRING)
    BY <1>2, InlineTyped
  <2> QED
    BY <1>9, <1>11, <2>1, <2>2, <2>3
<1>12. s.arg /\ Equals(Cur) = 0 => Run[idx] = State(got, s.short, <<>>, FALSE, FALSE)
  BY <1>2, <1>6, <1>8
<1>13. CASE s.arg /\ Equals(Cur) = 0 /\ HasNext /\ Give(Opt(s.short, args[idx + 1]), 2)
  <2> DEFINE v == args[idx + 1]
             w == State(got, s.short, <<>>, FALSE, FALSE)
  <2>1. idx + 1 \in 1..n /\ idx + 1 - 1 = idx /\ idx + 2 <= n + 1 /\ idx + 2 - 1 = idx + 1
    BY <1>2, <1>13 DEF HasNext
  <2>2. v \in Seq(STRING)
    BY <1>1, <2>1
  <2>3. Run[idx + 1] = ReadArgument(specs, Run[idx], v)
    <3>1. \A i \in 1..n : Run[i] = ReadArgument(specs, Run[i - 1], args[i])
      BY <1>1, ReadArgumentsStates
    <3> DEFINE j == idx + 1
    <3>2. j \in 1..n /\ j - 1 = idx
      BY <1>2, <2>1
    <3> HIDE DEF Run, n, j
    <3>3. Run[j] = ReadArgument(specs, Run[j - 1], args[j])
      BY <3>1, <3>2
    <3>4. Run[j] = ReadArgument(specs, Run[idx], args[j])
      BY <3>2, <3>3
    <3> QED
      BY <3>4 DEF j
  <2>4. Run[idx] = w
    BY <1>12, <1>13
  <2>5. ReadArgument(specs, w, v) = Emit(w, s.short, v)
    BY <1>5 DEF ReadArgument, State
  <2>6. Emit(w, s.short, v) = Reading(Append(got, Opt(s.short, v)), FALSE)
    BY DEF Emit, Reading, State
  <2>7. Run[idx + 1] = Reading(Append(got, Opt(s.short, v)), FALSE)
    BY <2>3, <2>4, <2>5, <2>6
  <2>8. 2 \in 1..2
    OBVIOUS
  <2> HIDE DEF v, w
  <2>9. Give(Opt(s.short, v), 2)
    BY <1>13 DEF v
  <2> QED
    BY <1>9, <2>1, <2>2, <2>7, <2>8, <2>9
<1>14. CASE s.arg /\ Equals(Cur) = 0 /\ ~HasNext /\ Malformed(1)
  <2>1. idx = n
    BY <1>2, <1>14 DEF HasNext
  <2>2. Getopt(specs, args).out = got /\ Getopt(specs, args).bad
    BY <1>5, <1>12, <1>14, <2>1, GetoptWaiting
  <2>3. over' = "unknown" /\ idx' = idx + 1 /\ UNCHANGED <<specs, args, done, queue, got>>
    BY <1>14 DEF Malformed
  <2>4. idx' \in 1..(Len(args) + 1)
    BY <1>2, <2>1, <2>3
  <2>5. FlagsMissing(specs, got, Getopt(specs, args).out)
    BY <1>1, <2>2, NothingMissing
  <2> QED
    BY <2>2, <2>3, <2>4, <2>5, IsRefused
<1> QED
  BY <1>3, <1>10, <1>11, <1>13, <1>14

LEMMA LongUnknownStep ==
  ASSUME CliInv, LongUnknown
  PROVE  CliInv'
<1>1. /\ Parsing /\ IsLong(Cur) /\ got \in Seq(Cmds) /\ Malformed(1)
      /\ Cardinality(find_long(specs, LongName(Cur))) # 1
  BY DEF LongUnknown, CliInv, CliTypes
<1>2. /\ idx \in 1..Len(args) /\ ReadArguments(specs, args)[idx] = ReadLong(specs, Reading(got, FALSE), Cur)
      /\ over = "no" /\ Unambiguous(specs) /\ args \in Seq(Seq(STRING))
  BY <1>1, ReadsCur DEF CliInv, CliTypes
<1> DEFINE st == Reading(got, FALSE)
           w == State(got, "none", <<>>, TRUE, TRUE)
<1>3. ReadLong(specs, st, Cur) = Refuse(st)
  BY <1>1 DEF ReadLong
<1>4. Refuse(st) = w
  BY DEF Refuse, Reading, State
<1>5. ReadArguments(specs, args)[idx] = w
  BY <1>2, <1>3, <1>4
<1>6. w.stop
  BY DEF State
<1> HIDE DEF w, st
<1>7. ReadArguments(specs, args)[Len(args)] = w
  <2>1. idx \in 0..Len(args)
    BY <1>2
  <2>2. ReadArguments(specs, args)[idx].stop
    BY <1>5, <1>6
  <2> QED
    BY <1>2, <1>5, <2>1, <2>2, RunGoesOn
<1>8. Getopt(specs, args).out = got /\ Getopt(specs, args).bad
  BY <1>7, GetoptRefused DEF w
<1>9. FlagsMissing(specs, got, Getopt(specs, args).out)
  BY <1>1, <1>8, NothingMissing
<1>10. over' = "unknown" /\ idx' = idx + 1 /\ UNCHANGED <<specs, args, done, queue, got>>
  BY <1>1 DEF Malformed
<1>11. idx' \in 1..(Len(args) + 1)
  BY <1>2, <1>10
<1> QED
  BY <1>8, <1>9, <1>10, <1>11, IsRefused

\* The cluster at hand, and its first letter that is no flag.
LEMMA ClusterCur ==
  ASSUME CliInv, Parsing, IsCluster(Cur)
  PROVE  /\ ~IsLong(Cur) /\ Letters = Tail(Cur) /\ Letters \in Seq(STRING) /\ Len(Letters) >= 1
         /\ got \in Seq(Cmds) /\ Unambiguous(specs) /\ args \in Seq(Seq(STRING))
         /\ over = "no" /\ queue = <<>> /\ ~done /\ idx \in 1..Len(args)
         /\ ReadArguments(specs, args)[idx] = ReadCluster(specs, Reading(got, FALSE), Cur)
         /\ Stop = 0 => \A i \in 1..Len(Letters) : Flag(specs, Letters[i])
         /\ Stop # 0 => /\ Stop \in 1..Len(Letters) /\ ~Flag(specs, Letters[Stop])
                        /\ \A i \in 1..(Stop - 1) : Flag(specs, Letters[i])
<1>1. Cur \in Seq(STRING)
  BY ReadsCur
<1>2. ~IsLong(Cur)
  <2> DEFINE a == Cur
  <2> HIDE DEF a
  <2>1. a \in Seq(STRING) /\ IsCluster(a)
    BY <1>1 DEF a
  <2>2. ASSUME IsLong(a) PROVE FALSE
    <3>1. Len(Dashes) = 2 /\ Dashes[2] = Dash
      BY DEF Dashes
    <3>2. Len(a) >= 2 /\ SubSeq(Dashes, 1, 2) = SubSeq(a, 1, 2)
      BY <2>1, <2>2, <3>1 DEF IsLong, IsPrefix
    <3>3. SubSeq(Dashes, 1, 2)[2] = Dash
      BY <3>1 DEF Dashes
    <3>4. SubSeq(a, 1, 2)[2] = a[2]
      BY <2>1, <3>2
    <3> QED
      BY <2>1, <3>2, <3>3, <3>4 DEF IsCluster
  <2> QED
    BY <2>2 DEF a
<1>3. Letters \in Seq(STRING) /\ Len(Letters) >= 1
  BY <1>1, LettersOf DEF Letters
<1>4. /\ over = "no" /\ queue = <<>> /\ ~done /\ idx \in 1..Len(args)
      /\ ReadArguments(specs, args)[idx] = ReadCluster(specs, Reading(got, FALSE), Cur)
  BY <1>2, ReadsCur
<1>5. got \in Seq(Cmds) /\ Unambiguous(specs) /\ args \in Seq(Seq(STRING))
  BY DEF CliInv, CliTypes
<1>6. Stop = FirstOther(specs, Letters)
  BY DEF Stop, SelectInSeq, FirstOther
<1>7. /\ Stop = 0 => \A i \in 1..Len(Letters) : Flag(specs, Letters[i])
      /\ Stop # 0 => /\ Stop \in 1..Len(Letters) /\ ~Flag(specs, Letters[Stop])
                     /\ \A i \in 1..(Stop - 1) : Flag(specs, Letters[i])
  BY <1>3, <1>6, StopMeans
<1>8. Letters = Tail(Cur)
  BY DEF Letters
<1> QED
  BY <1>2, <1>3, <1>4, <1>5, <1>7, <1>8

LEMMA ClusterOfFlagsStep ==
  ASSUME CliInv, ClusterOfFlags
  PROVE  CliInv'
<1>1. /\ Parsing /\ IsCluster(Cur) /\ Stop = 0
      /\ queue' = Flags(Len(Letters)) /\ idx' = idx + 1 /\ UNCHANGED <<specs, args, done, got, over>>
  BY DEF ClusterOfFlags
<1> DEFINE f == FlagsOf(Letters, Len(Letters))
<1>2. queue' = f
  BY <1>1 DEF Flags, FlagsOf
<1>3. f \in Seq(Cmds)
  <2>1. Letters \in Seq(STRING) /\ Len(Letters) \in 0..Len(Letters)
    BY <1>1, ClusterCur
  <2> QED
    BY <2>1, FlagsTyped
<1>4. Cur \in Seq(STRING) /\ \A i \in 1..Len(Tail(Cur)) : Flag(specs, Tail(Cur)[i])
  BY <1>1, ClusterCur, ReadsCur
<1>5. ReadCluster(specs, Reading(got, FALSE), Cur) = Reading(got \o f, FALSE)
  BY <1>1, <1>4, ClusterCur, ClusterOfFlagsRead
<1>6. ReadArguments(specs, args)[idx] = Reading(got \o f, FALSE)
  BY <1>1, <1>5, ClusterCur
<1>7. /\ over' = "no" /\ ~done' /\ idx' \in 2..(Len(args) + 1) /\ got' \in Seq(Cmds)
      /\ idx' - 1 = idx
  BY <1>1, ClusterCur
<1> HIDE DEF f
<1>8. ReadArguments(specs, args)[idx' - 1] = Reading(got' \o queue', FALSE)
  BY <1>1, <1>2, <1>6, <1>7
<1> QED
  BY <1>1, <1>2, <1>3, <1>7, <1>8, GoesOn

\* Deliver() returns the first of the options of a cluster and keeps the others.
LEMMA DeliverGives ==
  ASSUME CliInv, Parsing, IsCluster(Cur), Stop # 0, NEW v \in Seq(STRING), NEW n \in 1..2,
         Deliver(v, n)
  PROVE  /\ got' \in Seq(Cmds) /\ queue' \in Seq(Cmds)
         /\ got' \o queue' = Append(got \o FlagsOf(Letters, Stop - 1), Opt(Letters[Stop], v))
         /\ idx' = idx + n /\ UNCHANGED <<specs, args, done, over>>
<1> DEFINE f == FlagsOf(Letters, Stop - 1)
           e == Opt(Letters[Stop], v)
           all == Append(f, e)
<1>1. /\ Letters \in Seq(STRING) /\ Stop \in 1..Len(Letters) /\ got \in Seq(Cmds)
  BY ClusterCur
<1>2. f \in Seq(Cmds)
  <2>1. Stop - 1 \in 0..Len(Letters)
    BY <1>1
  <2> QED
    BY <1>1, <2>1, FlagsTyped
<1>3. e \in Cmds
  <2>1. Letters[Stop] \in STRING
    BY <1>1
  <2> QED
    BY <2>1, OptTyped
<1>4. Append(Flags(Stop - 1), Opt(Letters[Stop], v)) = all
  BY DEF Flags, FlagsOf
<1>5. /\ got' = Append(got, Head(all)) /\ queue' = Tail(all) /\ idx' = idx + n
      /\ UNCHANGED <<specs, args, done, over>>
  BY <1>4 DEF Deliver
<1> HIDE DEF f, e
<1>6. all \in Seq(Cmds) /\ all # <<>>
  BY <1>2, <1>3
<1>7. got \o all = Append(got \o f, e)
  BY <1>1, <1>2, <1>3
<1> HIDE DEF all
<1>8. Head(all) \in Cmds /\ Tail(all) \in Seq(Cmds)
  BY <1>6, HeadTailProperties
<1>9. Append(got, Head(all)) \o Tail(all) = got \o all
  BY <1>1, <1>6, HeadMoves
<1>10. Append(got, Head(all)) \in Seq(Cmds)
  BY <1>1, <1>8
<1> QED
  BY <1>5, <1>7, <1>8, <1>9, <1>10 DEF f, e

LEMMA ClusterValueStep ==
  ASSUME CliInv, ClusterValue
  PROVE  CliInv'
<1> DEFINE f == FlagsOf(Letters, Stop - 1)
           c == Letters[Stop]
           o == got \o f
           n == Len(args)
           k == Len(Letters)
           rest == SubSeq(Letters, Stop + 1, k)
           Run == ReadArguments(specs, args)
<1>1. /\ Parsing /\ IsCluster(Cur) /\ Stop # 0 /\ Takes(specs, c)
      /\ \/ Stop < k /\ Deliver(rest, 1)
         \/ Stop = k /\ HasNext /\ Deliver(args[idx + 1], 2)
         \/ Stop = k /\ ~HasNext /\ Malformed(0)
  BY DEF ClusterValue
<1>2. /\ Letters = Tail(Cur) /\ Letters \in Seq(STRING) /\ got \in Seq(Cmds)
      /\ Unambiguous(specs) /\ args \in Seq(Seq(STRING)) /\ n \in Nat
      /\ over = "no" /\ queue = <<>> /\ ~done /\ idx \in 1..n /\ Stop \in 1..k
      /\ Run[idx] = ReadCluster(specs, Reading(got, FALSE), Cur)
      /\ \A i \in 1..(Stop - 1) : Flag(specs, Letters[i])
  <2>1. /\ Letters = Tail(Cur) /\ Letters \in Seq(STRING) /\ got \in Seq(Cmds)
        /\ Unambiguous(specs) /\ args \in Seq(Seq(STRING))
        /\ over = "no" /\ queue = <<>> /\ ~done /\ idx \in 1..Len(args) /\ Stop \in 1..Len(Letters)
        /\ ReadArguments(specs, args)[idx] = ReadCluster(specs, Reading(got, FALSE), Cur)
        /\ \A i \in 1..(Stop - 1) : Flag(specs, Letters[i])
    BY <1>1, ClusterCur
  <2>2. n \in Nat
    BY <2>1
  <2> HIDE DEF n
  <2> QED
    BY <2>1, <2>2 DEF n
<1>3. Cur \in Seq(STRING)
  BY <1>1, ReadsCur
<1>4. /\ Stop < k => Run[idx] = Reading(Append(o, Opt(c, rest)), FALSE)
      /\ Stop = k => Run[idx] = State(o, c, <<>>, FALSE, FALSE)
  <2>1. /\ Stop \in 1..Len(Tail(Cur)) /\ Takes(specs, Tail(Cur)[Stop])
        /\ \A i \in 1..(Stop - 1) : Flag(specs, Tail(Cur)[i])
    BY <1>1, <1>2
  <2>2. /\ Stop < Len(Tail(Cur)) =>
             ReadCluster(specs, Reading(got, FALSE), Cur)
               = Reading(Append(got \o FlagsOf(Tail(Cur), Stop - 1),
                                Opt(Tail(Cur)[Stop],
                                    SubSeq(Tail(Cur), Stop + 1, Len(Tail(Cur))))), FALSE)
        /\ Stop = Len(Tail(Cur)) =>
             ReadCluster(specs, Reading(got, FALSE), Cur)
               = State(got \o FlagsOf(Tail(Cur), Stop - 1), Tail(Cur)[Stop], <<>>, FALSE, FALSE)
    BY <1>1, <1>2, <1>3, <2>1, ClusterWithValue
  <2> QED
    BY <1>2, <2>2
<1>5. c \in STRING /\ c # "none"
  BY <1>1, <1>2, KnownIsLetter
\* It is returned with its value, and the parser goes on behind both.
<1>6. ASSUME NEW v \in Seq(STRING), NEW j \in 1..2, idx + j <= n + 1, Deliver(v, j),
             Run[idx + j - 1] = Reading(Append(o, Opt(c, v)), FALSE)
      PROVE  CliInv'
  <2>1. /\ got' \in Seq(Cmds) /\ queue' \in Seq(Cmds)
        /\ got' \o queue' = Append(o, Opt(c, v))
        /\ idx' = idx + j /\ UNCHANGED <<specs, args, done, over>>
    BY <1>1, <1>6, DeliverGives
  <2>2. idx' - 1 = idx + j - 1 /\ idx' \in 2..(n + 1)
    BY <1>2, <1>6, <2>1
  <2> HIDE DEF Run, o, c, n
  <2>3. Run[idx' - 1] = Reading(got' \o queue', FALSE)
    BY <1>6, <2>1, <2>2
  <2>4. over' = "no" /\ ~done' /\ UNCHANGED <<specs, args, done>>
    BY <1>2, <2>1
  <2> QED
    BY <2>1, <2>2, <2>3, <2>4, GoesOn DEF Run, n
<1>7. CASE Stop < k /\ Deliver(rest, 1)
  <2>1. rest \in Seq(STRING)
    <3>1. Stop + 1 \in Int /\ k \in Int /\ Stop + 1 >= 1 /\ k <= Len(Letters)
      BY <1>2
    <3> QED
      BY <1>2, <3>1, CutTyped
  <2>2. 1 \in 1..2 /\ idx + 1 <= n + 1 /\ idx + 1 - 1 = idx
    BY <1>2
  <2>3. Run[idx + 1 - 1] = Reading(Append(o, Opt(c, rest)), FALSE)
    BY <1>4, <1>7, <2>2
  <2> HIDE DEF rest, Run, o, c, n
  <2> QED
    BY <1>6, <1>7, <2>1, <2>2, <2>3
<1>8. CASE Stop = k /\ HasNext /\ Deliver(args[idx + 1], 2)
  <2> DEFINE j == idx + 1
             v == args[j]
             w == State(o, c, <<>>, FALSE, FALSE)
  <2>1. j \in 1..n /\ j - 1 = idx /\ idx + 2 <= n + 1 /\ idx + 2 - 1 = j /\ 2 \in 1..2
    BY <1>2, <1>8 DEF HasNext
  <2>2. v \in Seq(STRING)
    BY <1>2, <2>1
  <2>3. Run[j] = ReadArgument(specs, Run[idx], v)
    <3>1. \A i \in 1..n : Run[i] = ReadArgument(specs, Run[i - 1], args[i])
      BY <1>2, ReadArgumentsStates
    <3> HIDE DEF Run, n, j
    <3>2. Run[j] = ReadArgument(specs, Run[j - 1], args[j])
      BY <2>1, <3>1
    <3> QED
      BY <2>1, <3>2
  <2>4. Run[idx] = w
    BY <1>4, <1>8
  <2> HIDE DEF c, o
  <2>5. ReadArgument(specs, w, v) = Emit(w, c, v)
    BY <1>5 DEF ReadArgument, State
  <2>6. Emit(w, c, v) = Reading(Append(o, Opt(c, v)), FALSE)
    BY DEF Emit, Reading, State
  <2> HIDE DEF w, v, j, Run, n
  <2>7. Run[idx + 2 - 1] = Reading(Append(o, Opt(c, v)), FALSE)
    BY <2>1, <2>3, <2>4, <2>5, <2>6
  <2>8. Deliver(v, 2)
    BY <1>8 DEF v, j
  <2> QED
    BY <1>6, <2>1, <2>2, <2>7, <2>8
<1>9. CASE Stop = k /\ ~HasNext /\ Malformed(0)
  <2>1. idx = n
    BY <1>2, <1>9 DEF HasNext
  <2>2. Run[n] = State(o, c, <<>>, FALSE, FALSE)
    BY <1>4, <1>9, <2>1
  <2>3. Getopt(specs, args).out = o /\ Getopt(specs, args).bad
    BY <1>5, <2>2, GetoptWaiting
  <2>4. over' = "unknown" /\ idx' = idx + 0 /\ UNCHANGED <<specs, args, done, queue, got>>
    BY <1>9 DEF Malformed
  <2>5. idx' \in 1..(Len(args) + 1)
    BY <1>2, <2>4
  <2>6. FlagsMissing(specs, got, o)
    BY <1>2, ClusterMissing
  <2> QED
    BY <2>3, <2>4, <2>5, <2>6, IsRefused
<1> QED
  BY <1>1, <1>7, <1>8, <1>9

LEMMA ClusterUnknownStep ==
  ASSUME CliInv, ClusterUnknown
  PROVE  CliInv'
<1> DEFINE o == got \o FlagsOf(Letters, Stop - 1)
           n == Len(args)
           Run == ReadArguments(specs, args)
           w == State(o, "none", <<>>, TRUE, TRUE)
<1>1. /\ Parsing /\ IsCluster(Cur) /\ Stop # 0 /\ ~Known(specs, Letters[Stop]) /\ Malformed(0)
  BY DEF ClusterUnknown
<1>2. /\ Letters = Tail(Cur) /\ Letters \in Seq(STRING) /\ got \in Seq(Cmds)
      /\ Unambiguous(specs) /\ args \in Seq(Seq(STRING)) /\ n \in Nat
      /\ idx \in 1..n /\ Stop \in 1..Len(Letters)
      /\ Run[idx] = ReadCluster(specs, Reading(got, FALSE), Cur)
      /\ \A i \in 1..(Stop - 1) : Flag(specs, Letters[i])
  <2>1. /\ Letters = Tail(Cur) /\ Letters \in Seq(STRING) /\ got \in Seq(Cmds)
        /\ Unambiguous(specs) /\ args \in Seq(Seq(STRING))
        /\ idx \in 1..Len(args) /\ Stop \in 1..Len(Letters)
        /\ ReadArguments(specs, args)[idx] = ReadCluster(specs, Reading(got, FALSE), Cur)
        /\ \A i \in 1..(Stop - 1) : Flag(specs, Letters[i])
    BY <1>1, ClusterCur
  <2>2. n \in Nat
    BY <2>1
  <2> HIDE DEF n
  <2> QED
    BY <2>1, <2>2 DEF n
<1>3. Cur \in Seq(STRING)
  BY <1>1, ReadsCur
<1>4. Run[idx] = w
  <2>1. /\ Stop \in 1..Len(Tail(Cur)) /\ ~Known(specs, Tail(Cur)[Stop])
        /\ \A i \in 1..(Stop - 1) : Flag(specs, Tail(Cur)[i])
    BY <1>1, <1>2
  <2>2. ReadCluster(specs, Reading(got, FALSE), Cur)
          = State(got \o FlagsOf(Tail(Cur), Stop - 1), "none", <<>>, TRUE, TRUE)
    BY <1>1, <1>2, <1>3, <2>1, ClusterRefused
  <2> QED
    BY <1>2, <2>2
<1>5. w.stop
  BY DEF State
<1>6. Run[n] = w
  <2> HIDE DEF w
  <2>1. idx \in 0..Len(args)
    BY <1>2
  <2>2. Run[idx].stop
    BY <1>4, <1>5
  <2> QED
    BY <1>2, <1>4, <2>1, <2>2, RunGoesOn
<1>7. Getopt(specs, args).out = o /\ Getopt(specs, args).bad
  BY <1>6, GetoptRefused
<1>8. over' = "unknown" /\ idx' = idx + 0 /\ UNCHANGED <<specs, args, done, queue, got>>
  BY <1>1 DEF Malformed
<1>9. idx' \in 1..(Len(args) + 1)
  BY <1>2, <1>8
<1>10. FlagsMissing(specs, got, o)
  BY <1>2, ClusterMissing
<1> QED
  BY <1>7, <1>8, <1>9, <1>10, IsRefused

LEMMA CliStep ==
  ASSUME CliInv, [CliNext]_cliVars
  PROVE  CliInv'
<1>1. CASE UNCHANGED cliVars
  BY <1>1 DEF cliVars, CliInv, CliTypes, Follows
<1> QED
  BY <1>1, FromQueueStep, NoMoreStep, DashDashStep, LongStep, LongUnknownStep,
     ClusterOfFlagsStep, ClusterValueStep, ClusterUnknownStep, PositionalStep DEF CliNext

-----------------------------------------------------------------------------------
(* What follows for the programs: the parser is like getopt_long() ... *)

\* What getopt_long() returns in the end is what the run has returned.
LEMMA GetoptStates ==
  ASSUME NEW tab, Unambiguous(tab), NEW line \in Seq(Seq(STRING))
  PROVE  /\ Getopt(tab, line).out = ReadArguments(tab, line)[Len(line)].out
         /\ Getopt(tab, line).out \in Seq(Cmds)
<1> DEFINE st == ReadArguments(tab, line)[Len(line)]
<1>1. st \in Rests
  <2>1. ReadArguments(tab, line) \in [0..Len(line) -> Rests] /\ Len(line) \in 0..Len(line)
    BY ReadArgumentsStates
  <2> QED
    BY <2>1
<1>2. st.out \in Seq(Cmds)
  BY <1>1 DEF Rests, States
<1>3. Getopt(tab, line) = IF st.want # "none" THEN Refuse(st) ELSE st
  BY DEF Getopt
<1>4. Getopt(tab, line).out = st.out
  <2>1. Refuse(st).out = st.out
    BY KeptOut
  <2> HIDE DEF st
  <2> QED
    BY <1>3, <2>1
<1> QED
  BY <1>2, <1>4

\* Whatever happens next, what is returned so far is the beginning of it.
LEMMA ReturnsInOrder ==
  ASSUME CliInv
  PROVE  Starts(got, Getopt(specs, args).out) /\ Getopt(specs, args).out \in Seq(Cmds)
<1> DEFINE ref == Getopt(specs, args)
           gq == got \o queue
           Run == ReadArguments(specs, args)
<1>1. /\ Unambiguous(specs) /\ args \in Seq(Seq(STRING)) /\ idx \in 1..(Len(args) + 1)
      /\ queue \in Seq(Cmds) /\ got \in Seq(Cmds) /\ over \in {"no", "end", "unknown"}
      /\ done \in BOOLEAN /\ Len(args) \in Nat
  BY DEF CliInv, CliTypes
<1>2. ref.out = Run[Len(args)].out /\ ref.out \in Seq(Cmds)
  BY <1>1, GetoptStates
<1>3. gq \in Seq(Cmds) /\ Starts(got, gq)
  BY <1>1 DEF Starts
<1>4. ASSUME over = "no" PROVE Starts(gq, ref.out)
  <2>1. CASE done
    <3>1. Run[Len(args)] = Reading(gq, TRUE)
      BY <1>4, <2>1 DEF CliInv, Follows
    <3>2. ref.out = gq
      BY <1>2, <3>1 DEF Reading, State
    <3> QED
      BY <1>3, <3>2 DEF Starts
  <2>2. CASE ~done
    <3>1. Run[idx - 1] = Reading(gq, FALSE)
      BY <1>4, <2>2 DEF CliInv, Follows
    <3>2. idx - 1 \in 0..Len(args)
      BY <1>1
    <3>3. Run[idx - 1].out = gq
      BY <3>1 DEF Reading, State
    <3> HIDE DEF gq
    <3>4. Starts(Run[idx - 1].out, Run[Len(args)].out)
      BY <1>1, <3>2, RunGoesOn
    <3> QED
      BY <1>2, <3>3, <3>4
  <2> QED
    BY <2>1, <2>2
<1>5. CASE over = "no"
  BY <1>1, <1>2, <1>3, <1>4, <1>5, StartsTransitive
<1>6. CASE over = "end"
  <2>1. ref.out = got
    BY <1>6 DEF CliInv, Follows
  <2> QED
    BY <1>1, <1>2, <2>1 DEF Starts
<1>7. CASE over = "unknown"
  BY <1>2, <1>7 DEF CliInv, Follows, FlagsMissing
<1> QED
  BY <1>1, <1>5, <1>6, <1>7

\* The property is the invariant once parsing is over.
LEMMA CliInvLikeGetopt ==
  ASSUME CliInv
  PROVE  LikeGetopt
<1> DEFINE ref == Getopt(specs, args)
<1>1. IsPrefix(got, ref.out)
  <2>1. got \in Seq(Cmds)
    BY DEF CliInv, CliTypes
  <2> QED
    BY <2>1, ReturnsInOrder, StartsIsPrefix
<1>2. over = "end" => got = ref.out /\ ~ref.bad
  BY DEF CliInv, Follows
<1>3. over = "unknown" =>
        ref.bad /\ \A i \in (Len(got) + 1)..Len(ref.out) : ref.out[i].val = <<>>
  BY DEF CliInv, Follows, FlagsMissing
<1> QED
  BY <1>1, <1>2, <1>3 DEF LikeGetopt

-----------------------------------------------------------------------------------
(* ... and what they ask of the options is a value of one of them. *)

\* Where an option is last, 0 for nowhere.
LastAt(s, c) ==
  LET I == {i \in 1..Len(s) : s[i].opt = c}
  IN  IF I # {} THEN Max(I) ELSE 0

\* The last time an option was given, and its value then.
LEMMA LastAtIs ==
  ASSUME NEW s \in Seq(Cmds), NEW c, \E i \in DOMAIN s : s[i].opt = c
  PROVE  /\ LastAt(s, c) \in 1..Len(s) /\ s[LastAt(s, c)].opt = c
         /\ s[LastAt(s, c)].val \in Seq(STRING)
<1> DEFINE n == Len(s)
           I == {i \in 1..n : s[i].opt = c}
           m == Max(I)
<1>1. n \in Nat /\ I \in SUBSET (1..n) /\ I # {}
  OBVIOUS
<1>2. m \in I /\ m \in 1..n
  <2> HIDE DEF I, n
  <2> QED
    BY <1>1, LastPosition
<1>3. LastAt(s, c) = m
  BY <1>1 DEF LastAt
<1>4. s[m] \in Cmds
  <2> HIDE DEF m
  <2> QED
    BY <1>2
<1> QED
  BY <1>2, <1>3, <1>4 DEF Cmds

LEMMA ValueIs == \A c : Value(c) = got[LastAt(got, c)].val
  BY DEF Value, LastAt, SelectLastInSeq

\* The value of an option that was given is a text.
LEMMA ValueTyped ==
  ASSUME CliInv, NEW c, Given(c)
  PROVE  Value(c) \in Seq(STRING)
<1>1. got \in Seq(Cmds)
  BY DEF CliInv, CliTypes
<1>2. \E i \in DOMAIN got : got[i].opt = c
  BY DEF Given
<1>3. got[LastAt(got, c)].val \in Seq(STRING)
  BY <1>1, <1>2, LastAtIs
<1> QED
  BY <1>3, ValueIs

\* nfscli.rs keeps the size of the pool within its bounds, whatever -V says.
LEMMA PoolSizeBounds ==
  ASSUME CliInv
  PROVE  PoolSize \in 1..64
<1>1. CASE Given("V")
  <2> DEFINE n == parse_i64(Value("V"))
  <2>1. n \in Int
    <3>1. Value("V") \in Seq(STRING)
      BY <1>1, ValueTyped
    <3> QED
      BY <3>1, ParsesToInt
  <2>2. PoolSize = Clamp(n)
    BY <1>1 DEF PoolSize
  <2> HIDE DEF n
  <2> QED
    BY <2>1, <2>2 DEF Clamp
<1>2. CASE ~Given("V")
  BY <1>2, StartAssumption DEF PoolSize
<1> QED
  BY <1>1, <1>2

\* Where only flags are missing, an option with a value is the same in both.
Has(s, c) == \E i \in DOMAIN s : s[i].opt = c

\* What is missing of s has no option c: its last value is the same in both.
LEMMA SameValue ==
  ASSUME NEW s \in Seq(Cmds), NEW t \in Seq(Cmds), Starts(s, t), NEW c,
         \A i \in (Len(s) + 1)..Len(t) : t[i].opt # c
  PROVE  /\ Has(t, c) <=> Has(s, c)
         /\ Has(s, c) => t[LastAt(t, c)].val = s[LastAt(s, c)].val
<1> DEFINE m == Len(s)
           n == Len(t)
<1>1. m \in Nat /\ n \in Nat /\ m <= n /\ \A i \in 1..m : t[i] = s[i]
  BY DEF Starts
<1>2. DOMAIN s = 1..m /\ DOMAIN t = 1..n
  OBVIOUS
<1>3. \A i \in 1..n : t[i].opt = c => i \in 1..m
  <2>1. ASSUME NEW i \in 1..n, t[i].opt = c, i \notin 1..m PROVE FALSE
    <3>1. i \in (m + 1)..n
      BY <1>1, <2>1
    <3> QED
      BY <2>1, <3>1
  <2> QED
    BY <2>1
<1> DEFINE I == {i \in 1..m : s[i].opt = c}
           J == {i \in 1..n : t[i].opt = c}
<1>4. I = J
  <2> HIDE DEF m, n
  <2>1. \A i \in 1..m : i \in 1..n
    BY <1>1
  <2> QED
    BY <1>1, <1>3, <2>1
<1>5. LastAt(s, c) = LastAt(t, c)
  BY <1>4 DEF LastAt
<1>6. (\E i \in DOMAIN t : t[i].opt = c) <=> (\E i \in DOMAIN s : s[i].opt = c)
  <2>1. (\E i \in DOMAIN s : s[i].opt = c) <=> I # {}
    BY <1>2
  <2>2. (\E i \in DOMAIN t : t[i].opt = c) <=> J # {}
    BY <1>2
  <2> QED
    BY <1>4, <2>1, <2>2
<1>7. (\E i \in DOMAIN s : s[i].opt = c) => LastAt(s, c) \in 1..m
  BY LastAtIs
<1> QED
  BY <1>1, <1>5, <1>6, <1>7 DEF Has

\* What a program acts on is what getopt_long() would have told it, where it asks for
\* options that take a value; and of the others it has acted on none that was not asked.
LEMMA AskedIsGot ==
  ASSUME CliInv, over # "no", NEW C, \A s \in specs : s.short \in C => s.arg
  PROVE  LET asked == Getopt(specs, args).out IN
           /\ \A c \in C : /\ Named(asked, c) <=> Given(c)
                           /\ Given(c) => LastOf(asked, c) = Value(c)
           /\ \A c : Given(c) => Named(asked, c)
           /\ ~Getopt(specs, args).bad => asked = got
<1> DEFINE asked == Getopt(specs, args).out
<1>1. got \in Seq(Cmds) /\ asked \in Seq(Cmds) /\ Starts(got, asked)
  BY ReturnsInOrder DEF CliInv, CliTypes
<1>2. over \in {"end", "unknown"}
  BY DEF CliInv, CliTypes
<1>3. ASSUME NEW c \in C, NEW i \in (Len(got) + 1)..Len(asked)
      PROVE  asked[i].opt # c
  <2>1. CASE over = "end"
    <3>1. asked = got
      BY <2>1 DEF CliInv, Follows
    <3> QED
      BY <1>1, <1>3, <3>1
  <2>2. CASE over = "unknown"
    <3>1. Flag(specs, asked[i].opt)
      BY <1>3, <2>2 DEF CliInv, Follows, FlagsMissing
    <3>2. PICK s \in specs : s.short = asked[i].opt /\ ~s.arg
      BY <3>1 DEF Flag, Known, Takes
    <3>3. s.short \notin C
      BY <3>2
    <3> QED
      BY <3>2, <3>3
  <2> QED
    BY <1>2, <2>1, <2>2
<1>4. ASSUME NEW c \in C
      PROVE  /\ Named(asked, c) <=> Given(c)
             /\ Given(c) => LastOf(asked, c) = Value(c)
  <2>1. (Given(c) <=> Has(got, c)) /\ (Named(asked, c) <=> Has(asked, c))
    BY DEF Given, Has, Named
  <2>2. LastOf(asked, c) = asked[LastAt(asked, c)].val
    BY DEF LastOf, LastAt, SelectLastInSeq
  <2> HIDE DEF asked
  <2>3. \A i \in (Len(got) + 1)..Len(asked) : asked[i].opt # c
    BY <1>3
  <2>4. /\ Has(asked, c) <=> Has(got, c)
        /\ Has(got, c) => asked[LastAt(asked, c)].val = got[LastAt(got, c)].val
    BY <1>1, <2>3, SameValue
  <2> QED
    BY <2>1, <2>2, <2>4, ValueIs
<1>5. ASSUME NEW c, Given(c) PROVE Named(asked, c)
  <2> HIDE DEF asked
  <2>1. PICK i \in 1..Len(got) : got[i].opt = c
    BY <1>1, <1>5 DEF Given
  <2>2. i \in 1..Len(asked) /\ asked[i] = got[i]
    BY <1>1 DEF Starts
  <2> QED
    BY <1>1, <2>1, <2>2 DEF Named
<1>6. ~Getopt(specs, args).bad => asked = got
  BY <1>2 DEF CliInv, Follows
<1> QED
  BY <1>4, <1>5, <1>6

\* The options were read, and the last of them is no -?.
OptionsRead == ~Helped /\ over # "no"

\* Where the options are over and the last of them is no -?, none is, unless the
\* command line is malformed.
LEMMA HelpIsRefused ==
  ASSUME CliInv, over # "no", ~Helped, \A i \in 1..(Len(got) - 1) : got[i].opt # "?"
  PROVE  Named(Getopt(specs, args).out, "?") => Getopt(specs, args).bad
<1> DEFINE asked == Getopt(specs, args).out
<1>1. ASSUME Named(asked, "?"), ~Getopt(specs, args).bad PROVE FALSE
  <2>1. asked = got
    <3>1. over = "end"
      BY <1>1 DEF CliInv, CliTypes, Follows
    <3> QED
      BY <3>1 DEF CliInv, Follows
  <2>2. PICK i \in DOMAIN got : got[i].opt = "?"
    BY <1>1, <2>1 DEF Named
  <2>3. got \in Seq(Cmds) /\ i \in 1..Len(got) /\ Len(got) \in Nat
    BY <2>2 DEF CliInv, CliTypes
  <2>4. i \notin 1..(Len(got) - 1)
    BY <2>2
  <2>5. i = Len(got) /\ got # <<>>
    BY <2>3, <2>4
  <2> QED
    BY <2>2, <2>5 DEF Helped, Last
<1> QED
  BY <1>1

\* A step of the parser returns at most one option more.
LEMMA OneMore ==
  ASSUME CliInv, CliNext
  PROVE  got' = got \/ \E e : got' = Append(got, e)
  BY DEF CliNext, FromQueue, NoMore, DashDash, Long, LongUnknown, ClusterOfFlags, ClusterValue,
         ClusterUnknown, Positional, Give, Malformed, Deliver

\* While the parser goes on, an option that asks for help can only be the last returned.
LEMMA NoHelpBefore ==
  ASSUME CliInv, CliNext, ~Helped, \A i \in 1..(Len(got) - 1) : got[i].opt # "?"
  PROVE  (\A i \in 1..(Len(got) - 1) : got[i].opt # "?")'
<1>1. got \in Seq(Cmds) /\ Len(got) \in Nat
  BY DEF CliInv, CliTypes
<1>2. \A i \in 1..Len(got) : got[i].opt # "?"
  <2>1. got # <<>> => got[Len(got)].opt # "?"
    BY DEF Helped, Last
  <2>2. \A i \in 1..Len(got) : i \in 1..(Len(got) - 1) \/ (i = Len(got) /\ got # <<>>)
    BY <1>1
  <2> QED
    BY <2>1, <2>2
<1>3. CASE got' = got
  BY <1>3
<1>4. CASE \E e : got' = Append(got, e)
  <2>1. PICK e : got' = Append(got, e)
    BY <1>4
  <2>2. Len(got') = Len(got) + 1 /\ \A i \in 1..Len(got) : got'[i] = got[i]
    BY <1>1, <2>1
  <2>3. \A i \in 1..(Len(got') - 1) : i \in 1..Len(got)
    BY <1>1, <2>2
  <2> QED
    BY <1>2, <2>2, <2>3
<1> QED
  BY <1>3, <1>4, OneMore

-----------------------------------------------------------------------------------
(* Texts that are joined from parts: what urlencode() writes is read back. *)

\* Putting texts together, one after the other.
Joins(f, S, parts, n) ==
  /\ f \in [0..n -> Seq(S)] /\ f[0] = <<>>
  /\ \A i \in 1..n : f[i] = f[i - 1] \o parts[i]

\* FlattenSeq puts the parts together one after the other.
LEMMA FlattenJoins ==
  ASSUME NEW S, NEW parts \in Seq(Seq(S))
  PROVE  \E f : Joins(f, S, parts, Len(parts)) /\ FlattenSeq(parts) = f[Len(parts)]
<1> DEFINE n == Len(parts)
           Texts == Seq(S)
           F == [i \in 1..n |-> [v \in Texts |-> v \o parts[i]]]
           IsRun(g) == g = [i \in 1..n |-> IF i = 1 THEN parts[i] ELSE g[i - 1] \o parts[i]]
<1>1. n \in Nat /\ \A i \in 1..n : parts[i] \in Texts
  OBVIOUS
<1>2. F \in [1..n -> [Texts -> Texts]]
  <2>1. \A v, w \in Texts : v \o w \in Texts
    OBVIOUS
  <2> HIDE DEF n, Texts
  <2> QED
    BY <1>1, <2>1
<1>3. PICK f : f \in [0..n -> Texts] /\ f[0] = <<>> /\ \A i \in 1..n : f[i] = F[i][f[i - 1]]
  <2> DEFINE x == <<>>
  <2>1. x \in Texts
    OBVIOUS
  <2> HIDE DEF F, n, x, Texts
  <2>2. \E f : Iterates(f, Texts, x, n, F)
    BY <1>1, <1>2, <2>1, IterationExists
  <2> QED
    BY <2>2 DEF x, Iterates
<1>4. \A i \in 1..n : f[i - 1] \in Texts /\ f[i] = f[i - 1] \o parts[i]
  <2> HIDE DEF n, Texts
  <2>1. \A i \in 1..n : i - 1 \in 0..n
    BY <1>1
  <2> QED
    BY <1>3, <2>1
<1>5. Joins(f, S, parts, n)
  <2> HIDE DEF n, F
  <2> QED
    BY <1>3, <1>4 DEF Joins
<1>6. CASE n = 0
  <2>1. parts = <<>> /\ FlattenSeq(parts) = parts
    BY <1>6 DEF FlattenSeq
  <2>2. FlattenSeq(parts) = f[n]
    BY <1>3, <1>6, <2>1
  <2> QED
    BY <1>5, <2>2
<1>7. CASE n # 0
  <2> DEFINE h == [i \in 1..n |-> f[i]]
             G == CHOOSE g : IsRun(g)
  <2>1. IsRun(h)
    <3> HIDE DEF n, F, Texts
    <3>1. \A i \in 1..n : i # 1 => i - 1 \in 1..n
      BY <1>1
    <3>2. 1 \in 1..n /\ 1 - 1 = 0
      BY <1>1, <1>7
    <3>3. f[1] = f[0] \o parts[1] /\ parts[1] \in Texts
      BY <1>1, <1>4, <3>2
    <3>4. <<>> \o parts[1] = parts[1]
      BY <3>3 DEF Texts
    <3>5. f[1] = parts[1]
      BY <1>3, <3>3, <3>4
    <3>6. \A i \in 1..n : f[i] = IF i = 1 THEN parts[i] ELSE h[i - 1] \o parts[i]
      BY <1>4, <3>1, <3>5
    <3> QED
      BY <3>6
  <2>2. IsRun(G)
    <3> HIDE DEF IsRun, h
    <3> QED
      BY <2>1
  <2>3. FlattenSeq(parts) = G[n]
    BY <1>7 DEF FlattenSeq
  <2> HIDE DEF G
  <2> DEFINE T == {k \in 0..n : k # 0 => G[k] = f[k]}
  <2>4. ASSUME NEW i \in 1..n, i - 1 \in T PROVE i \in T
    <3> HIDE DEF n, F, Texts, h
    <3>1. i \in 0..n /\ (i - 1 # 0 => G[i - 1] = f[i - 1])
      BY <1>1, <2>4
    <3> HIDE DEF T
    <3>2. G[i] = IF i = 1 THEN parts[i] ELSE G[i - 1] \o parts[i]
      BY <2>2
    <3>3. f[i] = f[i - 1] \o parts[i] /\ parts[i] \in Texts
      BY <1>1, <1>4
    <3>4. CASE i = 1
      <4>1. i - 1 = 0 /\ G[i] = parts[i]
        BY <3>2, <3>4
      <4>2. f[i] = <<>> \o parts[i]
        BY <1>3, <3>3, <4>1
      <4>3. <<>> \o parts[i] = parts[i]
        BY <3>3 DEF Texts
      <4>4. G[i] = f[i]
        BY <4>1, <4>2, <4>3
      <4> QED
        BY <3>1, <4>4 DEF T
    <3>5. CASE i # 1
      <4>1. G[i - 1] = f[i - 1]
        BY <3>1, <3>5
      <4>2. G[i] = f[i]
        BY <3>2, <3>3, <3>5, <4>1
      <4> QED
        BY <3>1, <4>2 DEF T
    <3> QED
      BY <3>4, <3>5
  <2>5. n \in T
    <3>1. 0 \in T
      OBVIOUS
    <3> HIDE DEF T, n
    <3>2. \A k \in 0..(n - 1) : k \in T => k + 1 \in T
      <4>1. \A k \in 0..(n - 1) : k + 1 \in 1..n /\ (k + 1) - 1 = k
        BY <1>1
      <4> QED
        BY <2>4, <4>1
    <3>3. \A k \in 0..n : k \in T
      BY <1>1, <3>1, <3>2, InductionUpTo
    <3> QED
      BY <1>1, <3>3
  <2>6. G[n] = f[n]
    <3> HIDE DEF n
    <3> QED
      BY <1>7, <2>5
  <2> QED
    BY <1>5, <2>3, <2>6
<1> QED
  BY <1>6, <1>7

\* From the one before to each up to a bound.
LEMMA InductionAlong ==
  ASSUME NEW n \in Nat, NEW T, 0 \in T, \A i \in 1..n : i - 1 \in T => i \in T
  PROVE  \A k \in 0..n : k \in T
<1>1. ASSUME NEW k \in 0..(n - 1), k \in T PROVE k + 1 \in T
  <2>1. k + 1 \in 1..n /\ (k + 1) - 1 = k
    OBVIOUS
  <2> QED
    BY <1>1, <2>1
<1> QED
  BY <1>1, InductionUpTo

\* What is put together so far is where the whole begins.
LEMMA JoinsStart ==
  ASSUME NEW S, NEW parts \in Seq(Seq(S)), NEW n \in Nat, n = Len(parts),
         NEW f, Joins(f, S, parts, n)
  PROVE  \A k \in 0..n : Starts(f[k], f[n])
<1> DEFINE T == {k \in 0..n : \A j \in 0..k : Starts(f[j], f[k])}
<1>1. \A i \in 0..n : f[i] \in Seq(S) /\ Len(f[i]) \in Nat
  BY DEF Joins
<1>2. 0 \in T
  BY <1>1 DEF Starts
<1>3. ASSUME NEW i \in 1..n, i - 1 \in T PROVE i \in T
  <2>0. i - 1 \in 0..n /\ i \in 0..n
    OBVIOUS
  <2>00. f[i] = f[i - 1] \o parts[i]
    BY Zenon DEF Joins
  <2>1. parts[i] \in Seq(S) /\ i - 1 \in 0..n /\ i \in 0..n /\ f[i] = f[i - 1] \o parts[i]
    BY <2>0, <2>00, ElementOfSeq
  <2>2. Starts(f[i - 1], f[i])
    <3> DEFINE a == f[i - 1]
               b == parts[i]
    <3>1. a \in Seq(S) /\ b \in Seq(S) /\ f[i] = a \o b
      BY <1>1, <2>1
    <3> HIDE DEF a, b
    <3>2. Starts(a, a \o b)
      BY <3>1 DEF Starts
    <3> QED
      BY <3>1, <3>2 DEF a
  <2>3. ASSUME NEW j \in 0..i PROVE Starts(f[j], f[i])
    <3>1. CASE j = i
      <4>1. Len(f[i]) \in Nat
        BY <1>1, <2>1
      <4> DEFINE a == f[i]
      <4> HIDE DEF a
      <4>2. Starts(a, a)
        BY <4>1 DEF Starts, a
      <4> QED
        BY <3>1, <4>2 DEF a
    <3>2. CASE j # i
      <4>1. j \in 0..(i - 1) /\ j \in 0..n
        BY <2>1, <3>2
      <4>2. Starts(f[j], f[i - 1])
        BY <1>3, <4>1
      <4> DEFINE a == f[j]
                 b == f[i - 1]
                 c == f[i]
      <4>3. /\ Starts(a, b) /\ Starts(b, c) 
            /\ Len(a) \in Nat /\ Len(b) \in Nat /\ Len(c) \in Nat
        BY <1>1, <2>1, <2>2, <4>1, <4>2
      <4> HIDE DEF a, b, c
      <4>4. \A m \in 1..Len(a) : m \in 1..Len(b)
        BY <4>3 DEF Starts
      <4>5. Starts(a, c)
        BY <4>3, <4>4 DEF Starts
      <4> QED
        BY <4>5 DEF a, c
    <3> QED
      BY <3>1, <3>2
  <2> QED
    BY <2>1, <2>3
<1>4. \A k \in 0..n : k \in T
  <2> HIDE DEF T
  <2> QED
    BY <1>2, <1>3, InductionAlong
<1>5. n \in T
  BY <1>4
<1> QED
  BY <1>5

\* The characters of a text, and those that the backend adds (see DbSpec).
Signs == STRING \cup {"redis", ":", "/", "@", "%", ",", " ", "6379", "0",
                      "2C", "3A", "2F", "40", "25", "20"}
Special == {",", ":", "/", "@", "%", " "}
HexCodes == {"2C", "3A", "2F", "40", "25", "20"}

\* The signs and what is among them.
LEMMA SignsHold ==
  /\ STRING \subseteq Signs /\ Special \subseteq Signs /\ HexCodes \subseteq Signs
  /\ {"redis", "6379", "0"} \subseteq Signs
  /\ \A d \in HexCodes : d \notin Special
<1>1. STRING \subseteq Signs
  BY DEF Signs
<1>2. Special \subseteq Signs
  BY DEF Signs, Special
<1>3. HexCodes \subseteq Signs
  BY DEF Signs, HexCodes
<1>4. {"redis", "6379", "0"} \subseteq Signs
  BY DEF Signs
<1>5. \A d \in HexCodes : d \notin Special
  BY DEF HexCodes, Special
<1> QED
  BY <1>1, <1>2, <1>3, <1>4, <1>5

Quoted(c) == IF c \in DOMAIN Hex THEN <<"%", Hex[c]>> ELSE <<c>>

\* Every special character has a code of its own, which is none of them.
LEMMA CodesAreRead ==
  /\ DOMAIN Hex = Special
  /\ \A c \in Special : Hex[c] \in HexCodes /\ Char(Hex[c]) = c
<1>1. DOMAIN Hex = Special
  BY DEF Hex, Special
<1>2. /\ Hex[","] = "2C" /\ Hex[":"] = "3A" /\ Hex["/"] = "2F"
      /\ Hex["@"] = "40" /\ Hex["%"] = "25" /\ Hex[" "] = "20"
  BY DEF Hex
<1>3. \A c, d \in Special : Hex[c] = Hex[d] => c = d
  BY <1>2 DEF Special
<1>4. \A c \in Special : Hex[c] \in HexCodes
  BY <1>2 DEF Special, HexCodes
<1>5. ASSUME NEW c \in Special PROVE Char(Hex[c]) = c
  <2>1. \E d \in DOMAIN Hex : Hex[d] = Hex[c]
    BY <1>1
  <2>2. (CHOOSE d \in DOMAIN Hex : Hex[d] = Hex[c]) = c
    BY <1>1, <1>3
  <2> QED
    BY <2>1, <2>2 DEF Char
<1> QED
  BY <1>1, <1>4, <1>5

\* The code of one character is one character or two.
LEMMA QuotedTyped ==
  ASSUME NEW c \in Signs
  PROVE  /\ Quoted(c) \in Seq(Signs)
         /\ \A j \in 1..Len(Quoted(c)) : Quoted(c)[j] \notin Special \ {"%"}
<1> DEFINE Ok == {d \in Signs : d \notin Special \ {"%"}}
<1>1. CASE c \in Special
  <2> DEFINE h == Hex[c]
             p == "%"
  <2>1. Quoted(c) = <<p, h>> /\ h \in HexCodes
    BY <1>1, CodesAreRead DEF Quoted
  <2>2. h \in Ok /\ Ok \subseteq Signs
    <3> HIDE DEF h
    <3> QED
      BY <2>1, SignsHold
  <2>3. p \in Ok
    BY SignsHold DEF Special
  <2> HIDE DEF h, p, Ok
  <2>4. <<p, h>> \in Seq(Signs) /\ Len(<<p, h>>) = 2 /\ <<p, h>>[1] = p /\ <<p, h>>[2] = h
    BY <2>2, <2>3
  <2>5. \A j \in 1..2 : j = 1 \/ j = 2
    OBVIOUS
  <2>6. Quoted(c) \in Seq(Signs) /\ \A j \in 1..Len(Quoted(c)) : Quoted(c)[j] \in Ok
    BY <2>1, <2>2, <2>3, <2>4, <2>5, Zenon
  <2> QED
    BY <2>6 DEF Ok
<1>2. CASE c \notin Special
  <2>1. Quoted(c) = <<c>>
    BY <1>2, CodesAreRead DEF Quoted
  <2>2. <<c>> \in Seq(Signs) /\ Len(<<c>>) = 1 /\ <<c>>[1] = c
    OBVIOUS
  <2>3. \A j \in 1..1 : j = 1
    OBVIOUS
  <2>4. c \notin Special \ {"%"}
    BY <1>2
  <2> QED
    BY <2>1, <2>2, <2>3, <2>4, Zenon
<1> QED
  BY <1>1, <1>2

\* The code of a text: one character after the other.
LEMMA UrlencodeJoins ==
  ASSUME NEW s \in Seq(Signs)
  PROVE  \E parts \in Seq(Seq(Signs)) :
           /\ Len(parts) = Len(s) /\ \A i \in 1..Len(s) : parts[i] = Quoted(s[i])
           /\ \E f : Joins(f, Signs, parts, Len(s)) /\ urlencode(s) = f[Len(s)]
<1> DEFINE n == Len(s)
           parts == [i \in 1..n |-> Quoted(s[i])]
<1>1. n \in Nat /\ DOMAIN s = 1..n /\ \A i \in 1..n : s[i] \in Signs
  OBVIOUS
<1>2. parts \in Seq(Seq(Signs)) /\ Len(parts) = n
  <2>1. \A i \in 1..n : Quoted(s[i]) \in Seq(Signs)
    BY <1>1, QuotedTyped
  <2> DEFINE Texts == Seq(Signs)
  <2> HIDE DEF n, Texts
  <2>2. parts \in [1..n -> Texts]
    BY <2>1 DEF Texts
  <2>3. parts \in Seq(Texts) /\ Len(parts) = n
    <3> HIDE DEF parts
    <3> QED
      BY <1>1, <2>2, FunctionIsSequence
  <2> QED
    BY <2>3 DEF Texts
<1>3. \A i \in 1..n : parts[i] = Quoted(s[i])
  OBVIOUS
<1>4. urlencode(s) = FlattenSeq(parts)
  BY <1>1 DEF urlencode, Quoted
<1> HIDE DEF parts
<1>5. PICK f : Joins(f, Signs, parts, Len(parts)) /\ FlattenSeq(parts) = f[Len(parts)]
  BY <1>2, FlattenJoins
<1> QED
  BY <1>2, <1>3, <1>4, <1>5

\* What is read of a character, by the one before it.
ReadAt(e, i) ==
  IF e[i] = "%" THEN <<>> ELSE IF i > 1 /\ e[i - 1] = "%" THEN <<Char(e[i])>> ELSE <<e[i]>>

\* No code is no character of these; reading is defined on any text all the same.
Readable == Signs \cup {Char(c) : c \in Signs}

\* Reading back: one character of the code after the other.
LEMMA DecodeJoins ==
  ASSUME NEW e \in Seq(Signs)
  PROVE  \E parts \in Seq(Seq(Readable)) :
           /\ Len(parts) = Len(e) /\ \A i \in 1..Len(e) : parts[i] = ReadAt(e, i)
           /\ \E f : Joins(f, Readable, parts, Len(e)) /\ Decode(e) = f[Len(e)]
<1> DEFINE n == Len(e)
           parts == [i \in 1..n |-> ReadAt(e, i)]
<1>1. n \in Nat /\ DOMAIN e = 1..n /\ \A i \in 1..n : e[i] \in Signs
  OBVIOUS
<1>2. parts \in Seq(Seq(Readable)) /\ Len(parts) = n
  <2>1. ASSUME NEW i \in 1..n PROVE ReadAt(e, i) \in Seq(Readable)
    <3> DEFINE c == e[i]
               d == Char(e[i])
    <3>1. c \in Readable /\ d \in Readable
      BY <1>1 DEF Readable
    <3>2. ReadAt(e, i) \in {<<>>, <<d>>, <<c>>}
      BY DEF ReadAt
    <3> HIDE DEF c, d
    <3>3. <<>> \in Seq(Readable) /\ <<d>> \in Seq(Readable) /\ <<c>> \in Seq(Readable)
      BY <3>1
    <3> QED
      BY <3>2, <3>3
  <2> DEFINE Texts == Seq(Readable)
  <2> HIDE DEF n, Texts
  <2>2. parts \in [1..n -> Texts]
    BY <2>1 DEF Texts
  <2>3. parts \in Seq(Texts) /\ Len(parts) = n
    <3> HIDE DEF parts
    <3> QED
      BY <1>1, <2>2, FunctionIsSequence
  <2> QED
    BY <2>3 DEF Texts
<1>3. \A i \in 1..n : parts[i] = ReadAt(e, i)
  OBVIOUS
<1>4. Decode(e) = FlattenSeq(parts)
  BY <1>1 DEF Decode, ReadAt
<1> HIDE DEF parts
<1>5. PICK f : Joins(f, Readable, parts, Len(parts)) /\ FlattenSeq(parts) = f[Len(parts)]
  BY <1>2, FlattenJoins
<1> QED
  BY <1>2, <1>3, <1>4, <1>5

\* No character of the code has a meaning in a URL, but the percent sign.
LEMMA UrlencodeIsPlain ==
  ASSUME NEW s \in Seq(Signs)
  PROVE  /\ urlencode(s) \in Seq(Signs)
         /\ \A j \in 1..Len(urlencode(s)) : urlencode(s)[j] \notin Special \ {"%"}
<1>1. PICK parts \in Seq(Seq(Signs)) :
        /\ Len(parts) = Len(s) /\ \A i \in 1..Len(s) : parts[i] = Quoted(s[i])
        /\ \E f : Joins(f, Signs, parts, Len(s)) /\ urlencode(s) = f[Len(s)]
  BY UrlencodeJoins
<1>2. PICK f : Joins(f, Signs, parts, Len(s)) /\ urlencode(s) = f[Len(s)]
  BY <1>1
<1> DEFINE n == Len(s)
           Plain(t) == \A j \in 1..Len(t) : t[j] \notin Special \ {"%"}
           T == {k \in 0..n : Plain(f[k])}
<1>3. n \in Nat /\ \A i \in 1..n : s[i] \in Signs
  OBVIOUS
<1>4. f \in [0..n -> Seq(Signs)] /\ f[0] = <<>> /\ \A i \in 1..n : f[i] = f[i - 1] \o parts[i]
  BY <1>2 DEF Joins
<1> HIDE DEF n
<1>5. 0 \in T
  BY <1>3, <1>4
<1>6. ASSUME NEW i \in 1..n, i - 1 \in T PROVE i \in T
  <2> DEFINE a == f[i - 1]
             b == parts[i]
  <2>1. i \in 0..n /\ i - 1 \in 0..n
    BY <1>3
  <2>2. a \in Seq(Signs) /\ Plain(a) /\ f[i] = a \o b
    BY <1>4, <1>6, <2>1
  <2>3. b \in Seq(Signs) /\ Plain(b)
    <3>1. b = Quoted(s[i]) /\ s[i] \in Signs
      BY <1>1, <1>3 DEF n
    <3> HIDE DEF b
    <3> QED
      BY <3>1, QuotedTyped
  <2> HIDE DEF a, b
  <2>4. Plain(a \o b)
    <3>1. /\ Len(a) \in Nat /\ Len(b) \in Nat /\ Len(a \o b) = Len(a) + Len(b)
          /\ \A j \in 1..(Len(a) + Len(b)) : (a \o b)[j] = IF j <= Len(a) THEN a[j] ELSE b[j - Len(a)]
      BY <2>2, <2>3, ConcatProperties
    <3>2. ASSUME NEW j \in 1..(Len(a) + Len(b)) PROVE (a \o b)[j] \notin Special \ {"%"}
      <4>1. CASE j <= Len(a)
        <5>1. j \in 1..Len(a) /\ (a \o b)[j] = a[j]
          BY <3>1, <4>1
        <5> QED
          BY <2>2, <5>1
      <4>2. CASE ~(j <= Len(a))
        <5>1. j - Len(a) \in 1..Len(b) /\ (a \o b)[j] = b[j - Len(a)]
          BY <3>1, <4>2
        <5> QED
          BY <2>3, <5>1
      <4> QED
        BY <4>1, <4>2
    <3> QED
      BY <3>1, <3>2
  <2>5. Plain(f[i])
    <3> HIDE DEF Plain
    <3> QED
      BY <2>2, <2>4
  <2> QED
    BY <2>1, <2>5
<1>7. Plain(f[n]) /\ f[n] \in Seq(Signs)
  <2>1. n \in T
    <3> HIDE DEF T
    <3>1. \A k \in 0..n : k \in T
      BY <1>3, <1>5, <1>6, InductionAlong
    <3> QED
      BY <1>3, <3>1
  <2> QED
    BY <1>3, <1>4, <2>1
<1> QED
  BY <1>2, <1>7 DEF n

\* One character more: read back from its code, whatever it is, as long as the code
\* before it is complete.
LEMMA ReadBack ==
  ASSUME NEW e \in Seq(Signs), NEW c \in Signs, NEW l \in Nat,
         l + Len(Quoted(c)) <= Len(e),
         \A j \in 1..Len(Quoted(c)) : e[l + j] = Quoted(c)[j],
         l = 0 \/ e[l] # "%"
  PROVE  \/ /\ Len(Quoted(c)) = 1 /\ ReadAt(e, l + 1) = <<c>> /\ e[l + 1] # "%"
         \/ /\ Len(Quoted(c)) = 2 /\ ReadAt(e, l + 1) = <<>> /\ ReadAt(e, l + 2) = <<c>>
            /\ e[l + 2] # "%"
<1>1. CASE c \in Special
  <2> DEFINE h == Hex[c]
  <2>1. Quoted(c) = <<"%", h>> /\ h \in HexCodes /\ Char(h) = c
    BY <1>1, CodesAreRead DEF Quoted
  <2>2. h # "%"
    BY <2>1, SignsHold DEF Special
  <2> HIDE DEF h
  <2>3. Len(Quoted(c)) = 2 /\ Quoted(c)[1] = "%" /\ Quoted(c)[2] = h
    BY <2>1
  <2>4. e[l + 1] = "%" /\ e[l + 2] = h
    BY <2>3
  <2>5. l + 2 > 1 /\ (l + 2) - 1 = l + 1
    OBVIOUS
  <2>6. ReadAt(e, l + 1) = <<>>
    BY <2>4 DEF ReadAt
  <2>7. ReadAt(e, l + 2) = <<Char(e[l + 2])>>
    BY <2>2, <2>4, <2>5 DEF ReadAt
  <2> QED
    BY <2>1, <2>2, <2>3, <2>4, <2>6, <2>7
<1>2. CASE c \notin Special
  <2>1. Quoted(c) = <<c>> /\ c # "%"
    BY <1>2, CodesAreRead DEF Quoted, Special
  <2>2. Len(Quoted(c)) = 1 /\ Quoted(c)[1] = c
    BY <2>1
  <2>3. e[l + 1] = c
    BY <2>2
  <2>4. ~(l + 1 > 1 /\ e[(l + 1) - 1] = "%")
    <3>1. (l + 1) - 1 = l
      OBVIOUS
    <3> QED
      BY <3>1
  <2>5. ReadAt(e, l + 1) = <<c>>
    BY <2>1, <2>3, <2>4 DEF ReadAt
  <2> QED
    BY <2>1, <2>2, <2>3, <2>5
<1> QED
  BY <1>1, <1>2

\* A password is read back as it was, whatever is in it.
LEMMA DecodeIsInverse ==
  ASSUME NEW s \in Seq(Signs)
  PROVE  Decode(urlencode(s)) = s
<1> DEFINE n == Len(s)
           e == urlencode(s)
<1>1. PICK parts \in Seq(Seq(Signs)) :
        /\ Len(parts) = n /\ \A i \in 1..n : parts[i] = Quoted(s[i])
        /\ \E f : Joins(f, Signs, parts, n) /\ e = f[n]
  BY UrlencodeJoins
<1>2. PICK f : Joins(f, Signs, parts, n) /\ e = f[n]
  BY <1>1
<1>3. e \in Seq(Signs)
  BY UrlencodeIsPlain
<1>4. PICK pieces \in Seq(Seq(Readable)) :
        /\ Len(pieces) = Len(e) /\ \A i \in 1..Len(e) : pieces[i] = ReadAt(e, i)
        /\ \E g : Joins(g, Readable, pieces, Len(e)) /\ Decode(e) = g[Len(e)]
  <2> HIDE DEF e
  <2> QED
    BY <1>3, DecodeJoins
<1>5. PICK g : Joins(g, Readable, pieces, Len(e)) /\ Decode(e) = g[Len(e)]
  BY <1>4
<1>6. n \in Nat /\ \A i \in 1..n : s[i] \in Signs
  OBVIOUS
<1> HIDE DEF n, e
<1> DEFINE T == {k \in 0..n : /\ g[Len(f[k])] = SubSeq(s, 1, k)
                              /\ Len(f[k]) = 0 \/ e[Len(f[k])] # "%"}
<1>7. /\ f \in [0..n -> Seq(Signs)] /\ f[0] = <<>> /\ \A i \in 1..n : f[i] = f[i - 1] \o parts[i]
      /\ g \in [0..Len(e) -> Seq(Readable)] /\ g[0] = <<>>
      /\ \A i \in 1..Len(e) : g[i] = g[i - 1] \o pieces[i]
  BY <1>2, <1>5 DEF Joins
<1>8. 0 \in T
  <2>1. SubSeq(s, 1, 0) = <<>> /\ Len(f[0]) = 0
    BY <1>7
  <2> QED
    BY <1>6, <1>7, <2>1
<1>9. \A k \in 0..n : Starts(f[k], e)
  BY <1>1, <1>2, <1>6, JoinsStart
<1>10. ASSUME NEW i \in 1..n, i - 1 \in T PROVE i \in T
  <2> DEFINE l == Len(f[i - 1])
             c == s[i]
             q == Quoted(c)
             before == SubSeq(s, 1, i - 1)
  <2>1. i \in 0..n /\ i - 1 \in 0..n /\ c \in Signs
    BY <1>6
  <2>2. l \in Nat /\ q \in Seq(Signs) /\ f[i - 1] \in Seq(Signs) /\ f[i] = f[i - 1] \o q /\ Len(q) \in Nat
    <3> HIDE DEF c
    <3>1. q \in Seq(Signs)
      BY <2>1, QuotedTyped
    <3>2. parts[i] = q /\ f[i] = f[i - 1] \o parts[i]
      BY <1>1, <1>7 DEF c
    <3>3. f[i - 1] \in Seq(Signs)
      BY <1>7, <2>1
    <3> HIDE DEF q
    <3> QED
      BY <3>1, <3>2, <3>3
  <2>3. g[l] = before /\ (l = 0 \/ e[l] # "%")
    <3> HIDE DEF before
    <3> QED
      BY <1>10 DEF before
  <2>4. Len(f[i]) = l + Len(q) /\ \A j \in 1..Len(q) : f[i][l + j] = q[j]
    <3> DEFINE a == f[i - 1]
    <3>1. a \in Seq(Signs) /\ q \in Seq(Signs) /\ f[i] = a \o q /\ l = Len(a)
      BY <2>2
    <3> HIDE DEF a, q, l
    <3>2. /\ Len(a) \in Nat /\ Len(q) \in Nat /\ Len(a \o q) = Len(a) + Len(q)
          /\ \A j \in 1..(Len(a) + Len(q)) : (a \o q)[j] = IF j <= Len(a) THEN a[j] ELSE q[j - Len(a)]
      BY <3>1, ConcatProperties
    <3>3. ASSUME NEW j \in 1..Len(q) PROVE (a \o q)[l + j] = q[j]
      <4>1. l + j \in 1..(Len(a) + Len(q)) /\ ~(l + j <= Len(a)) /\ (l + j) - Len(a) = j
        BY <3>1, <3>2
      <4> QED
        BY <3>2, <4>1
    <3> QED
      BY <3>1, <3>2, <3>3
  <2>5. Starts(f[i], e) /\ Len(e) \in Nat
    BY <1>3, <1>9, <2>1
  <2>6. l + Len(q) <= Len(e) /\ \A j \in 1..Len(q) : e[l + j] = q[j]
    <3> HIDE DEF l, q
    <3>1. \A j \in 1..Len(q) : l + j \in 1..Len(f[i])
      BY <2>2, <2>4
    <3> QED
      BY <2>4, <2>5, <3>1 DEF Starts
  <2>7. \/ /\ Len(q) = 1 /\ ReadAt(e, l + 1) = <<c>> /\ e[l + 1] # "%"
        \/ /\ Len(q) = 2 /\ ReadAt(e, l + 1) = <<>> /\ ReadAt(e, l + 2) = <<c>>
           /\ e[l + 2] # "%"
    <3> HIDE DEF l, c
    <3> QED
      BY <1>3, <2>1, <2>2, <2>3, <2>6, ReadBack
  <2>8. SubSeq(s, 1, i) = before \o <<c>> /\ before \in Seq(Signs)
    <3>1. /\ 1 \in 1..Len(s) /\ i \in 1..Len(s) /\ i \in Int /\ i - 1 \in Int /\ 1 \in Int
          /\ 1 >= 1 /\ i - 1 <= Len(s)
      BY <1>6 DEF n
    <3>2. SubSeq(s, 1, i) = SubSeq(s, 1, i - 1) \o <<s[i]>>
      <4> DEFINE m == 1
      <4>1. m \in 1..Len(s) /\ i \in m..Len(s)
        BY <3>1
      <4> HIDE DEF m
      <4>2. SubSeq(s, m, i) = SubSeq(s, m, i - 1) \o <<s[i]>>
        BY <4>1, SubSeqRecursiveSecond
      <4> QED
        BY <4>2 DEF m
    <3>3. SubSeq(s, 1, i - 1) \in Seq(Signs)
      BY <3>1, CutTyped
    <3> QED
      BY <3>2, <3>3
  <2> HIDE DEF l, c, q, before
  <2>9. CASE Len(q) = 1 /\ ReadAt(e, l + 1) = <<c>> /\ e[l + 1] # "%"
    <3>1. l + 1 \in 1..Len(e) /\ (l + 1) - 1 = l /\ Len(f[i]) = l + 1
      <4> DEFINE m == Len(f[i])
                 k == Len(e)
      <4>1. l \in Nat /\ k \in Nat /\ m = l + 1 /\ m <= k
        BY <2>2, <2>4, <2>5, <2>6, <2>9
      <4> HIDE DEF m, k
      <4>2. l + 1 \in 1..k /\ (l + 1) - 1 = l /\ m = l + 1
        BY <4>1
      <4> QED
        BY <4>2 DEF m, k
    <3>2. g[l + 1] = g[l] \o <<c>>
      <4>1. g[l + 1] = g[(l + 1) - 1] \o pieces[l + 1] /\ pieces[l + 1] = ReadAt(e, l + 1)
        BY <1>4, <1>7, <3>1
      <4> QED
        BY <2>9, <3>1, <4>1
    <3>3. g[Len(f[i])] = SubSeq(s, 1, i) /\ e[Len(f[i])] # "%"
      BY <2>3, <2>8, <2>9, <3>1, <3>2
    <3> QED
      BY <2>1, <3>3
  <2>10. CASE /\ Len(q) = 2 /\ ReadAt(e, l + 1) = <<>> /\ ReadAt(e, l + 2) = <<c>>
              /\ e[l + 2] # "%"
    <3>1. /\ l + 1 \in 1..Len(e) /\ (l + 1) - 1 = l /\ Len(f[i]) = l + 2
          /\ l + 2 \in 1..Len(e) /\ (l + 2) - 1 = l + 1 /\ l \in 0..Len(e)
      BY <2>2, <2>4, <2>5, <2>6, <2>10
    <3>2. g[l + 1] = g[l] \o <<>>
      <4>1. g[l + 1] = g[(l + 1) - 1] \o pieces[l + 1] /\ pieces[l + 1] = ReadAt(e, l + 1)
        BY <1>4, <1>7, <3>1
      <4> QED
        BY <2>10, <3>1, <4>1
    <3>3. g[l + 2] = g[l + 1] \o <<c>>
      <4>1. g[l + 2] = g[(l + 2) - 1] \o pieces[l + 2] /\ pieces[l + 2] = ReadAt(e, l + 2)
        BY <1>4, <1>7, <3>1
      <4> QED
        BY <2>10, <3>1, <4>1
    <3>4. before \o <<>> = before
      BY <2>8, ConcatEmptySeq
    <3>5. g[Len(f[i])] = SubSeq(s, 1, i) /\ e[Len(f[i])] # "%"
      BY <2>3, <2>8, <2>10, <3>1, <3>2, <3>3, <3>4
    <3> QED
      BY <2>1, <3>5
  <2> QED
    BY <2>7, <2>9, <2>10
<1>11. n \in T
  <2> HIDE DEF T
  <2>1. \A k \in 0..n : k \in T
    BY <1>6, <1>8, <1>10, InductionAlong
  <2> QED
    BY <1>6, <2>1
<1>12. g[Len(e)] = SubSeq(s, 1, n)
  BY <1>2, <1>11
<1>13. SubSeq(s, 1, n) = s
  BY SubSeqFull DEF n
<1> QED
  BY <1>5, <1>12, <1>13 DEF e

-----------------------------------------------------------------------------------
(* redis_url() and the server that its URL is read as. *)

Without(t, c) == \A j \in 1..Len(t) : t[j] # c

\* A text of two parts is without a character that both are without.
LEMMA WithoutBoth ==
  ASSUME NEW S, NEW a \in Seq(S), NEW b \in Seq(S), NEW c, Without(a, c), Without(b, c)
  PROVE  Without(a \o b, c)
<1>1. /\ Len(a) \in Nat /\ Len(b) \in Nat /\ Len(a \o b) = Len(a) + Len(b)
      /\ \A j \in 1..(Len(a) + Len(b)) : (a \o b)[j] = IF j <= Len(a) THEN a[j] ELSE b[j - Len(a)]
  BY ConcatProperties
<1>2. ASSUME NEW j \in 1..(Len(a) + Len(b)) PROVE (a \o b)[j] # c
  <2>1. CASE j <= Len(a)
    <3>1. j \in 1..Len(a) /\ (a \o b)[j] = a[j]
      BY <1>1, <2>1
    <3> QED
      BY <3>1 DEF Without
  <2>2. CASE ~(j <= Len(a))
    <3>1. j - Len(a) \in 1..Len(b) /\ (a \o b)[j] = b[j - Len(a)]
      BY <1>1, <2>2
    <3> QED
      BY <3>1 DEF Without
  <2> QED
    BY <2>1, <2>2
<1> QED
  BY <1>1, <1>2 DEF Without

LEMMA WithoutOne ==
  ASSUME NEW S, NEW d \in S, NEW c, d # c
  PROVE  Without(<<d>>, c)
<1>1. Len(<<d>>) = 1 /\ <<d>>[1] = d
  OBVIOUS
<1>2. \A j \in 1..1 : j = 1
  OBVIOUS
<1> QED
  BY <1>1, <1>2, Zenon DEF Without

\* The first of a kind, and the last: SelectInSeq and SelectLastInSeq.
LEMMA FirstIs ==
  ASSUME NEW S, NEW t \in Seq(S), NEW c, NEW i \in 1..Len(t), t[i] = c,
         \A j \in 1..(i - 1) : t[j] # c
  PROVE  First(t, c) = i
<1> DEFINE n == Len(t)
           I == {j \in 1..n : t[j] = c}
<1>1. n \in Nat /\ I \in SUBSET (1..n) /\ i \in I
  OBVIOUS
<1>2. Min(I) \in I /\ Min(I) \in 1..n /\ \A j \in I : Min(I) <= j
  <2>1. I # {}
    BY <1>1
  <2> HIDE DEF I, n
  <2> QED
    BY <1>1, <2>1, FirstPosition
<1>3. First(t, c) = Min(I)
  BY <1>1 DEF First, SelectInSeq
<1> DEFINE m == Min(I)
<1> HIDE DEF m
<1>4. m \in 1..n /\ t[m] = c /\ m <= i
  BY <1>1, <1>2 DEF m
<1>5. ~(m < i)
  BY <1>4
<1>6. m = i
  BY <1>4, <1>5
<1> QED
  BY <1>3, <1>6 DEF m

LEMMA FirstIsNone ==
  ASSUME NEW t, NEW c, Without(t, c)
  PROVE  First(t, c) = 0
<1>1. {j \in 1..Len(t) : t[j] = c} = {}
  BY DEF Without
<1> QED
  BY <1>1 DEF First, SelectInSeq

LastOne(t, c) == SelectLastInSeq(t, LAMBDA d : d = c)

\* Where nothing of the kind follows, it is the last.
LEMMA LastIs ==
  ASSUME NEW S, NEW t \in Seq(S), NEW c, NEW i \in 1..Len(t), t[i] = c,
         \A j \in (i + 1)..Len(t) : t[j] # c
  PROVE  LastOne(t, c) = i
<1> DEFINE n == Len(t)
           I == {j \in 1..n : t[j] = c}
<1>1. n \in Nat /\ I \in SUBSET (1..n) /\ i \in I
  OBVIOUS
<1>2. Max(I) \in I /\ Max(I) \in 1..n /\ \A j \in I : j <= Max(I)
  <2>1. I # {}
    BY <1>1
  <2> HIDE DEF I, n
  <2> QED
    BY <1>1, <2>1, LastPosition
<1>3. LastOne(t, c) = Max(I)
  BY <1>1 DEF LastOne, SelectLastInSeq
<1> DEFINE m == Max(I)
<1> HIDE DEF m
<1>4. m \in 1..n /\ t[m] = c /\ i <= m
  BY <1>1, <1>2 DEF m
<1>5. ~(m > i)
  BY <1>4
<1>6. m = i
  BY <1>4, <1>5
<1> QED
  BY <1>3, <1>6 DEF m

LEMMA LastIsNone ==
  ASSUME NEW t, NEW c, Without(t, c)
  PROVE  LastOne(t, c) = 0
<1>1. {j \in 1..Len(t) : t[j] = c} = {}
  BY DEF Without
<1> QED
  BY <1>1 DEF LastOne, SelectLastInSeq

\* A text is cut where its parts were put together.
LEMMA FrontCut ==
  ASSUME NEW S, NEW a \in Seq(S), NEW b \in Seq(S)
  PROVE  SubSeq(a \o b, 1, Len(a)) = a /\ SubSeq(a \o b, Len(a) + 1, Len(a \o b)) = b
<1>1. /\ Len(a) \in Nat /\ Len(b) \in Nat /\ a \o b \in Seq(S) /\ Len(a \o b) = Len(a) + Len(b)
      /\ \A j \in 1..(Len(a) + Len(b)) : (a \o b)[j] = IF j <= Len(a) THEN a[j] ELSE b[j - Len(a)]
  BY ConcatProperties
<1> DEFINE t == a \o b
           m == Len(a)
           n == Len(a) + Len(b)
           u == SubSeq(t, 1, m)
           v == SubSeq(t, m + 1, n)
<1> HIDE DEF t, m, n
<1>2. m \in Nat /\ n \in Nat /\ m <= n /\ t \in Seq(S) /\ Len(t) = n
  BY <1>1 DEF t, m, n
<1>3. u \in Seq(S) /\ Len(u) = m /\ \A i \in 1..m : u[i] = t[i]
  <2>1. \A i \in 1..m : t[i] \in S
    BY <1>2
  <2>2. 1 \in Int /\ m \in Int
    BY <1>2
  <2>3. u \in Seq(S) /\ Len(u) = (IF 1 <= m THEN m - 1 + 1 ELSE 0) /\ \A i \in 1..(m - 1 + 1) : u[i] = t[1 + i - 1]
    <3> DEFINE k == 1
    <3> HIDE DEF k
    <3>1. k \in Int /\ \A i \in k..m : t[i] \in S
      BY <2>1, <2>2 DEF k
    <3>2. /\ SubSeq(t, k, m) \in Seq(S) /\ Len(SubSeq(t, k, m)) = IF k <= m THEN m - k + 1 ELSE 0
          /\ \A i \in 1..(m - k + 1) : SubSeq(t, k, m)[i] = t[k + i - 1]
      BY <2>2, <3>1, SubSeqProperties
    <3> QED
      BY <3>2 DEF k
  <2> HIDE DEF u
  <2> QED
    BY <1>2, <2>3
<1>4. v \in Seq(S) /\ Len(v) = n - m /\ \A i \in 1..(n - m) : v[i] = t[m + i]
  <2>1. \A i \in (m + 1)..n : t[i] \in S
    BY <1>2
  <2>2. m + 1 \in Int /\ n \in Int
    BY <1>2
  <2>3. /\ v \in Seq(S) /\ Len(v) = (IF m + 1 <= n THEN n - (m + 1) + 1 ELSE 0)
        /\ \A i \in 1..(n - (m + 1) + 1) : v[i] = t[(m + 1) + i - 1]
    BY <2>1, <2>2, SubSeqProperties
  <2> HIDE DEF v
  <2>4. n - (m + 1) + 1 = n - m /\ \A i \in 1..(n - m) : (m + 1) + i - 1 = m + i
    BY <1>2
  <2>5. Len(v) = n - m
    BY <1>2, <2>3
  <2>6. \A i \in 1..(n - m) : v[i] = t[m + i]
    BY <2>3, <2>4
  <2> QED
    BY <2>3, <2>5, <2>6
<1> HIDE DEF u, v
<1>5. u = a
  <2>1. Len(u) = Len(a) /\ \A i \in 1..Len(u) : u[i] = a[i]
    <3>1. \A i \in 1..m : i \in 1..(Len(a) + Len(b)) /\ i <= Len(a)
      BY <1>1 DEF m
    <3>2. \A i \in 1..m : t[i] = a[i]
      BY <1>1, <3>1 DEF t
    <3> QED
      BY <1>3, <3>2 DEF m
  <2> QED
    BY <1>3, <2>1, SeqEqual
<1>6. v = b
  <2>1. Len(v) = Len(b) /\ \A i \in 1..Len(v) : v[i] = b[i]
    <3>1. Len(v) = Len(b)
      BY <1>1, <1>4 DEF m, n
    <3>2. \A i \in 1..Len(b) : /\ m + i \in 1..(Len(a) + Len(b)) /\ ~(m + i <= Len(a))
                               /\ (m + i) - Len(a) = i /\ i \in 1..(n - m)
      BY <1>1 DEF m, n
    <3>3. \A i \in 1..Len(b) : t[m + i] = b[i]
      BY <1>1, <3>2 DEF t
    <3> QED
      BY <1>4, <3>1, <3>2, <3>3
  <2> QED
    BY <1>4, <2>1, SeqEqual
<1> QED
  BY <1>1, <1>5, <1>6 DEF u, v, t, m, n

\* Cut at a character that stands between two parts, and where it stands.
LEMMA CutAt ==
  ASSUME NEW S, NEW a \in Seq(S), NEW c \in S, NEW b \in Seq(S)
  PROVE  LET t == (a \o <<c>>) \o b
             n == Len(a) + 1
         IN  /\ t \in Seq(S) /\ n \in 1..Len(t)
             /\ Before(t, n) = a /\ After(t, n) = b
             /\ Without(a, c) => First(t, c) = n
             /\ Without(b, c) => LastOne(t, c) = n
<1> DEFINE u == a \o <<c>>
           t == u \o b
           n == Len(a) + 1
           cc == <<c>>
<1>0. cc \in Seq(S) /\ Len(cc) = 1 /\ cc[1] = c
  OBVIOUS
<1> HIDE DEF cc
<1>1. /\ Len(a) \in Nat /\ a \o cc \in Seq(S) /\ Len(a \o cc) = Len(a) + 1
      /\ \A j \in 1..(Len(a) + 1) : (a \o cc)[j] = IF j <= Len(a) THEN a[j] ELSE cc[j - Len(a)]
  <2>1. /\ a \o cc \in Seq(S) /\ Len(a \o cc) = Len(a) + Len(cc)
        /\ \A j \in 1..(Len(a) + Len(cc)) :
             (a \o cc)[j] = IF j <= Len(a) THEN a[j] ELSE cc[j - Len(a)]
    BY <1>0, ConcatProperties
  <2>2. Len(a) \in Nat
    OBVIOUS
  <2> QED
    BY <1>0, <2>1, <2>2, Zenon
<1>2. u = a \o cc
  BY DEF cc
<1> HIDE DEF u
<1>3. /\ u \in Seq(S) /\ Len(u) = n /\ n \in Nat /\ n >= 1 /\ u[n] = c
      /\ \A j \in 1..(n - 1) : u[j] = a[j]
  <2>1. n \in 1..(Len(a) + 1) /\ ~(n <= Len(a)) /\ n - Len(a) = 1
    BY <1>1
  <2>2. u[n] = c
    BY <1>0, <1>1, <1>2, <2>1
  <2>3. \A j \in 1..(n - 1) : j \in 1..(Len(a) + 1) /\ j <= Len(a)
    BY <1>1
  <2> QED
    BY <1>1, <1>2, <2>1, <2>2, <2>3
<1>4. /\ Len(b) \in Nat /\ t \in Seq(S) /\ Len(t) = n + Len(b)
      /\ \A j \in 1..(n + Len(b)) : t[j] = IF j <= n THEN u[j] ELSE b[j - n]
  <2>1. /\ u \o b \in Seq(S) /\ Len(u \o b) = Len(u) + Len(b)
        /\ \A j \in 1..(Len(u) + Len(b)) :
             (u \o b)[j] = IF j <= Len(u) THEN u[j] ELSE b[j - Len(u)]
    BY <1>3, ConcatProperties
  <2>2. Len(b) \in Nat
    OBVIOUS
  <2> QED
    BY <1>3, <2>1, <2>2, Zenon
<1>5. SubSeq(t, 1, n) = u /\ SubSeq(t, n + 1, Len(t)) = b
  BY <1>3, FrontCut
<1>6. SubSeq(u, 1, Len(a)) = a
  BY <1>0, <1>2, FrontCut
<1> DEFINE k == n
<1> HIDE DEF t, n
<1>7. n \in 1..Len(t) /\ n \in Nat
  BY <1>3, <1>4
<1>8. Before(t, n) = a
  <2>1. n - 1 = Len(a)
    BY <1>1 DEF n
  <2>2. SubSeq(t, 1, n - 1) = SubSeq(u, 1, n - 1)
    <3>1. CASE n - 1 = 0
      <4>1. SubSeq(t, 1, 0) = <<>> /\ SubSeq(u, 1, 0) = <<>>
        OBVIOUS
      <4> QED
        BY <3>1, <4>1
    <3>2. CASE n - 1 # 0
      <4>1. 1 \in 1..Len(u) /\ n - 1 \in 1..Len(u)
        BY <1>3, <1>7, <3>2
      <4> DEFINE i == 1
                 j == n - 1
      <4> HIDE DEF i, j
      <4>2. i \in 1..Len(u) /\ j \in 1..Len(u)
        BY <4>1 DEF i, j
      <4>3. SubSeq(u \o b, i, j) = SubSeq(u, i, j)
        BY <1>3, <4>2, SubSeqOfConcat1
      <4> QED
        BY <4>3 DEF i, j, t
    <3> QED
      BY <3>1, <3>2
  <2> QED
    BY <1>6, <2>1, <2>2 DEF Before
<1>9. After(t, n) = b
  BY <1>5 DEF After
<1>10. t[n] = c
  BY <1>3, <1>4, <1>7
<1>11. ASSUME Without(a, c) PROVE First(t, c) = n
  <2>1. ASSUME NEW j \in 1..(n - 1) PROVE t[j] # c
    <3>1. j \in 1..(n + Len(b)) /\ j <= n /\ j \in 1..Len(a)
      BY <1>1, <1>4, <1>7 DEF n
    <3>2. t[j] = a[j]
      BY <1>3, <1>4, <3>1
    <3> QED
      BY <1>11, <3>1, <3>2 DEF Without
  <2> QED
    BY <1>4, <1>7, <1>10, <2>1, FirstIs
<1>12. ASSUME Without(b, c) PROVE LastOne(t, c) = n
  <2>1. ASSUME NEW j \in (n + 1)..Len(t) PROVE t[j] # c
    <3>1. j \in 1..(n + Len(b)) /\ ~(j <= n) /\ j - n \in 1..Len(b)
      BY <1>4, <1>7
    <3>2. t[j] = b[j - n]
      BY <1>4, <3>1
    <3> QED
      BY <1>12, <3>1, <3>2 DEF Without
  <2> QED
    BY <1>4, <1>7, <1>10, <2>1, LastIs
<1> QED
  BY <1>4, <1>7, <1>8, <1>9, <1>11, <1>12 DEF t, u, n

LEMMA SchemeTyped == Scheme \in Seq(Signs) /\ Len(Scheme) = 4
<1> DEFINE r == "redis"
           c == ":"
           slash == "/"
           sch == Scheme
<1>1. r \in Signs /\ c \in Signs /\ slash \in Signs
  BY SignsHold DEF Special
<1>2. sch = <<r, c, slash, slash>>
  BY DEF Scheme
<1> HIDE DEF r, c, slash, sch
<1>3. Len(<<r, c, slash, slash>>) = 4 /\ <<r, c, slash, slash>> \in Seq(Signs)
  BY <1>1
<1>4. sch \in Seq(Signs) /\ Len(sch) = 4
  BY <1>2, <1>3
<1> QED
  BY <1>4 DEF sch

\* A URL of these parts is read as these parts.
LEMMA UrlIsRead ==
  ASSUME NEW front \in Seq(Signs), NEW db0 \in Seq(Signs), Without(front, "/"),
         NEW url, url = Scheme \o ((front \o <<"/">>) \o db0)
  PROVE  LET sign == LastOne(front, "@") IN
           ReadUrl(url) =
             [server |-> HostPort(After(front, sign)),
              db     |-> db0,
              pass   |-> IF sign = 0 THEN <<>>
                         ELSE Decode(After(Before(front, sign), First(Before(front, sign), ":")))]
<1> DEFINE slash == "/"
           tail == (front \o <<slash>>) \o db0
           sch == Scheme
           rest == SubSeq(url, Len(Scheme) + 1, Len(url))
<1>1. slash \in Signs
  BY SignsHold DEF Special
<1>2. Len(sch) = 4 /\ sch \in Seq(Signs)
  BY SchemeTyped
<1> HIDE DEF slash
<1>3. /\ tail \in Seq(Signs) /\ Len(front) + 1 \in 1..Len(tail)
      /\ Before(tail, Len(front) + 1) = front /\ After(tail, Len(front) + 1) = db0
      /\ Without(front, slash) => First(tail, slash) = Len(front) + 1
  BY <1>1, CutAt
<1>4. First(tail, slash) = Len(front) + 1
  BY <1>3 DEF slash
<1>5. rest = tail
  <2> HIDE DEF tail, sch
  <2>1. url = sch \o tail
    BY DEF sch, tail, slash
  <2>2. SubSeq(sch \o tail, Len(sch) + 1, Len(sch \o tail)) = tail
    BY <1>2, <1>3, FrontCut
  <2> QED
    BY <2>1, <2>2 DEF sch
<1>6. Len(front) + 1 # 0
  <2>1. Len(front) \in Nat
    OBVIOUS
  <2> QED
    BY <2>1
<1> DEFINE sign == LastOne(front, "@")
<1>7. ReadUrl(url) =
        LET cut == First(rest, "/")
            authority == IF cut = 0 THEN rest ELSE Before(rest, cut)
            place == LastOne(authority, "@")
            user == Before(authority, place)
        IN  [server |-> HostPort(After(authority, place)),
             db     |-> IF cut = 0 THEN Db ELSE After(rest, cut),
             pass   |-> IF place = 0 THEN <<>> ELSE Decode(After(user, First(user, ":")))]
  BY DEF ReadUrl, LastOne
<1>8. First(rest, "/") = Len(front) + 1
  BY <1>4, <1>5 DEF slash
<1> HIDE DEF tail, rest
<1> QED
  BY <1>3, <1>5, <1>6, <1>7, <1>8, Zenon

\* Of a set of positions some first ones, as many as there are.
Firsts(I, m) == {c \in I : c <= m}

\* Of the positions of a kind there are some first ones of each number.
LEMMA SomeFirst ==
  ASSUME NEW n \in Nat, NEW I \in SUBSET (1..n), NEW k \in Nat, k <= Cardinality(I)
  PROVE  \E i \in {0} \cup I : Cardinality(Firsts(I, i)) = k
<1> DEFINE Upto(m) == {c \in I : c <= m}
           T == {m \in 0..n : /\ IsFiniteSet(Upto(m)) /\ Cardinality(Upto(m)) \in Nat
                              /\ \A j \in 0..Cardinality(Upto(m)) :
                                   \E i \in {0} \cup I : Cardinality(Upto(i)) = j}
<1>0. \A c \in I : c \in Nat /\ 1 <= c /\ c <= n
  <2>1. \A c \in I : c \in 1..n
    OBVIOUS
  <2> QED
    BY <2>1
<1>1. 0 \in T
  <2>1. Upto(0) = {}
    <3>1. \A c \in I : ~(c <= 0)
      BY <1>0
    <3> QED
      BY <3>1
  <2>2. IsFiniteSet(Upto(0)) /\ Cardinality(Upto(0)) = 0
    BY <2>1, FS_EmptySet
  <2>3. \A j \in 0..Cardinality(Upto(0)) : Cardinality(Upto(0)) = j
    BY <2>2
  <2> HIDE DEF Upto
  <2>4. \A j \in 0..Cardinality(Upto(0)) : \E i \in {0} \cup I : Cardinality(Upto(i)) = j
    BY <2>3
  <2>5. 0 \in 0..n
    OBVIOUS
  <2> QED
    BY <2>2, <2>4, <2>5
<1>2. ASSUME NEW m \in 1..n, m - 1 \in T PROVE m \in T
  <2> DEFINE U == Upto(m - 1)
  <2>1. /\ IsFiniteSet(U) /\ Cardinality(U) \in Nat
        /\ \A j \in 0..Cardinality(U) : \E i \in {0} \cup I : Cardinality(Upto(i)) = j
    BY <1>2
  <2>2. CASE m \notin I
    <3>1. Upto(m) = U
      <4>1. \A c \in I : c <= m <=> c <= m - 1
        BY <1>0, <2>2
      <4> QED
        BY <4>1
    <3> HIDE DEF U, Upto
    <3>2. m \in 0..n
      OBVIOUS
    <3> QED
      BY <2>1, <3>1, <3>2
  <2>3. CASE m \in I
    <3>1. Upto(m) = U \cup {m} /\ m \notin U
      <4>1. \A c \in I : c <= m <=> c <= m - 1 \/ c = m
        BY <1>0
      <4>2. ~(m <= m - 1) /\ m <= m
        OBVIOUS
      <4>3. \A c : c \in Upto(m) <=> c \in I /\ c <= m
        OBVIOUS
      <4>4. \A c : c \in U <=> c \in I /\ c <= m - 1
        OBVIOUS
      <4> HIDE DEF U, Upto
      <4>5. \A c : c \in Upto(m) <=> c \in U \cup {m}
        BY <2>3, <4>1, <4>2, <4>3, <4>4
      <4> QED
        BY <4>2, <4>4, <4>5
    <3> HIDE DEF U
    <3>2. IsFiniteSet(U \cup {m}) /\ Cardinality(U \cup {m}) = Cardinality(U) + 1
      BY <2>1, <3>1, FS_AddElement
    <3> HIDE DEF Upto
    <3>3. ASSUME NEW j \in 0..Cardinality(Upto(m))
          PROVE  \E i \in {0} \cup I : Cardinality(Upto(i)) = j
      <4>1. CASE j = Cardinality(Upto(m))
        BY <2>3, <4>1
      <4>2. CASE j # Cardinality(Upto(m))
        <5>1. j \in 0..Cardinality(U)
          BY <2>1, <3>1, <3>2, <4>2
        <5> QED
          BY <2>1, <5>1
      <4> QED
        BY <4>1, <4>2
    <3>4. m \in 0..n /\ Cardinality(Upto(m)) \in Nat /\ IsFiniteSet(Upto(m))
      BY <2>1, <3>1, <3>2
    <3> QED
      BY <3>3, <3>4
  <2> QED
    BY <2>2, <2>3
<1>3. n \in T
  <2> HIDE DEF T
  <2>1. \A m \in 0..n : m \in T
    BY <1>1, <1>2, InductionAlong
  <2> QED
    BY <2>1
<1>4. Upto(n) = I
  BY <1>0
<1>5. k \in 0..Cardinality(Upto(n))
  <2>1. Cardinality(Upto(n)) \in Nat
    <3> HIDE DEF Upto
    <3> QED
      BY <1>3
  <2> HIDE DEF Upto
  <2> QED
    BY <1>4, <2>1
<1>6. \E i \in {0} \cup I : Cardinality(Upto(i)) = k
  <2> HIDE DEF Upto
  <2> QED
    BY <1>3, <1>5
<1> QED
  BY <1>6 DEF Firsts

\* A part of a text is a text.
LEMMA PartTyped ==
  ASSUME NEW s \in Seq(Signs), NEW n \in Nat \ {0}, NEW default \in Seq(Signs)
  PROVE  Part(s, n, default) \in Seq(Signs)
<1> DEFINE commas == {i \in DOMAIN s : s[i] = ","}
           from == CHOOSE i \in {0} \cup commas : Cardinality({c \in commas : c <= i}) = n - 1
           ends == {i \in commas : i > from} \cup {Len(s) + 1}
           to == Min(ends)
<1>1. Part(s, n, default) =
        IF n - 1 > Cardinality(commas) THEN default ELSE SubSeq(s, from + 1, to - 1)
  BY DEF Part
<1>2. Len(s) \in Nat /\ commas \in SUBSET (1..Len(s)) /\ n - 1 \in Nat
  <2>1. Len(s) \in Nat /\ DOMAIN s = 1..Len(s)
    OBVIOUS
  <2>2. n - 1 \in Nat
    OBVIOUS
  <2>3. commas \in SUBSET (DOMAIN s)
    OBVIOUS
  <2> HIDE DEF commas
  <2> QED
    BY <2>1, <2>2, <2>3
<1>3. CASE n - 1 > Cardinality(commas)
  BY <1>1, <1>3
<1>4. CASE ~(n - 1 > Cardinality(commas))
  <2> HIDE DEF commas
  <2>1. Cardinality(commas) \in Nat
    <3>1. IsFiniteSet(1..Len(s))
      BY <1>2, FS_Interval
    <3>2. IsFiniteSet(commas)
      BY <1>2, <3>1, FS_Subset
    <3> QED
      BY <3>2, FS_CardinalityType
  <2>2. n - 1 <= Cardinality(commas)
    BY <1>2, <1>4, <2>1
  <2>3. \E i \in {0} \cup commas : Cardinality({c \in commas : c <= i}) = n - 1
    <3> DEFINE k == n - 1
               m == Len(s)
    <3>1. k \in Nat /\ k <= Cardinality(commas) /\ m \in Nat /\ commas \in SUBSET (1..m)
      BY <1>2, <2>2
    <3> HIDE DEF k, m
    <3>2. \E i \in {0} \cup commas : Cardinality(Firsts(commas, i)) = k
      BY <3>1, SomeFirst
    <3> QED
      BY <3>2 DEF k, Firsts
  <2>4. from \in {0} \cup commas
    BY <2>3
  <2> HIDE DEF from
  <2>5. from \in 0..Len(s)
    BY <1>2, <2>4
  <2>6. to \in 1..(Len(s) + 1)
    <3> DEFINE l == Len(s) + 1
    <3>1. l \in Nat /\ l \in 1..l /\ \A i \in 1..Len(s) : i \in 1..l
      BY <1>2
    <3>2. ends \subseteq commas \cup {l} /\ l \in ends
      OBVIOUS
    <3> HIDE DEF ends, l
    <3>3. ends \in SUBSET (1..l) /\ ends # {}
      BY <1>2, <3>1, <3>2
    <3>4. Min(ends) \in 1..l
      BY <3>1, <3>3, FirstPosition
    <3> QED
      BY <3>4 DEF l
  <2> HIDE DEF to
  <2>7. from + 1 \in Int /\ to - 1 \in Int /\ from + 1 >= 1 /\ to - 1 <= Len(s)
    BY <1>2, <2>5, <2>6
  <2>8. SubSeq(s, from + 1, to - 1) \in Seq(Signs)
    BY <2>7, CutTyped
  <2> QED
    BY <1>1, <1>4, <2>8
<1> QED
  BY <1>3, <1>4

Comma == ","

\* Without a comma the first part is the whole.
LEMMA PartWhole ==
  ASSUME NEW s \in Seq(Signs), Without(s, Comma), NEW default
  PROVE  Part(s, 1, default) = s
<1> DEFINE commas == {i \in DOMAIN s : s[i] = Comma}
           from == CHOOSE i \in {0} \cup commas : Cardinality({c \in commas : c <= i}) = 1 - 1
           ends == {i \in commas : i > from} \cup {Len(s) + 1}
<1>1. Part(s, 1, default) =
        IF 1 - 1 > Cardinality(commas) THEN default ELSE SubSeq(s, from + 1, Min(ends) - 1)
  BY DEF Part, Comma
<1>2. commas = {} /\ Len(s) \in Nat
  <2>1. Len(s) \in Nat /\ DOMAIN s = 1..Len(s)
    OBVIOUS
  <2>2. \A i \in 1..Len(s) : s[i] # Comma
    BY DEF Without
  <2> QED
    BY <2>1, <2>2
<1> HIDE DEF commas
<1>3. Cardinality(commas) = 0
  BY <1>2, FS_EmptySet
<1>4. 1 - 1 = 0
  OBVIOUS
<1>5. from = 0
  <2>1. Cardinality({c \in commas : c <= 0}) = 0
    <3>1. {c \in commas : c <= 0} = {}
      BY <1>2
    <3> DEFINE C == {c \in commas : c <= 0}
    <3> HIDE DEF C
    <3>2. C = {}
      BY <3>1 DEF C
    <3>3. Cardinality(C) = 0
      BY <3>2, FS_EmptySet
    <3> QED
      BY <3>3 DEF C
  <2>2. \E i \in {0} \cup commas : Cardinality({c \in commas : c <= i}) = 1 - 1
    BY <1>4, <2>1, Zenon
  <2>3. from \in {0} \cup commas
    BY <2>2, Zenon
  <2> HIDE DEF from
  <2> QED
    BY <1>2, <2>3
<1> HIDE DEF from
<1>6. Min(ends) = Len(s) + 1
  <2> DEFINE l == Len(s) + 1
  <2>1. ends = {l}
    BY <1>2
  <2>2. l \in Nat
    BY <1>2
  <2> HIDE DEF l, ends
  <2>3. l <= l
    BY <2>2
  <2>4. Min({l}) = l
    BY <2>3 DEF Min
  <2> QED
    BY <2>1, <2>4 DEF l
<1> HIDE DEF ends
<1>7. SubSeq(s, from + 1, Min(ends) - 1) = s
  <2>1. from + 1 = 1
    BY <1>5
  <2>2. Min(ends) - 1 = Len(s)
    BY <1>2, <1>6
  <2>3. SubSeq(s, 1, Len(s)) = s
    BY SubSeqFull
  <2> QED
    BY <2>1, <2>2, <2>3
<1>8. ~(1 - 1 > Cardinality(commas))
  BY <1>3
<1> QED
  BY <1>1, <1>7, <1>8, Zenon

HasComma(s) == Contains(s, ",")

LEMMA CommaWithout == \A s : ~HasComma(s) => Without(s, Comma)
  BY Zenon DEF HasComma, Contains, Without, Comma

\* What redis_url() returns and what it should mean, by the form of the value.
LEMMA UrlForms ==
  ASSUME NEW spec
  PROVE  /\ IsUrl(spec) => redis_url(spec) = spec /\ Meant(spec) = ReadUrl(spec)
         /\ ~IsUrl(spec) /\ ~HasComma(spec) =>
              /\ redis_url(spec) = Scheme \o spec \o <<"/", "0">>
              /\ Meant(spec) = [server |-> HostPort(spec), db |-> Db, pass |-> <<>>]
         /\ ~IsUrl(spec) /\ HasComma(spec) =>
              LET pass == Part(spec, 4, <<>>)
                  user == IF pass = <<>> THEN <<>> ELSE <<":">> \o urlencode(pass) \o <<"@">>
              IN  /\ redis_url(spec) =
                       Scheme \o user \o Part(spec, 1, <<>>) \o <<":">> \o Part(spec, 2, Port)
                         \o <<"/">> \o Part(spec, 3, Db)
                  /\ Meant(spec) =
                       [server |-> [host |-> Part(spec, 1, <<>>), port |-> Part(spec, 2, Port)],
                        db     |-> Part(spec, 3, Db),
                        pass   |-> Part(spec, 4, <<>>)]
<1>1. ASSUME IsUrl(spec) PROVE redis_url(spec) = spec /\ Meant(spec) = ReadUrl(spec)
  <2>1. redis_url(spec) = spec
    BY <1>1 DEF redis_url
  <2>2. Meant(spec) = ReadUrl(spec)
    BY <1>1 DEF Meant
  <2> QED
    BY <2>1, <2>2
<1>2. ASSUME ~IsUrl(spec), ~HasComma(spec)
      PROVE  /\ redis_url(spec) = Scheme \o spec \o <<"/", "0">>
             /\ Meant(spec) = [server |-> HostPort(spec), db |-> Db, pass |-> <<>>]
  <2>1. redis_url(spec) = Scheme \o spec \o <<"/", "0">>
    BY <1>2 DEF redis_url, HasComma
  <2>2. Meant(spec) = [server |-> HostPort(spec), db |-> Db, pass |-> <<>>]
    BY <1>2 DEF Meant, HasComma
  <2> QED
    BY <2>1, <2>2
<1>3. ASSUME ~IsUrl(spec), HasComma(spec)
      PROVE  LET pass == Part(spec, 4, <<>>)
                 user == IF pass = <<>> THEN <<>> ELSE <<":">> \o urlencode(pass) \o <<"@">>
             IN  /\ redis_url(spec) =
                      Scheme \o user \o Part(spec, 1, <<>>) \o <<":">> \o Part(spec, 2, Port)
                        \o <<"/">> \o Part(spec, 3, Db)
                 /\ Meant(spec) =
                      [server |-> [host |-> Part(spec, 1, <<>>), port |-> Part(spec, 2, Port)],
                       db     |-> Part(spec, 3, Db),
                       pass   |-> Part(spec, 4, <<>>)]
  <2> DEFINE pass == Part(spec, 4, <<>>)
             user == IF pass = <<>> THEN <<>> ELSE <<":">> \o urlencode(pass) \o <<"@">>
  <2>1. redis_url(spec) =
          Scheme \o user \o Part(spec, 1, <<>>) \o <<":">> \o Part(spec, 2, Port)
            \o <<"/">> \o Part(spec, 3, Db)
    BY <1>3 DEF redis_url, HasComma
  <2>2. Meant(spec) =
          [server |-> [host |-> Part(spec, 1, <<>>), port |-> Part(spec, 2, Port)],
           db     |-> Part(spec, 3, Db),
           pass   |-> Part(spec, 4, <<>>)]
    BY <1>3 DEF Meant, HasComma
  <2> QED
    BY <2>1, <2>2
<1> QED
  BY <1>1, <1>2, <1>3

\* PlainHost says where the characters that end a host are not.
LEMMA PlainForms ==
  ASSUME NEW spec, PlainHost(spec), ~IsUrl(spec)
  PROVE  /\ Without(Part(spec, 1, <<>>), "/") /\ Without(Part(spec, 2, Port), "/")
         /\ Without(Part(spec, 1, <<>>), "@") /\ Without(Part(spec, 2, Port), "@")
         /\ HasComma(spec) => Without(Part(spec, 1, <<>>), ":")
<1>1. \A c \in {"/", "@"} :
        ~Contains(Part(spec, 1, <<>>), c) /\ ~Contains(Part(spec, 2, Port), c)
  BY DEF PlainHost
<1>2. HasComma(spec) => ~Contains(Part(spec, 1, <<>>), ":")
  BY DEF PlainHost, HasComma
<1>3. \A s, c : ~Contains(s, c) => Without(s, c)
  BY DEF Contains, Without
<1> QED
  BY <1>1, <1>2, <1>3

LEMMA Regroup == \A s, t, u \in Seq(Signs) : (s \o t) \o u = s \o (t \o u)
  BY ConcatAssociative

LEMMA JoinTyped == \A s, t \in Seq(Signs) : s \o t \in Seq(Signs)
  OBVIOUS

\* Two literal characters are two texts put together.
LEMMA PairIsJoin ==
  ASSUME NEW S, NEW x \in S, NEW y \in S
  PROVE  <<x, y>> = <<x>> \o <<y>> /\ <<x>> \in Seq(S) /\ <<y>> \in Seq(S)
<1> DEFINE a == <<x>>
           b == <<y>>
           p == <<x, y>>
<1>1. /\ a \in Seq(S) /\ Len(a) = 1 /\ a[1] = x /\ b \in Seq(S) /\ Len(b) = 1 /\ b[1] = y
      /\ p \in Seq(S) /\ Len(p) = 2 /\ p[1] = x /\ p[2] = y
  OBVIOUS
<1> HIDE DEF a, b, p
<1>2. /\ a \o b \in Seq(S) /\ Len(a \o b) = Len(a) + Len(b)
      /\ \A j \in 1..(Len(a) + Len(b)) : (a \o b)[j] = IF j <= Len(a) THEN a[j] ELSE b[j - Len(a)]
  BY <1>1, ConcatProperties
<1>3. \A j \in 1..2 : j = 1 \/ j = 2
  OBVIOUS
<1>4. Len(p) = Len(a \o b) /\ \A j \in 1..Len(p) : p[j] = (a \o b)[j]
  <2>1. Len(a) + Len(b) = 2
    BY <1>1
  <2>2. (a \o b)[1] = x
    BY <1>1, <1>2, <2>1
  <2>3. (a \o b)[2] = y
    BY <1>1, <1>2, <2>1
  <2> QED
    BY <1>1, <1>2, <1>3, <2>1, <2>2, <2>3
<1>5. p = a \o b
  BY <1>1, <1>2, <1>4, SeqEqual
<1> QED
  BY <1>1, <1>5 DEF a, b, p

\* A host, perhaps with its port, is the host and port of the URL.
LEMMA UrlOfHost ==
  ASSUME NEW spec \in Seq(Signs), ~IsUrl(spec), ~HasComma(spec), PlainHost(spec)
  PROVE  ReadUrl(redis_url(spec)) = Meant(spec)
<1> DEFINE slash == "/"
           zero == "0"
           sign == LastOne(spec, "@")
<1>1. Without(spec, "/") /\ Without(spec, "@")
  <2>1. Part(spec, 1, <<>>) = spec
    BY CommaWithout, PartWhole
  <2> QED
    BY <2>1, PlainForms
<1>2. slash \in Signs /\ zero \in Signs
  BY SignsHold DEF Special
<1>3. redis_url(spec) = Scheme \o ((spec \o <<slash>>) \o <<zero>>)
  <2>1. redis_url(spec) = (Scheme \o spec) \o <<slash, zero>>
    BY UrlForms
  <2>2. Scheme \in Seq(Signs)
    BY SchemeTyped
  <2>3. <<slash, zero>> = <<slash>> \o <<zero>> /\ <<slash>> \in Seq(Signs) /\ <<zero>> \in Seq(Signs)
    <3> HIDE DEF slash, zero
    <3> QED
      BY <1>2, PairIsJoin
  <2> DEFINE u == <<slash>>
             v == <<zero>>
             sch == Scheme
  <2> HIDE DEF slash, zero, u, v, sch
  <2>4. redis_url(spec) = (sch \o spec) \o (u \o v) /\ u \in Seq(Signs) /\ v \in Seq(Signs) /\ sch \in Seq(Signs)
    BY <2>1, <2>2, <2>3 DEF u, v, sch
  <2>5. u \o v \in Seq(Signs)
    BY <2>4, JoinTyped
  <2>6. (sch \o spec) \o (u \o v) = sch \o (spec \o (u \o v))
    BY <2>4, <2>5, Regroup, Zenon
  <2>7. (spec \o u) \o v = spec \o (u \o v)
    BY <2>4, Regroup, Zenon
  <2>8. redis_url(spec) = sch \o ((spec \o u) \o v)
    BY <2>4, <2>6, <2>7, Zenon
  <2> QED
    BY <2>8 DEF u, v, sch
<1>4. <<zero>> = Db /\ <<zero>> \in Seq(Signs)
  <2>1. <<zero>> = Db
    BY DEF Db
  <2> HIDE DEF zero
  <2> QED
    BY <1>2, <2>1
<1>5. sign = 0
  BY <1>1, LastIsNone
<1>6. ReadUrl(redis_url(spec)) =
        [server |-> HostPort(After(spec, sign)), db |-> Db,
         pass   |-> IF sign = 0 THEN <<>>
                    ELSE Decode(After(Before(spec, sign), First(Before(spec, sign), ":")))]
  <2> DEFINE db0 == <<zero>>
             url == redis_url(spec)
  <2> HIDE DEF db0, url
  <2>1. db0 \in Seq(Signs) /\ url = Scheme \o ((spec \o <<"/">>) \o db0) /\ db0 = Db
    BY <1>3, <1>4 DEF db0, url, slash
  <2> QED
    BY <1>1, <2>1, UrlIsRead DEF url
<1>7. After(spec, 0) = spec
  <2>1. SubSeq(spec, 0 + 1, Len(spec)) = spec
    <3>1. 0 + 1 = 1
      OBVIOUS
    <3> QED
      BY <3>1, SubSeqFull
  <2> QED
    BY <2>1 DEF After
<1>8. Meant(spec) = [server |-> HostPort(spec), db |-> Db, pass |-> <<>>]
  BY UrlForms
<1> HIDE DEF sign
<1> QED
  BY <1>5, <1>6, <1>7, <1>8

\* The provers regroup without looking into the texts.
Texts == Seq(Signs)
Join(s, t) == s \o t

\* The join of texts is a text, and it does not matter which are joined first.
LEMMA JoinRegroups ==
  /\ \A s, t \in Texts : Join(s, t) \in Texts
  /\ \A s, t, u \in Texts : Join(Join(s, t), u) = Join(s, Join(t, u))
<1>1. \A s, t \in Texts : Join(s, t) \in Texts
  BY JoinTyped DEF Texts, Join
<1>2. ASSUME NEW s \in Texts, NEW t \in Texts, NEW u \in Texts
      PROVE  Join(Join(s, t), u) = Join(s, Join(t, u))
  BY Regroup, Zenon DEF Texts, Join
<1> QED
  BY <1>1, <1>2

Flat(s, u, h, c, p, l, d) == s \o u \o h \o c \o p \o l \o d
Nested(s, u, h, c, p, l, d) == s \o (((u \o ((h \o c) \o p)) \o l) \o d)

AllTexts(s, u, h, c, p, l, d) ==
  /\ s \in Texts /\ u \in Texts /\ h \in Texts /\ c \in Texts
  /\ p \in Texts /\ l \in Texts /\ d \in Texts

\* The URL in the order it is read in: the scheme, what is before the slash, the rest.
LEMMA RegroupUrl ==
  ASSUME NEW s, NEW u, NEW h, NEW c, NEW p, NEW l, NEW d, AllTexts(s, u, h, c, p, l, d)
  PROVE  Flat(s, u, h, c, p, l, d) = Nested(s, u, h, c, p, l, d)
<1> DEFINE uh == Join(u, h)
           uhc == Join(uh, c)
           uhcp == Join(uhc, p)
           uhcpl == Join(uhcp, l)
<1> USE DEF AllTexts
<1>1. uh \in Texts /\ uhc \in Texts /\ uhcp \in Texts /\ uhcpl \in Texts /\ Join(h, c) \in Texts
  BY JoinRegroups
<1>2. uhcp = Join(u, Join(Join(h, c), p))
  <2>1. uhc = Join(u, Join(h, c))
    BY JoinRegroups
  <2>2. Join(Join(u, Join(h, c)), p) = Join(u, Join(Join(h, c), p))
    BY <1>1, JoinRegroups
  <2> QED
    BY <2>1, <2>2
<1>3. Join(Join(s, u), h) = Join(s, uh)
  BY JoinRegroups
<1> HIDE DEF uh
<1>4. Join(Join(s, uh), c) = Join(s, uhc)
  BY <1>1, JoinRegroups
<1> HIDE DEF uhc
<1>5. Join(Join(s, uhc), p) = Join(s, uhcp)
  BY <1>1, JoinRegroups
<1> HIDE DEF uhcp
<1>6. Join(Join(s, uhcp), l) = Join(s, uhcpl)
  BY <1>1, JoinRegroups
<1>7. Join(Join(s, uhcpl), d) = Join(s, Join(uhcpl, d))
  BY <1>1, JoinRegroups
<1>8. Join(Join(Join(Join(Join(Join(s, u), h), c), p), l), d) =
        Join(s, Join(Join(Join(u, Join(Join(h, c), p)), l), d))
  BY <1>2, <1>3, <1>4, <1>5, <1>6, <1>7
<1> QED
  BY <1>8 DEF Join, Flat, Nested

CutFacts(a, c, b, t, n) ==
  /\ Before(t, n) = a /\ After(t, n) = b
  /\ Without(a, c) => First(t, c) = n
  /\ Without(b, c) => LastOne(t, c) = n

\* Where a text is cut, and what is before and after.
LEMMA CutKnown ==
  ASSUME NEW a \in Seq(Signs), NEW c \in Signs, NEW b \in Seq(Signs)
  PROVE  CutFacts(a, c, b, (a \o <<c>>) \o b, Len(a) + 1)
  BY CutAt DEF CutFacts

\* A host and its port are found at the colon between them.
LEMMA HostAndPort ==
  ASSUME NEW host \in Seq(Signs), NEW port \in Seq(Signs), Without(host, ":")
  PROVE  HostPort((host \o <<":">>) \o port) = [host |-> host, port |-> port]
<1> DEFINE colon == ":"
           t == (host \o <<colon>>) \o port
           n == Len(host) + 1
<1>1. colon \in Signs
  BY SignsHold DEF Special
<1> HIDE DEF colon
<1>2. /\ Before(t, n) = host /\ After(t, n) = port
      /\ Without(host, colon) => First(t, colon) = n
  BY <1>1, CutAt
<1>3. n # 0
  <2>1. Len(host) \in Nat
    OBVIOUS
  <2> QED
    BY <2>1
<1> HIDE DEF t, n
<1>4. First(t, colon) = n
  BY <1>2 DEF colon
<1>5. HostPort(t) = [host |-> host, port |-> port]
  BY <1>2, <1>3, <1>4 DEF HostPort, colon
<1> QED
  BY <1>5 DEF t, colon

\* ip,port[,db[,password]]: each part is where the URL has it, and the password is
\* read back whatever is in it.
LEMMA UrlOfParts ==
  ASSUME NEW spec \in Seq(Signs), ~IsUrl(spec), HasComma(spec), PlainHost(spec)
  PROVE  ReadUrl(redis_url(spec)) = Meant(spec)
<1> DEFINE host == Part(spec, 1, <<>>)
           port == Part(spec, 2, Port)
           db0 == Part(spec, 3, Db)
           pass == Part(spec, 4, <<>>)
           colon == ":"
           slash == "/"
           asign == "@"
           enc == urlencode(pass)
           user == IF pass = <<>> THEN <<>> ELSE <<colon>> \o enc \o <<asign>>
           hp == (host \o <<colon>>) \o port
           front == user \o hp
           url == redis_url(spec)
<1>1. colon \in Signs /\ slash \in Signs /\ asign \in Signs
  BY SignsHold DEF Special
<1>2. host \in Seq(Signs) /\ port \in Seq(Signs) /\ db0 \in Seq(Signs) /\ pass \in Seq(Signs)
  <2>1. <<>> \in Seq(Signs) /\ Port \in Seq(Signs) /\ Db \in Seq(Signs)
    <3> DEFINE x == "6379"
               y == "0"
    <3>1. x \in Signs /\ y \in Signs
      BY SignsHold
    <3>2. Port = <<x>> /\ Db = <<y>>
      BY DEF Port, Db
    <3> HIDE DEF x, y
    <3> QED
      BY <3>1, <3>2
  <2>2. \A n \in {1, 2, 3, 4} : n \in Nat \ {0}
    OBVIOUS
  <2> QED
    BY <2>1, <2>2, PartTyped
<1>3. /\ Without(host, slash) /\ Without(port, slash) /\ Without(host, asign)
      /\ Without(port, asign) /\ Without(host, colon)
  BY PlainForms
<1>4. /\ url = Scheme \o user \o host \o <<colon>> \o port \o <<slash>> \o db0
      /\ Meant(spec) = [server |-> [host |-> host, port |-> port], db |-> db0, pass |-> pass]
  <2>1. ~IsUrl(spec) /\ HasComma(spec)
    OBVIOUS
  <2> QED
    BY <2>1, UrlForms
<1>5. enc \in Seq(Signs) /\ Without(enc, colon) /\ Without(enc, slash) /\ Without(enc, asign)
  <2> HIDE DEF pass
  <2>1. enc \in Seq(Signs) /\ \A j \in 1..Len(enc) : enc[j] \notin Special \ {"%"}
    BY <1>2, UrlencodeIsPlain
  <2>2. \A c \in {":", "/", "@"} : c \in Special \ {"%"}
    BY DEF Special
  <2> HIDE DEF enc
  <2>3. \A c \in {":", "/", "@"} : Without(enc, c)
    BY <2>1, <2>2 DEF Without
  <2> QED
    BY <2>1, <2>3
<1>6. Decode(enc) = pass
  BY <1>2, DecodeIsInverse
<1>7. /\ slash # colon /\ slash # asign /\ colon # asign
      /\ slash = "/" /\ colon = ":" /\ asign = "@"
  OBVIOUS
<1> HIDE DEF host, port, db0, pass, colon, slash, asign, enc, url
<1> DEFINE c1 == <<colon>>
           s1 == <<slash>>
           a1 == <<asign>>
<1>8. /\ c1 \in Seq(Signs) /\ s1 \in Seq(Signs) /\ a1 \in Seq(Signs)
      /\ Without(c1, slash) /\ Without(c1, asign) /\ Without(a1, slash) /\ Without(a1, colon)
  <2>1. c1 \in Seq(Signs) /\ s1 \in Seq(Signs) /\ a1 \in Seq(Signs)
    BY <1>1
  <2>2. colon # slash /\ colon # asign /\ asign # slash /\ asign # colon
    BY <1>7
  <2>3. Without(c1, slash)
    BY <1>1, <2>2, WithoutOne
  <2>4. Without(c1, asign)
    BY <1>1, <2>2, WithoutOne
  <2>5. Without(a1, slash)
    BY <1>1, <2>2, WithoutOne
  <2>6. Without(a1, colon)
    BY <1>1, <2>2, WithoutOne
  <2> QED
    BY <2>1, <2>3, <2>4, <2>5, <2>6
<1> HIDE DEF c1, s1, a1
<1>9. hp = (host \o c1) \o port /\ hp \in Seq(Signs) /\ Without(hp, slash) /\ Without(hp, asign)
  <2> DEFINE hc == host \o c1
  <2>1. hp = hc \o port
    BY DEF c1
  <2>2. hc \in Seq(Signs)
    BY <1>2, <1>8, JoinTyped
  <2>3. Without(hc, slash)
    BY <1>2, <1>3, <1>8, WithoutBoth
  <2>4. Without(hc, asign)
    BY <1>2, <1>3, <1>8, WithoutBoth
  <2> HIDE DEF hc, hp
  <2>5. hp \in Seq(Signs)
    BY <1>2, <2>1, <2>2, JoinTyped
  <2>6. Without(hp, slash)
    BY <1>2, <1>3, <2>1, <2>2, <2>3, WithoutBoth
  <2>7. Without(hp, asign)
    BY <1>2, <1>3, <2>1, <2>2, <2>4, WithoutBoth
  <2> QED
    BY <2>1, <2>5, <2>6, <2>7 DEF hc
<1>10. HostPort(hp) = [host |-> host, port |-> port]
  <2>1. HostPort((host \o <<":">>) \o port) = [host |-> host, port |-> port]
    BY <1>2, <1>3, <1>7, HostAndPort
  <2> QED
    BY <2>1 DEF colon
<1> DEFINE uu == c1 \o enc
<1>11. uu \in Seq(Signs) /\ Without(uu, slash)
  <2>1. uu \in Seq(Signs)
    BY <1>5, <1>8, JoinTyped
  <2>2. Without(uu, slash)
    BY <1>5, <1>8, WithoutBoth
  <2> QED
    BY <2>1, <2>2
<1>12. user = IF pass = <<>> THEN <<>> ELSE uu \o a1
  BY DEF c1, a1
<1> HIDE DEF uu, user, hp
<1>13. user \in Seq(Signs) /\ Without(user, slash)
  <2>1. <<>> \in Seq(Signs) /\ Without(<<>>, slash)
    BY DEF Without
  <2>2. uu \o a1 \in Seq(Signs)
    BY <1>8, <1>11, JoinTyped
  <2>3. Without(uu \o a1, slash)
    BY <1>8, <1>11, WithoutBoth
  <2> QED
    BY <1>12, <2>1, <2>2, <2>3
<1>14. front \in Seq(Signs) /\ Without(front, slash)
  <2>1. front \in Seq(Signs)
    BY <1>9, <1>13, JoinTyped
  <2>2. Without(front, slash)
    BY <1>9, <1>13, WithoutBoth
  <2> QED
    BY <2>1, <2>2
<1>15. url = Scheme \o ((front \o s1) \o db0)
  <2> DEFINE sch == Scheme
  <2>1. sch \in Seq(Signs)
    BY SchemeTyped
  <2>2. url = sch \o user \o host \o c1 \o port \o s1 \o db0
    BY <1>4 DEF c1, s1
  <2> HIDE DEF sch
  <2>3. AllTexts(sch, user, host, c1, port, s1, db0)
    BY <1>2, <1>8, <1>13, <2>1 DEF AllTexts, Texts
  <2>3a. hp = (host \o c1) \o port
    BY <1>9
  <2>4. url = sch \o (((user \o hp) \o s1) \o db0)
    <3>1. Flat(sch, user, host, c1, port, s1, db0) =
            Nested(sch, user, host, c1, port, s1, db0)
      BY <2>3, RegroupUrl
    <3>2. url = Nested(sch, user, host, c1, port, s1, db0)
      BY <2>2, <3>1, Zenon DEF Flat
    <3> QED
      BY <2>3a, <3>2, Zenon DEF Nested
  <2> QED
    BY <2>4 DEF sch
<1> HIDE DEF front
<1> DEFINE sign == LastOne(front, "@")
           name == Before(front, sign)
<1>16. ReadUrl(url) = [server |-> HostPort(After(front, sign)), db |-> db0,
                       pass |-> IF sign = 0 THEN <<>> ELSE Decode(After(name, First(name, ":")))]
  <2>1. Without(front, "/")
    BY <1>7, <1>14
  <2>2. url = Scheme \o ((front \o <<"/">>) \o db0)
    BY <1>15 DEF s1, slash
  <2> QED
    BY <1>2, <1>14, <2>1, <2>2, UrlIsRead
<1>17. CASE pass = <<>>
  <2>1. front = hp
    <3>1. user = <<>>
      BY <1>12, <1>17
    <3>2. <<>> \o hp = hp
      BY <1>9, ConcatEmptySeq
    <3> QED
      BY <3>1, <3>2 DEF front
  <2>2. sign = 0
    <3>1. Without(front, "@")
      BY <1>7, <1>9, <2>1
    <3> QED
      BY <3>1, LastIsNone
  <2>3. After(front, 0) = hp
    <3>1. 0 + 1 = 1
      OBVIOUS
    <3>2. SubSeq(hp, 1, Len(hp)) = hp
      BY <1>9, SubSeqFull
    <3> QED
      BY <2>1, <3>1, <3>2 DEF After
  <2> HIDE DEF sign
  <2>4. ReadUrl(url) = [server |-> [host |-> host, port |-> port], db |-> db0, pass |-> <<>>]
    BY <1>10, <1>16, <2>2, <2>3
  <2> QED
    BY <1>4, <1>17, <2>4 DEF url
<1>18. CASE pass # <<>>
  <2> DEFINE n == Len(uu) + 1
  <2>1. front = (uu \o <<asign>>) \o hp
    BY <1>12, <1>18 DEF front, a1
  <2>2. /\ Before(front, n) = uu /\ After(front, n) = hp /\ LastOne(front, asign) = n
    <3>1. front = (uu \o a1) \o hp /\ a1 = <<asign>> /\ n = Len(uu) + 1
      BY <2>1 DEF a1
    <3> HIDE DEF n
    <3>2. uu \in Seq(Signs) /\ asign \in Signs /\ hp \in Seq(Signs)
      BY <1>1, <1>9, <1>11
    <3>3. /\ Before(front, n) = uu /\ After(front, n) = hp
          /\ Without(hp, asign) => LastOne(front, asign) = n
      <4>1. CutFacts(uu, asign, hp, (uu \o <<asign>>) \o hp, Len(uu) + 1)
        BY <3>2, CutKnown
      <4>2. CutFacts(uu, asign, hp, front, n)
        BY <3>1, <4>1, Zenon
      <4> QED
        BY <4>2 DEF CutFacts
    <3> QED
      BY <1>9, <3>3
  <2>3. n # 0
    <3>1. Len(uu) \in Nat
      BY <1>11
    <3> QED
      BY <3>1
  <2> HIDE DEF n
  <2>4. sign = n
    BY <1>7, <2>2
  <2>5. After(uu, First(uu, colon)) = enc
    <3> DEFINE e == <<>>
               k == Len(e) + 1
    <3>1. e \in Seq(Signs) /\ Without(e, colon)
      BY DEF Without
    <3>2. uu = (e \o c1) \o enc /\ c1 = <<colon>>
      <4>1. e \o c1 = c1
        BY <1>8, ConcatEmptySeq
      <4> QED
        BY <4>1 DEF uu, c1
    <3> HIDE DEF e
    <3>3. k = Len(e) + 1
      OBVIOUS
    <3> HIDE DEF k
    <3>4. colon \in Signs /\ enc \in Seq(Signs)
      BY <1>1, <1>5
    <3>5. After(uu, k) = enc /\ (Without(e, colon) => First(uu, colon) = k)
      <4>1. e \in Seq(Signs)
        BY <3>1
      <4>2. CutFacts(e, colon, enc, (e \o <<colon>>) \o enc, Len(e) + 1)
        BY <3>4, <4>1, CutKnown
      <4>3. CutFacts(e, colon, enc, uu, k)
        BY <3>2, <3>3, <4>2, Zenon
      <4> QED
        BY <4>3 DEF CutFacts
    <3> QED
      BY <3>1, <3>5
  <2>6. First(uu, ":") = First(uu, colon)
    BY DEF colon
  <2> HIDE DEF sign
  <2>7. ReadUrl(url) = [server |-> [host |-> host, port |-> port], db |-> db0, pass |-> pass]
    BY <1>6, <1>10, <1>16, <2>2, <2>3, <2>4, <2>5, <2>6
  <2> QED
    BY <1>4, <2>7 DEF url
<1> QED
  BY <1>17, <1>18

\* Each form of -X: the URL that is opened is read as the server that is meant.
LEMMA UrlIsMeant ==
  ASSUME NEW spec \in Seq(Signs), PlainHost(spec)
  PROVE  ReadUrl(redis_url(spec)) = Meant(spec)
<1>1. CASE IsUrl(spec)
  BY <1>1, UrlForms
<1> QED
  BY <1>1, UrlOfHost, UrlOfParts

-----------------------------------------------------------------------------------
(* The ids in a URL. *)

\* The texts of the command line are texts of such signs.
LEMMA TextsAreSigns == Seq(STRING) \subseteq Seq(Signs)
<1>1. ASSUME NEW S, NEW T, S \subseteq T PROVE Seq(S) \subseteq Seq(T)
  <2>1. ASSUME NEW s \in Seq(S) PROVE s \in Seq(T)
    BY <1>1
  <2> QED
    BY <2>1
<1>2. STRING \subseteq Signs
  BY DEF Signs
<1> QED
  BY <1>1, <1>2

\* Past() is where the first character outside the set is.
LEMMA PastIs ==
  ASSUME NEW S, NEW s \in Seq(S), NEW chars, NEW k \in 1..(Len(s) + 1),
         k = Len(s) + 1 \/ s[k] \notin chars, \A j \in 1..(k - 1) : s[j] \in chars
  PROVE  Past(s, 1, chars) = k
<1> DEFINE P(i) == /\ i = Len(s) + 1 \/ s[i] \notin chars
                   /\ \A j \in 1..(i - 1) : s[j] \in chars
<1>1. Len(s) \in Nat
  OBVIOUS
<1>2. P(k)
  OBVIOUS
<1>3. ASSUME NEW i \in 1..(Len(s) + 1), P(i) PROVE i = k
  <2>1. CASE i < k
    <3>1. i \in 1..(k - 1) /\ i # Len(s) + 1
      BY <1>1, <2>1
    <3> QED
      BY <1>3, <3>1
  <2>2. CASE k < i
    <3>1. k \in 1..(i - 1) /\ k # Len(s) + 1
      BY <1>1, <2>2
    <3> QED
      BY <1>3, <3>1
  <2> QED
    BY <1>1, <2>1, <2>2
<1>4. Past(s, 1, chars) = CHOOSE i \in 1..(Len(s) + 1) : P(i)
  BY DEF Past
<1> HIDE DEF P
<1> QED
  BY <1>2, <1>3, <1>4

Digits == {Numerals[i] : i \in 1..10}

\* A number is over where its digits are.
LEMMA NumberIsOver ==
  ASSUME NEW s \in Seq(Signs), NEW t \in Seq(Signs), t # <<>>, Len(t) <= Len(s),
         \A j \in 1..Len(t) : s[j] = t[j] /\ t[j] \in Digits,
         Len(s) = Len(t) \/ s[Len(t) + 1] \notin Digits
  PROVE  parse_i64(s) = Number10(t)[Len(t)]
<1> DEFINE n == Len(t)
           d == Digits
<1>1. n \in Nat /\ n >= 1 /\ Len(s) \in Nat /\ n <= Len(s)
  OBVIOUS
<1>2. \A c \in d : c # " " /\ c # "+" /\ c # Dash
  <2> DEFINE N == {"0", "1", "2", "3", "4", "5", "6", "7", "8", "9"}
  <2>1. \A i \in 1..10 : Numerals[i] \in N
    BY DEF Numerals
  <2>2. \A c \in N : c # " " /\ c # "+" /\ c # Dash
    BY DEF Dash
  <2> HIDE DEF N
  <2> QED
    BY <2>1, <2>2 DEF Digits
<1>3. s[1] \in d
  BY <1>1
<1>4. Past(s, 1, {" "}) = 1
  <2>1. s[1] \notin {" "}
    BY <1>2, <1>3
  <2>2. 1 \in 1..(Len(s) + 1) /\ \A j \in 1..(1 - 1) : s[j] \in {" "}
    BY <1>1
  <2> QED
    BY <2>1, <2>2, PastIs
<1>5. Past(s, 1, d) = n + 1
  <2> DEFINE k == n + 1
  <2>1. k \in 1..(Len(s) + 1) /\ k - 1 = n
    BY <1>1
  <2>2. k = Len(s) + 1 \/ s[k] \notin d
    OBVIOUS
  <2>3. \A j \in 1..(k - 1) : s[j] \in d
    <3>1. \A j \in 1..n : s[j] \in d
      OBVIOUS
    <3> HIDE DEF k
    <3> QED
      BY <2>1, <3>1
  <2> HIDE DEF d, n, k
  <2>4. Past(s, 1, d) = k
    BY <2>1, <2>2, <2>3, PastIs
  <2> QED
    BY <2>4 DEF k
<1>6. SubSeq(s, 1, n) = t
  <2>1. SubSeq(s, 1, n) \in Seq(Signs) /\ Len(SubSeq(s, 1, n)) = n
    BY <1>1
  <2>2. \A j \in 1..n : SubSeq(s, 1, n)[j] = s[j]
    BY <1>1
  <2> QED
    BY <2>1, <2>2
<1>7. s[1] \notin {"+", Dash}
  BY <1>2, <1>3
<1>8. d = {Numerals[i] : i \in 1..10}
  BY DEF Digits
<1> HIDE DEF d, n
<1> DEFINE start == Past(s, 1, {" "})
           signed == start <= Len(s) /\ s[start] \in {"+", Dash}
           first == IF signed THEN start + 1 ELSE start
           digits == SubSeq(s, first, Past(s, first, {Numerals[i] : i \in 1..10}) - 1)
           size == Number10(digits)[Len(digits)]
<1>10. ~signed /\ first = 1
  BY <1>4, <1>7
<1>11. digits = t
  <2> HIDE DEF signed, start, first
  <2>1. digits = SubSeq(s, 1, Past(s, 1, d) - 1)
    BY <1>8, <1>10
  <2>2. digits = SubSeq(s, 1, n)
    <3> DEFINE e == Past(s, 1, d) - 1
    <3>1. e = n
      BY <1>1, <1>5
    <3>2. digits = SubSeq(s, 1, e)
      BY <2>1, Zenon
    <3> HIDE DEF e, digits
    <3> QED
      BY <3>1, <3>2
  <2> HIDE DEF digits
  <2> QED
    BY <1>6, <2>2 DEF n
<1>12. parse_i64(s) = IF signed /\ s[start] = Dash THEN -size ELSE size
  BY DEF parse_i64
<1> HIDE DEF signed, start, first, digits
<1>13. parse_i64(s) = Number10(digits)[Len(digits)]
  BY <1>10, <1>12
<1> QED
  BY <1>11, <1>13

\* The sign between two parameters ends a number.
LEMMA AmpersandIsNoDigit == "&" \notin Digits
<1> DEFINE N == {"0", "1", "2", "3", "4", "5", "6", "7", "8", "9"}
<1>1. \A i \in 1..10 : Numerals[i] \in N
  BY DEF Numerals
<1>2. "&" \notin N
  OBVIOUS
<1> HIDE DEF N
<1> QED
  BY <1>1, <1>2 DEF Digits

\* The number of a parameter, up to the next one, is what parse_i64() reads there,
\* which goes on to the end of the URL.
LEMMA NumberIsRead ==
  ASSUME NEW url \in Seq(Signs), NEW p \in 1..Len(url), Numeric(Text(url, p))
  PROVE  parse_i64(After(url, p + 1)) = Number(url, p)
<1> DEFINE n == Len(url)
           amp == "&"
           I == {i \in p..n : url[i] = amp} \cup {n + 1}
           e == Min(I)
           t == SubSeq(url, p + 2, e - 1)
           s == SubSeq(url, p + 2, n)
<1>1. n \in Nat /\ p \in 1..n
  OBVIOUS
<1>2. e \in p..(n + 1) /\ (e = n + 1 \/ url[e] = amp)
  <2>1. I \in SUBSET (1..(n + 1)) /\ I # {} /\ n + 1 \in Nat
    BY <1>1
  <2>2. e \in I
    <3> DEFINE k == n + 1
    <3> HIDE DEF I
    <3>1. k \in Nat /\ I \in SUBSET (1..k) /\ I # {}
      BY <2>1
    <3> HIDE DEF k
    <3> QED
      BY <3>1, FirstPosition
  <2> HIDE DEF e
  <2> QED
    BY <1>1, <2>2
<1>3. Text(url, p) = t /\ amp \notin Digits
  BY AmpersandIsNoDigit DEF Text
<1>4. After(url, p + 1) = s
  BY <1>1 DEF After
<1>5. t # <<>> /\ \A j \in 1..Len(t) : t[j] \in Digits
  <2>1. Numeric(t)
    BY <1>3
  <2> HIDE DEF t
  <2>2. Len(Numerals) = 10
    BY DEF Numerals
  <2>3. \A c : Contains(Numerals, c) => c \in Digits
    BY <2>2 DEF Contains, Digits
  <2>4. t # <<>> /\ \A j \in DOMAIN t : Contains(Numerals, t[j])
    BY <2>1 DEF Numeric
  <2> QED
    BY <1>3, <2>3, <2>4
<1> HIDE DEF e, I, amp
<1>6. t \in Seq(Signs) /\ s \in Seq(Signs)
  BY <1>1, <1>2
<1>7. p + 2 <= e - 1
  <2>1. ASSUME ~(p + 2 <= e - 1) PROVE FALSE
    <3>1. t = <<>>
      BY <1>1, <1>2, <2>1
    <3> QED
      BY <1>5, <3>1
  <2> QED
    BY <2>1
<1>8. /\ Len(t) = e - p - 2 /\ \A j \in 1..Len(t) : t[j] = url[p + 1 + j]
      /\ Len(s) = n - p - 1 /\ \A j \in 1..Len(s) : s[j] = url[p + 1 + j]
  BY <1>1, <1>2, <1>7
<1> HIDE DEF s, t
<1>9. Len(t) <= Len(s) /\ \A j \in 1..Len(t) : s[j] = t[j]
  BY <1>1, <1>2, <1>8
<1>10. Len(s) = Len(t) \/ s[Len(t) + 1] \notin Digits
  <2>1. CASE e = n + 1
    BY <1>1, <1>8, <2>1
  <2>2. CASE url[e] = amp /\ e # n + 1
    <3>1. Len(t) + 1 \in 1..Len(s) /\ p + 1 + (Len(t) + 1) = e
      <4> DEFINE lt == Len(t)
                 ls == Len(s)
      <4>1. lt = e - p - 2 /\ ls = n - p - 1
        BY <1>8
      <4> HIDE DEF lt, ls, n
      <4>2. e <= n /\ p + 2 <= e - 1 /\ e \in Int
        BY <1>1, <1>2, <1>7, <2>2
      <4>3. lt + 1 \in 1..ls /\ p + 1 + (lt + 1) = e
        BY <1>1, <4>1, <4>2
      <4> QED
        BY <4>3 DEF lt, ls
    <3>2. s[Len(t) + 1] = url[e]
      BY <1>8, <3>1
    <3> QED
      BY <1>3, <2>2, <3>2
  <2> QED
    BY <1>2, <2>1, <2>2
<1>11. parse_i64(s) = Number10(t)[Len(t)]
  BY <1>5, <1>6, <1>9, <1>10, NumberIsOver
<1>12. parse_i64(t) = Number10(t)[Len(t)]
  <2>1. Len(t) <= Len(t) /\ \A j \in 1..Len(t) : t[j] = t[j] /\ t[j] \in Digits
    BY <1>5, <1>6
  <2>2. t \in Seq(Signs) /\ t # <<>> /\ Len(t) = Len(t)
    BY <1>5, <1>6
  <2> QED
    BY <2>1, <2>2, NumberIsOver, SMTT(20)
<1> QED
  BY <1>3, <1>4, <1>11, <1>12 DEF Number

\* The ids of an URL in which the word stands for a parameter or not at all.
LEMMA IdIsRead ==
  ASSUME NEW url \in Seq(Signs), NEW word, Proper(url, word)
  PROVE  LET found == {i \in 1..(Len(url) - 1) : SubSeq(url, i, i + 1) = <<word, "=">>}
             inUrl == {p \in Parameters(url) : url[p] = word}
         IN  /\ found = inUrl
             /\ inUrl # {} => parse_i64(After(url, Min(inUrl) + 1)) = Number(url, Min(inUrl))
<1> DEFINE n == Len(url)
           sign == "="
           found == {i \in 1..(n - 1) : SubSeq(url, i, i + 1) = <<word, sign>>}
           inUrl == {p \in Parameters(url) : url[p] = word}
<1>1. n \in Nat /\ DOMAIN url = 1..n
  OBVIOUS
<1>2. \A i \in 1..n : url[i] = word => /\ i \in Parameters(url) /\ i < n /\ url[i + 1] = sign
                                       /\ Numeric(Text(url, i))
  BY DEF Proper
<1>3. \A p \in Parameters(url) : p \in 1..n
  <2>1. First(url, "?") \in 0..n
    <3> DEFINE q == "?"
               I == {j \in 1..n : url[j] = q}
    <3>1. First(url, q) = IF I # {} THEN Min(I) ELSE 0
      BY DEF First, SelectInSeq
    <3>2. I # {} => Min(I) \in 1..n
      <4>1. I \in SUBSET (1..n)
        OBVIOUS
      <4> HIDE DEF I, n
      <4> QED
        BY <1>1, <4>1, FirstPosition
    <3> HIDE DEF I, n
    <3>3. First(url, q) \in 0..n
      BY <1>1, <3>1, <3>2
    <3> QED
      BY <3>3
  <2>2. \A p \in Parameters(url) : p \in (First(url, "?") + 1)..n
    BY DEF Parameters
  <2> DEFINE f == First(url, "?")
  <2> HIDE DEF f, n
  <2>3. \A p \in (f + 1)..n : f \in 0..n => p \in 1..n
    BY <1>1
  <2> QED
    BY <2>1, <2>2, <2>3 DEF f
<1>4. \A i \in 1..(n - 1) : i \in 1..n /\ (SubSeq(url, i, i + 1) = <<word, sign>> <=>
                                             url[i] = word /\ url[i + 1] = sign)
  <2> TAKE i \in 1..(n - 1)
  <2>1. i \in 1..n /\ i + 1 \in 1..n
    BY <1>1
  <2> DEFINE two == SubSeq(url, i, i + 1)
  <2>2. two \in Seq(Signs) /\ Len(two) = 2 /\ two[1] = url[i] /\ two[2] = url[i + 1]
    BY <1>1, <2>1
  <2> HIDE DEF two, sign
  <2>3. two = <<two[1], two[2]>>
    BY <2>2
  <2> QED
    BY <2>1, <2>2, <2>3 DEF two
<1> HIDE DEF sign
<1>5. found = inUrl
  <2>1. ASSUME NEW i \in found PROVE i \in inUrl
    BY <1>2, <1>4
  <2>2. ASSUME NEW i \in inUrl PROVE i \in found
    <3>1. i \in 1..n /\ url[i] = word
      BY <1>3
    <3>2. i < n /\ url[i + 1] = sign
      BY <1>2, <3>1
    <3>3. i \in 1..(n - 1)
      BY <1>1, <3>1, <3>2
    <3> QED
      BY <1>4, <3>1, <3>2, <3>3
  <2> HIDE DEF found, inUrl
  <2> QED
    BY <2>1, <2>2
<1>6. ASSUME inUrl # {}
      PROVE  parse_i64(After(url, Min(inUrl) + 1)) = Number(url, Min(inUrl))
  <2> DEFINE p == Min(inUrl)
  <2>1. inUrl \in SUBSET (1..n)
    BY <1>3
  <2>2. p \in inUrl
    <3> HIDE DEF inUrl, n
    <3> QED
      BY <1>1, <1>6, <2>1, FirstPosition
  <2> HIDE DEF p
  <2>3. p \in 1..n /\ url[p] = word
    BY <1>3, <2>2
  <2>4. Numeric(Text(url, p))
    BY <1>2, <2>3
  <2>5. parse_i64(After(url, p + 1)) = Number(url, p)
    BY <2>3, <2>4, NumberIsRead
  <2> QED
    BY <2>5 DEF p
<1> QED
  BY <1>5, <1>6 DEF sign

-----------------------------------------------------------------------------------
(* yourfs: what is open at each point of main().  *)

BeforeContexts == {"options", "required", "key", "type", "open", "table", "context"}

StartInv ==
  /\ args \in YourfsLines
  /\ pc \in BeforeContexts \cup {"url", "mount", "pool", "serving", "exit"}
  /\ key \in BOOLEAN /\ db \in {"none", "open", "checked"} /\ cached \in BOOLEAN /\ code \in Codes
  /\ pc \in BeforeContexts => contexts = 0 /\ urls = "none"
  /\ pc = "url" => contexts = 1 /\ urls = "none"
  /\ pc = "mount" => contexts = 1 /\ urls = "open"
  /\ pc \in {"pool", "serving"} => contexts \in 1..PoolSize /\ urls = "freed"
  /\ pc = "exit" => contexts = 0 /\ urls \in {"none", "freed"}

LEMMA StartInvTypeOK ==
  ASSUME CliInv, StartInv
  PROVE  TypeOK
<1>1. PoolSize \in 1..64
  BY PoolSizeBounds
<1>2. idx \in 1..(Len(args) + 1) /\ done \in BOOLEAN /\ over \in {"no", "end", "unknown"}
  BY DEF CliInv, CliTypes
<1>3. contexts \in 0..PoolSize
  BY <1>1 DEF StartInv, BeforeContexts
<1>4. urls \in {"none", "open", "freed"}
  BY DEF StartInv, BeforeContexts
<1> QED
  BY <1>2, <1>3, <1>4 DEF StartInv, TypeOK, BeforeContexts

LEMMA StartInvNothingLeftOpen ==
  ASSUME StartInv
  PROVE  NothingLeftOpen
  BY DEF StartInv, NothingLeftOpen

\* The options are read, once they are, and the pool has its size.
LEMMA PoolSizeKept ==
  ASSUME UNCHANGED cliVars
  PROVE  PoolSize' = PoolSize /\ args' = args
<1>1. got' = got /\ args' = args
  BY DEF cliVars
<1> QED
  BY <1>1 DEF PoolSize, Given, Value, SelectLastInSeq

LEMMA StartBegins ==
  ASSUME StartInit, CliInit(YOURFS_SPECS, YourfsLines)
  PROVE  StartInv
  BY DEF StartInit, CliInit, StartInv, BeforeContexts, Codes

\* No step of the parser changes its command line.
LEMMA SameLine == CliNext => specs' = specs /\ args' = args
  BY DEF CliNext, FromQueue, NoMore, DashDash, Long, LongUnknown, ClusterOfFlags, ClusterValue,
         ClusterUnknown, Positional, Give, Malformed, Deliver

\* A check of main() goes on or exits, before anything is open.
LEMMA CheckStep ==
  ASSUME StartInv, NEW from \in BeforeContexts, NEW ok, NEW c \in Codes, NEW to \in BeforeContexts,
         Check(from, ok, c, to)
  PROVE  StartInv'
<1>1. PoolSize' = PoolSize /\ args' = args
  BY PoolSizeKept DEF Check
<1> QED
  BY <1>1 DEF Check, Step, Exit, StartInv, BeforeContexts

LEMMA StartStep ==
  ASSUME CliInv, StartInv, Next \/ UNCHANGED <<cliVars, startVars>>
  PROVE  StartInv'
<1>1. PoolSize \in 1..64
  BY PoolSizeBounds
<1>2. CASE Options
  <2>1. pc = "options" /\ pc' = "options" /\ UNCHANGED <<key, db, cached, contexts, urls, code>>
        /\ args' = args
    BY <1>2, SameLine DEF Options, startVars
  <2> QED
    BY <2>1 DEF StartInv, BeforeContexts
<1>3. ASSUME UNCHANGED cliVars PROVE PoolSize' = PoolSize /\ args' = args
  BY <1>3, PoolSizeKept
<1>4. CASE Help \/ OptionsOver
  <2>1. PoolSize' = PoolSize /\ args' = args
    BY <1>3, <1>4 DEF Help, OptionsOver
  <2> QED
    BY <1>4, <2>1 DEF Help, OptionsOver, Step, Exit, StartInv, BeforeContexts, Codes
<1>5. CASE Required \/ Key \/ Type
  BY <1>5, CheckStep DEF Required, Key, Type, BeforeContexts, Codes
<1>6. CASE OpenDb \/ CheckTable
  <2>1. PoolSize' = PoolSize /\ args' = args
    BY <1>3, <1>6 DEF OpenDb, CheckTable
  <2>2. cached' \in BOOLEAN
    BY <1>6 DEF OpenDb, CheckTable, StartInv, Given
  <2> QED
    BY <1>6, <2>1, <2>2 DEF OpenDb, CheckTable, Step, Exit, StartInv, BeforeContexts, Codes
<1>7. CASE InitContext \/ ParseUrl
  <2>1. PoolSize' = PoolSize /\ args' = args
    BY <1>3, <1>7 DEF InitContext, ParseUrl
  <2> QED
    BY <1>7, <2>1 DEF InitContext, ParseUrl, Step, Exit, StartInv, BeforeContexts, Codes
<1>8. CASE Mount \/ MountExtra
  <2>1. PoolSize' = PoolSize /\ args' = args
    BY <1>3, <1>8 DEF Mount, MountExtra
  <2>2. CASE Mount
    BY <1>1, <2>1, <2>2 DEF Mount, Step, Exit, StartInv, BeforeContexts, Codes, Errno
  <2>3. CASE MountExtra
    <3>1. contexts \in 1..PoolSize /\ contexts < PoolSize /\ contexts' = contexts + 1
      BY <2>3 DEF MountExtra, StartInv
    <3>2. contexts' \in 1..PoolSize'
      BY <1>1, <2>1, <3>1
    <3> QED
      BY <2>1, <2>3, <3>2 DEF MountExtra, StartInv, BeforeContexts
  <2> QED
    BY <1>8, <2>2, <2>3
<1>9. CASE Serve \/ Unmounted
  <2>1. PoolSize' = PoolSize /\ args' = args
    BY <1>3, <1>9 DEF Serve, Unmounted
  <2> QED
    BY <1>9, <2>1 DEF Serve, Unmounted, Step, Exit, StartInv, BeforeContexts, Codes
<1>10. CASE UNCHANGED <<cliVars, startVars>>
  <2>1. PoolSize' = PoolSize /\ args' = args
    BY <1>3, <1>10
  <2> QED
    BY <1>10, <2>1 DEF startVars, StartInv
<1> QED
  BY <1>2, <1>4, <1>5, <1>6, <1>7, <1>8, <1>9, <1>10 DEF Next, Starting, Exited, vars

\* What main() has asked of the options by the point it is at, and what it has done
\* for that.
Opened == IF Value("F") = RedisType THEN redis_url(Database) ELSE <<>>

AsksInv ==
  /\ \A i \in 1..(Len(got) - 1) : got[i].opt # "?"
  /\ pc \notin {"options", "exit"} => OptionsRead
  /\ pc \notin {"options", "required", "exit"} => Given("n") /\ Given("m")
  /\ pc \notin {"options", "required", "key", "exit"} => key
  /\ pc \notin {"options", "required", "key", "type", "exit"} =>
       /\ Given("F") /\ GoodType(Value("F"))
       /\ Given("Z") /\ GoodTable(Value("Z"))
  /\ pc \notin {"options", "required", "key", "type", "open", "exit"} => server = Opened
  /\ pc \notin {"options", "required", "key", "type", "open", "table", "exit"} =>
       db = "checked" /\ cached = Given("w")
  /\ pc = "serving" => argv = build_fuse_args

\* What the options ask for stays once they are read.
LEMMA AsksKept ==
  ASSUME UNCHANGED cliVars
  PROVE  /\ got' = got /\ (OptionsRead => OptionsRead')
         /\ \A c : Given(c)' = Given(c) /\ Value(c)' = Value(c)
         /\ Opened' = Opened /\ build_fuse_args' = build_fuse_args
<1>1. got' = got /\ over' = over
  BY DEF cliVars
<1>2. OptionsRead => OptionsRead'
  BY <1>1 DEF OptionsRead, Helped
<1>3. \A c : Given(c)' = Given(c) /\ Value(c)' = Value(c)
  BY <1>1 DEF Given, Value, SelectLastInSeq
<1>4. Opened' = Opened
  BY <1>3 DEF Opened, Database
<1>5. build_fuse_args' = build_fuse_args
  BY <1>3 DEF build_fuse_args, fuse_opts
<1> QED
  BY <1>1, <1>2, <1>3, <1>4, <1>5

\* Nothing was asked at the start.
LEMMA AsksBegin ==
  ASSUME StartInit, got = <<>>
  PROVE  AsksInv
  BY DEF StartInit, AsksInv

\* Each step keeps what was asked, and adds what it asks.
LEMMA AsksStep ==
  ASSUME CliInv, StartInv, AsksInv, Next \/ UNCHANGED <<cliVars, startVars>>
  PROVE  AsksInv'
<1>1. CASE Options
  <2>1. pc = "options" /\ pc' = "options"
    BY <1>1 DEF Options, startVars
  <2>2. (\A i \in 1..(Len(got) - 1) : got[i].opt # "?")'
    BY <1>1, NoHelpBefore DEF Options, AsksInv
  <2> QED
    BY <2>1, <2>2 DEF AsksInv
<1>2. CASE UNCHANGED cliVars
  <2>1. /\ got' = got /\ (OptionsRead => OptionsRead')
        /\ \A c : Given(c)' = Given(c) /\ Value(c)' = Value(c)
        /\ Opened' = Opened /\ build_fuse_args' = build_fuse_args
    BY <1>2, AsksKept
  <2>2. CASE Help \/ OptionsOver
    BY <2>1, <2>2 DEF Help, OptionsOver, Step, Exit, AsksInv, OptionsRead
  <2>3. CASE Required \/ Key \/ Type
    BY <2>1, <2>3 DEF Required, Key, Type, Check, Step, Exit, AsksInv
  <2>4. CASE OpenDb \/ CheckTable
    BY <2>1, <2>4 DEF OpenDb, CheckTable, Step, Exit, AsksInv, Opened
  <2>5. CASE InitContext \/ ParseUrl \/ Mount \/ MountExtra
    BY <2>1, <2>5 DEF InitContext, ParseUrl, Mount, MountExtra, Step, Exit, AsksInv
  <2>6. CASE Serve \/ Unmounted
    BY <2>1, <2>6 DEF Serve, Unmounted, Step, Exit, AsksInv
  <2>7. CASE UNCHANGED startVars
    BY <2>1, <2>7 DEF startVars, AsksInv
  <2>8. Options \/ Help \/ OptionsOver \/ Required \/ Key \/ Type \/ OpenDb \/ CheckTable
          \/ InitContext \/ ParseUrl \/ Mount \/ MountExtra \/ Serve \/ Unmounted
          \/ UNCHANGED startVars
    BY DEF Next, Starting, Exited, vars
  <2> QED
    BY <1>1, <2>2, <2>3, <2>4, <2>5, <2>6, <2>7, <2>8
<1>3. Options \/ UNCHANGED cliVars
  BY DEF Next, Starting, Help, OptionsOver, Required, Key, Type, Check, OpenDb,
         CheckTable, InitContext, ParseUrl, Mount, MountExtra, Serve, Unmounted, Exited, vars
<1> QED
  BY <1>1, <1>2, <1>3

-----------------------------------------------------------------------------------
(* yourfs: what a mount serves is what was asked. *)

\* What main() looks at is what was asked: the values of the options that take one.
ValuesAsked(asked) ==
  \A c \in Valued : (Named(asked, c) <=> Given(c)) /\ (Given(c) => LastOf(asked, c) = Value(c))

LEMMA ValuesAreAsked ==
  ASSUME CliInv, specs = YOURFS_SPECS, over # "no"
  PROVE  LET asked == Getopt(specs, args).out IN
           /\ ValuesAsked(asked)
           /\ \A c : Given(c) => Named(asked, c)
           /\ ~Getopt(specs, args).bad => asked = got
<1> DEFINE C == Valued
<1>1. \A s \in specs : s.short \in C => s.arg
  BY StartAssumption
<1> HIDE DEF C
<1>2. LET asked == Getopt(specs, args).out IN
        /\ \A c \in C : /\ Named(asked, c) <=> Given(c)
                        /\ Given(c) => LastOf(asked, c) = Value(c)
        /\ \A c : Given(c) => Named(asked, c)
        /\ ~Getopt(specs, args).bad => asked = got
  BY <1>1, AskedIsGot
<1> QED
  BY <1>2 DEF C, ValuesAsked

\* A mount has been through every check.
LEMMA PreparedHolds ==
  ASSUME CliInv, StartInv, AsksInv, specs = YOURFS_SPECS, pc = "serving"
  PROVE  Prepared(Getopt(specs, args).out, Getopt(specs, args).bad)
<1> DEFINE asked == Getopt(specs, args).out
           bad == Getopt(specs, args).bad
<1>1. OptionsRead /\ Given("n") /\ Given("m") /\ key /\ Given("F") /\ GoodType(Value("F"))
      /\ Given("Z") /\ GoodTable(Value("Z")) /\ db = "checked"
  BY DEF AsksInv
<1>2. contexts \in 1..PoolSize /\ urls = "freed"
  BY DEF StartInv
<1>3. PoolSize \in 1..64
  BY PoolSizeBounds
<1>4. ValuesAsked(asked)
  BY <1>1, ValuesAreAsked DEF OptionsRead
<1>5. Named(asked, "?") => bad
  BY <1>1, HelpIsRefused DEF OptionsRead, AsksInv
<1> HIDE DEF asked, bad
<1>6. /\ Named(asked, "n") /\ Named(asked, "m") /\ Named(asked, "F") /\ Named(asked, "Z")
      /\ LastOf(asked, "F") = Value("F") /\ LastOf(asked, "Z") = Value("Z")
      /\ Named(asked, "V") => Given("V") /\ LastOf(asked, "V") = Value("V")
  BY <1>1, <1>4 DEF ValuesAsked, Valued
<1>7. ASSUME Named(asked, "V"), parse_i64(LastOf(asked, "V")) > 0
      PROVE  contexts <= parse_i64(LastOf(asked, "V"))
  <2> DEFINE v == parse_i64(Value("V"))
  <2>1. Given("V") /\ LastOf(asked, "V") = Value("V")
    BY <1>6, <1>7
  <2>2. v \in Int
    BY <2>1, ValueTyped, ParsesToInt
  <2>3. PoolSize = Clamp(v) /\ parse_i64(LastOf(asked, "V")) = v
    BY <2>1 DEF PoolSize
  <2>4. v > 0
    BY <1>7, <2>3
  <2> HIDE DEF v
  <2>5. Clamp(v) <= v
    BY <2>2, <2>4 DEF Clamp
  <2>6. contexts <= v
    BY <1>2, <1>3, <2>2, <2>3, <2>5
  <2> QED
    BY <2>3, <2>6
<1>8. contexts \in 1..64
  BY <1>2, <1>3
<1>9. Prepared(asked, bad)
  <2>1. GoodType(LastOf(asked, "F")) /\ GoodTable(LastOf(asked, "Z"))
    BY <1>1, <1>6
  <2>2. \A c \in {"n", "m", "F", "Z"} : Named(asked, c)
    BY <1>6
  <2> QED
    BY <1>1, <1>2, <1>5, <1>7, <1>8, <2>1, <2>2 DEF Prepared
<1> QED
  BY <1>9 DEF asked, bad

\* It has opened the server that -X means.
LEMMA RightServerHolds ==
  ASSUME CliInv, AsksInv, specs = YOURFS_SPECS, pc = "serving"
  PROVE  RightServer(Getopt(specs, args).out)
<1> DEFINE asked == Getopt(specs, args).out
<1>1. OptionsRead /\ Given("F") /\ server = Opened
  BY DEF AsksInv
<1>2. ValuesAsked(asked)
  BY <1>1, ValuesAreAsked DEF OptionsRead
<1> HIDE DEF asked
<1>3. SUFFICES ASSUME LastOf(asked, "F") = RedisType, Named(asked, "X"),
                      PlainHost(LastOf(asked, "X"))
               PROVE  ReadUrl(server) = Meant(LastOf(asked, "X"))
  BY DEF RightServer, asked
<1>4. Value("F") = RedisType /\ Given("X") /\ LastOf(asked, "X") = Value("X")
  BY <1>1, <1>2, <1>3 DEF ValuesAsked, Valued
<1> DEFINE spec == Value("X")
<1>5. spec \in Seq(Signs)
  BY <1>4, ValueTyped, TextsAreSigns
<1>6. server = redis_url(spec) /\ PlainHost(spec)
  BY <1>1, <1>3, <1>4 DEF Opened, Database
<1> HIDE DEF spec
<1>7. ReadUrl(redis_url(spec)) = Meant(spec)
  BY <1>5, <1>6, UrlIsMeant
<1> QED
  BY <1>4, <1>6, <1>7 DEF spec

\* It acts under the ids of the URL, or else of the options.
LEMMA RightIdHolds ==
  ASSUME CliInv, AsksInv, specs = YOURFS_SPECS, pc = "serving", NEW word,
         NEW option \in {"U", "G"}
  PROVE  RightId(Getopt(specs, args).out, word, option)
<1> DEFINE asked == Getopt(specs, args).out
           url == Value("n")
           found == {i \in 1..(Len(url) - 1) : SubSeq(url, i, i + 1) = <<word, "=">>}
           inUrl == {p \in Parameters(url) : url[p] = word}
<1>1. OptionsRead /\ Given("n")
  BY DEF AsksInv
<1>2. ValuesAsked(asked)
  BY <1>1, ValuesAreAsked DEF OptionsRead
<1> HIDE DEF asked
<1>3. LastOf(asked, "n") = url
  BY <1>1, <1>2 DEF ValuesAsked, Valued
<1>4. (Named(asked, option) <=> Given(option))
        /\ (Given(option) => LastOf(asked, option) = Value(option))
  BY <1>2 DEF ValuesAsked, Valued
<1>5. url \in Seq(Signs)
  BY <1>1, ValueTyped, TextsAreSigns
<1>6. ASSUME Proper(url, word)
      PROVE  Custom(word, option) =
               IF inUrl # {} THEN Number(url, Min(inUrl))
               ELSE IF Named(asked, option) THEN parse_i64(LastOf(asked, option)) ELSE -1
  <2>1. found = inUrl /\ (inUrl # {} => parse_i64(After(url, Min(inUrl) + 1))
                                          = Number(url, Min(inUrl)))
    <3> HIDE DEF url
    <3> QED
      BY <1>5, <1>6, IdIsRead
  <2>2. Custom(word, option) =
          IF found # {} THEN parse_i64(After(url, Min(found) + 1))
          ELSE IF Given(option) THEN parse_i64(Value(option)) ELSE -1
    BY DEF Custom
  <2> HIDE DEF found, inUrl, url
  <2> QED
    BY <1>4, <2>1, <2>2
<1> HIDE DEF url
<1>7. RightId(asked, word, option)
  BY <1>3, <1>6 DEF RightId
<1> QED
  BY <1>7 DEF asked

\* What libfuse is told of the options that are read here.
LEMMA Told ==
  /\ Given("m") => "ro" \in build_fuse_args
  /\ "allow_other" \in build_fuse_args <=> Given("a") \/ Given("o")
  /\ "single_threaded" \in build_fuse_args <=> Given("t") /\ parse_i64(Value("t")) = 0
<1> DEFINE tell == {d \in PassedOn \cup {"m", "O", "a"} : Given(d)}
<1>1. fuse_opts = {FuseName(c) : c \in tell}
  BY DEF fuse_opts
<1>2. \A c \in PassedOn : c # "allow_other" /\ c # "single_threaded" /\ c # "m" /\ c # "O" /\ c # "a"
  BY DEF PassedOn
<1>3. Given("m") => "ro" \in fuse_opts
  <2>1. Given("m") => "m" \in tell /\ FuseName("m") = "ro"
    BY DEF FuseName
  <2> HIDE DEF tell
  <2> QED
    BY <1>1, <2>1
<1>4. Given("a") => "allow_other" \in fuse_opts
  <2>1. Given("a") => "a" \in tell /\ FuseName("a") = "allow_other"
    BY DEF FuseName
  <2> HIDE DEF tell
  <2> QED
    BY <1>1, <2>1
<1>5. \A c \in tell : FuseName(c) = "allow_other" => Given("a")
  <2> SUFFICES ASSUME NEW c \in tell, FuseName(c) = "allow_other" PROVE Given("a")
    OBVIOUS
  <2>1. Given(c) /\ (c \in PassedOn \/ c = "m" \/ c = "O" \/ c = "a")
    OBVIOUS
  <2>2. c \in PassedOn => FuseName(c) = c /\ c # "allow_other"
    BY <1>2 DEF FuseName
  <2>3. FuseName("m") = "ro" /\ FuseName("O") = "ro"
    BY DEF FuseName
  <2> QED
    BY <2>1, <2>2, <2>3
<1>6. \A c \in tell : FuseName(c) # "single_threaded"
  <2> SUFFICES ASSUME NEW c \in tell PROVE FuseName(c) # "single_threaded"
    OBVIOUS
  <2>1. c \in PassedOn \/ c = "m" \/ c = "O" \/ c = "a"
    OBVIOUS
  <2>2. c \in PassedOn => FuseName(c) = c /\ c # "single_threaded"
    BY <1>2 DEF FuseName
  <2>3. FuseName("m") = "ro" /\ FuseName("O") = "ro" /\ FuseName("a") = "allow_other"
    BY DEF FuseName
  <2> QED
    BY <2>1, <2>2, <2>3
<1>7. /\ "allow_other" \in fuse_opts <=> Given("a")
      /\ "single_threaded" \notin fuse_opts
  <2> HIDE DEF tell
  <2> QED
    BY <1>1, <1>4, <1>5, <1>6
<1> QED
  BY <1>3, <1>7 DEF build_fuse_args, IfSo

\* It has told libfuse what was asked.
LEMMA RightOptionsHold ==
  ASSUME CliInv, AsksInv, specs = YOURFS_SPECS, pc = "serving"
  PROVE  RightOptions(Getopt(specs, args).out, Getopt(specs, args).bad)
<1> DEFINE asked == Getopt(specs, args).out
           bad == Getopt(specs, args).bad
<1>1. OptionsRead /\ Given("m") /\ argv = build_fuse_args /\ cached = Given("w")
  BY DEF AsksInv
<1>2. ValuesAsked(asked) /\ (\A c : Given(c) => Named(asked, c)) /\ (~bad => asked = got)
  BY <1>1, ValuesAreAsked DEF OptionsRead
<1> HIDE DEF asked, bad
<1>3. (Named(asked, "t") <=> Given("t")) /\ (Given("t") => LastOf(asked, "t") = Value("t"))
  BY <1>2 DEF ValuesAsked, Valued
<1>4. ~bad => \A c : Named(asked, c) <=> Given(c)
  BY <1>2 DEF Named, Given
<1>5. "ro" \in argv /\ ("allow_other" \in argv => Named(asked, "a") \/ Named(asked, "o"))
  BY <1>1, <1>2, Told
<1>6. "single_threaded" \in argv <=> Named(asked, "t") /\ parse_i64(LastOf(asked, "t")) = 0
  BY <1>1, <1>3, Told
<1>7. ~bad => /\ cached = Named(asked, "w")
              /\ "allow_other" \in argv <=> Named(asked, "a") \/ Named(asked, "o")
  BY <1>1, <1>4, Told DEF Named, Given
<1>8. cached => Named(asked, "w")
  BY <1>1, <1>2
<1>9. RightOptions(asked, bad)
  BY <1>5, <1>6, <1>7, <1>8 DEF RightOptions
<1> QED
  BY <1>9 DEF asked, bad

\* All of this together is the property.
LEMMA StartInvServes ==
  ASSUME CliInv, StartInv, AsksInv, specs = YOURFS_SPECS
  PROVE  ServesWhatWasAsked
  BY PreparedHolds, RightServerHolds, RightIdHolds, RightOptionsHold DEF ServesWhatWasAsked

-----------------------------------------------------------------------------------
(* yourfs-tool: when it gives up the old list, and for what.  *)

\* The rows in the order of their lines, as far as the lines were read.
RowsBefore(f, numbers, n) ==
  /\ \A i \in 1..Len(numbers) : numbers[i] \in 1..(n - 1) /\ f[numbers[i]] = "row"
  /\ \A k \in 1..(n - 1) : f[k] = "row" => \E i \in 1..Len(numbers) : numbers[i] = k
  /\ \A i, j \in 1..Len(numbers) : i < j => numbers[i] < numbers[j]

ToolTypes ==
  /\ at \in {"options", "mode", "writer", "create", "read", "exit"}
  /\ file \in Files /\ ln \in 1..(Len(file) + 1)
  /\ rows \in Seq(Nat) /\ count \in Nat
  /\ table \in Seq(Int) /\ (table = NoTable \/ table \in Seq(Nat))
  /\ status \in {0, 1}

\* They ask for an import.
Chosen == OptionsRead /\ ~Scanning /\ NamesBackend

ToolInv ==
  /\ ToolTypes
  /\ \A i \in 1..(Len(got) - 1) : got[i].opt # "?"
  /\ at \in {"mode", "writer", "create", "read"} => OptionsRead
  /\ at \in {"writer", "create", "read"} \/ table # OldList => Chosen
  /\ at = "read" \/ table # OldList => TableNamed
  /\ at \in {"options", "mode", "writer", "create"} =>
       table = OldList /\ rows = <<>> /\ count = 0 /\ ln = 1
  /\ at = "read" => table = <<>> /\ count = Len(rows) /\ RowsBefore(file, rows, ln)
  /\ at = "exit" /\ status = 0 /\ table # OldList =>
       IsGoodLines(table) /\ count = Len(table)

\* An input file is a sequence of lines, and the endless one has one line.
LEMMA FileTyped ==
  /\ \A f \in Files : \/ f = Endless
                      \/ \E k \in 0..MaxLines : f \in [1..k -> LineKinds] /\ Len(f) = k
  /\ Len(Endless) = 1 /\ Endless[1] = "endless"
<1>1. MaxLines \in Nat
  BY ToolAssumption
<1>2. ASSUME NEW f \in Files, f # Endless
      PROVE  \E k \in 0..MaxLines : f \in [1..k -> LineKinds] /\ Len(f) = k
  <2> DEFINE all == {[1..k -> LineKinds] : k \in 0..MaxLines}
  <2>1. f \in UNION all
    <3> HIDE DEF all
    <3>1. Files = (UNION all) \cup {Endless}
      BY DEF Files, all
    <3> QED
      BY <1>2, <3>1
  <2>2. PICK S \in all : f \in S
    <3> HIDE DEF all
    <3> QED
      BY <2>1
  <2>3. PICK k \in 0..MaxLines : f \in [1..k -> LineKinds]
    BY <2>2
  <2>4. k \in Nat /\ Len(f) = k
    BY <1>1, <2>3, FunctionIsSequence
  <2> QED
    BY <2>3, <2>4
<1> QED
  BY <1>2 DEF Endless

LEMMA FileLength ==
  ASSUME NEW f \in Files
  PROVE  Len(f) \in Nat /\ Len(f) <= MaxLines + 1 /\ DOMAIN f = 1..Len(f)
<1>1. MaxLines \in Nat
  BY ToolAssumption
<1>2. CASE f = Endless
  BY <1>1, <1>2 DEF Endless
<1>3. CASE f # Endless
  <2>1. PICK k \in 0..MaxLines : f \in [1..k -> LineKinds] /\ Len(f) = k
    BY <1>3, FileTyped
  <2> QED
    BY <1>1, <2>1
<1> QED
  BY <1>2, <1>3

LEMMA NoFile == <<>> \in Files /\ Len(<<>>) = 0
<1>1. 0 \in 0..MaxLines
  BY ToolAssumption
<1>2. <<>> \in [1..0 -> LineKinds]
  OBVIOUS
<1> QED
  BY <1>1, <1>2 DEF Files

LEMMA ToolInvTypeOK ==
  ASSUME ToolInv
  PROVE  ToolTypeOK
<1>1. ToolTypes /\ MaxLines \in Nat
  BY ToolAssumption DEF ToolInv
<1>2. Len(file) \in Nat /\ Len(file) <= MaxLines + 1
  BY <1>1, FileLength DEF ToolTypes
<1>3. ln \in 1..(MaxLines + 2)
  BY <1>1, <1>2 DEF ToolTypes
<1> QED
  BY <1>1, <1>3 DEF ToolTypes, ToolTypeOK

LEMMA ToolBegins ==
  ASSUME ToolStart, got = <<>>
  PROVE  ToolInv
<1>1. /\ at = "options" /\ file = <<>> /\ ln = 1 /\ rows = <<>> /\ count = 0
      /\ table = OldList /\ status = 0
  BY DEF ToolStart
<1>2. OldList \in Seq(Int) /\ OldList \in Seq(Nat) /\ <<>> \in Seq(Nat)
  BY DEF OldList
<1>3. file \in Files /\ ln \in 1..(Len(file) + 1)
  BY <1>1, NoFile
<1>4. ToolTypes
  BY <1>1, <1>2, <1>3 DEF ToolTypes
<1>5. \A i \in 1..(Len(got) - 1) : got[i].opt # "?"
  OBVIOUS
<1> QED
  BY <1>1, <1>4, <1>5 DEF ToolInv

\* What the options ask for stays once they are read.
LEMMA AsksStay ==
  ASSUME UNCHANGED cliVars
  PROVE  /\ OptionsRead' = OptionsRead /\ Chosen' = Chosen /\ TableNamed' = TableNamed
         /\ got' = got
<1>1. got' = got /\ over' = over
  BY DEF cliVars
<1> QED
  BY <1>1 DEF OptionsRead, Chosen, TableNamed, Helped, Scanning, NamesBackend, Given, Value,
              SelectLastInSeq

\* One more line read: a good one adds its row, another adds nothing.
LEMMA RowAdded ==
  ASSUME NEW f, NEW r \in Seq(Nat), NEW n \in Nat, n >= 1, RowsBefore(f, r, n)
  PROVE  /\ f[n] = "row" => RowsBefore(f, Append(r, n), n + 1)
         /\ f[n] # "row" => RowsBefore(f, r, n + 1)
<1> DEFINE m == Len(r)
           s == Append(r, n)
<1>1. m \in Nat /\ Len(s) = m + 1 /\ s[m + 1] = n /\ \A i \in 1..m : s[i] = r[i]
  OBVIOUS
<1>2. \A i \in 1..m : r[i] \in 1..(n - 1) /\ f[r[i]] = "row"
  BY DEF RowsBefore
<1>3. \A k \in 1..(n - 1) : f[k] = "row" => \E i \in 1..m : r[i] = k
  BY DEF RowsBefore
<1>4. \A i, j \in 1..m : i < j => r[i] < r[j]
  BY DEF RowsBefore
<1>5. \A k \in 1..(n + 1 - 1) : k \in 1..(n - 1) \/ k = n
  OBVIOUS
<1>6. n + 1 - 1 = n /\ \A k \in 1..(n - 1) : k \in 1..(n + 1 - 1)
  OBVIOUS
<1>7. \A i \in 1..(m + 1) : i \in 1..m \/ i = m + 1
  BY <1>1
<1> HIDE DEF m, s
<1>8. ASSUME f[n] = "row" PROVE RowsBefore(f, s, n + 1)
  <2>1. ASSUME NEW i \in 1..Len(s) PROVE s[i] \in 1..(n + 1 - 1) /\ f[s[i]] = "row"
    <3>1. CASE i \in 1..m
      BY <1>1, <1>2, <1>6, <3>1
    <3>2. CASE i = m + 1
      <4>1. n \in 1..(n + 1 - 1)
        OBVIOUS
      <4> QED
        BY <1>1, <1>8, <3>2, <4>1
    <3> QED
      BY <1>1, <1>7, <3>1, <3>2
  <2>2. ASSUME NEW k \in 1..(n + 1 - 1), f[k] = "row" PROVE \E i \in 1..Len(s) : s[i] = k
    <3>1. CASE k \in 1..(n - 1)
      <4>1. PICK i \in 1..m : r[i] = k
        BY <1>3, <2>2, <3>1
      <4>2. i \in 1..Len(s) /\ s[i] = k
        BY <1>1, <4>1
      <4> QED
        BY <4>2
    <3>2. CASE k = n
      <4>1. m + 1 \in 1..Len(s) /\ s[m + 1] = k
        BY <1>1, <3>2
      <4> QED
        BY <4>1
    <3> QED
      BY <1>5, <3>1, <3>2
  <2>3. ASSUME NEW i \in 1..Len(s), NEW j \in 1..Len(s), i < j PROVE s[i] < s[j]
    <3>1. i \in 1..m
      BY <1>1, <2>3
    <3>2. CASE j \in 1..m
      BY <1>1, <1>4, <2>3, <3>1, <3>2
    <3>3. CASE j = m + 1
      <4>1. s[i] \in 1..(n - 1) /\ s[j] = n
        BY <1>1, <1>2, <3>1, <3>3
      <4> QED
        BY <4>1
    <3> QED
      BY <1>1, <1>7, <3>2, <3>3
  <2> QED
    BY <2>1, <2>2, <2>3 DEF RowsBefore
<1>9. ASSUME f[n] # "row" PROVE RowsBefore(f, r, n + 1)
  <2>1. \A i \in 1..m : r[i] \in 1..(n + 1 - 1) /\ f[r[i]] = "row"
    BY <1>2, <1>6
  <2>2. \A k \in 1..(n + 1 - 1) : f[k] = "row" => \E i \in 1..m : r[i] = k
    BY <1>3, <1>5, <1>9
  <2> QED
    BY <1>4, <2>1, <2>2 DEF RowsBefore, m
<1> QED
  BY <1>8, <1>9 DEF s

\* At the end of the file the rows are those of all its good lines.
LEMMA AllRows ==
  ASSUME NEW n \in Nat, DOMAIN file = 1..n, NEW r \in Seq(Nat), RowsBefore(file, r, n + 1)
  PROVE  IsGoodLines(r)
<1>1. Len(r) \in Nat /\ DOMAIN r = 1..Len(r) /\ n + 1 - 1 = n
  OBVIOUS
<1>2. \A i \in 1..Len(r) : r[i] \in 1..n /\ file[r[i]] = "row"
  BY <1>1 DEF RowsBefore
<1>3. \A k \in 1..n : file[k] = "row" => \E i \in 1..Len(r) : r[i] = k
  BY <1>1 DEF RowsBefore
<1>4. \A i, j \in 1..Len(r) : i < j => r[i] < r[j]
  BY DEF RowsBefore
<1>5. {r[i] : i \in DOMAIN r} = {k \in DOMAIN file : file[k] = "row"}
  <2>1. \A k : k \in {r[i] : i \in DOMAIN r} <=> \E i \in 1..Len(r) : k = r[i]
    BY <1>1
  <2>2. \A k : (\E i \in 1..Len(r) : k = r[i]) <=> k \in 1..n /\ file[k] = "row"
    BY <1>2, <1>3
  <2> QED
    BY <2>1, <2>2
<1> QED
  BY <1>1, <1>4, <1>5 DEF IsGoodLines

LEMMA NothingRead == RowsBefore(file, <<>>, 1)
  BY DEF RowsBefore

\* And stay so as long as the file is the same.
LEMMA GoodLinesStay ==
  ASSUME NEW numbers, file' = file, IsGoodLines(numbers)
  PROVE  IsGoodLines(numbers)'
  BY DEF IsGoodLines

\* The command line; the old list is still there.
LEMMA OptionsStep ==
  ASSUME CliInv, ToolInv, Usage \/ ToolOptions \/ ToolOptionsOver \/ Scan \/ NoBackend \/ OpenInput
  PROVE  ToolInv'
<1>1. at \in {"options", "mode"} /\ UNCHANGED <<ln, rows, count, table>> /\ at' \in {"options", "mode", "writer", "exit"}
  BY DEF Usage, ToolOptions, ToolOptionsOver, Scan, NoBackend, OpenInput, Goto, Quit, toolVars
<1>2. table = OldList /\ rows = <<>> /\ count = 0 /\ ln = 1
  BY <1>1 DEF ToolInv
<1>3. ToolTypes'
  <2>1. file' = file \/ file' \in Files
    BY DEF Usage, ToolOptions, ToolOptionsOver, Scan, NoBackend, OpenInput, toolVars
  <2>2. file' \in Files
    BY <2>1 DEF ToolInv, ToolTypes
  <2>3. ln' \in 1..(Len(file') + 1)
    <3>1. Len(file') \in Nat
      BY <2>2, FileLength
    <3> QED
      BY <1>1, <1>2, <3>1
  <2>4. status' \in {0, 1}
    BY DEF Usage, ToolOptions, ToolOptionsOver, Scan, NoBackend, OpenInput, Goto, Quit, toolVars,
           ToolInv, ToolTypes
  <2> QED
    BY <1>1, <2>2, <2>3, <2>4 DEF ToolInv, ToolTypes
<1>4. (\A i \in 1..(Len(got) - 1) : got[i].opt # "?")'
  <2>1. CASE ToolOptions
    BY <2>1, NoHelpBefore DEF ToolOptions, ToolInv
  <2>2. CASE ~ToolOptions
    <3>1. got' = got
      BY <2>2 DEF Usage, ToolOptionsOver, Scan, NoBackend, OpenInput, cliVars
    <3> QED
      BY <3>1 DEF ToolInv
  <2> QED
    BY <2>1, <2>2
<1>5. at' = "mode" => OptionsRead'
  <2>1. ASSUME at' = "mode" PROVE OptionsRead'
    <3>1. ToolOptionsOver
      BY <1>1, <2>1 DEF Usage, ToolOptions, ToolOptionsOver, Scan, NoBackend, OpenInput, Goto, Quit,
                        toolVars
    <3>2. UNCHANGED cliVars /\ OptionsRead
      BY <3>1 DEF ToolOptionsOver, OptionsRead
    <3> QED
      BY <3>2, AsksStay
  <2> QED
    BY <2>1
<1>6. at' = "writer" => OptionsRead' /\ Chosen'
  <2>1. ASSUME at' = "writer" PROVE OptionsRead' /\ Chosen'
    <3>1. OpenInput
      BY <1>1, <2>1 DEF Usage, ToolOptions, ToolOptionsOver, Scan, NoBackend, OpenInput, Goto, Quit,
                        toolVars
    <3>2. at = "mode" /\ UNCHANGED cliVars /\ ~Scanning /\ NamesBackend
      BY <3>1 DEF OpenInput, Goto, Quit
    <3>3. OptionsRead /\ Chosen
      BY <3>2 DEF ToolInv, Chosen
    <3> QED
      BY <3>2, <3>3, AsksStay
  <2> QED
    BY <2>1
<1> QED
  BY <1>1, <1>2, <1>3, <1>4, <1>5, <1>6 DEF ToolInv

\* The old list is given up for a table that was named.
LEMMA CreateStep ==
  ASSUME ToolInv, OpenWriter \/ Create
  PROVE  ToolInv'
<1>1. /\ at \in {"writer", "create"} /\ UNCHANGED <<cliVars, file, ln, rows, count>>
      /\ at' \in {"create", "read", "exit"}
  BY DEF OpenWriter, Create, Goto, Quit
<1>2. OptionsRead' /\ Chosen' /\ (TableNamed => TableNamed')
  <2>1. OptionsRead /\ Chosen
    BY <1>1 DEF ToolInv
  <2> QED
    BY <1>1, <2>1, AsksStay
<1>3. table = OldList /\ rows = <<>> /\ count = 0 /\ ln = 1
  BY <1>1 DEF ToolInv
<1>4. /\ OldList \in Seq(Int) /\ OldList \in Seq(Nat) /\ NoTable \in Seq(Int)
      /\ <<>> \in Seq(Nat) /\ <<>> \in Seq(Int) /\ <<>> # OldList
  BY DEF OldList, NoTable
<1>5. table' \in {table, NoTable, <<>>} /\ (table' # table => TableNamed)
  BY DEF OpenWriter, Create
<1>6. ToolTypes'
  <2>1. status' \in {0, 1}
    BY DEF OpenWriter, Create, Goto, Quit, ToolInv, ToolTypes
  <2> QED
    BY <1>1, <1>3, <1>4, <1>5, <2>1 DEF ToolInv, ToolTypes
<1>7. (\A i \in 1..(Len(got) - 1) : got[i].opt # "?")'
  BY <1>1, AsksStay DEF ToolInv
<1>8. at' = "read" => TableNamed /\ table' = <<>>
  BY <1>1 DEF OpenWriter, Create, Goto, Quit
<1>9. at' = "create" => table' = OldList
  BY <1>1, <1>3 DEF OpenWriter, Create, Goto, Quit
<1>10. at' = "exit" => status' # 0
  BY <1>1 DEF OpenWriter, Create, Goto, Quit
<1>11. at' = "read" => count' = Len(rows') /\ RowsBefore(file', rows', ln')
  <2>1. RowsBefore(file, <<>>, 1)
    BY NothingRead
  <2> QED
    BY <1>1, <1>3, <2>1
<1> QED
  BY <1>1, <1>2, <1>3, <1>5, <1>6, <1>7, <1>8, <1>9, <1>10, <1>11 DEF ToolInv

\* Each line is read once, in order; a row of three columns is buffered.
LEMMA ReadStep ==
  ASSUME ToolInv, ReadRow \/ SkipLine \/ SkipError
  PROVE  ToolInv'
<1>1. /\ at = "read" /\ ln <= Len(file)
      /\ UNCHANGED <<cliVars, at, file, table, status>>
  BY DEF ReadRow, SkipLine, SkipError
<1>2. /\ OptionsRead /\ Chosen /\ TableNamed /\ table = <<>> /\ count = Len(rows)
      /\ RowsBefore(file, rows, ln) /\ ToolTypes
  BY <1>1 DEF ToolInv
<1>3. OptionsRead' /\ Chosen' /\ TableNamed' /\ got' = got
  BY <1>1, <1>2, AsksStay
<1>4. /\ file \in Files /\ ln \in 1..Len(file) /\ Len(file) \in Nat /\ rows \in Seq(Nat)
      /\ ln \in Nat /\ ln >= 1
  <2>1. file \in Files /\ ln \in 1..(Len(file) + 1) /\ rows \in Seq(Nat)
    BY <1>2 DEF ToolTypes
  <2>2. Len(file) \in Nat
    BY <2>1, FileLength
  <2> QED
    BY <1>1, <2>1, <2>2
<1>5. /\ rows' \in Seq(Nat) /\ count' = Len(rows') /\ RowsBefore(file, rows', ln')
      /\ ln' \in 1..(Len(file) + 1)
  <2>1. CASE ReadRow
    <3>1. file[ln] = "row" /\ rows' = Append(rows, ln) /\ count' = count + 1 /\ ln' = ln + 1
      BY <2>1 DEF ReadRow
    <3>2. RowsBefore(file, Append(rows, ln), ln + 1)
      BY <1>2, <1>4, <3>1, RowAdded
    <3>3. Append(rows, ln) \in Seq(Nat) /\ Len(Append(rows, ln)) = Len(rows) + 1
      BY <1>4
    <3> QED
      BY <1>2, <1>4, <3>1, <3>2, <3>3
  <2>2. CASE SkipLine \/ SkipError
    <3>1. file[ln] # "row" /\ rows' = rows /\ count' = count /\ (ln' = ln \/ ln' = ln + 1)
      BY <2>2 DEF SkipLine, SkipError
    <3>2. RowsBefore(file, rows, ln + 1)
      BY <1>2, <1>4, <3>1, RowAdded
    <3>3. ln \in 1..(Len(file) + 1) /\ ln + 1 \in 1..(Len(file) + 1)
      BY <1>4
    <3> QED
      BY <1>2, <1>4, <3>1, <3>2, <3>3
  <2> QED
    BY <2>1, <2>2
<1>6. count' \in Nat
  BY <1>5
<1>7. ToolTypes'
  BY <1>1, <1>2, <1>5, <1>6 DEF ToolTypes
<1>8. (\A i \in 1..(Len(got) - 1) : got[i].opt # "?")'
  BY <1>3 DEF ToolInv
<1> QED
  BY <1>1, <1>2, <1>3, <1>5, <1>7, <1>8 DEF ToolInv

\* The table takes the rows, or the import fails.
LEMMA FinishStep ==
  ASSUME ToolInv, FinishRows
  PROVE  ToolInv'
<1>1. /\ at = "read" /\ at' = "exit" /\ ln > Len(file)
      /\ UNCHANGED <<cliVars, file, ln, rows, count>>
      /\ \/ status' = 0 /\ table' = rows
         \/ status' = 1 /\ table' \in {table, rows}
  BY DEF FinishRows, Quit
<1>2. /\ OptionsRead /\ Chosen /\ TableNamed /\ table = <<>> /\ count = Len(rows)
      /\ RowsBefore(file, rows, ln) /\ ToolTypes
  BY <1>1 DEF ToolInv
<1>3. OptionsRead' /\ Chosen' /\ TableNamed' /\ got' = got
  BY <1>1, <1>2, AsksStay
<1>4. /\ file \in Files /\ ln = Len(file) + 1 /\ Len(file) \in Nat /\ rows \in Seq(Nat)
      /\ DOMAIN file = 1..Len(file)
  <2>1. file \in Files /\ ln \in 1..(Len(file) + 1) /\ rows \in Seq(Nat)
    BY <1>2, Zenon DEF ToolTypes
  <2>2. Len(file) \in Nat /\ DOMAIN file = 1..Len(file)
    BY <2>1, FileLength, Zenon
  <2> QED
    BY <1>1, <2>1, <2>2
<1>5. IsGoodLines(rows)
  BY <1>2, <1>4, AllRows
<1>6. status' = 0 => IsGoodLines(table)' /\ count' = Len(table')
  <2>1. ASSUME status' = 0 PROVE IsGoodLines(table)' /\ count' = Len(table')
    <3>1. table' = rows /\ file' = file /\ count' = count
      BY <1>1, <2>1
    <3> QED
      BY <1>2, <1>5, <3>1 DEF IsGoodLines
  <2> QED
    BY <2>1
<1>7. table' \in Seq(Nat) /\ table' \in Seq(Int)
  <2>1. rows \in Seq(Int) /\ <<>> \in Seq(Nat) /\ <<>> \in Seq(Int)
    BY <1>4
  <2> QED
    BY <1>1, <1>2, <1>4, <2>1
<1>8. ToolTypes'
  BY <1>1, <1>2, <1>7 DEF ToolTypes
<1>9. (\A i \in 1..(Len(got) - 1) : got[i].opt # "?")'
  BY <1>3 DEF ToolInv
<1> QED
  BY <1>1, <1>2, <1>3, <1>6, <1>8, <1>9 DEF ToolInv

LEMMA ToolStutters ==
  ASSUME ToolInv, UNCHANGED <<cliVars, toolVars>>
  PROVE  ToolInv'
<1>1. OptionsRead' = OptionsRead /\ Chosen' = Chosen /\ TableNamed' = TableNamed /\ got' = got
  BY AsksStay
<1>2. UNCHANGED <<at, file, ln, rows, count, table, status>>
  BY DEF toolVars
<1>3. ToolTypes'
  BY <1>2 DEF ToolInv, ToolTypes
<1>4. IsGoodLines(table) => IsGoodLines(table)'
  BY <1>2 DEF IsGoodLines
<1> QED
  BY <1>1, <1>2, <1>3, <1>4 DEF ToolInv

LEMMA ToolStep ==
  ASSUME CliInv, ToolInv, ToolNext \/ UNCHANGED <<cliVars, toolVars>>
  PROVE  ToolInv'
  BY OptionsStep, CreateStep, ReadStep, FinishStep, ToolStutters DEF ToolNext, Working, ToolExited

\* The property is the invariant at the exit.
LEMMA ToolInvHonest ==
  ASSUME CliInv, ToolInv, specs = TOOL_SPECS
  PROVE  HonestExit
<1> SUFFICES ASSUME at = "exit", table # OldList PROVE HonestExit
  BY DEF HonestExit
<1> DEFINE asked == Getopt(specs, args).out
<1>1. over # "no" /\ ~Helped /\ ~Scanning /\ NamesBackend /\ TableNamed
  BY DEF ToolInv, Chosen, OptionsRead
<1>2. \A c \in {"F", "Z", "s"} :
        (Named(asked, c) <=> Given(c)) /\ (Given(c) => LastOf(asked, c) = Value(c))
  <2> DEFINE C == {"F", "Z", "s"}
  <2>1. \A s \in specs : s.short \in C => s.arg
    BY ToolAssumption
  <2> HIDE DEF C
  <2>2. \A c \in C : (Named(asked, c) <=> Given(c)) /\ (Given(c) => LastOf(asked, c) = Value(c))
    BY <1>1, <2>1, AskedIsGot
  <2> QED
    BY <2>2 DEF C
<1>3. Named(asked, "?") => Getopt(specs, args).bad
  BY <1>1, HelpIsRefused DEF ToolInv
<1>4. status = 0 => IsGoodLines(table) /\ count = Len(table)
  BY DEF ToolInv
<1> HIDE DEF asked
<1>5. Named(asked, "F") /\ GoodType(LastOf(asked, "F"))
  <2>1. Given("F") /\ GoodType(Value("F"))
    BY <1>1 DEF NamesBackend
  <2>2. Named(asked, "F") /\ LastOf(asked, "F") = Value("F")
    BY <1>2, <2>1
  <2> QED
    BY <2>1, <2>2
<1>6. Named(asked, "Z") => GoodTable(LastOf(asked, "Z"))
  <2>1. ASSUME Named(asked, "Z") PROVE GoodTable(LastOf(asked, "Z"))
    <3>1. Given("Z") /\ LastOf(asked, "Z") = Value("Z")
      BY <1>2, <2>1
    <3> QED
      BY <1>1, <3>1 DEF TableNamed
  <2> QED
    BY <2>1
<1>7. Named(asked, "s") => LastOf(asked, "s") = <<>>
  BY <1>1, <1>2 DEF Scanning
<1> QED
  BY <1>3, <1>4, <1>5, <1>6, <1>7 DEF HonestExit, asked

-----------------------------------------------------------------------------------
(* The programs. *)

\* Only one of the two runs, and the variables of the other stay as they began.
Inv ==
  /\ CliInv
  /\ \/ specs = YOURFS_SPECS /\ StartInv /\ AsksInv /\ at = "options"
     \/ specs = TOOL_SPECS /\ ToolInv /\ pc = "options"

LEMMA Inits == CommandsInit => Inv
<1>1. ASSUME CommandsInit PROVE Inv
  <2>1. StartInit /\ ToolStart
    BY <1>1 DEF CommandsInit
  <2>2. CASE CliInit(YOURFS_SPECS, YourfsLines)
    <3>1. CliInv
      BY <2>2, CliStart, StartAssumption
    <3>2. StartInv /\ AsksInv
      BY <2>1, <2>2, StartBegins, AsksBegin DEF CliInit
    <3> QED
      BY <2>1, <2>2, <3>1, <3>2 DEF Inv, CliInit, ToolStart
  <2>3. CASE CliInit(TOOL_SPECS, ToolLines)
    <3>1. CliInv
      BY <2>3, CliStart, ToolAssumption
    <3>2. got = <<>> /\ specs = TOOL_SPECS
      BY <2>3 DEF CliInit
    <3> QED
      BY <2>1, <3>1, <3>2, ToolBegins DEF Inv, StartInit
  <2> QED
    BY <1>1, <2>2, <2>3 DEF CommandsInit
<1> QED
  BY <1>1

LEMMA Steps == Inv /\ [CommandsNext]_allVars => Inv'
<1> SUFFICES ASSUME Inv, [CommandsNext]_allVars PROVE Inv'
  OBVIOUS
<1>1. CASE UNCHANGED allVars
  <2>1. UNCHANGED cliVars /\ UNCHANGED startVars /\ UNCHANGED toolVars
    BY <1>1 DEF allVars
  <2>2. CliInv'
    BY <2>1, CliStep DEF Inv
  <2>3. specs' = specs /\ pc' = pc /\ at' = at
    BY <2>1 DEF cliVars, startVars, toolVars
  <2> QED
    BY <2>1, <2>2, <2>3, StartStep, AsksStep, ToolStep DEF Inv
<1>2. CASE specs = YOURFS_SPECS /\ Next /\ UNCHANGED toolVars
  <2>1. CliInv /\ StartInv /\ AsksInv /\ at = "options"
    BY <1>2, CommandsAssumption DEF Inv
  <2>2. StartInv' /\ AsksInv'
    BY <1>2, <2>1, StartStep, AsksStep
  <2>3. CliNext \/ UNCHANGED cliVars
    BY <1>2 DEF Next, Starting, Options, Help, OptionsOver, Required, Key, Type, Check, OpenDb,
                CheckTable, InitContext, ParseUrl, Mount, MountExtra, Serve, Unmounted, Exited, vars
  <2>4. CliInv' /\ specs' = specs
    BY <2>1, <2>3, CliStep, SameLine DEF cliVars
  <2>5. at' = at
    BY <1>2 DEF toolVars
  <2> QED
    BY <1>2, <2>1, <2>2, <2>4, <2>5 DEF Inv
<1>3. CASE specs = TOOL_SPECS /\ ToolNext /\ UNCHANGED startVars
  <2>1. CliInv /\ ToolInv /\ pc = "options"
    BY <1>3, CommandsAssumption DEF Inv
  <2>2. ToolInv'
    BY <1>3, <2>1, ToolStep
  <2>3. CliNext \/ UNCHANGED cliVars
    BY <1>3 DEF ToolNext, Working, Usage, ToolOptions, ToolOptionsOver, Scan, NoBackend, OpenInput,
                OpenWriter, Create, ReadRow, SkipLine, SkipError, FinishRows, ToolExited
  <2>4. CliInv' /\ specs' = specs
    BY <2>1, <2>3, CliStep, SameLine DEF cliVars
  <2>5. pc' = pc
    BY <1>3 DEF startVars
  <2> QED
    BY <1>3, <2>1, <2>2, <2>4, <2>5 DEF Inv
<1> QED
  BY <1>1, <1>2, <1>3 DEF CommandsNext

\* At every moment of either program the parser is where getopt_long() would be, and
\* main() holds open what the steps it has taken opened and has asked for.
THEOREM CommandsInvariance == CommandsSpec => []Inv
<1>1. CommandsInit => Inv
  BY Inits
<1>2. Inv /\ [CommandsNext]_allVars => Inv'
  BY Steps
<1> QED
  BY <1>1, <1>2, PTL DEF CommandsSpec

\* Every variable of the program that runs has its type; the number of NFS contexts
\* never exceeds the size of the pool, and the tool never reads behind its file.
THEOREM CommandsTypeCorrect == CommandsSpec => []CommandsTypeOK
<1>1. Inv => CommandsTypeOK
  BY CommandsAssumption, StartInvTypeOK, ToolInvTypeOK DEF Inv, CommandsTypeOK
<1> QED
  BY <1>1, CommandsInvariance, PTL

\* cli.rs returns the options that getopt_long() would, each with its own value, and
\* calls the same command lines malformed: for every table of options and every
\* command line.
THEOREM ParserIsLikeGetopt == CommandsSpec => []LikeGetopt
<1>1. Inv => LikeGetopt
  BY CliInvLikeGetopt DEF Inv
<1> QED
  BY <1>1, CommandsInvariance, PTL

\* Whichever check or call of main() fails, and after however many contexts of the
\* pool, what was opened is closed at the exit.
THEOREM NothingIsLeftOpen == CommandsSpec => []NothingLeftOpen
<1>1. Inv => NothingLeftOpen
  BY StartInvNothingLeftOpen DEF Inv, NothingLeftOpen
<1> QED
  BY <1>1, CommandsInvariance, PTL

\* What a mount of yourfs serves is what its options asked for, as getopt_long() reads
\* them: the checks it has passed, the server behind -X with its password, the ids, and
\* what libfuse is told, for every table of options and every command line.
THEOREM MountsServeWhatWasAsked == CommandsSpec => []ServesWhatWasAsked
<1>1. Inv => ServesWhatWasAsked
  <2>1. CASE specs = YOURFS_SPECS
    BY <2>1, StartInvServes, CommandsAssumption DEF Inv
  <2>2. CASE pc = "options"
    BY <2>2 DEF ServesWhatWasAsked
  <2> QED
    BY <2>1, <2>2 DEF Inv
<1> QED
  BY <1>1, CommandsInvariance, PTL

\* yourfs-tool gives an old list up only for an import that was asked for, and its
\* exit status does not lie about it, for input files of every length.
THEOREM ExitsAreHonest == CommandsSpec => []HonestExit
<1>1. Inv => HonestExit
  BY ToolInvHonest DEF Inv, HonestExit
<1> QED
  BY <1>1, CommandsInvariance, PTL
=================================================================================
