----------------------------- MODULE RepliesProofs -----------------------------
(***************************************************************************)
(* The data path of an operation is sound for buffers of every size, links *)
(* and files of every length and any set of users: no write leaves a       *)
(* buffer, nothing is reported that the server did not say, and a request  *)
(* goes out under the identity of its caller.  The invariant says, of each *)
(* stage an operation is at, what is in the two buffers and where it came  *)
(* from.                                                                   *)
(***************************************************************************)
EXTENDS Replies, WellFoundedInduction, SequenceTheorems, TLAPS

Kinds == {"stat", "statvfs", "readlink", "open", "read", "close"}

\* Nobody has written past the first n cells.
Clean(mem, n) == DOMAIN mem = 0..Top /\ \A i \in 0..Top : i >= n => mem[i] = "?"

LentCells == IF op.kind = "readlink" THEN op.size + 1 ELSE Cells
Buffers == Clean(user, Cells) /\ Clean(lent, LentCells)

\* The id a request about one caller is to go out under.
Acting == IF cfg.uid # NoId /\ ~(cfg.own /\ Foreign(op.caller)) THEN cfg.uid ELSE op.caller

Identity ==
  (pc = "issued" /\ op.kind \in {"stat", "readlink", "open", "read"})
    \/ (pc # "idle" /\ op.kind = "stat")
  => ids = Acting

\* libfuse's buffer before anything is delivered; open() clears the handle first.
Fresh == IF op.kind = "open" THEN [Untouched EXCEPT ![0] = Null] ELSE Untouched

\* The target of a link in the buffer that was lent for it.
Delivered(target, size) ==
  [i \in 0..Top |-> IF i < AtMost(Len(target), size) THEN target[i + 1]
                    ELSE IF i <= size THEN "0" ELSE "?"]

\* What an operation has been told when its callback has run.
Told ==
  \/ op.kind = "close"
  \/ status = EIO /\ given.status = EIO /\ user = Fresh
  \/ /\ status = 0 /\ given.status = 0 /\ user = Fresh
     /\ \/ op.kind \in {"stat", "statvfs"} /\ given.data[1] \in Users
        \/ op.kind = "open"
     /\ lent[0] = given.data[1]
     /\ op.kind = "open" => given.data = <<given.data[1]>>
  \/ /\ status = 0 /\ given.status = 0 /\ user = Fresh /\ op.kind = "readlink"
     /\ given.data \in Seq(Bytes) /\ lent = Delivered(given.data, op.size)
  \/ /\ op.kind = "read" /\ given.status \in Nat
     /\ status = AtMost(given.status, op.size)
     /\ user = Copy(Untouched, given.data, status)

Stage ==
  /\ pc = "idle" => op = Resting /\ given = Nothing /\ user = Untouched
  /\ pc # "idle" => op.kind \in Kinds
  /\ pc = "issued" => user = Fresh /\ lent = Lend(op.kind, op.size)
  /\ pc = "completed" => Told
  /\ pc = "returned" /\ op.kind = "stat" /\ ret = 0 => user[0] = MapUid(given.data[1])

RepliesInv == TypeOK /\ Buffers /\ Identity /\ Stage /\ NothingMadeUp /\ LinkFits

-------------------------------------------------------------------------------
(* Induction over the natural numbers, in the form the provers can use: about *)
(* sets, not operators.                                                       *)

LEMMA LeastNumber ==
  ASSUME NEW T \in SUBSET Nat, T # {}
  PROVE  \E m \in T : \A k \in T : m <= k
<1> DEFINE R == {p \in Nat \X Nat : p[1] < p[2]}
<1>1. IsWellFoundedOn(R, Nat)
  BY NatLessThanWellFounded DEF OpToRel
<1>2. PICK m \in T : \A k \in T : <<k, m>> \notin R
  <2> HIDE DEF R
  <2> QED
    BY <1>1, WFMin
<1>3. ASSUME NEW k \in T PROVE m <= k
  <2>1. <<k, m>> \notin R /\ k \in Nat /\ m \in Nat
    BY <1>2
  <2>2. ~(k < m)
    BY <2>1
  <2> QED
    BY <2>1, <2>2
<1> QED
  BY <1>3

LEMMA InductionBySet ==
  ASSUME NEW T \in SUBSET Nat, 0 \in T, \A n \in T : n + 1 \in T
  PROVE  T = Nat
<1> SUFFICES ASSUME Nat \ T # {} PROVE FALSE
  OBVIOUS
<1>1. PICK m \in Nat \ T : \A k \in Nat \ T : m <= k
  BY LeastNumber
<1>2. m - 1 \in T
  BY <1>1
<1> QED
  BY <1>1, <1>2

-------------------------------------------------------------------------------
(* Repairing a text. *)

\* The recursion over the bytes defines a run, state by state.
LEMMA LossyRunStates ==
  ASSUME NEW bytes, Len(bytes) \in Nat
  PROVE  LossyRun(bytes) =
           [i \in 0..Len(bytes) |-> IF i = 0 THEN [out |-> <<>>, part |-> <<>>]
                                    ELSE LossyByte(LossyRun(bytes)[i - 1], bytes[i])]
<1> DEFINE Def(f, i) == IF i = 0 THEN [out |-> <<>>, part |-> <<>>]
                        ELSE LossyByte(f[i - 1], bytes[i])
           Good == {k \in Nat : \E f : f = [i \in 0..k |-> Def(f, i)]}
<1>1. 0 \in Good
  <2> DEFINE f == [i \in 0..0 |-> [out |-> <<>>, part |-> <<>>]]
  <2>1. f = [i \in 0..0 |-> Def(f, i)]
    OBVIOUS
  <2> QED
    BY <2>1
<1>2. ASSUME NEW k \in Good PROVE k + 1 \in Good
  <2>1. PICK f : f = [i \in 0..k |-> Def(f, i)]
    OBVIOUS
  <2> DEFINE g == [i \in 0..(k + 1) |-> IF i <= k THEN f[i] ELSE LossyByte(f[k], bytes[k + 1])]
  <2>2. ASSUME NEW i \in 0..(k + 1) PROVE g[i] = Def(g, i)
    <3>1. CASE i = 0
      BY <2>1, <3>1
    <3>2. CASE i \in 1..k
      <4>1. g[i] = f[i] /\ g[i - 1] = f[i - 1]
        BY <3>2
      <4>2. f[i] = Def(f, i)
        BY <2>1, <3>2
      <4> QED
        BY <3>2, <4>1, <4>2
    <3>3. CASE i = k + 1
      <4>1. g[i - 1] = f[k] /\ g[i] = LossyByte(f[k], bytes[i])
        BY <3>3
      <4> QED
        BY <3>3, <4>1
    <3> QED
      BY <3>1, <3>2, <3>3
  <2>3. g = [i \in 0..(k + 1) |-> Def(g, i)]
    BY <2>2
  <2> HIDE DEF g, Def
  <2>4. k + 1 \in Nat /\ \E h : h = [i \in 0..(k + 1) |-> Def(h, i)]
    BY <2>3
  <2> QED
    BY <2>4
<1>3. Len(bytes) \in Good
  <2>1. Good \in SUBSET Nat
    OBVIOUS
  <2> HIDE DEF Good
  <2>2. Good = Nat
    BY <1>1, <1>2, <2>1, InductionBySet
  <2> QED
    BY <2>2
<1>4. PICK f : f = [i \in 0..Len(bytes) |-> Def(f, i)]
  BY <1>3
<1> QED
  BY <1>4 DEF LossyRun

\* What a repaired text is made of, and the pieces of a character.
Repaired(S) == S \cup {"ef", "bf", "bd", "l", "c"}
Parts == {<<>>, <<"l">>, <<"l", "c">>}

\* One byte takes a state of the repair to a state of it.
LEMMA LossyByteTyped ==
  ASSUME NEW S, NEW st \in [out : Seq(Repaired(S)), part : Parts], NEW b \in S
  PROVE  LossyByte(st, b) \in [out : Seq(Repaired(S)), part : Parts]
<1>1. /\ b \in Repaired(S) /\ <<b>> \in Seq(Repaired(S))
      /\ Replacement \in Seq(Repaired(S)) /\ <<>> \in Seq(Repaired(S))
      /\ <<"l", "c", "c">> \in Seq(Repaired(S))
  BY DEF Repaired, Replacement
<1>2. Broken(st.part) \in Seq(Repaired(S)) /\ st.out \in Seq(Repaired(S))
  BY <1>1 DEF Broken
<1>3. CASE b = "c" /\ st.part = <<>>
  <2>1. LossyByte(st, b) = [out |-> st.out \o Replacement, part |-> <<>>]
    BY <1>3 DEF LossyByte
  <2> QED
    BY <1>1, <1>2, <2>1 DEF Parts
<1>4. CASE b = "c" /\ st.part = <<"l">>
  <2>1. LossyByte(st, b) = [out |-> st.out, part |-> <<"l", "c">>]
    BY <1>4 DEF LossyByte
  <2> QED
    BY <1>2, <2>1 DEF Parts
<1>5. CASE b = "c" /\ st.part = <<"l", "c">>
  <2>1. LossyByte(st, b) = [out |-> st.out \o <<"l", "c", "c">>, part |-> <<>>]
    BY <1>5 DEF LossyByte
  <2> QED
    BY <1>1, <1>2, <2>1 DEF Parts
<1>6. CASE b = "l"
  <2>1. LossyByte(st, b) = [out |-> st.out \o Broken(st.part), part |-> <<"l">>]
    BY <1>6 DEF LossyByte
  <2> QED
    BY <1>2, <2>1 DEF Parts
<1>7. CASE b \notin {"c", "l"}
  <2>1. LossyByte(st, b) = [out |-> st.out \o Broken(st.part) \o <<b>>, part |-> <<>>]
    BY <1>7 DEF LossyByte
  <2> QED
    BY <1>1, <1>2, <2>1 DEF Parts
<1> QED
  BY <1>3, <1>4, <1>5, <1>6, <1>7 DEF Parts

\* What a character that breaks off is replaced by.
LEMMA BrokenTyped ==
  ASSUME NEW S, NEW part \in Parts
  PROVE  Broken(part) \in Seq(Repaired(S))
<1>1. Replacement \in Seq(Repaired(S)) /\ <<>> \in Seq(Repaired(S))
  BY DEF Replacement, Repaired
<1> QED
  BY <1>1 DEF Broken

\* The repair has a state after every byte.
LEMMA RunTyped ==
  ASSUME NEW S, NEW bytes \in Seq(S)
  PROVE  \A k \in 0..Len(bytes) : LossyRun(bytes)[k] \in [out : Seq(Repaired(S)), part : Parts]
<1> DEFINE Run == LossyRun(bytes)
           States == [out : Seq(Repaired(S)), part : Parts]
           Good == {k \in Nat : k <= Len(bytes) => Run[k] \in States}
<1>1. Run = [i \in 0..Len(bytes) |-> IF i = 0 THEN [out |-> <<>>, part |-> <<>>]
                                    ELSE LossyByte(Run[i - 1], bytes[i])]
  BY LossyRunStates
<1> HIDE DEF Run
<1>2. 0 \in Good
  BY <1>1 DEF Parts
<1>3. ASSUME NEW k \in Good PROVE k + 1 \in Good
  <2>1. CASE k + 1 <= Len(bytes)
    <3>1. Run[k] \in States /\ bytes[k + 1] \in S
      BY <2>1
    <3>2. Run[k + 1] = LossyByte(Run[k], bytes[k + 1])
      BY <1>1, <2>1
    <3>3. Run[k + 1] \in States
      BY <3>1, <3>2, LossyByteTyped
    <3> HIDE DEF States
    <3> QED
      BY <3>3
  <2> QED
    BY <2>1
<1>4. Good = Nat
  <2>1. Good \in SUBSET Nat
    OBVIOUS
  <2> HIDE DEF Good
  <2> QED
    BY <1>2, <1>3, <2>1, InductionBySet
<1> QED
  BY <1>4 DEF Run

\* However a text is broken, its repair is a sequence, so it has a length.
LEMMA LossyTyped ==
  ASSUME NEW S, NEW bytes \in Seq(S)
  PROVE  Lossy(bytes) \in Seq(Repaired(S))
<1> DEFINE st == LossyRun(bytes)[Len(bytes)]
<1>1. st \in [out : Seq(Repaired(S)), part : Parts]
  BY RunTyped
<1>2. Lossy(bytes) = st.out \o Broken(st.part)
  BY DEF Lossy
<1> HIDE DEF st
<1> QED
  BY <1>1, <1>2, BrokenTyped

-------------------------------------------------------------------------------
(* What a repair keeps: whole characters. *)

\* A prefix, position by position.
Starts(s, t) == Len(s) <= Len(t) /\ \A i \in 1..Len(s) : s[i] = t[i]

LEMMA PrefixMeans ==
  ASSUME NEW S, NEW s \in Seq(S), NEW t \in Seq(S)
  PROVE  IsPrefix(s, t) <=> Starts(s, t)
<1>1. SubSeq(s, 1, Len(s)) = s
  OBVIOUS
<1>2. ASSUME Len(s) <= Len(t)
      PROVE  /\ SubSeq(t, 1, Len(s)) \in Seq(S) /\ Len(SubSeq(t, 1, Len(s))) = Len(s)
             /\ \A i \in 1..Len(s) : SubSeq(t, 1, Len(s))[i] = t[i]
  BY <1>2
<1>3. ASSUME Starts(s, t) PROVE IsPrefix(s, t)
  <2>1. s = SubSeq(t, 1, Len(s))
    BY <1>2, <1>3, SeqEqual DEF Starts
  <2> QED
    BY <1>1, <1>3, <2>1 DEF IsPrefix, Starts
<1>4. ASSUME IsPrefix(s, t) PROVE Starts(s, t)
  BY <1>1, <1>2, <1>4 DEF IsPrefix, Starts
<1> QED
  BY <1>3, <1>4

LEMMA AppendedStarts ==
  ASSUME NEW S, NEW s \in Seq(S), NEW t \in Seq(S)
  PROVE  s \o t \in Seq(S) /\ Starts(s, s \o t)
<1>1. s \o t \in Seq(S) /\ Len(s \o t) = Len(s) + Len(t)
  OBVIOUS
<1>2. ASSUME NEW i \in 1..Len(s) PROVE (s \o t)[i] = s[i]
  OBVIOUS
<1>3. Len(s) <= Len(s) + Len(t)
  OBVIOUS
<1> QED
  BY <1>1, <1>2, <1>3 DEF Starts

\* The start of a start is a start.
LEMMA StartsOfStarts ==
  ASSUME NEW S, NEW s \in Seq(S), NEW T, NEW t \in Seq(T), NEW u,
         Starts(s, t), Starts(t, u), Len(u) \in Nat
  PROVE  Starts(s, u)
<1>1. Len(s) \in Nat /\ Len(t) \in Nat
  OBVIOUS
<1>2. Len(s) <= Len(t) /\ Len(t) <= Len(u)
  BY DEF Starts
<1>3. ASSUME NEW i \in 1..Len(s) PROVE s[i] = u[i]
  <2>1. i \in 1..Len(t)
    BY <1>1, <1>2
  <2>2. s[i] = t[i]
    BY DEF Starts
  <2>3. t[i] = u[i]
    BY <2>1, Zenon DEF Starts
  <2> QED
    BY <2>2, <2>3, Zenon
<1>4. Len(s) <= Len(u)
  <2>1. \A a, b, c \in Nat : a <= b /\ b <= c => a <= c
    OBVIOUS
  <2> QED
    BY <1>1, <1>2, <2>1, Zenon
<1> QED
  BY <1>3, <1>4 DEF Starts

\* The pieces of a text are joined one after the other.
LEMMA FlattenStates ==
  ASSUME NEW S, NEW pieces \in Seq(Seq(S)), Len(pieces) > 0
  PROVE  \E f : /\ f = [i \in 1..Len(pieces) |-> IF i = 1 THEN pieces[i]
                                                ELSE f[i - 1] \o pieces[i]]
               /\ FlattenSeq(pieces) = f[Len(pieces)]
<1> DEFINE Def(f, i) == IF i = 1 THEN pieces[i] ELSE f[i - 1] \o pieces[i]
           Good == {k \in Nat : \E f : f = [i \in 1..k |-> Def(f, i)]}
<1>1. 0 \in Good
  <2> DEFINE f == [i \in 1..0 |-> <<>>]
  <2>1. f = [i \in 1..0 |-> Def(f, i)]
    OBVIOUS
  <2> QED
    BY <2>1
<1>2. ASSUME NEW k \in Good PROVE k + 1 \in Good
  <2>1. PICK f : f = [i \in 1..k |-> Def(f, i)]
    OBVIOUS
  <2> DEFINE g == [i \in 1..(k + 1) |-> IF i <= k THEN f[i] ELSE Def(f, i)]
  <2>2. ASSUME NEW i \in 1..(k + 1) PROVE g[i] = Def(g, i)
    <3>1. CASE i = 1
      BY <2>1, <3>1
    <3>2. CASE i \in 2..k
      <4>1. g[i] = f[i] /\ g[i - 1] = f[i - 1]
        BY <3>2
      <4>2. i \in 1..k /\ i # 1
        BY <3>2
      <4>3. f[i] = Def(f, i)
        <5> HIDE DEF Def
        <5> QED
          BY <2>1, <4>2
      <4> QED
        BY <4>1, <4>2, <4>3
    <3>3. CASE i = k + 1 /\ k > 0
      <4>1. g[i - 1] = f[k] /\ g[i] = Def(f, i)
        BY <3>3
      <4> QED
        BY <3>3, <4>1
    <3> QED
      BY <3>1, <3>2, <3>3
  <2>3. g = [i \in 1..(k + 1) |-> Def(g, i)]
    <3>1. g = [i \in 1..(k + 1) |-> g[i]]
      OBVIOUS
    <3> HIDE DEF g, Def
    <3>2. [i \in 1..(k + 1) |-> g[i]] = [i \in 1..(k + 1) |-> Def(g, i)]
      BY <2>2
    <3> QED
      BY <3>1, <3>2, Zenon
  <2> HIDE DEF g, Def
  <2>4. k + 1 \in Nat /\ \E h : h = [i \in 1..(k + 1) |-> Def(h, i)]
    BY <2>3
  <2> QED
    BY <2>4
<1>3. Len(pieces) \in Good
  <2>1. Good \in SUBSET Nat
    BY Zenon
  <2> HIDE DEF Good
  <2>2. Good = Nat
    BY <1>1, <1>2, <2>1, InductionBySet, Zenon
  <2> QED
    BY <2>2
<1> DEFINE F == CHOOSE f : f = [i \in 1..Len(pieces) |-> Def(f, i)]
<1>4. F = [i \in 1..Len(pieces) |-> Def(F, i)]
  BY <1>3, Zenon
<1>5. FlattenSeq(pieces) = F[Len(pieces)]
  BY DEF FlattenSeq
<1> QED
  BY <1>4, <1>5, Zenon

\* A step of the repair appends.
LEMMA ByteAppends ==
  ASSUME NEW st \in [out : Seq(Repaired(Bytes)), part : Parts], NEW b \in Bytes
  PROVE  Starts(st.out, LossyByte(st, b).out)
<1> DEFINE R == Repaired(Bytes)
<1>1. /\ Replacement \in Seq(R) /\ <<"l", "c", "c">> \in Seq(R) /\ <<b>> \in Seq(R)
      /\ Broken(st.part) \in Seq(R) /\ st.out \in Seq(R)
  <2>1. {"ef", "bf", "bd", "l", "c", b} \subseteq R
    BY DEF Repaired
  <2>2. Broken(st.part) \in Seq(R) /\ st.out \in Seq(R)
    BY BrokenTyped
  <2> HIDE DEF R
  <2>3. Replacement \in Seq(R) /\ <<"l", "c", "c">> \in Seq(R) /\ <<b>> \in Seq(R)
    BY <2>1 DEF Replacement
  <2> QED
    BY <2>2, <2>3
<1> HIDE DEF R
<1>2. \A t \in Seq(R) : st.out \o t \in Seq(R) /\ Starts(st.out, st.out \o t)
  BY <1>1 DEF Starts
<1>3. \/ LossyByte(st, b).out = st.out
      \/ LossyByte(st, b).out = st.out \o Replacement
      \/ LossyByte(st, b).out = st.out \o <<"l", "c", "c">>
      \/ LossyByte(st, b).out = st.out \o Broken(st.part)
      \/ LossyByte(st, b).out = st.out \o Broken(st.part) \o <<b>>
  BY DEF LossyByte, Parts, Bytes
<1>4. Starts(st.out, st.out)
  BY <1>1 DEF Starts
<1>5. Broken(st.part) \o <<b>> \in Seq(R)
      /\ st.out \o Broken(st.part) \o <<b>> = st.out \o (Broken(st.part) \o <<b>>)
  BY <1>1
<1> QED
  BY <1>1, <1>2, <1>3, <1>4, <1>5

\* A repair only appends.
LEMMA RunGrows ==
  ASSUME NEW bytes \in Seq(Bytes), NEW m \in 0..Len(bytes), NEW n \in m..Len(bytes)
  PROVE  /\ LossyRun(bytes)[n] \in [out : Seq(Repaired(Bytes)), part : Parts]
         /\ Starts(LossyRun(bytes)[m].out, LossyRun(bytes)[n].out)
<1> DEFINE Run == LossyRun(bytes)
           States == [out : Seq(Repaired(Bytes)), part : Parts]
           Good == {k \in Nat : k \in m..Len(bytes) => Starts(Run[m].out, Run[k].out)}
<1>1. Run = [i \in 0..Len(bytes) |-> IF i = 0 THEN [out |-> <<>>, part |-> <<>>]
                                    ELSE LossyByte(Run[i - 1], bytes[i])]
  BY LossyRunStates
<1>2. \A k \in 0..Len(bytes) : Run[k] \in States
  BY RunTyped
<1> HIDE DEF Run, States
<1>3. 0 \in Good
  BY <1>2 DEF Starts, States
<1>4. ASSUME NEW k \in Good PROVE k + 1 \in Good
  <2>1. CASE k \in m..Len(bytes) /\ k + 1 \in m..Len(bytes)
    <3>1. Run[k] \in States /\ Run[m] \in States /\ bytes[k + 1] \in Bytes
      BY <1>2, <2>1
    <3>2. Run[k + 1] = LossyByte(Run[k], bytes[k + 1])
      BY <1>1, <2>1
    <3>3. Starts(Run[k].out, Run[k + 1].out)
      BY <3>1, <3>2, ByteAppends DEF States
    <3>4. Starts(Run[m].out, Run[k].out) /\ Run[k + 1] \in States
      BY <1>2, <2>1
    <3>5. Starts(Run[m].out, Run[k + 1].out)
      BY <3>1, <3>3, <3>4 DEF Starts, States
    <3> QED
      BY <3>5
  <2>2. CASE k + 1 = m
    <3>1. Starts(Run[m].out, Run[k + 1].out)
      BY <2>2, <1>2 DEF Starts, States
    <3> QED
      BY <3>1
  <2> QED
    BY <2>1, <2>2
<1>5. Good = Nat
  <2>1. Good \in SUBSET Nat
    OBVIOUS
  <2> HIDE DEF Good
  <2> QED
    BY <1>3, <1>4, <2>1, InductionBySet
<1> QED
  BY <1>2, <1>5 DEF Run, States

\* A character that is whole goes through as it is.
LEMMA WholeCharacter ==
  ASSUME NEW bytes \in Seq(Bytes), NEW m \in 0..Len(bytes), NEW o \in Seq(Bytes),
         LossyRun(bytes)[m] = [out |-> o, part |-> <<>>],
         NEW c \in {<<"a">>, <<"l", "c", "c">>}, m + Len(c) <= Len(bytes),
         \A i \in 1..Len(c) : bytes[m + i] = c[i]
  PROVE  LossyRun(bytes)[m + Len(c)] = [out |-> o \o c, part |-> <<>>]
<1> DEFINE Run == LossyRun(bytes)
<1>1. Run = [i \in 0..Len(bytes) |-> IF i = 0 THEN [out |-> <<>>, part |-> <<>>]
                                    ELSE LossyByte(Run[i - 1], bytes[i])]
  BY LossyRunStates
<1>2. Run[m] = [out |-> o, part |-> <<>>]
  OBVIOUS
<1> HIDE DEF Run
<1>3. o \o <<>> = o
  OBVIOUS
<1>4. CASE c = <<"a">>
  <2>1. Len(c) = 1 /\ bytes[m + 1] = "a" /\ m + 1 \in 1..Len(bytes)
    BY <1>4
  <2>2. Run[m + 1] = LossyByte(Run[m], "a")
    BY <1>1, <2>1
  <2>3. LossyByte([out |-> o, part |-> <<>>], "a") = [out |-> o \o <<>> \o <<"a">>, part |-> <<>>]
    BY DEF LossyByte, Broken
  <2> QED
    BY <1>2, <1>3, <1>4, <2>1, <2>2, <2>3 DEF Run
<1>5. CASE c = <<"l", "c", "c">>
  <2>1. /\ Len(c) = 3 /\ m + 3 \in 1..Len(bytes)
        /\ bytes[m + 1] = "l" /\ bytes[m + 2] = "c" /\ bytes[m + 3] = "c"
    BY <1>5
  <2>2. ASSUME NEW i \in (m + 1)..(m + 3)
        PROVE  Run[i] = LossyByte(Run[i - 1], bytes[i])
    <3>1. i \in 0..Len(bytes) /\ i # 0
      BY <2>1
    <3> QED
      BY <1>1, <3>1
  <2>3. /\ (m + 1) - 1 = m /\ (m + 2) - 1 = m + 1 /\ (m + 3) - 1 = m + 2
        /\ m + 1 \in (m + 1)..(m + 3) /\ m + 2 \in (m + 1)..(m + 3) /\ m + 3 \in (m + 1)..(m + 3)
    OBVIOUS
  <2>4. Run[m + 1] = LossyByte(Run[m], "l")
    BY <2>1, <2>2, <2>3
  <2>5. Run[m + 2] = LossyByte(Run[m + 1], "c")
    BY <2>1, <2>2, <2>3
  <2>6. Run[m + 3] = LossyByte(Run[m + 2], "c")
    BY <2>1, <2>2, <2>3
  <2>7. LossyByte([out |-> o, part |-> <<>>], "l") = [out |-> o \o <<>>, part |-> <<"l">>]
    BY DEF LossyByte, Broken
  <2>8. LossyByte([out |-> o, part |-> <<"l">>], "c") = [out |-> o, part |-> <<"l", "c">>]
    BY DEF LossyByte
  <2>9. LossyByte([out |-> o, part |-> <<"l", "c">>], "c") =
          [out |-> o \o <<"l", "c", "c">>, part |-> <<>>]
    BY DEF LossyByte
  <2> QED
    BY <1>2, <1>3, <1>5, <2>1, <2>4, <2>5, <2>6, <2>7, <2>8, <2>9 DEF Run
<1> QED
  BY <1>4, <1>5

\* A repair has gone through a text at its end, without a change.
LEMMA TextRun ==
  ASSUME NEW p \in Texts, NEW bytes \in Seq(Bytes)
  PROVE  /\ p \in Seq(Bytes)
         /\ Starts(p, bytes) => LossyRun(bytes)[Len(p)] = [out |-> p, part |-> <<>>]
<1> DEFINE Whole == {<<"a">>, <<"l", "c", "c">>}
           Run == LossyRun(bytes)
<1>1. PICK n \in 0..MaxTarget : \E chars \in [1..n -> Whole] : p = FlattenSeq(chars)
  BY DEF Texts
<1>2. PICK chars \in [1..n -> Whole] : p = FlattenSeq(chars)
  BY <1>1
<1>3. n \in Nat /\ chars \in Seq(Whole) /\ Len(chars) = n
  BY RepliesAssumption
<1>4. Whole \subseteq Seq(Bytes)
  BY DEF Bytes
<1>5. Run[0] = [out |-> <<>>, part |-> <<>>]
  BY LossyRunStates
<1>6. CASE n = 0
  <2>1. p = <<>>
    BY <1>2, <1>3, <1>6 DEF FlattenSeq
  <2> QED
    BY <1>5, <2>1
<1>7. CASE n > 0
  <2>1. chars \in Seq(Seq(Bytes))
    <3> HIDE DEF Whole
    <3>1. \A i \in 1..n : chars[i] \in Seq(Bytes)
      BY <1>3, <1>4
    <3> QED
      BY <1>3, <3>1
  <2>2. PICK f : /\ f = [i \in 1..n |-> IF i = 1 THEN chars[i] ELSE f[i - 1] \o chars[i]]
                 /\ p = f[n]
    BY <1>2, <1>3, <1>7, <2>1, FlattenStates
  <2> DEFINE Good == {k \in Nat : k + 1 <= n =>
                        /\ f[k + 1] \in Seq(Bytes)
                        /\ Starts(f[k + 1], bytes) =>
                             Run[Len(f[k + 1])] = [out |-> f[k + 1], part |-> <<>>]}
  <2>3. \A k \in 1..n : chars[k] \in Whole /\ chars[k] \in Seq(Bytes)
    BY <1>3, <1>4
  <2> HIDE DEF Whole
  <2>4. 0 \in Good
    <3>1. f[1] = chars[1] /\ chars[1] \in Whole /\ chars[1] \in Seq(Bytes)
      BY <1>7, <2>2, <2>3
    <3>2. ASSUME Starts(chars[1], bytes)
          PROVE  Run[Len(chars[1])] = [out |-> chars[1], part |-> <<>>]
      <4>1. Len(chars[1]) \in Nat /\ 0 + Len(chars[1]) = Len(chars[1]) /\ <<>> \o chars[1] = chars[1]
        BY <3>1
      <4>2. \A i \in 1..Len(chars[1]) : bytes[0 + i] = chars[1][i]
        BY <3>2, <4>1 DEF Starts
      <4>3. Run[0 + Len(chars[1])] = [out |-> <<>> \o chars[1], part |-> <<>>]
        <5>1. <<>> \in Seq(Bytes) /\ 0 \in 0..Len(bytes) /\ 0 + Len(chars[1]) <= Len(bytes)
          BY <3>2, <4>1 DEF Starts
        <5> QED
          BY <1>5, <3>1, <4>2, <5>1, WholeCharacter DEF Whole
      <4> QED
        BY <4>1, <4>3
    <3> HIDE DEF Run
    <3> QED
      BY <3>1, <3>2
  <2>5. ASSUME NEW k \in Good PROVE k + 1 \in Good
    <3>1. CASE k + 2 <= n
      <4> DEFINE o == f[k + 1]
                 c == chars[k + 2]
      <4>1. /\ f[k + 2] = o \o c /\ c \in Whole /\ c \in Seq(Bytes) /\ o \in Seq(Bytes)
            /\ Starts(o, bytes) => Run[Len(o)] = [out |-> o, part |-> <<>>]
        <5>1. k + 2 \in 1..n /\ k + 2 # 1 /\ (k + 2) - 1 = k + 1 /\ k + 1 <= n
          BY <3>1
        <5>2. f[k + 2] = f[(k + 2) - 1] \o chars[k + 2]
          BY <2>2, <5>1
        <5> HIDE DEF Run
        <5> QED
          BY <2>3, <5>1, <5>2
      <4> HIDE DEF o, c
      <4>2. o \o c \in Seq(Bytes) /\ Len(o \o c) = Len(o) + Len(c) /\ Len(o) \in Nat /\ Len(c) \in Nat
        BY <4>1
      <4>3. ASSUME Starts(o \o c, bytes)
            PROVE  Run[Len(o) + Len(c)] = [out |-> o \o c, part |-> <<>>]
        <5>1. Starts(o, bytes)
          <6>1. Starts(o, o \o c) /\ o \o c \in Seq(Bytes) /\ o \in Seq(Bytes)
            BY <4>1, AppendedStarts
          <6>2. Starts(o \o c, bytes) /\ Len(bytes) \in Nat
            BY <4>3
          <6> HIDE DEF Run
          <6> QED
            BY <6>1, <6>2, StartsOfStarts
        <5>2. \A i \in 1..Len(c) : bytes[Len(o) + i] = c[i]
          <6> TAKE i \in 1..Len(c)
          <6>1. Len(o) + i \in 1..Len(o \o c) /\ (o \o c)[Len(o) + i] = c[i]
            BY <4>1, <4>2
          <6> QED
            BY <4>3, <6>1 DEF Starts
        <5>3. Len(o) \in 0..Len(bytes) /\ Len(o) + Len(c) <= Len(bytes)
          BY <4>2, <4>3 DEF Starts
        <5>4. Run[Len(o)] = [out |-> o, part |-> <<>>]
          BY <4>1, <5>1
        <5> QED
          BY <4>1, <5>2, <5>3, <5>4, WholeCharacter DEF Whole
      <4> HIDE DEF Run
      <4>4. (k + 1) + 1 = k + 2 /\ k + 1 \in Nat
        OBVIOUS
      <4>5. /\ f[k + 2] \in Seq(Bytes)
            /\ Starts(f[k + 2], bytes) =>
                 Run[Len(f[k + 2])] = [out |-> f[k + 2], part |-> <<>>]
        BY <4>1, <4>2, <4>3
      <4> QED
        BY <4>4, <4>5
    <3> HIDE DEF Run
    <3> QED
      BY <3>1
  <2>6. n - 1 \in Good
    <3>1. Good \in SUBSET Nat
      OBVIOUS
    <3> HIDE DEF Good
    <3>2. Good = Nat
      BY <2>4, <2>5, <3>1, InductionBySet
    <3> QED
      BY <1>3, <1>7, <3>2
  <2> HIDE DEF Run
  <2>7. (n - 1) + 1 = n
    BY <1>3
  <2> QED
    BY <2>2, <2>6, <2>7 DEF Run
<1> QED
  BY <1>3, <1>6, <1>7

\* What begins with a text begins with it when it is repaired.
LEMMA LossyStartsWithText ==
  ASSUME NEW p \in Texts, NEW bytes \in Seq(Bytes), Starts(p, bytes)
  PROVE  Starts(p, Lossy(bytes))
<1> DEFINE Run == LossyRun(bytes)
           n == Len(bytes)
<1>1. p \in Seq(Bytes) /\ Run[Len(p)] = [out |-> p, part |-> <<>>]
  BY TextRun
<1>2. Len(p) \in 0..n /\ n \in Nat
  BY <1>1 DEF Starts
<1>3. Run[n] \in [out : Seq(Repaired(Bytes)), part : Parts] /\ Starts(Run[Len(p)].out, Run[n].out)
  BY <1>2, RunGrows
<1>4. Broken(Run[n].part) \in Seq(Repaired(Bytes))
  BY <1>3, BrokenTyped
<1>5. Lossy(bytes) = Run[n].out \o Broken(Run[n].part)
  BY DEF Lossy
<1> HIDE DEF Run, n
<1>6. Starts(p, Run[n].out) /\ Run[n].out \in Seq(Repaired(Bytes))
  BY <1>1, <1>3
<1>7. Starts(Run[n].out, Run[n].out \o Broken(Run[n].part))
  BY <1>4, <1>6, AppendedStarts
<1> QED
  BY <1>1, <1>4, <1>5, <1>6, <1>7, StartsOfStarts

\* A text needs no repair.
LEMMA LossyKeepsText ==
  ASSUME NEW p \in Texts
  PROVE  p \in Seq(Bytes) /\ Lossy(p) = p
<1>1. p \in Seq(Bytes)
  BY TextRun, EmptySeq
<1>2. Starts(p, p)
  BY <1>1 DEF Starts
<1>3. LossyRun(p)[Len(p)] = [out |-> p, part |-> <<>>]
  BY <1>1, <1>2, TextRun
<1> QED
  BY <1>1, <1>3 DEF Lossy, Broken

-------------------------------------------------------------------------------
(* The buffers. *)

\* There is memory past the largest buffer.
LEMMA Room == Top \in Nat /\ MaxSize \in Nat /\ MaxSize < Top
BY RepliesAssumption DEF Top

LEMMA UntouchedMeans == DOMAIN Untouched = 0..Top /\ \A i \in 0..Top : Untouched[i] = "?"
BY DEF Untouched

\* A copy changes the first n cells, and no other.
LEMMA CopyMeans ==
  ASSUME NEW mem, NEW data, NEW n
  PROVE  /\ DOMAIN Copy(mem, data, n) = 0..Top
         /\ \A i \in 0..Top : Copy(mem, data, n)[i] = IF i < n THEN data[i + 1] ELSE mem[i]
BY DEF Copy

\* A copy into a buffer stays in it when what is copied does.
LEMMA CopyClean ==
  ASSUME NEW mem, NEW data, NEW n \in Nat, NEW cells \in Nat,
         Clean(mem, cells), n <= cells
  PROVE  Clean(Copy(mem, data, n), cells)
<1>1. ASSUME NEW i \in 0..Top, i >= cells PROVE Copy(mem, data, n)[i] = "?"
  BY <1>1, Room, CopyMeans DEF Clean
<1> QED
  BY <1>1, CopyMeans DEF Clean

\* So does a write to one of its cells.
LEMMA PutClean ==
  ASSUME NEW mem, NEW v, NEW at \in Nat, NEW cells \in Nat,
         Clean(mem, cells), at < cells
  PROVE  Clean([mem EXCEPT ![at] = v], cells)
BY Room DEF Clean

\* The link of libnfs is written from the start of the zeros it was lent.
LEMMA StrncatDelivers ==
  ASSUME NEW size \in 0..MaxSize, NEW bytes \in Seq(Bytes)
  PROVE  Strncat(Lend("readlink", size), bytes, size) = Delivered(bytes, size)
<1> DEFINE mem == Lend("readlink", size)
           from == CHOOSE i \in 0..Top : mem[i] = "0" /\ \A j \in 0..(i - 1) : mem[j] # "0"
           n == AtMost(Len(bytes), size)
<1>1. mem = [i \in 0..Top |-> IF i <= size THEN "0" ELSE "?"]
  BY DEF Lend
<1> HIDE DEF mem
<1>2. 0 \in 0..Top /\ mem[0] = "0" /\ \A j \in 0..(0 - 1) : mem[j] # "0"
  BY <1>1, Room
<1>3. from \in 0..Top /\ mem[from] = "0" /\ \A j \in 0..(from - 1) : mem[j] # "0"
  BY <1>2
<1>4. from = 0
  <2> HIDE DEF from
  <2> QED
    BY <1>2, <1>3
<1>5. n \in Nat /\ n <= size
  BY DEF AtMost
<1>6. Strncat(mem, bytes, size) =
        [i \in 0..Top |-> IF i \in from..(from + n - 1) THEN bytes[i - from + 1]
                          ELSE IF i = from + n THEN "0" ELSE mem[i]]
  BY DEF Strncat
<1>7. Delivered(bytes, size) =
        [i \in 0..Top |-> IF i < n THEN bytes[i + 1] ELSE IF i <= size THEN "0" ELSE "?"]
  BY DEF Delivered
<1> HIDE DEF from, n
<1>8. ASSUME NEW i \in 0..Top
      PROVE  (IF i \in from..(from + n - 1) THEN bytes[i - from + 1]
                ELSE IF i = from + n THEN "0" ELSE mem[i])
             = IF i < n THEN bytes[i + 1] ELSE IF i <= size THEN "0" ELSE "?"
  BY <1>1, <1>4, <1>5, Room
<1> QED
  BY <1>6, <1>7, <1>8 DEF mem

\* What readlink_cb has delivered lies within the buffer and its last byte.
LEMMA DeliveredClean ==
  ASSUME NEW size \in 0..MaxSize, NEW bytes \in Seq(Bytes)
  PROVE  Clean(Delivered(bytes, size), size + 1)
<1> DEFINE n == AtMost(Len(bytes), size)
<1>1. n \in Nat /\ n <= size
  BY DEF AtMost
<1>2. Delivered(bytes, size) =
        [i \in 0..Top |-> IF i < n THEN bytes[i + 1] ELSE IF i <= size THEN "0" ELSE "?"]
  BY DEF Delivered
<1> HIDE DEF n
<1> QED
  BY <1>1, <1>2, Room DEF Clean

\* A string ends before its first NUL.
LEMMA TerminatedString ==
  ASSUME NEW mem, NEW len \in Nat, NEW n \in Nat, n < len, mem[n] = "0",
         \A i \in 0..(n - 1) : mem[i] # "0"
  PROVE  CString(mem, len) = [i \in 1..n |-> mem[i - 1]]
<1> DEFINE ends == {i \in 0..(len - 1) : mem[i] = "0"}
           least == CHOOSE i \in ends : \A j \in ends : i <= j
<1>1. n \in ends /\ \A j \in ends : n <= j
  OBVIOUS
<1>2. least \in ends /\ \A j \in ends : least <= j
  <2> HIDE DEF ends
  <2> QED
    BY <1>1
<1>3. least = n
  <2>1. least <= n /\ n <= least /\ least \in Nat
    <3> HIDE DEF least
    <3> QED
      BY <1>1, <1>2
  <2> HIDE DEF least
  <2> QED
    BY <2>1
<1>4. CString(mem, len) = [i \in 1..(IF ends = {} THEN len ELSE least) |-> mem[i - 1]]
  BY DEF CString
<1> HIDE DEF ends, least
<1> QED
  BY <1>1, <1>3, <1>4

\* The string that ends at a NUL byte within the target is the start of the target.
LEMMA StringStarts ==
  ASSUME NEW S, "0" \notin S, NEW target \in Seq(S), NEW mem, NEW len \in Nat,
         NEW n \in Nat, n < len, n <= Len(target), mem[n] = "0",
         \A i \in 0..(n - 1) : mem[i] = target[i + 1]
  PROVE  LET link == CString(mem, len) IN
           link \in Seq(S) /\ Len(link) = n /\ Starts(link, target)
<1>1. \A i \in 0..(n - 1) : mem[i] \in S
  OBVIOUS
<1>2. CString(mem, len) = [i \in 1..n |-> mem[i - 1]]
  BY <1>1, TerminatedString
<1>3. \A i \in 1..n : mem[i - 1] = target[i] /\ target[i] \in S
  <2> TAKE i \in 1..n
  <2>1. i - 1 \in 0..(n - 1) /\ (i - 1) + 1 = i /\ i \in 1..Len(target)
    OBVIOUS
  <2> QED
    BY <2>1
<1> DEFINE link == [i \in 1..n |-> mem[i - 1]]
<1>4. link \in [1..n -> S] /\ \A i \in 1..n : link[i] = target[i]
  BY <1>3
<1> HIDE DEF link
<1>5. link \in Seq(S) /\ Len(link) = n
  BY <1>4
<1>6. Starts(link, target)
  BY <1>4, <1>5 DEF Starts
<1> QED
  BY <1>2, <1>5, <1>6 DEF link

\* The link that libnfs delivered is the target, or its beginning.
LEMMA DeliveredString ==
  ASSUME NEW size \in 0..MaxSize, NEW bytes \in Seq(Bytes)
  PROVE  LET cs == CString(Delivered(bytes, size), size + 1) IN
           /\ cs \in Seq(Bytes) /\ Len(cs) = AtMost(Len(bytes), size)
           /\ Starts(cs, bytes)
<1> DEFINE n == AtMost(Len(bytes), size)
           mem == Delivered(bytes, size)
<1>1. n \in Nat /\ n <= size /\ n <= Len(bytes) /\ size + 1 \in Nat /\ n < size + 1
  BY DEF AtMost
<1>2. mem = [i \in 0..Top |-> IF i < n THEN bytes[i + 1] ELSE IF i <= size THEN "0" ELSE "?"]
  BY DEF Delivered
<1> HIDE DEF n, mem
<1>3. mem[n] = "0" /\ \A i \in 0..(n - 1) : mem[i] = bytes[i + 1]
  BY <1>1, <1>2, Room
<1>4. "0" \notin Bytes
  BY DEF Bytes
<1>5. LET cs == CString(mem, size + 1) IN cs \in Seq(Bytes) /\ Len(cs) = n /\ Starts(cs, bytes)
  BY <1>1, <1>3, <1>4, StringStarts
<1> QED
  BY <1>5 DEF n, mem

\* What is lent to the callback of an operation is its own buffer.
LEMMA LendClean ==
  ASSUME NEW kind \in Kinds, NEW size \in 0..MaxSize
  PROVE  Clean(Lend(kind, size),
               IF kind = "readlink" THEN size + 1 ELSE IF kind = "read" THEN size ELSE 1)
<1>1. CASE kind = "readlink"
  BY <1>1, Room DEF Lend, Clean
<1>2. CASE kind \in {"read", "close"}
  BY <1>2, UntouchedMeans DEF Lend, Clean
<1>3. CASE kind \in {"stat", "statvfs", "open"}
  BY <1>3, Room, UntouchedMeans DEF Lend, Clean
<1> QED
  BY <1>1, <1>2, <1>3 DEF Kinds

LEMMA TargetsAreBytes == Targets \subseteq Seq(Bytes)
<1> SUFFICES ASSUME NEW target \in Targets PROVE target \in Seq(Bytes)
  OBVIOUS
<1>1. PICK n \in 0..MaxTarget : target \in [1..n -> Bytes]
  BY DEF Targets
<1> QED
  BY <1>1, RepliesAssumption

-------------------------------------------------------------------------------
(* The initial states, and each action. *)

LEMMA InitReplies == Init => RepliesInv
<1> SUFFICES ASSUME Init PROVE RepliesInv
  OBVIOUS
<1> USE RepliesAssumption, Room, UntouchedMeans DEF Init
<1>1. TypeOK
  BY DEF TypeOK, Resting
<1>2. Buffers
  BY DEF Buffers, Clean, Cells, LentCells, Resting
<1>3. Identity /\ NothingMadeUp /\ LinkFits /\ Stage
  BY DEF Identity, NothingMadeUp, LinkFits, Stage
<1> QED
  BY <1>1, <1>2, <1>3 DEF RepliesInv

\* No request goes out as -1: without -U the caller's id is used, with or without -o.
LEMMA CredentialsOfOne ==
  ASSUME TypeOK, NEW kind, NEW caller \in Users, Credentials(kind, caller)
  PROVE  /\ ids' \in Users
         /\ kind \notin {"statvfs", "close"} =>
              ids' = IF cfg.uid # NoId /\ ~(cfg.own /\ Foreign(caller)) THEN cfg.uid ELSE caller
BY DEF TypeOK, Credentials, UseCallerId

LEMMA BeginKeeps ==
  ASSUME RepliesInv, NEW kind \in Kinds, NEW caller \in Users, NEW size \in 0..MaxSize,
         Begin(kind, caller, size)
  PROVE  /\ cfg' = cfg /\ given' = Nothing /\ user = Untouched
         /\ status' \in {EIO} \cup 0..MaxSize
         /\ op' = [kind |-> kind, caller |-> caller, size |-> size]
         /\ op' \in [kind : {"none", "stat", "statvfs", "readlink", "open", "read", "close"},
                     caller : Users, size : 0..MaxSize]
         /\ lent' = Lend(kind, size) /\ Clean(lent, LentCells)'
<1>1. pc = "idle" /\ given = Nothing /\ user = Untouched /\ TypeOK
  BY DEF RepliesInv, Stage, Begin
<1>2. op' = [kind |-> kind, caller |-> caller, size |-> size] /\ lent' = Lend(kind, size)
  BY DEF Begin
<1>3. Clean(lent, LentCells)'
  BY <1>2, LendClean DEF LentCells, Cells, Clean
<1> QED
  BY <1>1, <1>2, <1>3 DEF Begin, TypeOK, Kinds

LEMMA IssueKeepsInv ==
  ASSUME RepliesInv, NEW kind \in Kinds, NEW caller \in Users, NEW size \in 0..MaxSize,
         Issue(kind, caller, size)
  PROVE  RepliesInv'
<1> USE RepliesAssumption, Room
<1>1. /\ cfg' = cfg /\ given' = Nothing /\ user = Untouched
      /\ status' \in {EIO} \cup 0..MaxSize
      /\ op' = [kind |-> kind, caller |-> caller, size |-> size]
      /\ op' \in [kind : {"none", "stat", "statvfs", "readlink", "open", "read", "close"},
                  caller : Users, size : 0..MaxSize]
      /\ lent' = Lend(kind, size) /\ Clean(lent, LentCells)'
  BY BeginKeeps DEF Issue
<1>2. TypeOK /\ pc' = "issued" /\ ret' = ret
  BY DEF Issue, RepliesInv
<1>3. user' = Fresh'
  BY <1>1 DEF Issue, Fresh
<1>4. /\ ids' \in Users
      /\ kind \notin {"statvfs", "close"} =>
           ids' = IF cfg.uid # NoId /\ ~(cfg.own /\ Foreign(caller)) THEN cfg.uid ELSE caller
  BY <1>2, CredentialsOfOne DEF Issue
<1>5. Clean(user, Cells)'
  <2>1. CASE kind = "open"
    <3>1. user' = [Untouched EXCEPT ![0] = Null] /\ Cells' = 1
      BY <1>1, <1>3, <2>1 DEF Fresh, Cells
    <3> QED
      BY <3>1, UntouchedMeans DEF Clean
  <2>2. CASE kind # "open"
    BY <1>1, <1>3, <2>2, UntouchedMeans DEF Fresh, Clean
  <2> QED
    BY <2>1, <2>2
<1>6. TypeOK'
  <2>1. DOMAIN lent' = 0..Top /\ DOMAIN user' = 0..Top
    BY <1>1, <1>5 DEF Clean
  <2> QED
    BY <1>1, <1>2, <1>4, <2>1 DEF TypeOK
<1>7. Identity'
  BY <1>1, <1>2, <1>4 DEF Identity, Acting, Foreign
<1>8. Stage'
  BY <1>1, <1>2, <1>3 DEF Stage
<1>9. Buffers' /\ NothingMadeUp' /\ LinkFits'
  BY <1>1, <1>2, <1>5 DEF Buffers, NothingMadeUp, LinkFits
<1> QED
  BY <1>6, <1>7, <1>8, <1>9 DEF RepliesInv

LEMMA ReadNothingKeepsInv ==
  ASSUME RepliesInv, NEW caller \in Users, ReadNothing(caller)
  PROVE  RepliesInv'
<1> USE RepliesAssumption, Room
<1>1. /\ cfg' = cfg /\ given' = Nothing /\ user = Untouched
      /\ status' \in {EIO} \cup 0..MaxSize
      /\ op' = [kind |-> "read", caller |-> caller, size |-> 0]
      /\ op' \in [kind : {"none", "stat", "statvfs", "readlink", "open", "read", "close"},
                  caller : Users, size : 0..MaxSize]
      /\ lent' = Lend("read", 0) /\ Clean(lent, LentCells)'
  BY BeginKeeps DEF ReadNothing, Kinds
<1>2. TypeOK /\ pc' = "returned" /\ ret' = 0 /\ ids' = ids /\ user' = Untouched
  BY <1>1 DEF ReadNothing, RepliesInv
<1>3. TypeOK'
  BY <1>1, <1>2, UntouchedMeans DEF TypeOK, Clean
<1>4. Identity'
  BY <1>1, <1>2 DEF Identity
<1>5. Buffers'
  BY <1>1, <1>2, UntouchedMeans DEF Buffers, Clean
<1>6. Stage'
  BY <1>1, <1>2 DEF Stage, Kinds
<1>7. NothingMadeUp'
  <2>1. op'.kind = "read" /\ op'.size = 0 /\ given'.status = 0
    BY <1>1 DEF Nothing
  <2>2. AtMost(given'.status, op'.size) = 0
    BY <2>1 DEF AtMost
  <2>3. \A i \in 0..Top : user'[i] = "?" /\ ~(i < 0)
    BY <1>2, UntouchedMeans
  <2> QED
    BY <1>2, <2>1, <2>2, <2>3 DEF NothingMadeUp
<1>8. LinkFits'
  BY <1>1 DEF LinkFits
<1> QED
  BY <1>3, <1>4, <1>5, <1>6, <1>7, <1>8 DEF RepliesInv

\* What is left to show of a callback: its buffers, its status and what it was told.
LEMMA RepliedKeepsInv ==
  ASSUME RepliesInv, NEW s, NEW data, Replied(s, data),
         status' \in {EIO} \cup 0..MaxSize,
         Clean(user', Cells), Clean(lent', LentCells), Told'
  PROVE  RepliesInv'
<1>1. /\ cfg' = cfg /\ ids' = ids /\ op' = op /\ ret' = ret
      /\ pc = "issued" /\ pc' = "completed"
  BY DEF Replied
<1>2. TypeOK /\ Identity /\ op.kind \in Kinds
  BY <1>1 DEF RepliesInv, Stage
<1>3. TypeOK'
  BY <1>1, <1>2 DEF TypeOK, Clean
<1>4. Buffers'
  BY <1>1 DEF Buffers, Cells, LentCells
<1>5. Identity'
  BY <1>1, <1>2 DEF Identity, Acting
<1>6. Stage'
  BY <1>1, <1>2 DEF Stage
<1>7. NothingMadeUp' /\ LinkFits'
  BY <1>1 DEF NothingMadeUp, LinkFits
<1> QED
  BY <1>3, <1>4, <1>5, <1>6, <1>7 DEF RepliesInv

\* An operation that waits for its callback.
LEMMA WhenIssued ==
  ASSUME RepliesInv, pc = "issued"
  PROVE  /\ op.kind \in Kinds /\ op.size \in 0..MaxSize /\ Cells \in Nat /\ LentCells \in Nat
         /\ user = Fresh /\ lent = Lend(op.kind, op.size)
         /\ Clean(user, Cells) /\ Clean(lent, LentCells)
BY Room DEF RepliesInv, TypeOK, Stage, Buffers, Cells, LentCells

LEMMA FailureKeepsInv ==
  ASSUME RepliesInv, Refused \/ \E s \in {EIO, 0} : Fails(s)
  PROVE  RepliesInv'
<1>1. CASE Refused
  <2>1. Replied(EIO, <<>>) /\ status' = EIO /\ user' = user /\ lent' = lent
    BY <1>1 DEF Refused, Replied
  <2>2. Told'
    BY <2>1, WhenIssued DEF Replied, Told, Fresh
  <2> QED
    BY <2>1, <2>2, WhenIssued, RepliedKeepsInv DEF Replied
<1>2. ASSUME NEW s \in {EIO, 0}, Fails(s) PROVE RepliesInv'
  <2>1. /\ Replied(s, <<>>) /\ status' = s /\ user' = user /\ lent' = lent
        /\ s = EIO \/ op.kind = "close"
    BY <1>2 DEF Fails
  <2>2. Told'
    BY <2>1, WhenIssued DEF Replied, Told, Fresh
  <2>3. status' \in {EIO} \cup 0..MaxSize
    BY <2>1, Room
  <2> QED
    BY <2>1, <2>2, <2>3, WhenIssued, RepliedKeepsInv DEF Replied
<1> QED
  BY <1>1, <1>2

LEMMA CopyStructKeepsInv ==
  ASSUME RepliesInv, NEW st \in Users, copy_struct_cb(st)
  PROVE  RepliesInv'
<1>1. /\ op.kind \in {"stat", "statvfs"} /\ Replied(0, <<st>>) /\ status' = 0
      /\ lent' = Copy(lent, <<st>>, 1) /\ user' = user
  BY DEF copy_struct_cb
<1>2. LentCells = 1
  BY <1>1 DEF LentCells, Cells
<1>3. Clean(lent', LentCells)
  BY <1>1, <1>2, WhenIssued, CopyClean DEF Replied
<1>4. lent'[0] = st
  BY <1>1, Room, CopyMeans
<1>5. Told'
  BY <1>1, <1>4, WhenIssued DEF Replied, Told, Fresh
<1>6. status' \in {EIO} \cup 0..MaxSize
  BY <1>1, Room
<1> QED
  BY <1>1, <1>3, <1>5, <1>6, WhenIssued, RepliedKeepsInv DEF Replied

LEMMA OpenCbKeepsInv ==
  ASSUME RepliesInv, NEW fh, open_cb(fh)
  PROVE  RepliesInv'
<1>1. /\ op.kind = "open" /\ Replied(0, <<fh>>) /\ status' = 0
      /\ lent' = Copy(lent, <<fh>>, 1) /\ user' = user
  BY DEF open_cb
<1>2. LentCells = 1
  BY <1>1 DEF LentCells, Cells
<1>3. Clean(lent', LentCells)
  BY <1>1, <1>2, WhenIssued, CopyClean DEF Replied
<1>4. lent'[0] = fh
  BY <1>1, Room, CopyMeans
<1>5. Told'
  BY <1>1, <1>4, WhenIssued DEF Replied, Told, Fresh
<1>6. status' \in {EIO} \cup 0..MaxSize
  BY <1>1, Room
<1> QED
  BY <1>1, <1>3, <1>5, <1>6, WhenIssued, RepliedKeepsInv DEF Replied

LEMMA ReadlinkCbKeepsInv ==
  ASSUME RepliesInv, NEW target \in Targets, readlink_cb(target)
  PROVE  RepliesInv'
<1>1. /\ op.kind = "readlink" /\ Replied(0, target) /\ status' = 0
      /\ lent' = Strncat(lent, target, op.size) /\ user' = user
  BY DEF readlink_cb
<1>2. lent = Lend("readlink", op.size) /\ op.size \in 0..MaxSize
  BY <1>1, WhenIssued DEF Replied
<1>3. Clean(lent', LentCells)
  <2>1. lent' = Delivered(target, op.size) /\ target \in Seq(Bytes)
    BY <1>1, <1>2, TargetsAreBytes, StrncatDelivers
  <2> QED
    BY <1>1, <1>2, <2>1, DeliveredClean DEF LentCells
<1>4. Told'
  <2>1. lent' = Delivered(target, op.size) /\ target \in Seq(Bytes)
    BY <1>1, <1>2, TargetsAreBytes, StrncatDelivers
  <2> QED
    BY <1>1, <2>1, WhenIssued DEF Replied, Told, Fresh
<1>5. status' \in {EIO} \cup 0..MaxSize
  BY <1>1, Room
<1> QED
  BY <1>1, <1>3, <1>4, <1>5, WhenIssued, RepliedKeepsInv DEF Replied

LEMMA ReadCbKeepsInv ==
  ASSUME RepliesInv, NEW n \in Nat, NEW data, read_cb(n, data)
  PROVE  RepliesInv'
<1>1. /\ op.kind = "read" /\ Replied(n, data) /\ status' = AtMost(n, op.size)
      /\ user' = Copy(user, data, AtMost(n, op.size)) /\ lent' = lent
  BY DEF read_cb
<1>2. user = Untouched /\ op.size \in 0..MaxSize /\ Cells = op.size
  BY <1>1, WhenIssued DEF Replied, Fresh, Cells
<1>3. AtMost(n, op.size) \in 0..op.size
  BY <1>2, Room DEF AtMost
<1>4. Clean(user', Cells)
  BY <1>1, <1>2, <1>3, WhenIssued, CopyClean DEF Replied
<1>5. Told'
  BY <1>1, <1>2 DEF Replied, Told
<1>6. status' \in {EIO} \cup 0..MaxSize
  BY <1>1, <1>2, <1>3, Room
<1> QED
  BY <1>1, <1>4, <1>5, <1>6, WhenIssued, RepliedKeepsInv DEF Replied

\* What is left to show of an operation that answers.
LEMMA AnswerKeepsInv ==
  ASSUME RepliesInv, NEW r, NEW mem, Answer(r, mem),
         r \in {EIO} \cup 0..MaxSize, Clean(mem, Cells),
         op.kind = "stat" /\ r = 0 => mem[0] = MapUid(given.data[1]),
         NothingMadeUp', op.kind = "readlink" => LinkFits'
  PROVE  RepliesInv'
<1>1. /\ cfg' = cfg /\ ids' = ids /\ op' = op /\ given' = given /\ lent' = lent
      /\ status' = status /\ pc = "completed" /\ pc' = "returned"
      /\ ret' = r /\ user' = mem
  BY DEF Answer
<1>2. TypeOK /\ Identity /\ Buffers /\ op.kind \in Kinds
  BY <1>1 DEF RepliesInv, Stage
<1>3. TypeOK'
  BY <1>1, <1>2 DEF TypeOK, Clean
<1>4. Buffers'
  BY <1>1, <1>2 DEF Buffers, Cells, LentCells
<1>5. Identity'
  BY <1>1, <1>2 DEF Identity, Acting
<1>6. Stage'
  BY <1>1, <1>2 DEF Stage, MapUid
<1>7. LinkFits'
  BY <1>1 DEF LinkFits
<1> QED
  BY <1>3, <1>4, <1>5, <1>6, <1>7 DEF RepliesInv

\* An operation whose callback has run.
LEMMA WhenCompleted ==
  ASSUME RepliesInv, pc = "completed"
  PROVE  /\ Told /\ op.kind \in Kinds /\ op.size \in 0..MaxSize
         /\ Cells \in Nat /\ Clean(user, Cells) /\ Clean(lent, LentCells)
         /\ status \in {EIO} \cup 0..MaxSize
BY Room DEF RepliesInv, TypeOK, Stage, Buffers, Cells

\* The cells that an operation lends are as the code initialises them.
LEMMA FreshMeans ==
  \A i \in 0..Top : Fresh[i] = IF op.kind = "open" /\ i = 0 THEN Null ELSE "?"
BY UntouchedMeans DEF Fresh

LEMMA FailedKeepsInv ==
  ASSUME RepliesInv, Failed
  PROVE  RepliesInv'
<1>1. status < 0 /\ op.kind # "close" /\ Answer(status, user) /\ pc = "completed"
  BY DEF Failed, Answer
<1>2. status = EIO /\ given.status = EIO /\ user = Fresh
  <2>1. Told /\ op.size \in Nat
    BY <1>1, WhenCompleted, Room
  <2>2. ASSUME given.status \in Nat PROVE AtMost(given.status, op.size) >= 0
    BY <2>1, <2>2 DEF AtMost
  <2>3. status # 0 /\ status \in Int
    BY <1>1, WhenCompleted, Room DEF EIO
  <2>4. ~(given.status \in Nat /\ status = AtMost(given.status, op.size))
    BY <1>1, <2>2, <2>3
  <2> QED
    BY <1>1, <2>1, <2>3, <2>4 DEF Told
<1>3. NothingMadeUp'
  <2>1. given' = given /\ op' = op /\ user' = user /\ ret' = EIO
    BY <1>1, <1>2 DEF Answer
  <2>2. \A i \in 0..Top : user'[i] \in {"?", Null}
    BY <1>2, <2>1, FreshMeans
  <2> QED
    BY <1>2, <2>1, <2>2 DEF NothingMadeUp, EIO
<1>4. LinkFits'
  BY <1>1, <1>2 DEF LinkFits, Answer, EIO
<1> QED
  BY <1>1, <1>2, <1>3, <1>4, WhenCompleted, AnswerKeepsInv DEF EIO

\* A structure that came with a success is the one of the server.
LEMMA StructureTold ==
  ASSUME RepliesInv, pc = "completed", op.kind \in {"stat", "statvfs"}, status >= 0
  PROVE  /\ status = 0 /\ given.status = 0 /\ Cells = 1
         /\ given.data[1] \in Users /\ lent[0] = given.data[1]
BY WhenCompleted DEF Told, EIO, Cells

LEMMA GetattrKeepsInv ==
  ASSUME RepliesInv, Getattr
  PROVE  RepliesInv'
<1> DEFINE uid == MapUid(lent[0])
           mem == [user EXCEPT ![0] = uid]
<1>1. op.kind = "stat" /\ status >= 0 /\ pc = "completed" /\ Answer(0, mem)
  BY DEF Getattr, Answer
<1>2. given.status = 0 /\ lent[0] = given.data[1] /\ Cells = 1 /\ Clean(user, 1)
  BY <1>1, StructureTold, WhenCompleted
<1>3. Clean(mem, Cells)
  <2> HIDE DEF uid
  <2> QED
    BY <1>2, Room DEF Clean
<1>4. mem[0] = MapUid(given.data[1])
  BY <1>2, Room DEF Clean
<1> HIDE DEF mem
<1>5. NothingMadeUp'
  <2>1. given' = given /\ op' = op /\ user' = mem /\ ret' = 0
    BY <1>1 DEF Answer
  <2>2. mem[0] \in {given.data[1], op.caller}
    BY <1>4 DEF MapUid
  <2> QED
    BY <1>1, <1>2, <2>1, <2>2 DEF NothingMadeUp
<1> QED
  BY <1>1, <1>3, <1>4, <1>5, Room, AnswerKeepsInv

LEMMA StatfsKeepsInv ==
  ASSUME RepliesInv, Statfs
  PROVE  RepliesInv'
<1> DEFINE mem == [user EXCEPT ![0] = lent[0]]
<1>1. op.kind = "statvfs" /\ status >= 0 /\ pc = "completed" /\ Answer(0, mem)
  BY DEF Statfs, Answer
<1>2. /\ given.status = 0 /\ lent[0] = given.data[1] /\ given.data[1] \in Users
      /\ Cells = 1 /\ Clean(user, 1)
  BY <1>1, StructureTold, WhenCompleted
<1>3. Clean(mem, Cells)
  BY <1>2, Room DEF Clean
<1>4. mem[0] = given.data[1] /\ mem[0] # Null
  BY <1>2, Room, RepliesAssumption DEF Clean, Null
<1> HIDE DEF mem
<1>5. NothingMadeUp'
  <2>1. given' = given /\ op' = op /\ user' = mem /\ ret' = 0
    BY <1>1 DEF Answer
  <2> QED
    BY <1>1, <1>2, <1>4, <2>1 DEF NothingMadeUp
<1> QED
  BY <1>1, <1>3, <1>5, Room, AnswerKeepsInv

LEMMA OpenKeepsInv ==
  ASSUME RepliesInv, Open
  PROVE  RepliesInv'
<1> DEFINE mem == [user EXCEPT ![0] = lent[0]]
<1>1. op.kind = "open" /\ status >= 0 /\ pc = "completed"
  BY DEF Open, Answer
<1>2. /\ given.status = 0 /\ lent[0] = given.data[1] /\ given.data = <<given.data[1]>>
      /\ user = Fresh /\ Cells = 1 /\ Clean(user, 1)
  BY <1>1, WhenCompleted DEF Told, EIO, Cells
<1>3. CASE lent[0] = Null
  <2>1. Answer(EIO, user)
    BY <1>3 DEF Open
  <2>2. NothingMadeUp'
    <3>1. given' = given /\ op' = op /\ user' = user /\ ret' = EIO
      BY <2>1 DEF Answer
    <3>2. \A i \in 0..Top : user'[i] \in {"?", Null}
      BY <1>2, <3>1, FreshMeans
    <3> QED
      BY <1>1, <1>2, <1>3, <3>1, <3>2 DEF NothingMadeUp, EIO
  <2> QED
    BY <1>1, <1>2, <2>1, <2>2, AnswerKeepsInv
<1>4. CASE lent[0] # Null
  <2>1. Answer(0, mem)
    BY <1>4 DEF Open
  <2>2. Clean(mem, Cells)
    <3>1. 0 \in Nat /\ 1 \in Nat /\ 0 < 1 /\ Clean(user, 1)
      BY <1>2
    <3>2. Clean(mem, 1)
      BY <3>1, PutClean
    <3> QED
      BY <1>2, <3>2
  <2>3. mem[0] = given.data[1] /\ mem[0] # Null
    BY <1>2, <1>4, Room DEF Clean
  <2> HIDE DEF mem
  <2>4. NothingMadeUp'
    <3>1. given' = given /\ op' = op /\ user' = mem /\ ret' = 0
      BY <2>1 DEF Answer
    <3> QED
      BY <1>1, <1>2, <2>3, <3>1 DEF NothingMadeUp
  <2> QED
    BY <1>1, <2>1, <2>2, <2>4, Room, AnswerKeepsInv
<1> QED
  BY <1>3, <1>4

LEMMA ReadKeepsInv ==
  ASSUME RepliesInv, Read
  PROVE  RepliesInv'
<1>1. op.kind = "read" /\ status >= 0 /\ pc = "completed" /\ Answer(status, user)
  BY DEF Read, Answer
<1>2. /\ given.status \in Nat /\ status = AtMost(given.status, op.size)
      /\ user = Copy(Untouched, given.data, status)
  BY <1>1, WhenCompleted DEF Told, EIO
<1>3. NothingMadeUp'
  <2>1. given' = given /\ op' = op /\ user' = user /\ ret' = status
    BY <1>1 DEF Answer
  <2>2. \A i \in 0..Top : user[i] = IF i < status THEN given.data[i + 1] ELSE "?"
    <3>1. user = Copy(Untouched, given.data, status)
      BY <1>2
    <3>2. \A i \in 0..Top : Copy(Untouched, given.data, status)[i] =
                              IF i < status THEN given.data[i + 1] ELSE Untouched[i]
      BY CopyMeans
    <3> QED
      BY <3>1, <3>2, UntouchedMeans
  <2>3. /\ op'.kind = "read" /\ given'.status >= 0 /\ ret' >= 0 /\ ~(ret' < 0)
        /\ ret' = AtMost(given'.status, op'.size)
    BY <1>1, <1>2, <2>1, WhenCompleted, Room DEF EIO
  <2>4. \A i \in 0..Top : user'[i] = IF i < ret' THEN given'.data[i + 1] ELSE "?"
    BY <2>1, <2>2
  <2> QED
    BY <2>3, <2>4 DEF NothingMadeUp
<1> QED
  BY <1>1, <1>3, WhenCompleted, AnswerKeepsInv

\* Of a text that is read through both buffers as much is left as fits: the texts that
\* the target begins with come through whole.
LEMMA LinkReadFits ==
  ASSUME NEW size \in 1..MaxSize, NEW data \in Seq(Bytes), NEW cs \in Seq(Bytes), NEW link,
         Len(cs) = AtMost(Len(data), size), Starts(cs, data),
         link \in Seq(Repaired(Bytes)), Starts(link, Lossy(cs)),
         Len(link) = AtMost(Len(Lossy(cs)), size - 1)
  PROVE  /\ Len(link) < size
         /\ data \in Texts =>
              /\ Len(data) < size => link = data
              /\ \A p \in Texts : IsPrefix(p, data) /\ Len(p) < size => IsPrefix(p, link)
<1>1. Len(data) \in Nat /\ Len(link) \in Nat /\ Lossy(cs) \in Seq(Repaired(Bytes))
  BY LossyTyped
<1>2. Len(link) < size
  BY <1>1 DEF AtMost
<1>3. ASSUME data \in Texts, Len(data) < size PROVE link = data
  <2>1. Len(cs) = Len(data)
    BY <1>1, <1>3 DEF AtMost
  <2>2. cs = data
    BY <2>1, SeqEqual DEF Starts
  <2>3. Lossy(cs) = data /\ data \in Seq(Bytes)
    BY <1>3, <2>2, LossyKeepsText
  <2>4. Len(link) = Len(data)
    BY <1>1, <1>3, <2>3 DEF AtMost
  <2>5. \A i \in 1..Len(link) : link[i] = data[i]
    BY <2>3 DEF Starts
  <2>6. data \in Seq(Repaired(Bytes))
    BY <1>1, <2>3
  <2> QED
    BY <2>4, <2>5, <2>6, SeqEqual
<1>4. ASSUME NEW p \in Texts, IsPrefix(p, data), Len(p) < size PROVE IsPrefix(p, link)
  <2>1. p \in Seq(Bytes) /\ Starts(p, data)
    BY <1>4, TextRun, PrefixMeans
  <2>2. Starts(p, cs)
    BY <1>4, <2>1 DEF Starts, AtMost
  <2>3. Starts(p, Lossy(cs))
    BY <2>2, LossyStartsWithText
  <2>4. Starts(p, link)
    BY <1>1, <1>4, <2>1, <2>3 DEF Starts, AtMost
  <2>5. p \in Seq(Repaired(Bytes))
    BY <2>1 DEF Repaired
  <2> QED
    BY <2>4, <2>5, PrefixMeans
<1> QED
  BY <1>2, <1>3, <1>4

\* The repaired target may be longer than the buffer, and the NUL has to fit.
LEMMA ReadlinkKeepsInv ==
  ASSUME RepliesInv, Readlink
  PROVE  RepliesInv'
<1> DEFINE cs == CString(lent, op.size + 1)
           target == Lossy(cs)
           n == AtMost(Len(target), op.size)
           copied == Copy(user, target, n)
           mem == CASE n < op.size -> [copied EXCEPT ![n] = "0"]
                    [] n = op.size /\ op.size > 0 -> [copied EXCEPT ![op.size - 1] = "0"]
                    [] OTHER -> copied
<1>1. op.kind = "readlink" /\ status >= 0 /\ pc = "completed" /\ Answer(0, mem)
  BY DEF Readlink, Answer
<1>2. /\ op.size \in 0..MaxSize /\ Cells = op.size /\ Clean(user, op.size)
      /\ given.status = 0 /\ given.data \in Seq(Bytes) /\ lent = Delivered(given.data, op.size)
  BY <1>1, WhenCompleted DEF Told, Cells, EIO
<1>3. /\ cs \in Seq(Bytes) /\ Len(cs) = AtMost(Len(given.data), op.size)
      /\ Starts(cs, given.data)
  BY <1>2, DeliveredString
<1> HIDE DEF cs
<1>4. target \in Seq(Repaired(Bytes)) /\ Len(target) \in Nat
  BY <1>3, LossyTyped
<1> HIDE DEF target
<1>5. n \in 0..op.size /\ (n < op.size => n = Len(target)) /\ (n = op.size => op.size <= Len(target))
  BY <1>2, <1>4, Room DEF AtMost
<1> HIDE DEF n
<1>6. Clean(copied, op.size)
  BY <1>2, <1>5, Room, CopyClean
<1> HIDE DEF copied
<1>7. /\ n < op.size => mem = [copied EXCEPT ![n] = "0"]
      /\ n = op.size /\ op.size > 0 => mem = [copied EXCEPT ![op.size - 1] = "0"]
      /\ n = op.size /\ ~(op.size > 0) => mem = copied
  <2>1. n \in Int /\ op.size \in Int
    BY <1>2, <1>5, Room
  <2> QED
    BY <2>1
<1> HIDE DEF mem
<1>8. Clean(mem, Cells)
  <2>1. CASE n < op.size
    <3>1. n \in Nat /\ op.size \in Nat
      BY <1>2, <1>5
    <3>2. Clean([copied EXCEPT ![n] = "0"], op.size)
      BY <1>6, <2>1, <3>1, PutClean
    <3> QED
      BY <1>2, <1>7, <2>1, <3>2
  <2>2. CASE n = op.size /\ op.size > 0
    <3>1. op.size - 1 \in Nat /\ op.size - 1 < op.size /\ op.size \in Nat
      BY <1>2, <2>2
    <3>2. Clean([copied EXCEPT ![op.size - 1] = "0"], op.size)
      BY <1>6, <3>1, PutClean
    <3> QED
      BY <1>2, <1>7, <2>2, <3>1, <3>2
  <2>3. CASE n = op.size /\ ~(op.size > 0)
    BY <1>2, <1>6, <1>7, <2>3
  <2> QED
    BY <1>2, <1>5, <2>1, <2>2, <2>3
<1>9. LinkFits'
  <2>1. given' = given /\ op' = op /\ user' = mem
    BY <1>1 DEF Answer
  <2>2. CASE op.size = 0
    BY <2>1, <2>2 DEF LinkFits
  <2>3. CASE op.size > 0
    <3> DEFINE m == AtMost(Len(target), op.size - 1)
    <3>1. /\ op.size \in Nat /\ m \in Nat /\ m < op.size /\ m <= Len(target) /\ m <= n
          /\ m \in 0..Top
          /\ m = IF n < op.size THEN n ELSE op.size - 1
      BY <1>2, <1>4, <1>5, <2>3, Room DEF AtMost
    <3> HIDE DEF m
    <3>2. mem = [copied EXCEPT ![m] = "0"] /\ copied = Copy(user, target, n)
      BY <1>2, <1>5, <1>7, <2>3, <3>1 DEF copied
    <3>3. mem[m] = "0" /\ \A i \in 0..(m - 1) : mem[i] = target[i + 1]
      <4>1. copied = [i \in 0..Top |-> IF i < n THEN target[i + 1] ELSE user[i]]
        BY <3>2 DEF Copy
      <4>2. m \in DOMAIN copied
        BY <3>1, <4>1
      <4>3. mem[m] = "0"
        BY <3>2, <4>2
      <4>4. ASSUME NEW i \in 0..(m - 1) PROVE mem[i] = target[i + 1]
        <5>1. i \in 0..Top /\ i # m /\ i < n
          BY <1>5, <3>1, Room
        <5>2. copied[i] = target[i + 1]
          BY <4>1, <5>1
        <5> QED
          BY <3>2, <4>1, <5>1, <5>2
      <4> QED
        BY <4>3, <4>4
    <3>4. "0" \notin Repaired(Bytes) /\ op.size \in 1..MaxSize
      BY <1>2, <2>3, Room DEF Repaired, Bytes
    <3> DEFINE link == CString(mem, op.size)
    <3>5. /\ link \in Seq(Repaired(Bytes)) /\ Len(link) = AtMost(Len(target), op.size - 1)
          /\ Starts(link, target)
      BY <1>4, <3>1, <3>3, <3>4, StringStarts DEF m
    <3> HIDE DEF link
    <3>6. /\ Len(link) < op.size
          /\ given.data \in Texts =>
               /\ Len(given.data) < op.size => link = given.data
               /\ \A p \in Texts :
                    IsPrefix(p, given.data) /\ Len(p) < op.size => IsPrefix(p, link)
      BY <1>2, <1>3, <3>4, <3>5, LinkReadFits DEF target
    <3>7. link = CString(user', op'.size)
      BY <2>1 DEF link
    <3> QED
      BY <2>1, <3>6, <3>7 DEF LinkFits
  <2> QED
    BY <1>2, <2>2, <2>3, Room
<1>10. NothingMadeUp'
  <2>1. given' = given /\ op' = op /\ ret' = 0
    BY <1>1 DEF Answer
  <2> QED
    BY <1>1, <1>2, <2>1 DEF NothingMadeUp
<1> QED
  BY <1>1, <1>8, <1>9, <1>10, Room, AnswerKeepsInv

LEMMA ReleaseKeepsInv ==
  ASSUME RepliesInv, Release
  PROVE  RepliesInv'
<1>1. op.kind = "close" /\ pc = "completed" /\ Answer(0, user)
  BY DEF Release, Answer
<1>2. NothingMadeUp'
  BY <1>1 DEF Answer, NothingMadeUp
<1> QED
  BY <1>1, <1>2, Room, WhenCompleted, AnswerKeepsInv

LEMMA RestKeepsInv ==
  ASSUME RepliesInv, Rest
  PROVE  RepliesInv'
<1> USE RepliesAssumption, Room, UntouchedMeans DEF Rest
<1>1. TypeOK'
  BY DEF RepliesInv, TypeOK, Resting
<1>2. Buffers'
  BY DEF Buffers, Clean, Cells, LentCells, Resting
<1>3. Identity' /\ NothingMadeUp' /\ LinkFits' /\ Stage'
  BY DEF Identity, NothingMadeUp, LinkFits, Stage
<1> QED
  BY <1>1, <1>2, <1>3 DEF RepliesInv

LEMMA StutterKeepsInv ==
  ASSUME RepliesInv, UNCHANGED vars
  PROVE  RepliesInv'
<1> USE DEF vars
<1>1. TypeOK'
  BY DEF RepliesInv, TypeOK
<1>2. Buffers'
  BY DEF RepliesInv, Buffers, Clean, Cells, LentCells
<1>3. Identity' /\ NothingMadeUp' /\ LinkFits'
  BY DEF RepliesInv, Identity, Acting, NothingMadeUp, LinkFits
<1>4. Stage'
  BY DEF RepliesInv, Stage, Fresh, Told, MapUid
<1> QED
  BY <1>1, <1>2, <1>3, <1>4 DEF RepliesInv

LEMMA StepReplies == RepliesInv /\ [Next]_vars => RepliesInv'
<1> SUFFICES ASSUME RepliesInv, [Next]_vars PROVE RepliesInv'
  OBVIOUS
<1>1. ASSUME NEW kind \in {"stat", "statvfs", "open", "close"}, NEW u \in Users,
             Issue(kind, u, 0)
      PROVE  RepliesInv'
  BY <1>1, Room, IssueKeepsInv DEF Kinds
<1>2. ASSUME NEW kind \in {"readlink", "read"}, NEW u \in Users, NEW size \in 0..MaxSize,
             Issue(kind, u, size)
      PROVE  RepliesInv'
  BY <1>2, IssueKeepsInv DEF Kinds
<1>3. ASSUME NEW u \in Users, ReadNothing(u) PROVE RepliesInv'
  BY <1>3, ReadNothingKeepsInv
<1>4. CASE Refused \/ \E s \in {EIO, 0} : Fails(s)
  BY <1>4, FailureKeepsInv
<1>5. ASSUME NEW st \in Users, copy_struct_cb(st) PROVE RepliesInv'
  BY <1>5, CopyStructKeepsInv
<1>6. ASSUME NEW target \in Targets, readlink_cb(target) PROVE RepliesInv'
  BY <1>6, ReadlinkCbKeepsInv
<1>7. ASSUME NEW fh \in {Null, "fh"}, open_cb(fh) PROVE RepliesInv'
  BY <1>7, OpenCbKeepsInv
<1>8. ASSUME NEW n \in 0..(MaxSize + 1), read_cb(n, FileBytes(n)) PROVE RepliesInv'
  <2>1. n \in Nat
    BY Room
  <2> QED
    BY <1>8, <2>1, ReadCbKeepsInv
<1>9. CASE Failed \/ Getattr \/ Statfs \/ Readlink \/ Open \/ Read \/ Release
  BY <1>9, FailedKeepsInv, GetattrKeepsInv, StatfsKeepsInv, ReadlinkKeepsInv,
     OpenKeepsInv, ReadKeepsInv, ReleaseKeepsInv
<1>10. CASE Rest
  BY <1>10, RestKeepsInv
<1>11. CASE UNCHANGED vars
  BY <1>11, StutterKeepsInv
<1> QED
  BY <1>1, <1>2, <1>3, <1>4, <1>5, <1>6, <1>7, <1>8, <1>9, <1>10, <1>11 DEF Next

-------------------------------------------------------------------------------
(* The theorems. *)

\* At every stage of an operation the buffers hold what was lent, what the server
\* delivered, or nothing, and the request carries the identity of its caller.
THEOREM RepliesInvariance == Spec => []RepliesInv
<1>1. Init => RepliesInv
  BY InitReplies
<1>2. RepliesInv /\ [Next]_vars => RepliesInv'
  BY StepReplies
<1> QED
  BY <1>1, <1>2, PTL DEF Spec

\* The state of the data path keeps its types.
THEOREM RepliesTypeCorrect == Spec => []TypeOK
<1>1. RepliesInv => TypeOK
  BY DEF RepliesInv
<1> QED
  BY <1>1, RepliesInvariance, PTL

\* For buffers of every size and replies of every length, no callback of libnfs and
\* no operation writes past the buffer it was lent.
THEOREM WritesStayInBounds == Spec => []InBounds
<1>1. RepliesInv => InBounds
  BY DEF RepliesInv, Buffers, Clean, InBounds, LentCells, Cells
<1> QED
  BY <1>1, RepliesInvariance, PTL

\* For links and buffers of every length, what readlink returns is a terminated string,
\* and of a UTF-8 target it holds every whole character that fits.
THEOREM LinksComeThrough == Spec => []LinkFits
<1>1. RepliesInv => LinkFits
  BY DEF RepliesInv
<1> QED
  BY <1>1, RepliesInvariance, PTL

\* What an operation returns and puts into the buffer is what the server said.
THEOREM AnswersAreTheServers == Spec => []NothingMadeUp
<1>1. RepliesInv => NothingMadeUp
  BY DEF RepliesInv
<1> QED
  BY <1>1, RepliesInvariance, PTL

\* Whatever operation went before on the context, a request goes out under the id its
\* caller acts under, and the files of that id are shown as the caller's.
THEOREM RequestsActAsTheirCaller == Spec => []OneIdentity
<1>1. RepliesInv => OneIdentity
  <2> SUFFICES ASSUME RepliesInv PROVE OneIdentity
    OBVIOUS
  <2>1. pc = "issued" /\ op.kind \in {"stat", "readlink", "open", "read"} => ids = Acting
    BY DEF RepliesInv, Identity
  <2>2. ASSUME pc = "returned", op.kind = "stat", ret = 0
        PROVE  /\ given.data[1] = ids => user[0] = op.caller
               /\ user[0] = op.caller => given.data[1] \in {op.caller, cfg.uid}
    <3>1. ids = Acting /\ user[0] = MapUid(given.data[1])
      BY <2>2 DEF RepliesInv, Identity, Stage
    <3> QED
      BY <3>1 DEF Acting, MapUid
  <2> QED
    BY <2>1, <2>2 DEF OneIdentity, Acting
<1> QED
  BY <1>1, RepliesInvariance, PTL

=================================================================================
