----------------------------------- MODULE Cli -----------------------------------
(***************************************************************************)
(* The option parser of cli.rs that stands in for getopt_long(): Parser    *)
(* and next_command(), as both programs use it.  An argument is a sequence *)
(* of characters; a command is an option letter with its value (<<>> for   *)
(* none, as its callers do).  One call of next_command() is one or two of  *)
(* the steps below.  `pending` is empty between calls, except after a      *)
(* malformed option, and then both callers stop; so it is no variable.     *)
(***************************************************************************)
EXTENDS Integers, FiniteSets, SequencesExt

CONSTANTS GoodType(_),  \* the values of -F that name a backend
          GoodTable(_)  \* check_ident(): the values of -Z that are identifiers

VARIABLES specs, args, idx, done, queue,  \* the fields of Parser; idx counts from 1
          got,                      \* history: the commands returned
          over                      \* "no", or how the caller's loop ended

cliVars == <<specs, args, idx, done, queue, got, over>>

\* A table of OptSpecs.
Unambiguous(table) ==
  /\ IsFiniteSet(table)
  /\ \A s \in table : s \in [short : STRING \ {"none"}, long : Seq(STRING), arg : BOOLEAN]
  /\ \A s, t \in table : s.short = t.short \/ s.long = t.long => s = t

\* Command lines: sequences of arguments, which are sequences of characters.
AreLines(lines) == \A line \in lines : line \in Seq(Seq(STRING))

Dash == "-"
Known(table, c) == \E s \in table : s.short = c
Takes(table, c) == \E s \in table : s.short = c /\ s.arg
Opt(c, v) == [opt |-> c, val |-> v]

\* find_long(): the exact name, or every option the name is a prefix of.
find_long(table, name) ==
  LET exact == {s \in table : s.long = name} IN
    IF exact # {} THEN exact
    ELSE {s \in table : name # <<>> /\ IsPrefix(name, s.long)}

Dashes == <<Dash, Dash>>
IsLong(a) == IsPrefix(Dashes, a) /\ a # Dashes
IsCluster(a) == Len(a) > 1 /\ a[1] = Dash /\ a[2] # Dash

\* split_once('='): where the value of a long option begins, 0 without one.
Equals(a) == SelectInSeq(a, LAMBDA c : c = "=")
LongName(a) == SubSeq(a, 3, IF Equals(a) = 0 THEN Len(a) ELSE Equals(a) - 1)
Inline(a) == SubSeq(a, Equals(a) + 1, Len(a))

CliInit(table, lines) ==
  /\ specs = table /\ args \in lines
  /\ idx = 1 /\ done = FALSE /\ queue = <<>>
  /\ got = <<>> /\ over = "no"
----------------------------------------------------------------------------------
Cur == args[idx]
Parsing == over = "no" /\ queue = <<>> /\ ~done /\ idx <= Len(args)
HasNext == idx < Len(args)

Give(cmd, n) ==
  /\ got' = Append(got, cmd) /\ idx' = idx + n
  /\ UNCHANGED <<specs, args, done, queue, over>>

Malformed(n) ==
  /\ over' = "unknown" /\ idx' = idx + n
  /\ UNCHANGED <<specs, args, done, queue, got>>

FromQueue ==
  /\ over = "no" /\ queue # <<>>
  /\ got' = Append(got, Head(queue)) /\ queue' = Tail(queue)
  /\ UNCHANGED <<specs, args, idx, done, over>>

NoMore ==
  /\ over = "no" /\ queue = <<>> /\ (done \/ idx > Len(args))
  /\ over' = "end"
  /\ UNCHANGED <<specs, args, idx, done, queue, got>>

DashDash ==
  /\ Parsing /\ Cur = Dashes
  /\ idx' = idx + 1 /\ done' = TRUE
  /\ UNCHANGED <<specs, args, queue, got, over>>

\* A long option; `=value` is ignored where none is taken.
Long ==
  /\ Parsing /\ IsLong(Cur)
  /\ \E s \in find_long(specs, LongName(Cur)) :
       /\ Cardinality(find_long(specs, LongName(Cur))) = 1
       /\ \/ ~s.arg /\ Give(Opt(s.short, <<>>), 1)
          \/ s.arg /\ Equals(Cur) # 0 /\ Give(Opt(s.short, Inline(Cur)), 1)
          \/ s.arg /\ Equals(Cur) = 0 /\ HasNext /\ Give(Opt(s.short, args[idx + 1]), 2)
          \/ s.arg /\ Equals(Cur) = 0 /\ ~HasNext /\ Malformed(1)

LongUnknown ==
  /\ Parsing /\ IsLong(Cur)
  /\ Cardinality(find_long(specs, LongName(Cur))) # 1
  /\ Malformed(1)

\* The flags of a cluster, and the first letter that is not one (0 for none).
Letters == Tail(Cur)
Stop == SelectInSeq(Letters, LAMBDA c : ~Known(specs, c) \/ Takes(specs, c))
Flags(n) == [i \in 1..n |-> Opt(Letters[i], <<>>)]

ClusterOfFlags ==
  /\ Parsing /\ IsCluster(Cur) /\ Stop = 0
  /\ queue' = Flags(Len(Letters)) /\ idx' = idx + 1
  /\ UNCHANGED <<specs, args, done, got, over>>

\* Mutant of Deliver: the option with a value overtakes the flags before it.
DeliverAtOnce(v, n) ==
  /\ got' = Append(got, Opt(Letters[Stop], v)) /\ queue' = Flags(Stop - 1)
  /\ idx' = idx + n
  /\ UNCHANGED <<specs, args, done, over>>

\* The flags before it are returned first.
Deliver(v, n) ==
  LET all == Append(Flags(Stop - 1), Opt(Letters[Stop], v)) IN
    /\ got' = Append(got, Head(all)) /\ queue' = Tail(all) /\ idx' = idx + n
    /\ UNCHANGED <<specs, args, done, over>>

\* The rest of the cluster, or else the next argument, is the value.
ClusterValue ==
  /\ Parsing /\ IsCluster(Cur) /\ Stop # 0 /\ Takes(specs, Letters[Stop])
  /\ \/ Stop < Len(Letters) /\ Deliver(SubSeq(Letters, Stop + 1, Len(Letters)), 1)
     \/ Stop = Len(Letters) /\ HasNext /\ Deliver(args[idx + 1], 2)
     \/ Stop = Len(Letters) /\ ~HasNext /\ Malformed(0)

ClusterUnknown ==
  /\ Parsing /\ IsCluster(Cur) /\ Stop # 0 /\ ~Known(specs, Letters[Stop])
  /\ Malformed(0)

\* Mutant of Positional: options go on after the first positional argument,
\* which the parser does not get past.
PositionalSkipped ==
  /\ Parsing /\ Cur # Dashes /\ ~IsLong(Cur) /\ ~IsCluster(Cur)
  /\ UNCHANGED cliVars

\* Anything else ends the options, "-" and "" included.
Positional ==
  /\ Parsing /\ Cur # Dashes /\ ~IsLong(Cur) /\ ~IsCluster(Cur)
  /\ done' = TRUE
  /\ UNCHANGED <<specs, args, idx, queue, got, over>>

CliNext == \/ FromQueue \/ NoMore
           \/ DashDash \/ Long \/ LongUnknown
           \/ ClusterOfFlags \/ ClusterValue \/ ClusterUnknown
           \/ Positional

\* What the callers ask of the commands they were given: the last one counts.
Given(c) == \E i \in DOMAIN got : got[i].opt = c
Value(c) == got[SelectLastInSeq(got, LAMBDA g : g.opt = c)].val
Helped == got # <<>> /\ Last(got).opt = "?"

\* parse_i64(): the longest numeric prefix after blanks; 0 if there is none.  (One
\* of more than 18 digits is 0 as well; no line here has as many.)
Numerals == <<"0", "1", "2", "3", "4", "5", "6", "7", "8", "9">>
Digit(c) == SelectInSeq(Numerals, LAMBDA d : d = c) - 1  \* -1 for another character

\* The first position from n on of a character that is not in the set.
Past(s, n, chars) ==
  CHOOSE i \in n..(Len(s) + 1) :
    /\ i = Len(s) + 1 \/ s[i] \notin chars
    /\ \A j \in n..(i - 1) : s[j] \in chars

\* For each i, the number that the first i of the digits are.
Number10(digits) ==
  LET value[i \in 0..Len(digits)] ==
        IF i = 0 THEN 0 ELSE 10 * value[i - 1] + Digit(digits[i])
  IN  value

parse_i64(s) ==
  LET start == Past(s, 1, {" "})
      signed == start <= Len(s) /\ s[start] \in {"+", Dash}
      first == IF signed THEN start + 1 ELSE start
      digits == SubSeq(s, first, Past(s, first, {Numerals[i] : i \in 1..10}) - 1)
      size == Number10(digits)[Len(digits)]
  IN  IF signed /\ s[start] = Dash THEN -size ELSE size
----------------------------------------------------------------------------------
(* What getopt_long() makes of a command line: it reads from left to right, *)
(* letter by letter, and never looks ahead.                                 *)

\* out: the options so far; want: an option waits for its value, text is what
\* there is of it; stop: the options are over; bad: by an error.
State(out, want, text, stop, bad) ==
  [out |-> out, want |-> want, text |-> text, stop |-> stop, bad |-> bad]
Begin == State(<<>>, "none", <<>>, FALSE, FALSE)
Emit(st, c, v) == State(Append(st.out, Opt(c, v)), "none", <<>>, st.stop, st.bad)
Await(st, c) == State(st.out, c, st.text, st.stop, st.bad)
Collect(st, c) == State(st.out, st.want, Append(st.text, c), st.stop, st.bad)
Finish(st) == State(st.out, st.want, st.text, TRUE, st.bad)
Refuse(st) == State(st.out, st.want, st.text, TRUE, TRUE)

ReadLetter(table, st, c) ==
  IF st.stop THEN st
  ELSE IF st.want # "none" THEN Collect(st, c)
  ELSE IF Takes(table, c) THEN Await(st, c)
  ELSE IF Known(table, c) THEN Emit(st, c, <<>>)
  ELSE Refuse(st)

\* After each letter of a cluster.
ReadLetters(table, st, letters) ==
  LET read[i \in 0..Len(letters)] ==
        IF i = 0 THEN st ELSE ReadLetter(table, read[i - 1], letters[i])
  IN  read

ReadCluster(table, st, a) ==
  LET after == ReadLetters(table, st, Tail(a))[Len(a) - 1] IN
    IF after.text # <<>> THEN Emit(after, after.want, after.text) ELSE after

ReadLong(table, st, a) ==
  LET hits == find_long(table, LongName(a)) IN
    IF Cardinality(hits) # 1 THEN Refuse(st)
    ELSE LET s == CHOOSE s \in hits : TRUE IN
           CASE ~s.arg -> Emit(st, s.short, <<>>)
             [] s.arg /\ Equals(a) # 0 -> Emit(st, s.short, Inline(a))
             [] OTHER -> Await(st, s.short)

ReadArgument(table, st, a) ==
  IF st.stop THEN st
  ELSE IF st.want # "none" THEN Emit(st, st.want, a)
  ELSE IF IsLong(a) THEN ReadLong(table, st, a)
  ELSE IF IsCluster(a) THEN ReadCluster(table, st, a)
  ELSE Finish(st)

ReadArguments(table, line) ==
  LET read[i \in 0..Len(line)] ==
        IF i = 0 THEN Begin ELSE ReadArgument(table, read[i - 1], line[i])
  IN  read

Getopt(table, line) ==
  LET st == ReadArguments(table, line)[Len(line)] IN
    IF st.want # "none" THEN Refuse(st) ELSE st

\* What a program is asked by such options: the last one of a kind counts.
Named(asked, c) == \E i \in DOMAIN asked : asked[i].opt = c
LastOf(asked, c) == asked[SelectLastInSeq(asked, LAMBDA g : g.opt = c)].val

\* Whatever is clustered, attached, separate or abbreviated, the parser returns
\* the options of getopt_long(), each with its own value, in the order they were
\* given, and calls the same command lines malformed.  Of a malformed one at most
\* flags without a value are missing: those that stand before the bad letter in its
\* cluster, which cli.rs drops where getopt_long() would have returned them.
LikeGetopt ==
  LET ref == Getopt(specs, args) IN
    /\ IsPrefix(got, ref.out)
    /\ over = "end" => got = ref.out /\ ~ref.bad
    /\ over = "unknown" =>
         ref.bad /\ \A i \in (Len(got) + 1)..Len(ref.out) : ref.out[i].val = <<>>
==================================================================================
