-------------------------------- MODULE ListFile --------------------------------
(***************************************************************************)
(* The list file between the two halves of yourfs-tool: walk() of scan.rs  *)
(* writes one row per entry of a local tree, and main() of yourfs_tool.rs  *)
(* reads it back line by line through parse_row().  Characters are         *)
(* abstract: a few letters, and those the format treats specially.  The    *)
(* file is written through a buffer, and the disk may be full.             *)
(***************************************************************************)
EXTENDS Naturals, SequencesExt

CONSTANTS Letters,    \* the characters that mean nothing to the format
          Trees,      \* the trees a scan may meet: sets of entries
          Width,      \* FIELD_WIDTH
          Capacity,   \* of BufWriter: longer than any field
          Rooms(_),   \* the room on the disk that a scan of a tree may find
          Enough      \* more than any list needs

Slash == "/"
Space == " "
Quote == "'"          \* stands for the double quote
Backslash == "\\"
Newline == "nl"
Raw == "raw"          \* bytes that are not UTF-8
Special == {Slash, Space, Quote, Backslash, Newline, Raw}
Chars == Letters \cup Special
Blank == {Space, Newline}

\* An entry is the sequence of the names on the way to it from the scan root; a
\* directory of the tree is an entry that others extend.
Dir(e) == Front(e)
IsTree(entries) ==
  \A e \in entries : /\ e \in Seq(Seq(Chars \ {Slash}) \ {<<>>}) /\ e # <<>>
                     /\ \A n \in 1..Len(e) : SubSeq(e, 1, n) \in entries

VARIABLES tree,       \* the local tree
          stack,      \* the entries each open directory of walk() has yet to give
          buf,        \* what the writer has buffered
          text,       \* the list file, as far as it is on the disk
          room,       \* how much more the disk takes
          freed,      \* history: it was given room while the scan went on
          scan,       \* "walking", or how the scan ended
          at,         \* how much of it main() has read, after a scan that ended well
          loaded,     \* the rows given to Writer::insert
          skipped     \* the malformed rows counted

fileVars == <<buf, text, room, freed, scan>>
vars == <<tree, stack, fileVars, at, loaded, skipped>>

Children(e) == {c \in tree : Len(c) = Len(e) + 1 /\ Dir(c) = e}
---------------------------------------------------------------------------------
(* Writing a row. *)

Join(e) == FlattenSeq([i \in DOMAIN e |-> <<Slash>> \o e[i]])
PathOf(e) == IF e = <<>> THEN <<Slash>> ELSE Join(e)

\* split_path() gives the directory and the name back.
RowOf(e) == <<PathOf(Dir(e)), Last(e), PathOf(e)>>

Spaces(n) == [i \in 1..n |-> Space]

\* Mutant of Escape: only the quote is escaped.
EscapeQuote(c) == IF c = Quote THEN <<Backslash, c>> ELSE <<c>>

Escape(c) == IF c \in {Quote, Backslash} THEN <<Backslash, c>> ELSE <<c>>

pad_field(s) ==
  IF \E i \in DOMAIN s : s[i] \in Blank \cup {Quote, Backslash}
    THEN <<Quote>> \o FlattenSeq([i \in DOMAIN s |-> Escape(s[i])]) \o <<Quote>>
    ELSE s \o Spaces(IF Len(s) < Width THEN Width - Len(s) ELSE 0)

\* A row is written piece by piece.
Pieces(e) == LET row == RowOf(e) IN
  <<pad_field(row[1]), Spaces(2), pad_field(row[2]), Spaces(2), pad_field(row[3]), <<Newline>>>>

ASSUME ListFileAssumption ==
  /\ Letters \cap Special = {}
  /\ Width \in Nat /\ Capacity \in Nat /\ Enough \in Nat
  /\ \A entries \in Trees :
       /\ IsTree(entries) /\ Rooms(entries) \subseteq 0..Enough
       /\ \A e \in entries : \A i \in 1..6 : Len(Pieces(e)[i]) < Capacity

\* flush_buf(): what does not fit on the disk stays in the buffer.
Flush(st) ==
  LET n == IF Len(st.buf) <= st.room THEN Len(st.buf) ELSE st.room
  IN  [text |-> st.text \o SubSeq(st.buf, 1, n), buf |-> SubSeq(st.buf, n + 1, Len(st.buf)),
       room |-> st.room - n, ok |-> n = Len(st.buf)]

\* The buffer is flushed when the next piece does not fit into it; an error leaves
\* the piece, and the rest of the row, unwritten.
WritePiece(st, piece) ==
  LET ready == IF Len(st.buf) + Len(piece) > Capacity THEN Flush(st) ELSE st
  IN  IF st.ok /\ ready.ok THEN [ready EXCEPT !.buf = @ \o piece]
      ELSE IF st.ok THEN ready ELSE st

Writer == [text |-> text, buf |-> buf, room |-> room, ok |-> TRUE]

\* The writer after each of the pieces of a row.
WriteRow(st, pieces) ==
  LET after[i \in 0..Len(pieces)] ==
        IF i = 0 THEN st ELSE WritePiece(after[i - 1], pieces[i])
  IN  after
---------------------------------------------------------------------------------
(* Reading a row. *)

\* The state of parse_row() between two characters; "esc" is a backslash whose
\* next character it has yet to peek at.
Start == [cols |-> <<>>, cur |-> <<>>, field |-> FALSE, mode |-> "plain"]

Push(st, s) == [st EXCEPT !.cur = @ \o s]
EndField(st) == IF ~st.field THEN st
                ELSE [st EXCEPT !.cols = Append(@, st.cur), !.cur = <<>>, !.field = FALSE]

ParseChar(st, c) ==
  IF st.mode = "esc"
    THEN LET kept == IF c \in Blank \cup {Quote, Backslash} THEN <<c>> ELSE <<Backslash, c>>
         IN  [Push(st, kept) EXCEPT !.mode = "quoted"]
  ELSE IF st.mode = "quoted"
    THEN CASE c = Backslash -> [st EXCEPT !.mode = "esc"]
           [] c = Quote -> [st EXCEPT !.mode = "plain"]
           [] c \notin {Backslash, Quote} -> Push(st, <<c>>)
  ELSE CASE c = Quote -> [st EXCEPT !.mode = "quoted", !.field = TRUE]
         [] c \in Blank -> EndField(st)
         [] c \notin Blank \cup {Quote} -> [Push(st, <<c>>) EXCEPT !.field = TRUE]

\* After each character of a line.
Parse(line) ==
  LET after[i \in 0..Len(line)] ==
        IF i = 0 THEN Start ELSE ParseChar(after[i - 1], line[i])
  IN  after

\* The columns of a line, however many there are.
parse_row(line) ==
  LET st == Parse(line)[Len(line)]
  IN  EndField(IF st.mode = "esc" THEN Push(st, <<Backslash>>) ELSE st).cols
---------------------------------------------------------------------------------
Init ==
  /\ tree \in Trees
  /\ stack = <<{e \in tree : Len(e) = 1}>>
  /\ buf = <<>> /\ text = <<>> /\ room \in Rooms(tree) /\ freed = FALSE
  /\ scan = "walking"
  /\ at = 0 /\ loaded = {} /\ skipped = 0

Top == Last(stack)
Utf8(name) == ~Contains(name, Raw)

\* walk() takes the next entry of the directory it is in, writes its row, whether or
\* not that succeeds, and goes down into it.  An entry that is not UTF-8 is left out
\* with all below it; a directory that cannot be read is one without entries.
Walk ==
  /\ stack # <<>> /\ Top # {}
  /\ \E e \in Top :
       LET rest == Append(Front(stack), Top \ {e}) IN
         IF Utf8(Last(e))
           THEN /\ LET end == WriteRow(Writer, Pieces(e))[6] IN
                     buf' = end.buf /\ text' = end.text /\ room' = end.room
                /\ stack' = Append(rest, Children(e))
           ELSE /\ UNCHANGED <<buf, text, room>>
                /\ stack' = rest
  /\ UNCHANGED <<tree, freed, scan, at, loaded, skipped>>

\* The directory is through.
WalkUp ==
  /\ stack # <<>> /\ Top = {}
  /\ stack' = Front(stack)
  /\ UNCHANGED <<tree, fileVars, at, loaded, skipped>>

\* Mutant of EndScan: the result of the last flush is dropped as well.
EndScanBlind ==
  /\ stack = <<>> /\ scan = "walking"
  /\ LET end == Flush(Writer) IN buf' = end.buf /\ text' = end.text /\ room' = end.room
  /\ scan' = "ok"
  /\ UNCHANGED <<tree, stack, freed, at, loaded, skipped>>

\* The result of the scan is that of the last flush.
EndScan ==
  /\ stack = <<>> /\ scan = "walking"
  /\ LET end == Flush(Writer) IN
       /\ buf' = end.buf /\ text' = end.text /\ room' = end.room
       /\ scan' = IF end.ok THEN "ok" ELSE "failed"
  /\ UNCHANGED <<tree, stack, freed, at, loaded, skipped>>

\* Somebody makes room on a full disk.
FreeRoom ==
  /\ room = 0 /\ scan = "walking"
  /\ room' = Enough /\ freed' = TRUE
  /\ UNCHANGED <<tree, stack, buf, text, scan, at, loaded, skipped>>

\* Mutant of Load: columns are taken as they come.
LoadAny(cols, line) ==
  loaded' = loaded \cup {cols} /\ UNCHANGED skipped

\* A row of three columns is inserted, any other counted unless it is blank.
Load(cols, line) ==
  IF Len(cols) = 3
    THEN loaded' = loaded \cup {cols} /\ UNCHANGED skipped
    ELSE /\ skipped' = skipped + (IF \E i \in DOMAIN line : line[i] \notin Blank THEN 1 ELSE 0)
         /\ UNCHANGED loaded

\* main() reads one line; the last need not end in a newline.
ReadLine ==
  /\ scan = "ok" /\ at < Len(text)
  /\ \E end \in (at + 1)..Len(text) :
       /\ text[end] = Newline \/ end = Len(text)
       /\ \A i \in (at + 1)..(end - 1) : text[i] # Newline
       /\ LET line == SubSeq(text, at + 1, IF text[end] = Newline THEN end - 1 ELSE end)
          IN  Load(parse_row(line), line)
       /\ at' = end
  /\ UNCHANGED <<tree, stack, fileVars>>

Over == scan = "ok" /\ at = Len(text)
Finished == (Over \/ scan = "failed") /\ UNCHANGED vars

Next == Walk \/ WalkUp \/ EndScan \/ FreeRoom \/ ReadLine \/ Finished

Spec == Init /\ [][Next]_vars
---------------------------------------------------------------------------------
(* Properties *)

TypeOK ==
  /\ tree \in Trees
  /\ stack \in Seq(SUBSET tree)
  /\ buf \in Seq(Chars) /\ Len(buf) <= Capacity
  /\ room \in 0..Enough /\ freed \in BOOLEAN /\ scan \in {"walking", "ok", "failed"}
  /\ text \in Seq(Chars) /\ at \in 0..Len(text)
  /\ \A row \in loaded : row \in Seq(Seq(Chars)) /\ Len(row) = 3
  /\ skipped \in 0..Len(text)

HasNewline(e) == \E i \in DOMAIN e : Contains(e[i], Newline)
Representable(e) == ~HasNewline(e) /\ \A i \in DOMAIN e : Utf8(e[i])

\* Once the file is read, every entry with a name the format can represent has
\* been given to the database, unaltered, whatever its name is made of and
\* whatever stands next to it: quoting and splitting undo each other (pad_field
\* and parse_row), and a row that cannot be read back costs no other row.  A disk that
\* is full for good is no exception: then the scan does not end well.  (One that is
\* full for a while is: the rows of that while are lost or torn, and nobody is told.)
GoodEntriesLoaded ==
  Over /\ ~freed => \A e \in tree : Representable(e) => RowOf(e) \in loaded

\* And where no name has a newline nothing else has: no column is mispaired, no
\* row is malformed, and an entry that is not UTF-8 takes its subtree with it.
NothingElseLoaded ==
  ~freed /\ (\A e \in tree : ~HasNewline(e)) =>
    /\ loaded \subseteq {RowOf(e) : e \in {f \in tree : Representable(f)}}
    /\ skipped = 0

\* scan.rs: an entry that is not UTF-8 is skipped, "the same policy as for names
\* containing newlines"; yourfs_tool.rs: what is not a row is skipped "rather than
\* inserting mispaired columns".  walk() has no such policy, and what is left of a
\* name after its newline can be a row of its own.
NewlineNamesSkipped ==
  ~freed => \A row \in loaded : \E e \in tree : Representable(e) /\ row = RowOf(e)
=================================================================================
