----------------------------------- MODULE Tool -----------------------------------
(***************************************************************************)
(* main() of bin/yourfs_tool.rs, from the command line to the exit status: *)
(* what it refuses before it gives up the old list, how it reads the file, *)
(* and what its exit status says.  What is in a row is the subject of      *)
(* ListFile, and how the writer changes the database that of ListImport.   *)
(***************************************************************************)
EXTENDS Cli

CONSTANTS TOOL_SPECS,   \* the option table of yourfs-tool
          ToolLines,    \* the command lines to consider
          MaxLines      \* bound on the lines of the input file

ASSUME ToolAssumption ==
  /\ Unambiguous(TOOL_SPECS) /\ AreLines(ToolLines) /\ MaxLines \in Nat
  /\ \A s \in TOOL_SPECS : s.short \in {"F", "Z", "s"} => s.arg

VARIABLES at,       \* how far main() is
          file,     \* history: the lines of the input file
          ln,       \* the line to be read next
          rows,     \* what the writer has buffered: the numbers of the lines
          count,    \* the number of rows it reports
          table,    \* the table: the list it had, no table, or these rows
          status    \* the exit status

toolVars == <<at, file, ln, rows, count, table, status>>

\* A line has three columns, is blank, is malformed, or is no UTF-8 text.  Endless
\* is a file of which every read fails, like a directory.
LineKinds == {"row", "blank", "malformed", "no text"}
Endless == <<"endless">>
Files == (UNION {[1..k -> LineKinds] : k \in 0..MaxLines}) \cup {Endless}

\* Neither is a list of numbers of lines.
OldList == <<0>>
NoTable == <<-1>>

ToolStart ==
  /\ at = "options" /\ file = <<>> /\ ln = 1 /\ rows = <<>> /\ count = 0
  /\ table = OldList /\ status = 0

ToolInit == CliInit(TOOL_SPECS, ToolLines) /\ ToolStart

Goto(from, to) ==
  /\ at = from /\ at' = to
  /\ UNCHANGED status

Quit(from, c) == at = from /\ at' = "exit" /\ status' = c
-----------------------------------------------------------------------------------
(* The command line. *)

\* No argument at all, or -?, wherever it stands: the usage.
Usage ==
  /\ args = <<>> \/ Helped
  /\ Quit("options", 0)
  /\ UNCHANGED <<cliVars, file, ln, rows, count, table>>

ToolOptions ==
  /\ at = "options" /\ args # <<>> /\ ~Helped
  /\ CliNext
  /\ UNCHANGED toolVars

\* An unrecognized option ends the loop with a message, as in yourfs.
ToolOptionsOver ==
  /\ args # <<>> /\ ~Helped /\ over # "no"
  /\ Goto("options", "mode")
  /\ UNCHANGED <<cliVars, file, ln, rows, count, table>>

Scanning == Given("s") /\ Value("s") # <<>>

\* Scan mode leaves the database alone.
Scan ==
  /\ Scanning
  /\ \E c \in {0, 1} : Quit("mode", c)
  /\ UNCHANGED <<cliVars, file, ln, rows, count, table>>

NamesBackend == Given("F") /\ GoodType(Value("F"))

\* Without the name of a backend there is nothing to do, and nothing is said.
NoBackend ==
  /\ ~Scanning /\ ~NamesBackend
  /\ Quit("mode", 0)
  /\ UNCHANGED <<cliVars, file, ln, rows, count, table>>

OpenInput ==
  /\ ~Scanning /\ NamesBackend
  /\ \/ Goto("mode", "writer") /\ file' \in Files
     \/ Quit("mode", 1) /\ UNCHANGED file
  /\ UNCHANGED <<cliVars, ln, rows, count, table>>

OpenWriter ==
  /\ Goto("writer", "create") \/ Quit("writer", 1)
  /\ UNCHANGED <<cliVars, file, ln, rows, count, table>>

\* A name that is no identifier is refused first (the default, "data", is one).  A
\* failure after that leaves the old list, no table or an empty one (see ListImport).
TableNamed == IF Given("Z") THEN GoodTable(Value("Z")) ELSE TRUE

Create ==
  /\ \/ Goto("create", "read") /\ TableNamed /\ table' = <<>>
     \/ Quit("create", 1) /\ TableNamed /\ table' \in {NoTable, <<>>}
     \/ Quit("create", 1) /\ UNCHANGED table
  /\ UNCHANGED <<cliVars, file, ln, rows, count>>
-----------------------------------------------------------------------------------
(* The loop over the lines. *)

\* insert() only buffers, with every writer, and does not fail.
ReadRow ==
  /\ at = "read" /\ ln <= Len(file) /\ file[ln] = "row"
  /\ rows' = Append(rows, ln) /\ count' = count + 1 /\ ln' = ln + 1
  /\ UNCHANGED <<cliVars, at, file, table, status>>

\* Blank lines are passed over, malformed ones with a message.
SkipLine ==
  /\ at = "read" /\ ln <= Len(file) /\ file[ln] \in {"blank", "malformed"}
  /\ ln' = ln + 1
  /\ UNCHANGED <<cliVars, at, file, rows, count, table, status>>

\* Mutant of SkipError: the first error ends the loop.
StopAtError ==
  /\ at = "read" /\ ln <= Len(file) /\ file[ln] \in {"no text", "endless"}
  /\ ln' = Len(file) + 1
  /\ UNCHANGED <<cliVars, at, file, rows, count, table, status>>

\* A line that cannot be read is passed over in silence; if nothing can be read the
\* next attempt fails like this one.
SkipError ==
  /\ at = "read" /\ ln <= Len(file) /\ file[ln] \in {"no text", "endless"}
  /\ ln' = IF file = Endless THEN ln ELSE ln + 1
  /\ UNCHANGED <<cliVars, at, file, rows, count, table, status>>

\* Where finish() fails the rows are not there, except that postgres may fail after
\* it has committed them.
FinishRows ==
  /\ ln > Len(file)
  /\ \/ Quit("read", 0) /\ table' = rows
     \/ rows # <<>> /\ Quit("read", 1) /\ table' \in {table, rows}
  /\ UNCHANGED <<cliVars, file, ln, rows, count>>

ToolExited == at = "exit" /\ UNCHANGED <<cliVars, toolVars>>

Working == \/ Usage \/ ToolOptions \/ ToolOptionsOver
           \/ Scan \/ NoBackend \/ OpenInput \/ OpenWriter \/ Create
           \/ ReadRow \/ SkipLine \/ SkipError \/ FinishRows

ToolNext == Working \/ ToolExited
-----------------------------------------------------------------------------------
(* Properties *)

ToolTypeOK ==
  /\ at \in {"options", "mode", "writer", "create", "read", "exit"}
  /\ file \in Files /\ ln \in 1..(MaxLines + 2)
  /\ rows \in Seq(Nat) /\ count \in Nat
  /\ table = NoTable \/ table \in Seq(Nat)
  /\ status \in {0, 1}

\* The numbers of the lines that have three columns, in order.
IsGoodLines(numbers) ==
  /\ {numbers[i] : i \in DOMAIN numbers} = {n \in DOMAIN file : file[n] = "row"}
  /\ \A i, j \in DOMAIN numbers : i < j => numbers[i] < numbers[j]

\* The exit status of an import is honest, and the old list is given up only for
\* one: it is gone only if the command line, read as getopt_long() reads it, does not
\* ask to scan and names a backend and a table; and if the status is 0 then the
\* table holds the row of every line that has three columns, whatever stands
\* between them, and as many as were reported.
HonestExit ==
  at = "exit" /\ table # OldList =>
    LET asked == Getopt(specs, args).out
    IN  /\ Named(asked, "F") /\ GoodType(LastOf(asked, "F"))
        /\ Named(asked, "?") => Getopt(specs, args).bad
        /\ Named(asked, "Z") => GoodTable(LastOf(asked, "Z"))
        /\ Named(asked, "s") => LastOf(asked, "s") = <<>>
        /\ status = 0 => IsGoodLines(table) /\ count = Len(table)
===================================================================================
