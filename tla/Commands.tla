--------------------------------- MODULE Commands ---------------------------------
(***************************************************************************)
(* The two programs of the package, each from its command line to its exit *)
(* status: yourfs (StartUp) and yourfs-tool (Tool).  They share the parser *)
(* of cli.rs, each with a table of its own.                                *)
(***************************************************************************)
EXTENDS StartUp, Tool

\* The two tables differ.
ASSUME CommandsAssumption == YOURFS_SPECS # TOOL_SPECS

allVars == <<cliVars, startVars, toolVars>>

CommandsInit ==
  /\ StartInit /\ ToolStart
  /\ \/ CliInit(YOURFS_SPECS, YourfsLines)
     \/ CliInit(TOOL_SPECS, ToolLines) /\ ~key

CommandsNext ==
  \/ specs = YOURFS_SPECS /\ Next /\ UNCHANGED toolVars
  \/ specs = TOOL_SPECS /\ ToolNext /\ UNCHANGED startVars

\* Each main() runs, and its calls return; nothing makes fuse_main return.
CommandsSpec ==
  /\ CommandsInit /\ [][CommandsNext]_allVars
  /\ WF_allVars(specs = YOURFS_SPECS /\ Starting /\ UNCHANGED toolVars)
  /\ WF_allVars(specs = TOOL_SPECS /\ Working /\ UNCHANGED startVars)
-----------------------------------------------------------------------------------
CommandsTypeOK ==
  /\ specs = YOURFS_SPECS => TypeOK
  /\ specs = TOOL_SPECS => ToolTypeOK

\* Each program comes to its end, yourfs in a mount or both with an exit status, on
\* every command line: the parser always gets past the argument it is at.  The one
\* exception is an input file of which every read fails, at which yourfs-tool tries
\* for ever.
StartsOrExits ==
  <>(\/ specs = YOURFS_SPECS /\ pc \in {"serving", "exit"}
     \/ specs = TOOL_SPECS /\ (at = "exit" \/ file = Endless))
===================================================================================
