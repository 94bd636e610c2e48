---------------------------------- MODULE View ----------------------------------
(***************************************************************************)
(* What a mount of yourfs promises its users, whatever its database, cache *)
(* and worker threads do.  The whitelist is one map that the administrator *)
(* edits.  A request about a path or the directory is answered from that   *)
(* map, read at one moment while the request is open, or it fails.  With   *)
(* -w an answer once read for the same path may be given again.  A file    *)
(* opened under such an answer is read as long as it is open.              *)
(***************************************************************************)
CONSTANTS Threads, Paths, Dir, Reals, None, Unknown, Handles

VARIABLES memoizing,  \* -w was given
          table,      \* the whitelist
          memory,     \* the answers that may be given again, for each key
          request,    \* the request of each thread
          files       \* the open files

viewVars == <<memoizing, table, memory, request, files>>

Keys == Paths \cup {Dir}
Resting == [op |-> "path", key |-> Dir, state |-> "idle", answer |-> Unknown]
NoFile == [path |-> Dir, real |-> Unknown]

\* What the whitelist says of a path, and of the directory.
Says(key) == IF key = Dir THEN {p \in Paths : table[p] # None} ELSE table[key]

Init ==
  /\ memoizing \in BOOLEAN
  /\ table \in [Paths -> Reals \cup {None}]
  /\ memory = [k \in Keys |-> {}]
  /\ request = [w \in Threads |-> Resting]
  /\ files = [h \in Handles |-> NoFile]

Edit ==
  /\ \E p \in Paths, r \in Reals \cup {None} : table' = [table EXCEPT ![p] = r]
  /\ UNCHANGED <<memoizing, memory, request, files>>

Ask(w) ==
  /\ request[w].state = "idle"
  /\ \E op \in {"path", "open", "list"}, k \in Keys :
       /\ (op = "list") <=> (k = Dir)
       /\ request' = [request EXCEPT ![w] = [op |-> op, key |-> k, state |-> "asked",
                                             answer |-> Unknown]]
  /\ UNCHANGED <<memoizing, table, memory, files>>

Decide(w, answer) ==
  request' = [request EXCEPT ![w] = [op |-> request[w].op, key |-> request[w].key,
                                     state |-> "decided", answer |-> answer]]

\* The one moment at which the whitelist is read.
ReadWhitelist(w) ==
  /\ request[w].state = "asked"
  /\ Decide(w, Says(request[w].key))
  /\ memory' = IF memoizing
               THEN [memory EXCEPT ![request[w].key] = @ \cup {Says(request[w].key)}]
               ELSE memory
  /\ UNCHANGED <<memoizing, table, files>>

AnswerAgain(w) ==
  /\ request[w].state = "asked"
  /\ \E a \in memory[request[w].key] : Decide(w, a)
  /\ UNCHANGED <<memoizing, table, memory, files>>

\* Nothing obliges the mount to remember.
Forget ==
  /\ memory' \in [Keys -> SUBSET UNION {memory[k] : k \in Keys}]
  /\ \A k \in Keys : memory'[k] \subseteq memory[k]
  /\ UNCHANGED <<memoizing, table, request, files>>

\* A request that was never answered fails; one that was may fail on the server.
Finish(w) ==
  /\ request[w].state # "idle"
  /\ request' = [request EXCEPT ![w] = Resting]
  /\ UNCHANGED <<memoizing, table, memory, files>>

\* An open succeeds only on the real path it was answered.
Grant(w, h) ==
  /\ request[w].state = "decided" /\ request[w].op = "open" /\ request[w].answer # None
  /\ files[h] = NoFile
  /\ files' = [files EXCEPT ![h] = [path |-> request[w].key, real |-> request[w].answer]]
  /\ request' = [request EXCEPT ![w] = Resting]
  /\ UNCHANGED <<memoizing, table, memory>>

ReadFile(w, h) ==
  /\ request[w].state = "idle" /\ files[h] # NoFile
  /\ request' = [request EXCEPT ![w] = [op |-> "read", key |-> files[h].path,
                                        state |-> "decided", answer |-> files[h].real]]
  /\ UNCHANGED <<memoizing, table, memory, files>>

Close(h) ==
  /\ files[h] # NoFile
  /\ files' = [files EXCEPT ![h] = NoFile]
  /\ UNCHANGED <<memoizing, table, memory, request>>

Next ==
  \/ Edit \/ Forget
  \/ \E w \in Threads :
       \/ Ask(w) \/ ReadWhitelist(w) \/ AnswerAgain(w) \/ Finish(w)
       \/ \E h \in Handles : Grant(w, h) \/ ReadFile(w, h)
  \/ \E h \in Handles : Close(h)

Spec == Init /\ [][Next]_viewVars
=================================================================================
