-------------------------------- MODULE Lease --------------------------------
(***************************************************************************)
(* What the connection pool of db.rs promises its callers, whatever its    *)
(* lock, condition variable and idle list do: at most Max connections are  *)
(* open at any time, every caller that has one has it for itself, and a    *)
(* connection is closed only by the caller that holds it.                  *)
(***************************************************************************)
EXTENDS Naturals, FiniteSets

CONSTANTS Threads,   \* the FUSE worker threads
          Conn,      \* connections to the database server
          NoConn,    \* "holds nothing"
          Max        \* capacity

VARIABLES open,      \* the connections open at the server through this pool
          holder     \* holder[t]: the connection thread t has checked out

leaseVars == <<open, holder>>

Held == {holder[t] : t \in Threads} \ {NoConn}

Init == /\ open = {}
        /\ holder = [t \in Threads |-> NoConn]

Connect(t, c) ==
  /\ holder[t] = NoConn
  /\ c \notin open
  /\ Cardinality(open) < Max
  /\ open' = open \cup {c}
  /\ holder' = [holder EXCEPT ![t] = c]

Reuse(t, c) ==
  /\ holder[t] = NoConn
  /\ c \in open \ Held
  /\ holder' = [holder EXCEPT ![t] = c]
  /\ UNCHANGED open

Return(t) ==
  /\ holder[t] # NoConn
  /\ holder' = [holder EXCEPT ![t] = NoConn]
  /\ UNCHANGED open

Close(t) ==
  /\ holder[t] # NoConn
  /\ open' = open \ {holder[t]}
  /\ holder' = [holder EXCEPT ![t] = NoConn]

Next == \E t \in Threads :
          \/ \E c \in Conn : Connect(t, c) \/ Reuse(t, c)
          \/ Return(t)
          \/ Close(t)

Spec == Init /\ [][Next]_leaseVars
=============================================================================
