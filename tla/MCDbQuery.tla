------------------------------- MODULE MCDbQuery -------------------------------
(* Small instances of the query with retry.                                   *)
EXTENDS DbQuery, TLC

Symm == Permutations(Threads) \cup Permutations(Conn)
================================================================================
