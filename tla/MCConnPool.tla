------------------------------ MODULE MCConnPool ------------------------------
(* Small instances of the connection pool.                                  *)
EXTENDS ConnPool, TLC

Symm == Permutations(Threads) \cup Permutations(Conn)
===============================================================================
