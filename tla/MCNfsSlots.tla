------------------------------ MODULE MCNfsSlots ------------------------------
(* Small instances of the NFS client.                                        *)
EXTENDS NfsSlots, TLC

Symm == Permutations(Workers) \cup Permutations(Handles)
===============================================================================
