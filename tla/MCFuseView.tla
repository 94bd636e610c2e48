------------------------------- MODULE MCFuseView -------------------------------
EXTENDS FuseView, TLC

Symmetric == Permutations(Threads) \cup Permutations(Paths) \cup Permutations(Reals)
=================================================================================
