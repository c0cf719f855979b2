------------------------------ MODULE MCBcHeap ------------------------------
(* Instances of BcHeap for TLC: the addresses are interchangeable.         *)
EXTENDS BcHeap, TLC

Symmetry == Permutations(Node)
=============================================================================
