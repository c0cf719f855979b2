---------------------------- MODULE Reachability ----------------------------
(***************************************************************************)
(* Reachability in a finite graph given as a function from each node to    *)
(* the set of its successors.  It is written as a least closed set, rather *)
(* than as an iteration, so that it can be reasoned about without          *)
(* induction.                                                              *)
(***************************************************************************)
IsClosed(X, succ) == \A x \in X : succ[x] \subseteq X

\* The nodes that paths from the nodes of S lead to, those of S included.
Closure(S, succ) ==
    {n \in DOMAIN succ :
        \A X \in SUBSET DOMAIN succ : S \subseteq X /\ IsClosed(X, succ) => n \in X}
=============================================================================
