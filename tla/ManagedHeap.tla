---------------------------- MODULE ManagedHeap ----------------------------
(***************************************************************************)
(* What a Starta program may assume about the memory its interpreter       *)
(* manages: blocks appear when they are asked for, references to them can  *)
(* be copied about freely, and a block goes away only when no chain of     *)
(* references leads to it from a stack any more.  Nothing is said about    *)
(* how, or when, the interpreter finds such blocks.                        *)
(***************************************************************************)
EXTENDS Integers, Reachability

CONSTANTS Node, NULL

VARIABLES
    live,   \* the blocks that are allocated
    refs,   \* refs[n]: the fields of block n that are references
    roots   \* the blocks the stacks refer to

Fields(n) == {refs[n][i] : i \in DOMAIN refs[n]} \ {NULL}

\* The blocks a chain of references leads to from the blocks of S.
Reach(S) == Closure(S, [n \in Node |-> Fields(n)])

Accessible == Reach(roots)

Init == live = {} /\ Accessible = {}

\* A new block without references, which the program can get at.
Allocate ==
    \E n \in Node \ live :
        /\ live' = live \cup {n}
        /\ Fields(n)' = {}
        /\ Accessible' = Accessible \cup {n}
        /\ \A m \in Accessible : Fields(m)' = Fields(m)

\* A block that has one reference, from a stack, is moved.
Move ==
    \E n \in roots, m \in Node \ live :
        /\ n \notin UNION {Fields(a) : a \in Accessible}
        /\ live' = (live \ {n}) \cup {m}
        /\ Accessible' = (Accessible \ {n}) \cup {m}

\* The program copies, stores or forgets references to accessible blocks.
Mutate == live' = live /\ Accessible' \subseteq Accessible

\* Blocks the program has lost track of are reclaimed.
Reclaim ==
    /\ live' \subseteq live
    /\ Accessible' \subseteq Accessible \cap live'
    /\ \A m \in Accessible' : Fields(m)' = Fields(m)

Next == Allocate \/ Move \/ Mutate \/ Reclaim
Spec == Init /\ [][Next]_<<live, refs, roots>>
=============================================================================
