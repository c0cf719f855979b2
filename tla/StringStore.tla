---------------------------- MODULE StringStore ----------------------------
(***************************************************************************)
(* What the compiler relies on when it talks to the string pool of         *)
(* common/strpool.c: a partial map from small integers (the semantic       *)
(* values of the tokens) to strings.  Adding a string picks an index that  *)
(* nobody holds, taking a string back gives up its index, and no call      *)
(* changes the string behind an index somebody else holds.                 *)
(***************************************************************************)
EXTENDS Integers

CONSTANTS
    Strings,  \* the addresses a NUL terminated string may have
    Index     \* the indices the store may hand out

VARIABLES
    store,  \* index -> string, for the indices that are held
    mine    \* the strings the client owns itself

Init == store = [i \in {} |-> 0] /\ mine = {}

\* The client allocates a string of its own.
Obtain(s) ==
    /\ s \notin mine
    /\ \A i \in DOMAIN store : store[i] # s
    /\ mine' = mine \cup {s}
    /\ UNCHANGED store

\* A string enters the store under an index that is not in use.
Put(i, s) ==
    /\ i \notin DOMAIN store
    /\ \A j \in DOMAIN store : store[j] # s
    /\ store' = [j \in DOMAIN store \cup {i} |-> IF j = i THEN s ELSE store[j]]
    /\ mine' = mine \ {s}

\* The client takes a string back, and the index is free again.
Take(i) ==
    /\ i \in DOMAIN store
    /\ mine' = mine \cup {store[i]}
    /\ store' = [j \in DOMAIN store \ {i} |-> store[j]]

\* The client frees a string it owns.
Drop(s) ==
    /\ s \in mine
    /\ mine' = mine \ {s}
    /\ UNCHANGED store

\* The store is emptied as a whole.
Clear == store' = [i \in {} |-> 0] /\ UNCHANGED mine

Next ==
    \/ \E s \in Strings : Obtain(s) \/ Drop(s)
    \/ \E i \in Index, s \in Strings : Put(i, s)
    \/ \E i \in DOMAIN store : Take(i)
    \/ Clear

Spec == Init /\ [][Next]_<<store, mine>>
=============================================================================
