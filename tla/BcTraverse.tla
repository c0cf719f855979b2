----------------------------- MODULE BcTraverse -----------------------------
(***************************************************************************)
(* bctraverse() of starta/interpreters/packed-type/bctraverse.c: the       *)
(* marking of everything a block leads to, by pointer reversal.  There is  *)
(* no stack: the way back to the root is kept in the reference fields the  *)
(* traversal has come through, and rcount of each block tells which field  *)
(* that is.  The traversal may start in a heap where blocks that are not   *)
(* on the collector's list carry marks and counts of earlier collections.  *)
(***************************************************************************)
EXTENDS Integers, FiniteSets, Reachability

CONSTANTS
    Node, NULL,
    MaxRef,      \* bound: reference fields of a block
    Unlisted     \* blocks that the collector's reset may not have come by

ASSUME BcTraverseAssumption ==
    /\ NULL \notin Node /\ IsFiniteSet(Node)
    /\ MaxRef \in Nat
    /\ Unlisted \subseteq Node

VARIABLES
    nref,    \* the number of reference fields of each block
    refs,    \* the fields
    used,    \* the blocks with AF_USED set
    rcount,
    p, q,    \* the block being visited, and the block it was entered from
    done,    \* has the function returned?
    start    \* refs, used, rcount and the root as they were at the call

vars == <<nref, refs, used, rcount, p, q, done, start>>

\* bcalloc_reset_allocated_nodes() has cleared the mark and the count of the
\* blocks on the list; others are as a traversal or bcalloc() left them.
InitMarks ==
    /\ used \in SUBSET Unlisted
    /\ rcount \in [Node -> 0 .. MaxRef + 1]
    /\ \A n \in Node :
         IF n \in used THEN rcount[n] = nref[n] + 1
         ELSE rcount[n] = 0 \/ (n \in Unlisted /\ rcount[n] = 1)

Init ==
    /\ nref \in [Node -> 0 .. MaxRef]
    /\ refs \in [Node -> [1 .. MaxRef -> Node \cup {NULL}]]
    /\ \A n \in Node, i \in 1 .. MaxRef : i > nref[n] => refs[n][i] = NULL
    /\ InitMarks
    /\ p \in Node /\ q = p
    /\ done = FALSE
    /\ start = [refs |-> refs, used |-> used, rcount |-> rcount, root |-> p]

\* Every turn of the loop marks the block and counts the turn.
k == rcount[p]

\* Mutants: a turn is counted twice; only the second turn marks the block.
VisitCountsTwice ==
    /\ ~ done
    /\ used' = used \cup {p}
    /\ rcount' = [rcount EXCEPT ![p] = k + 2]
    /\ UNCHANGED <<nref, start>>
VisitMarksLate ==
    /\ ~ done
    /\ used' = IF k = 0 THEN used ELSE used \cup {p}
    /\ rcount' = [rcount EXCEPT ![p] = k + 1]
    /\ UNCHANGED <<nref, start>>

Visit ==
    /\ ~ done
    /\ used' = used \cup {p}
    /\ rcount' = [rcount EXCEPT ![p] = k + 1]
    /\ UNCHANGED <<nref, start>>

Child == refs[p][k + 1]

\* The next field leads to a block without a mark: it is entered, and the
\* field is used to remember q.
Descend ==
    /\ Visit
    /\ k < nref[p] /\ Child \notin used' \cup {NULL}
    /\ refs' = [refs EXCEPT ![p][k + 1] = q]
    /\ q' = p
    /\ p' = Child
    /\ UNCHANGED done

\* Mutant: only fields the traversal goes down are counted.
SkipFieldUncounted ==
    /\ ~ done
    /\ used' = used \cup {p}
    /\ k < nref[p] /\ Child \in used' \cup {NULL}
    /\ UNCHANGED <<nref, refs, rcount, p, q, done, start>>

SkipField ==
    /\ Visit
    /\ k < nref[p] /\ Child \in used' \cup {NULL}
    /\ UNCHANGED <<refs, p, q, done>>

\* Mutant: the field keeps the way back.
BackUnrestored(h) ==
    LET i == rcount[h.q]
    IN  [p |-> h.q, q |-> h.refs[h.q][i], refs |-> h.refs]

\* All fields have been through: back to the block p was entered from, whose
\* field gets its value back.
Back(h) ==
    LET i == rcount[h.q]
    IN  [p |-> h.q, q |-> h.refs[h.q][i], refs |-> [h.refs EXCEPT ![h.q][i] = h.p]]

Ascend ==
    /\ Visit
    /\ k >= nref[p] /\ p # q
    /\ LET b == Back([p |-> p, q |-> q, refs |-> refs])
       IN  p' = b.p /\ q' = b.q /\ refs' = b.refs
    /\ UNCHANGED done

Exit ==
    /\ Visit
    /\ k >= nref[p] /\ p = q
    /\ done' = TRUE
    /\ UNCHANGED <<refs, p, q>>

Returned == done /\ UNCHANGED vars

Next == Descend \/ SkipField \/ Ascend \/ Exit \/ Returned
Spec == Init /\ [][Next]_vars /\ WF_vars(Next)

-----------------------------------------------------------------------------
TypeOK ==
    /\ refs \in [Node -> [1 .. MaxRef -> Node \cup {NULL}]]
    /\ used \subseteq Node
    /\ rcount \in [Node -> 0 .. MaxRef + 2]
    /\ p \in Node /\ q \in Node

\* At every turn the references the traversal has reversed can be put back:
\* going all the way up from here restores the heap as it was at the call
\* (bctraverse.c:78-82, 87-95).
Undone ==
    LET up[n \in Nat] ==
            IF n = 0 THEN [p |-> p, q |-> q, refs |-> refs]
            ELSE IF up[n - 1].p = up[n - 1].q THEN up[n - 1] ELSE Back(up[n - 1])
    IN  up[Cardinality(Node)].refs

NoReferenceIsLost == Undone = start.refs

\* On return the references are as they were, and the marked blocks are what
\* the fields that were not counted yet lead to without passing through a
\* block that was marked before - what BcHeap takes the traversal to do.
Untraversed(n) == {start.refs[n][i] : i \in start.rcount[n] + 1 .. nref[n]} \ {NULL}

Reached ==
    Closure({start.root}, [n \in Node |-> Untraversed(n) \ start.used])

MarksWhatItReaches ==
    done => /\ refs = start.refs
            /\ used = start.used \cup Reached
            /\ \A n \in Node :
                 IF n \in Reached THEN rcount[n] > nref[n] ELSE rcount[n] = start.rcount[n]

\* The function returns.
Terminates == <>done
=============================================================================
