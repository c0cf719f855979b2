------------------------- MODULE StructuredControl -------------------------
(***************************************************************************)
(* The control flow a Starta program is written against: calls, loops, try *)
(* bodies and catch blocks nest, a jump leaves every block between it and  *)
(* its target, and an exception goes to the catch blocks of the innermost  *)
(* try body that is still open, in this function or in one that called it. *)
(***************************************************************************)
EXTENDS Integers, Sequences

VARIABLES
    bodies,   \* the program and the functions under way, the innermost last, each
              \* with its open blocks: "function", "for", "while", "try", "catch"
    running

Init == bodies = << << >> >> /\ running = TRUE

Body == bodies[Len(bodies)]
Becomes(body) == bodies' = [bodies EXCEPT ![Len(bodies)] = body]

Enter == \E kind \in {"for", "while", "try"} : Becomes(Append(Body, kind))

\* A loop, a try body or a catch block comes to its end.
Leave ==
    /\ Body # << >> /\ Body[Len(Body)] \in {"for", "while", "try", "catch"}
    /\ Becomes(SubSeq(Body, 1, Len(Body) - 1))

\* `break' leaves the loop it names, `continue' stays in it.
Jump ==
    \E i \in 1 .. Len(Body) :
        /\ Body[i] \in {"for", "while"}
        /\ \E n \in {i - 1, i} : Becomes(SubSeq(Body, 1, n))

Call == bodies' = Append(bodies, <<"function">>)
Return == Len(bodies) > 1 /\ bodies' = SubSeq(bodies, 1, Len(bodies) - 1)

TriesIn(k, from) == {j \in from .. Len(bodies[k]) : bodies[k][j] = "try"}

Raise ==
    \E i \in 1 .. Len(bodies) : \E j \in TriesIn(i, 1) :
        /\ TriesIn(i, j + 1) = {} /\ \A k \in i + 1 .. Len(bodies) : TriesIn(k, 1) = {}
        /\ bodies' = Append(SubSeq(bodies, 1, i - 1),
                            Append(SubSeq(bodies[i], 1, j - 1), "catch"))

Step ==
    /\ Enter \/ Leave \/ Jump \/ Call \/ Return \/ Raise
    /\ UNCHANGED running

\* The program ends, or nobody catches an exception.
End ==
    /\ \A k \in 1 .. Len(bodies) : TriesIn(k, 1) = {}
    /\ running' = FALSE
    /\ UNCHANGED bodies

Next == running /\ (Step \/ End)
Spec == Init /\ [][Next]_<<bodies, running>>
=============================================================================
