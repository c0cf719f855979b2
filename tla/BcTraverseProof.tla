-------------------------- MODULE BcTraverseProof --------------------------
(***************************************************************************)
(* Theorems about BcTraverse, for every heap.  The argument is about the   *)
(* way from the root to the block that is being visited, which the program *)
(* does not store: it is spread over the reversed references.  The blocks  *)
(* on the way are different; the field that each has been left by, which   *)
(* its count tells, held a reference to the next one and leads back to the *)
(* one before; all other fields are as they were.                          *)
(***************************************************************************)
EXTENDS BcTraverse, LeastNumber, FiniteSetTheorems, TLAPS

Heaps == [Node -> [1 .. MaxRef -> Node \cup {NULL}]]

\* What the call found.
StartOK ==
    /\ nref \in [Node -> 0 .. MaxRef]
    /\ start.refs \in Heaps
    /\ start.used \subseteq Node /\ start.root \in Node
    /\ start.rcount \in [Node -> 0 .. MaxRef + 1]
    /\ \A n \in Node \ start.used : start.rcount[n] \in {0, 1}

\* path is the way from the root to p.  But for the root, it leads through
\* blocks that had no mark at the call.
Way(path, len) ==
    /\ path[1] = start.root /\ path[len] = p
    /\ q = IF len = 1 THEN p ELSE path[len - 1]
    /\ \A i, j \in 1 .. len : path[i] = path[j] => i = j
    /\ \A i \in 1 .. len - 1 : path[i] \in used
    /\ \A i \in 2 .. len : path[i] \notin start.used
Left(path, len) == {path[i] : i \in 1 .. len - 1}

\* Field c of n led to next, and leads back.
Turned(n, c, back, next) ==
    /\ c \in 1 .. nref[n]
    /\ start.refs[n][c] = next /\ refs[n][c] = back
    /\ \A j \in 1 .. MaxRef : j # c => refs[n][j] = start.refs[n][j]

Reversed(path, len) ==
    /\ \A i \in 1 .. len - 1 :
         Turned(path[i], rcount[path[i]],
                IF i = 1 THEN path[1] ELSE path[i - 1], path[i + 1])
    /\ \A n \in Node \ Left(path, len) : refs[n] = start.refs[n]

\* The blocks the traversal has been to.
Visited == (used \ start.used) \cup {start.root, p}

\* It is through with all of them that are not on the way.
Counted(path, len) ==
    \A n \in Visited : n = p \/ n \in Left(path, len) \/ rcount[n] > nref[n]

OnTheWay ==
    \E len \in Nat \ {0} : \E path \in [1 .. len -> Node] :
       Way(path, len) /\ Reversed(path, len) /\ Counted(path, len)

\* The other blocks are as they were, and the fields that were counted lead to
\* marked blocks.
MarksOK ==
    /\ start.used \subseteq used
    /\ \A n \in Node : rcount[n] >= start.rcount[n]
    /\ \A n \in Node \ Visited : rcount[n] = start.rcount[n]
    /\ \A n \in Visited, i \in 1 .. MaxRef :
         (i > start.rcount[n] /\ i <= rcount[n] /\ i <= nref[n])
            => start.refs[n][i] \in used \cup {NULL, p}
    /\ Visited \subseteq Reached

AtTheEnd ==
    IF done THEN p = q /\ p \in used /\ rcount[p] > nref[p]
    ELSE rcount[p] <= nref[p] + 1

IInv ==
    /\ TypeOK /\ done \in BOOLEAN /\ StartOK
    /\ MarksOK /\ AtTheEnd /\ OnTheWay

-----------------------------------------------------------------------------
(* The initial states.                                                     *)

\* The way is the root alone.
LEMMA Initially == Init => IInv
<1>. SUFFICES ASSUME Init
     PROVE  IInv
    OBVIOUS
<1>. USE BcTraverseAssumption
<1>1. start.refs = refs /\ start.used = used /\ start.rcount = rcount
      /\ start.root = p
    BY DEF Init
<1>2. rcount \in [Node -> 0 .. MaxRef + 1] /\ used \subseteq Node
      /\ nref \in [Node -> 0 .. MaxRef] /\ p \in Node /\ refs \in Heaps
    BY DEF Init, InitMarks, Heaps
<1>3. TypeOK /\ done = FALSE
    BY <1>2 DEF Init, TypeOK, Heaps
<1>4. \A n \in Node : rcount[n] <= nref[n] + 1 /\ (n \notin used => rcount[n] \in {0, 1})
    BY <1>2 DEF Init, InitMarks
<1>5. StartOK
    BY <1>1, <1>2, <1>4 DEF StartOK
<1>6. AtTheEnd
    BY <1>2, <1>3, <1>4 DEF AtTheEnd
<1>7. Visited = {p}
    BY <1>1 DEF Visited
<1>8. MarksOK
  <2>1. Visited \subseteq Reached
      BY <1>1, <1>2, <1>7 DEF Reached, Closure
  <2>2. \A n \in Node : rcount[n] >= start.rcount[n] /\ rcount[n] = start.rcount[n]
      BY <1>1, <1>2
  <2>3. \A n \in Visited, i \in 1 .. MaxRef :
           ~ (i > start.rcount[n] /\ i <= rcount[n])
      BY <1>1, <1>2, <1>7
  <2>. QED
      BY <1>1, <2>1, <2>2, <2>3 DEF MarksOK
<1>9. OnTheWay
  <2>. DEFINE path == [i \in 1 .. 1 |-> p]
  <2>1. path \in [1 .. 1 -> Node] /\ Left(path, 1) = {}
      BY <1>2 DEF Left
  <2>2. Way(path, 1)
      BY <1>1 DEF Way, Init
  <2>3. Reversed(path, 1) /\ Counted(path, 1)
      BY <1>1, <1>7, <2>1 DEF Reversed, Counted
  <2>. HIDE DEF path
  <2>4. 1 \in Nat \ {0}
      OBVIOUS
  <2>. QED
      BY <2>1, <2>2, <2>3, <2>4, Zenon DEF OnTheWay
<1>. QED
    BY <1>3, <1>5, <1>6, <1>8, <1>9 DEF IInv

-----------------------------------------------------------------------------
(* What the invariant says of the block being visited.                     *)

\* Its fields are as they were; it had no mark unless it is the root.
LEMMA Here ==
    ASSUME IInv
    PROVE  /\ refs[p] = start.refs[p]
           /\ p = start.root \/ p \notin start.used
           /\ start.root \in used \cup {p}
           /\ p \in Node /\ q \in Node
<1>1. PICK len \in Nat \ {0} : \E path \in [1 .. len -> Node] :
        Way(path, len) /\ Reversed(path, len) /\ Counted(path, len)
    BY DEF IInv, OnTheWay
<1>2. PICK path \in [1 .. len -> Node] :
        Way(path, len) /\ Reversed(path, len) /\ Counted(path, len)
    BY <1>1
<1>3. p \in Node /\ q \in Node
    BY DEF IInv, TypeOK
<1>4. p \notin Left(path, len)
    BY <1>2 DEF Way, Left
<1>5. refs[p] = start.refs[p]
    BY <1>2, <1>3, <1>4 DEF Reversed
<1>6. CASE len = 1
    BY <1>2, <1>3, <1>5, <1>6 DEF Way
<1>7. CASE len # 1
  <2>1. len \in 2 .. len /\ 1 \in 1 .. len - 1
      BY <1>7
  <2>. QED
      BY <1>2, <1>3, <1>5, <2>1 DEF Way
<1>. QED
    BY <1>6, <1>7

\* A turn of the loop keeps the types.
LEMMA VisitTypes ==
    ASSUME IInv, Visit
    PROVE  /\ k \in Nat /\ k <= nref[p] + 1 /\ k >= start.rcount[p]
           /\ nref[p] \in 0 .. MaxRef
           /\ used' = used \cup {p} /\ used' \subseteq Node
           /\ rcount' \in [Node -> 0 .. MaxRef + 2]
           /\ rcount'[p] = k + 1
           /\ \A n \in Node \ {p} : rcount'[n] = rcount[n]
           /\ nref' = nref /\ start' = start
           /\ StartOK'
<1>. USE BcTraverseAssumption
<1>1. p \in Node /\ rcount \in [Node -> 0 .. MaxRef + 2] /\ used \subseteq Node
      /\ nref \in [Node -> 0 .. MaxRef]
    BY DEF IInv, TypeOK, StartOK
<1>2. k \in Nat /\ k <= nref[p] + 1 /\ k >= start.rcount[p] /\ nref[p] \in 0 .. MaxRef
    BY <1>1 DEF IInv, AtTheEnd, MarksOK, Visit, k
<1>3. rcount' = [rcount EXCEPT ![p] = k + 1] /\ used' = used \cup {p}
      /\ nref' = nref /\ start' = start
    BY DEF Visit
<1>4. rcount' \in [Node -> 0 .. MaxRef + 2] /\ rcount'[p] = k + 1
      /\ \A n \in Node \ {p} : rcount'[n] = rcount[n]
    BY <1>1, <1>2, <1>3
<1>5. StartOK'
    BY <1>3 DEF IInv, StartOK, Heaps
<1>. QED
    BY <1>1, <1>2, <1>3, <1>4, <1>5

\* What a reached block leads to is reached.
LEMMA ReachedStep ==
    ASSUME StartOK, NEW n \in Reached, NEW i \in 1 .. MaxRef,
           i > start.rcount[n], i <= nref[n],
           start.refs[n][i] \notin start.used \cup {NULL}
    PROVE  start.refs[n][i] \in Reached
<1>. DEFINE succ == [m \in Node |-> Untraversed(m) \ start.used]
<1>. USE BcTraverseAssumption
<1>1. n \in Node /\ Reached = Closure({start.root}, succ) /\ DOMAIN succ = Node
    BY DEF Reached, Closure
<1>2. start.rcount[n] \in Nat /\ nref[n] \in Nat /\ start.refs[n][i] \in Node
    BY <1>1 DEF StartOK, Heaps
<1>3. start.refs[n][i] \in succ[n]
    BY <1>1, <1>2 DEF Untraversed
<1>. HIDE DEF succ
<1>4. ASSUME NEW X \in SUBSET Node, {start.root} \subseteq X, IsClosed(X, succ)
      PROVE  start.refs[n][i] \in X
  <2>1. n \in X
      BY <1>1, <1>4 DEF Closure
  <2>. QED
      BY <1>3, <1>4, <2>1 DEF IsClosed
<1>. QED
    BY <1>1, <1>2, <1>4 DEF Closure

\* A turn marks the block and counts a field, whose target is marked or is
\* visited next.
LEMMA MarksStep ==
    ASSUME IInv, Visit, p' \in Node,
           k < nref[p] => Child \in used' \cup {NULL, p'},
           \/ p' \in used' /\ p' \in Visited
           \/ k < nref[p] /\ p' = Child /\ Child \notin used' \cup {NULL}
    PROVE  MarksOK'
<1>. USE BcTraverseAssumption, Here, VisitTypes
<1>0. MarksOK /\ StartOK
    BY DEF IInv
<1>1. Visited' = (used' \ start.used) \cup {start.root, p'}
    BY DEF Visited
<1>2. Visited \subseteq Visited' /\ p \in Visited
    BY <1>1 DEF Visited
<1>3. \A n \in Visited' : n \in Visited \/ n = p'
    BY <1>1 DEF Visited
<1>4. k < nref[p] => k + 1 \in 1 .. MaxRef /\ Child = start.refs[p][k + 1]
    BY DEF Child
<1>5. (start.used \subseteq used)'
    BY <1>0 DEF MarksOK
<1>6. (\A n \in Node : rcount[n] >= start.rcount[n])'
  <2>. SUFFICES ASSUME NEW n \in Node
       PROVE  rcount'[n] >= start.rcount[n]
      OBVIOUS
  <2>1. CASE n = p
      BY <2>1 DEF StartOK
  <2>2. CASE n # p
      BY <1>0, <2>2 DEF MarksOK
  <2>. QED
      BY <2>1, <2>2
<1>7. (\A n \in Node \ Visited : rcount[n] = start.rcount[n])'
    BY <1>0, <1>2 DEF MarksOK
<1>8. ASSUME NEW n \in Visited', NEW i \in 1 .. MaxRef,
             i > start.rcount[n], i <= rcount'[n], i <= nref[n]
      PROVE  start.refs[n][i] \in used' \cup {NULL, p'}
  <2>0. n \in Node
      BY <1>1, <1>0 DEF StartOK
  <2>1. CASE n = p /\ i = k + 1
    <3>1. k < nref[p]
        BY <1>8, <2>1
    <3>2. start.refs[n][i] = Child
        BY <1>4, <2>1, <3>1
    <3>. QED
        BY <3>1, <3>2
  <2>2. CASE n = p /\ i # k + 1
    <3>1. i <= rcount[p]
        BY <1>8, <2>2 DEF k
    <3>. QED
        BY <1>0, <1>2, <1>8, <2>2, <3>1 DEF MarksOK
  <2>3. CASE n # p /\ n \in Visited
      BY <1>0, <1>8, <2>0, <2>3 DEF MarksOK
  <2>4. CASE n # p /\ n \notin Visited
    <3>1. rcount'[n] = start.rcount[n]
        BY <1>0, <2>0, <2>4 DEF MarksOK
    <3>2. rcount'[n] \in Int /\ start.rcount[n] \in Int
        BY <1>0, <2>0 DEF StartOK
    <3>. QED
        BY <1>8, <3>1, <3>2
  <2>. QED
      BY <2>1, <2>2, <2>3, <2>4
<1>9. Reached' = Reached
    BY DEF Reached, Untraversed
<1>10. Visited' \subseteq Reached
  <2>1. Visited \subseteq Reached
      BY <1>0 DEF MarksOK
  <2>2. p' \in Visited \/ (k < nref[p] /\ p' = Child /\ Child \notin used' \cup {NULL})
      OBVIOUS
  <2>3. CASE k < nref[p] /\ p' = Child /\ Child \notin used' \cup {NULL}
    <3>1. k + 1 > start.rcount[p] /\ k + 1 <= nref[p]
        BY <1>0, <2>3 DEF StartOK
    <3>2. start.refs[p][k + 1] \notin start.used \cup {NULL}
        BY <1>0, <1>4, <2>3 DEF MarksOK
    <3>. QED
        BY <1>0, <1>2, <1>3, <1>4, <2>1, <2>3, <3>1, <3>2, ReachedStep
  <2>. QED
      BY <1>3, <2>1, <2>2, <2>3
<1>. QED
    BY <1>5, <1>6, <1>7, <1>8, <1>9, <1>10 DEF MarksOK

-----------------------------------------------------------------------------
(* Every turn keeps the invariant.                                         *)

\* The way, once it is known to be one.
LEMMA IsOnTheWay ==
    ASSUME NEW len \in Nat \ {0}, NEW path \in [1 .. len -> Node],
           Way(path, len)', Reversed(path, len)', Counted(path, len)'
    PROVE  OnTheWay'
BY Zenon DEF OnTheWay

\* Blocks that are not being visited keep what is known of them.
LEMMA WayUnderVisit ==
    ASSUME IInv, Visit, NEW len \in Nat \ {0}, NEW path \in [1 .. len -> Node],
           Way(path, len), Reversed(path, len), Counted(path, len)
    PROVE  /\ \A i \in 1 .. len - 1 : path[i] # p /\ path[i] \in Node
                                      /\ rcount'[path[i]] = rcount[path[i]]
           /\ \A i \in 1 .. len - 1 : path[i] \in used'
           /\ \A n \in Visited' :
                n = p' \/ n = p \/ n \in Left(path, len) \/ rcount'[n] > nref[n]
<1>. USE Here, VisitTypes
<1>1. \A i \in 1 .. len - 1 : path[i] # p /\ path[i] \in Node
    BY DEF Way
<1>2. \A i \in 1 .. len - 1 : path[i] \in used'
    BY DEF Way
<1>3. ASSUME NEW n \in Visited', n # p', n # p, n \notin Left(path, len)
      PROVE  rcount'[n] > nref[n]
  <2>1. n \in Visited
      BY <1>3 DEF Visited
  <2>2. n \in Node
      BY <1>3 DEF Visited, IInv, StartOK
  <2>. QED
      BY <1>3, <2>1, <2>2 DEF Counted
<1>. QED
    BY <1>1, <1>2, <1>3

\* The way stays when neither p nor the references change.
LEMMA StayOnTheWay ==
    ASSUME IInv, Visit, UNCHANGED <<refs, p, q>>
    PROVE  OnTheWay'
<1>. USE Here, VisitTypes
<1>1. PICK len \in Nat \ {0} : \E path \in [1 .. len -> Node] :
        Way(path, len) /\ Reversed(path, len) /\ Counted(path, len)
    BY DEF IInv, OnTheWay
<1>2. PICK path \in [1 .. len -> Node] :
        Way(path, len) /\ Reversed(path, len) /\ Counted(path, len)
    BY <1>1
<1>a. \A i \in 1 .. len - 1 : rcount'[path[i]] = rcount[path[i]]
    BY <1>2, WayUnderVisit
<1>b. refs' = refs /\ start' = start /\ nref' = nref
    BY DEF Visit
<1>. USE WayUnderVisit, <1>2
<1>3. Way(path, len)'
    BY DEF Way
<1>4. Reversed(path, len)'
  <2>1. ASSUME NEW i \in 1 .. len - 1
        PROVE  Turned(path[i], rcount[path[i]],
                      IF i = 1 THEN path[1] ELSE path[i - 1], path[i + 1])'
    <3>1. Turned(path[i], rcount[path[i]],
                 IF i = 1 THEN path[1] ELSE path[i - 1], path[i + 1])
        BY DEF Reversed
    <3>2. rcount'[path[i]] = rcount[path[i]]
        BY ONLY <1>a, <2>1
    <3>. QED
        BY ONLY <3>1, <3>2, <1>b DEF Turned
  <2>2. \A n \in Node \ Left(path, len) : refs'[n] = start'.refs[n]
      BY DEF Reversed
  <2>. QED
      BY <2>1, <2>2 DEF Reversed, Left
<1>5. Counted(path, len)'
    BY DEF Counted, Left
<1>. QED
    BY <1>3, <1>4, <1>5, IsOnTheWay

LEMMA SkipFieldStep ==
    ASSUME IInv, SkipField
    PROVE  IInv'
<1>. USE Here, VisitTypes
<1>1. Visit /\ k < nref[p] /\ Child \in used' \cup {NULL} /\ UNCHANGED <<refs, p, q, done>>
    BY DEF SkipField
<1>2. MarksOK'
    BY <1>1, MarksStep DEF Visited
<1>3. OnTheWay'
    BY <1>1, StayOnTheWay
<1>4. AtTheEnd'
    BY <1>1 DEF AtTheEnd, Visit
<1>5. TypeOK' /\ done' \in BOOLEAN
    BY <1>1 DEF IInv, TypeOK
<1>. QED
    BY <1>1, <1>2, <1>3, <1>4, <1>5 DEF IInv

LEMMA ExitStep ==
    ASSUME IInv, Exit
    PROVE  IInv'
<1>. USE Here, VisitTypes
<1>1. Visit /\ k >= nref[p] /\ p = q /\ done' = TRUE /\ UNCHANGED <<refs, p, q>>
    BY DEF Exit
<1>2. MarksOK'
    BY <1>1, MarksStep DEF Visited
<1>3. OnTheWay'
    BY <1>1, StayOnTheWay
<1>4. AtTheEnd'
    BY <1>1 DEF AtTheEnd
<1>5. TypeOK' /\ done' \in BOOLEAN
    BY <1>1 DEF IInv, TypeOK
<1>. QED
    BY <1>1, <1>2, <1>3, <1>4, <1>5 DEF IInv

\* The block that is entered is the new end of the way, and the field it was
\* found in leads back.
LEMMA DescendOnTheWay ==
    ASSUME IInv, Descend
    PROVE  OnTheWay'
<1>. USE Here, VisitTypes
<1>1. /\ Visit /\ k < nref[p] /\ Child \notin used' \cup {NULL}
      /\ refs' = [refs EXCEPT ![p][k + 1] = q] /\ q' = p /\ p' = Child
    BY DEF Descend
<1>2. PICK len \in Nat \ {0} : \E path \in [1 .. len -> Node] :
        Way(path, len) /\ Reversed(path, len) /\ Counted(path, len)
    BY DEF IInv, OnTheWay
<1>3. PICK path \in [1 .. len -> Node] :
        Way(path, len) /\ Reversed(path, len) /\ Counted(path, len)
    BY <1>2
<1>4. /\ k + 1 \in 1 .. MaxRef /\ Child = start.refs[p][k + 1] /\ Child \in Node
      /\ refs \in Heaps /\ MaxRef \in Nat
  <2>1. refs \in Heaps /\ start.refs \in Heaps /\ MaxRef \in Nat
      BY BcTraverseAssumption DEF IInv, StartOK, TypeOK, Heaps
  <2>2. k + 1 \in 1 .. MaxRef
      BY <1>1, <2>1
  <2>3. Child = refs[p][k + 1] /\ Child = start.refs[p][k + 1]
      BY DEF Child
  <2>. QED
      BY <1>1, <2>1, <2>2, <2>3 DEF Heaps
<1>5. PICK child \in Node : child = Child
    BY <1>4
<1>6. PICK longer \in [1 .. len + 1 -> Node] :
        /\ \A i \in 1 .. len : longer[i] = path[i]
        /\ longer[len + 1] = child
  <2>. DEFINE l == [i \in 1 .. len + 1 |-> IF i <= len THEN path[i] ELSE child]
  <2>1. l \in [1 .. len + 1 -> Node]
      OBVIOUS
  <2>2. (\A i \in 1 .. len : l[i] = path[i]) /\ l[len + 1] = child
      OBVIOUS
  <2>. HIDE DEF l
  <2>. QED
      BY <2>1, <2>2
<1>7. /\ \A i \in 1 .. len - 1 : path[i] # p /\ path[i] \in Node /\ path[i] \in used'
                                 /\ rcount'[path[i]] = rcount[path[i]]
      /\ \A n \in Visited' :
           n = p' \/ n = p \/ n \in Left(path, len) \/ rcount'[n] > nref[n]
    BY <1>1, <1>3, WayUnderVisit
<1>8. path[len] = p /\ \A i \in 1 .. len : path[i] \in used' /\ path[i] # child
    BY <1>1, <1>3, <1>5, <1>7 DEF Way
<1>9. Left(longer, len + 1) = Left(path, len) \cup {p}
    BY <1>6, <1>8 DEF Left
<1>10. Way(longer, len + 1)'
  <2>1. longer[1] = start'.root /\ longer[len + 1] = p'
      BY <1>1, <1>3, <1>5, <1>6 DEF Way
  <2>2. q' = longer[len] /\ len + 1 # 1 /\ (len + 1) - 1 = len
    <3>1. len \in 1 .. len
        OBVIOUS
    <3>. QED
        BY ONLY <1>1, <1>6, <1>8, <3>1, len \in Nat \ {0}
  <2>3. \A i, j \in 1 .. len + 1 : longer[i] = longer[j] => i = j
      BY <1>3, <1>6, <1>8 DEF Way
  <2>4. \A i \in 1 .. len : longer[i] \in used'
      BY <1>6, <1>8
  <2>5. \A i \in 2 .. len + 1 : longer[i] \notin start'.used
    <3>1. child \notin start.used
        BY <1>1, <1>5 DEF IInv, MarksOK
    <3>2. ASSUME NEW i \in 2 .. len + 1, i # len + 1
          PROVE  longer[i] \notin start.used
      <4>1. i \in 2 .. len /\ i \in 1 .. len
          BY <3>2
      <4>. QED
          BY <1>3, <1>6, <4>1 DEF Way
    <3>. QED
        BY <1>1, <1>6, <3>1, <3>2
  <2>. QED
      BY <2>1, <2>2, <2>3, <2>4, <2>5 DEF Way
<1>11. Reversed(longer, len + 1)'
  <2>1. ASSUME NEW i \in 1 .. len
        PROVE  Turned(longer[i], rcount[longer[i]],
                      IF i = 1 THEN longer[1] ELSE longer[i - 1], longer[i + 1])'
    <3>1. CASE i = len
      <4>1. longer[i] = p /\ rcount'[p] = k + 1 /\ longer[i + 1] = child
        <5>1. longer[i] = path[len] /\ longer[i + 1] = child
            BY ONLY <1>6, <3>1, len \in Nat \ {0}, i \in 1 .. len
        <5>. QED
            BY <1>1, <1>8, <5>1
      <4>2. q = IF i = 1 THEN longer[1] ELSE longer[i - 1]
          BY <1>3, <1>6, <1>8, <3>1 DEF Way
      <4>3. k + 1 \in 1 .. nref'[p]
          BY <1>1
      <4>4. refs'[p][k + 1] = q
          BY <1>1, <1>4 DEF Heaps
      <4>5. \A j \in 1 .. MaxRef : j # k + 1 => refs'[p][j] = start'.refs[p][j]
          BY <1>1, <1>4 DEF Heaps
      <4>6. start'.refs[p][k + 1] = child
        <5>1. start' = start
            BY <1>1
        <5>. QED
            BY ONLY <1>4, <1>5, <5>1
      <4>. QED
          BY <4>1, <4>2, <4>3, <4>4, <4>5, <4>6 DEF Turned
    <3>2. CASE i # len
      <4>0. i \in 1 .. len - 1 /\ i + 1 \in 1 .. len /\ (i # 1 => i - 1 \in 1 .. len)
          BY <3>2
      <4>1. Turned(path[i], rcount[path[i]],
                   IF i = 1 THEN path[1] ELSE path[i - 1], path[i + 1])
          BY <1>3, <4>0 DEF Reversed
      <4>2. path[i] # p /\ path[i] \in Node /\ rcount'[path[i]] = rcount[path[i]]
          BY <1>7, <4>0
      <4>3. refs'[path[i]] = refs[path[i]] /\ start' = start /\ nref' = nref
          BY <1>1, <1>4, <4>2 DEF Heaps
      <4>4. longer[i] = path[i] /\ longer[i + 1] = path[i + 1] /\ longer[1] = path[1]
            /\ (i # 1 => longer[i - 1] = path[i - 1])
          BY <1>6, <4>0
      <4>. QED
          BY ONLY <4>1, <4>2, <4>3, <4>4 DEF Turned
    <3>. QED
        BY <3>1, <3>2
  <2>2. \A n \in Node \ Left(longer, len + 1) : refs'[n] = start'.refs[n]
      BY <1>1, <1>3, <1>4, <1>9 DEF Reversed, Heaps
  <2>3. Left(longer, len + 1)' = Left(longer, len + 1)
      BY DEF Left
  <2>4. (len + 1) - 1 = len
      OBVIOUS
  <2>. QED
      BY <2>1, <2>2, <2>3, <2>4 DEF Reversed
<1>12. Counted(longer, len + 1)'
  <2>1. \A n \in Visited' :
           n = p' \/ n \in Left(longer, len + 1) \/ rcount'[n] > nref'[n]
      BY <1>1, <1>7, <1>9
  <2>2. Left(longer, len + 1)' = Left(longer, len + 1)
      BY DEF Left
  <2>. QED
      BY <2>1, <2>2 DEF Counted
<1>13. len + 1 \in Nat \ {0}
    OBVIOUS
<1>. QED
    BY <1>10, <1>11, <1>12, <1>13, IsOnTheWay

LEMMA DescendStep ==
    ASSUME IInv, Descend
    PROVE  IInv'
<1>. USE Here, VisitTypes
<1>1. /\ Visit /\ k < nref[p] /\ Child \notin used' \cup {NULL}
      /\ refs' = [refs EXCEPT ![p][k + 1] = q] /\ q' = p /\ p' = Child
      /\ done' = done
    BY DEF Descend
<1>2. refs \in Heaps /\ k + 1 \in 1 .. MaxRef
    BY <1>1, BcTraverseAssumption DEF IInv, TypeOK, Heaps
<1>3. Child \in Node
    BY <1>1, <1>2 DEF Child, Heaps
<1>4. refs' \in Heaps
    BY <1>1, <1>2 DEF Heaps
<1>5. MarksOK'
    BY <1>1, <1>3, MarksStep
<1>6. OnTheWay'
    BY DescendOnTheWay
<1>7. AtTheEnd'
  <2>1. ~ done' /\ Child # p /\ Child \notin used /\ Child # start.root
      BY <1>1 DEF Visit
  <2>2. Child \notin Visited
      BY <2>1 DEF Visited
  <2>3. rcount[Child] = start.rcount[Child] /\ Child \notin start.used
      BY <1>3, <2>1, <2>2 DEF IInv, MarksOK
  <2>4. rcount[Child] \in {0, 1} /\ nref[Child] \in Nat
      BY <1>3, <2>3 DEF IInv, StartOK
  <2>5. rcount'[Child] = rcount[Child]
      BY <1>1, <1>3, <2>1
  <2>. QED
      BY <1>1, <2>1, <2>4, <2>5 DEF AtTheEnd
<1>8. TypeOK' /\ done' \in BOOLEAN
    BY <1>1, <1>3, <1>4 DEF IInv, TypeOK, Heaps
<1>. QED
    BY <1>1, <1>5, <1>6, <1>7, <1>8 DEF IInv

\* The end of the way is taken off, and the field that led to it gets it back.
LEMMA AscendStep ==
    ASSUME IInv, Ascend
    PROVE  IInv'
<1>. USE Here, VisitTypes
<1>0. /\ Visit /\ k >= nref[p] /\ p # q /\ done' = done
      /\ refs' = [refs EXCEPT ![q][rcount[q]] = p]
      /\ p' = q /\ q' = refs[q][rcount[q]]
    BY DEF Ascend, Back
<1>1. refs \in Heaps /\ start.refs \in Heaps /\ MaxRef \in Nat
      /\ nref \in [Node -> 0 .. MaxRef]
    BY BcTraverseAssumption DEF IInv, StartOK, TypeOK, Heaps
<1>2. PICK len \in Nat \ {0} : \E path \in [1 .. len -> Node] :
        Way(path, len) /\ Reversed(path, len) /\ Counted(path, len)
    BY DEF IInv, OnTheWay
<1>3. PICK path \in [1 .. len -> Node] :
        Way(path, len) /\ Reversed(path, len) /\ Counted(path, len)
    BY <1>2
<1>4. len # 1 /\ q = path[len - 1] /\ path[len] = p
    BY <1>0, <1>3 DEF Way
<1>5. PICK l \in Nat \ {0} : len = l + 1
  <2>1. len - 1 \in Nat \ {0} /\ len = (len - 1) + 1
      BY <1>4
  <2>. QED
      BY <2>1
<1>6. q = path[l] /\ p = path[l + 1]
    BY <1>4, <1>5
<1>7. PICK c \in 1 .. nref[q] :
        /\ c = rcount[q] /\ start.refs[q][c] = p
        /\ refs[q][c] = IF l = 1 THEN path[1] ELSE path[l - 1]
        /\ \A j \in 1 .. MaxRef : j # c => refs[q][j] = start.refs[q][j]
  <2>1. l \in 1 .. len - 1
      BY <1>5
  <2>2. Turned(path[l], rcount[path[l]],
               IF l = 1 THEN path[1] ELSE path[l - 1], path[l + 1])
      BY <1>3, <2>1 DEF Reversed
  <2>3. Turned(q, rcount[q], IF l = 1 THEN path[1] ELSE path[l - 1], p)
      BY <1>6, <2>2
  <2>. QED
      BY ONLY <2>3 DEF Turned
<1>8. c \in 1 .. MaxRef
    BY <1>1
<1>9. refs' \in Heaps /\ refs'[q] = start.refs[q]
      /\ \A n \in Node \ {q} : refs'[n] = refs[n]
  <2>1. refs' = [refs EXCEPT ![q] = [refs[q] EXCEPT ![c] = p]]
      BY <1>0, <1>7
  <2>2. refs'[q] = [refs[q] EXCEPT ![c] = p] /\ \A n \in Node \ {q} : refs'[n] = refs[n]
      BY <1>1, <2>1 DEF Heaps
  <2>3. refs[q] \in [1 .. MaxRef -> Node \cup {NULL}]
        /\ start.refs[q] \in [1 .. MaxRef -> Node \cup {NULL}]
      BY <1>1 DEF Heaps
  <2>4. refs'[q] \in [1 .. MaxRef -> Node \cup {NULL}]
      BY <2>2, <2>3
  <2>5. \A j \in 1 .. MaxRef : refs'[q][j] = start.refs[q][j]
    <3>1. refs'[q][c] = p /\ \A j \in 1 .. MaxRef : j # c => refs'[q][j] = refs[q][j]
        BY ONLY <1>8, <2>2, <2>3
    <3>. QED
        BY ONLY <1>7, <3>1
  <2>6. refs'[q] = start.refs[q]
    <3>1. refs'[q] = [j \in 1 .. MaxRef |-> refs'[q][j]]
        BY ONLY <2>4
    <3>2. start.refs[q] = [j \in 1 .. MaxRef |-> start.refs[q][j]]
        BY ONLY <2>3
    <3>. QED
        BY ONLY <2>5, <3>1, <3>2
  <2>7. refs' \in Heaps
      BY <1>1, <2>1, <2>2, <2>4 DEF Heaps
  <2>. QED
      BY <2>2, <2>6, <2>7
<1>10. PICK shorter \in [1 .. l -> Node] : \A i \in 1 .. l : shorter[i] = path[i]
  <2>. DEFINE s == [i \in 1 .. l |-> path[i]]
  <2>1. s \in [1 .. l -> Node] /\ \A i \in 1 .. l : s[i] = path[i]
      BY <1>5
  <2>. HIDE DEF s
  <2>. QED
      BY <2>1
<1>11. /\ \A i \in 1 .. l : path[i] # p /\ path[i] \in Node /\ path[i] \in used'
                            /\ rcount'[path[i]] = rcount[path[i]]
       /\ \A n \in Visited' :
            n = p' \/ n = p \/ n \in Left(path, len) \/ rcount'[n] > nref[n]
  <2>1. l = len - 1
      BY <1>5
  <2>. QED
      BY <1>0, <1>3, <2>1, WayUnderVisit
<1>12. Left(path, len) = Left(shorter, l) \cup {q}
    BY <1>5, <1>6, <1>10 DEF Left
<1>13. q # p /\ q \in used /\ (q = start.root \/ q \notin start.used)
  <2>1. l \in 1 .. len - 1 /\ (l = 1 \/ l \in 2 .. len)
      BY <1>5
  <2>. QED
      BY <1>0, <1>3, <1>6, <2>1 DEF Way
<1>14. rcount'[q] = rcount[q] /\ rcount'[q] <= nref[q]
    BY <1>0, <1>7, <1>13
<1>15. Way(shorter, l)'
  <2>1. shorter[1] = start'.root /\ shorter[l] = p'
    <3>1. 1 \in 1 .. l /\ l \in 1 .. l
        OBVIOUS
    <3>2. start'.root = start.root /\ path[1] = start.root /\ p' = q
        BY <1>0, <1>3 DEF Way
    <3>. QED
        BY ONLY <1>6, <1>10, <3>1, <3>2
  <2>2. q' = IF l = 1 THEN shorter[l] ELSE shorter[l - 1]
      BY <1>0, <1>7, <1>10
  <2>3. \A i, j \in 1 .. l : shorter[i] = shorter[j] => i = j
      BY <1>3, <1>5, <1>10 DEF Way
  <2>4. \A i \in 1 .. l - 1 : shorter[i] \in used'
      BY <1>10, <1>11
  <2>5. \A i \in 2 .. l : shorter[i] \notin start'.used
      BY <1>0, <1>3, <1>5, <1>10 DEF Way
  <2>. QED
      BY <2>1, <2>2, <2>3, <2>4, <2>5 DEF Way
<1>16. Reversed(shorter, l)'
  <2>1. ASSUME NEW i \in 1 .. l - 1
        PROVE  Turned(shorter[i], rcount[shorter[i]],
                      IF i = 1 THEN shorter[1] ELSE shorter[i - 1], shorter[i + 1])'
    <3>1. i \in 1 .. len - 1 /\ i \in 1 .. l /\ i + 1 \in 1 .. l /\ i # l
          /\ (i # 1 => i - 1 \in 1 .. l) /\ l \in 1 .. len /\ i \in 1 .. len
        BY <1>5
    <3>2. Turned(path[i], rcount[path[i]],
                 IF i = 1 THEN path[1] ELSE path[i - 1], path[i + 1])
        BY <1>3, <3>1 DEF Reversed
    <3>3. path[i] # q
        BY <1>3, <1>6, <3>1 DEF Way
    <3>4. path[i] \in Node /\ rcount'[path[i]] = rcount[path[i]]
        BY <1>11, <3>1
    <3>5. refs'[path[i]] = refs[path[i]] /\ start' = start /\ nref' = nref
        BY <1>0, <1>9, <3>3, <3>4
    <3>6. shorter[i] = path[i] /\ shorter[i + 1] = path[i + 1] /\ shorter[1] = path[1]
          /\ (i # 1 => shorter[i - 1] = path[i - 1])
        BY <1>10, <3>1
    <3>. QED
        BY ONLY <3>2, <3>4, <3>5, <3>6 DEF Turned
  <2>2. \A n \in Node \ Left(shorter, l) : refs'[n] = start'.refs[n]
      BY <1>0, <1>3, <1>9, <1>12 DEF Reversed
  <2>3. Left(shorter, l)' = Left(shorter, l)
      BY DEF Left
  <2>. QED
      BY <2>1, <2>2, <2>3 DEF Reversed
<1>17. Counted(shorter, l)'
  <2>1. rcount'[p] > nref[p]
      BY <1>0
  <2>2. \A n \in Visited' : n = p' \/ n \in Left(shorter, l) \/ rcount'[n] > nref'[n]
      BY <1>0, <1>11, <1>12, <2>1
  <2>3. Left(shorter, l)' = Left(shorter, l)
      BY DEF Left
  <2>. QED
      BY <2>2, <2>3 DEF Counted
<1>18. OnTheWay'
    BY <1>15, <1>16, <1>17, IsOnTheWay
<1>19. MarksOK'
    BY <1>0, <1>13, MarksStep DEF Visited
<1>20. AtTheEnd'
  <2>1. nref'[q] = nref[q] /\ nref[q] \in Nat /\ rcount'[q] \in Nat
      BY <1>0, <1>1, <1>7, <1>14
  <2>. QED
      BY <1>0, <1>14, <2>1 DEF AtTheEnd, Visit
<1>21. TypeOK' /\ done' \in BOOLEAN
  <2>1. q' \in Node
      BY <1>5, <1>7, <1>0
  <2>. QED
      BY <1>0, <1>9, <2>1 DEF IInv, TypeOK, Heaps
<1>. QED
    BY <1>0, <1>18, <1>19, <1>20, <1>21 DEF IInv

-----------------------------------------------------------------------------
(* The theorems.                                                           *)

\* The invariant holds throughout a traversal of any heap, whatever the marks
\* and counts of the blocks that the reset does not come by.
THEOREM Invariance == Spec => []IInv
<1>1. IInv /\ [Next]_vars => IInv'
  <2>. SUFFICES ASSUME IInv, [Next]_vars
       PROVE  IInv'
      OBVIOUS
  <2>1. CASE UNCHANGED vars
    <3>1. UNCHANGED <<nref, refs, used, rcount, p, q, done, start>>
        BY <2>1 DEF vars
    <3>2. TypeOK' /\ done' \in BOOLEAN /\ StartOK' /\ AtTheEnd'
        BY <3>1 DEF IInv, TypeOK, StartOK, AtTheEnd, Heaps
    <3>3. Visited' = Visited /\ Reached' = Reached
        BY <3>1 DEF Visited, Reached, Untraversed
    <3>4. MarksOK'
        BY <3>1, <3>3 DEF IInv, MarksOK
    <3>5. ASSUME NEW len \in Nat \ {0}, NEW path \in [1 .. len -> Node],
                 Way(path, len), Reversed(path, len), Counted(path, len)
          PROVE  OnTheWay'
      <4>1. Way(path, len)'
          BY <3>1, <3>5 DEF Way
      <4>2. Reversed(path, len)'
          BY <3>1, <3>5 DEF Reversed, Turned, Left
      <4>3. Counted(path, len)'
          BY <3>1, <3>3, <3>5 DEF Counted, Left
      <4>. QED
          BY <4>1, <4>2, <4>3, IsOnTheWay
    <3>6. OnTheWay'
        BY <3>5 DEF IInv, OnTheWay
    <3>. QED
        BY <3>2, <3>4, <3>6 DEF IInv
  <2>2. CASE Next
    <3>1. Returned => UNCHANGED vars
        BY DEF Returned
    <3>. QED
        BY <2>1, <2>2, <3>1, DescendStep, SkipFieldStep, AscendStep, ExitStep DEF Next
  <2>. QED
      BY <2>1, <2>2
<1>. QED
    BY <1>1, Initially, PTL DEF Spec

\* Marks, counts and references keep their types: a count never passes the
\* number of fields by more than two (alloccell.h:23).
THEOREM Typing == Spec => []TypeOK
<1>1. IInv => TypeOK
    BY DEF IInv
<1>. QED
    BY <1>1, Invariance, PTL

\* When the traversal is over it is back at the root, and through with all the
\* blocks it has been to, which therefore are closed under what it follows.
LEMMA AtTheEndIsClosed ==
    ASSUME IInv, done
    PROVE  /\ refs = start.refs
           /\ Visited \subseteq used
           /\ \A n \in Visited : rcount[n] > nref[n]
           /\ Visited = Reached
<1>1. p = q /\ p \in used /\ rcount[p] > nref[p] /\ MarksOK /\ StartOK /\ TypeOK
    BY DEF IInv, AtTheEnd
<1>2. PICK len \in Nat \ {0} : \E path \in [1 .. len -> Node] :
        Way(path, len) /\ Reversed(path, len) /\ Counted(path, len)
    BY DEF IInv, OnTheWay
<1>3. PICK path \in [1 .. len -> Node] :
        Way(path, len) /\ Reversed(path, len) /\ Counted(path, len)
    BY <1>2
<1>4. len = 1
  <2>1. ASSUME len # 1
        PROVE  FALSE
    <3>1. len - 1 \in 1 .. len /\ len \in 1 .. len /\ len - 1 # len
        BY <2>1
    <3>2. path[len - 1] = path[len]
        BY <1>1, <1>3, <2>1 DEF Way
    <3>. QED
        BY <1>3, <3>1, <3>2 DEF Way
  <2>. QED
      BY <2>1
<1>5. Left(path, len) = {} /\ p = start.root
    BY <1>3, <1>4 DEF Left, Way
<1>6. refs = start.refs
  <2>1. \A n \in Node : refs[n] = start.refs[n]
      BY <1>3, <1>5 DEF Reversed
  <2>2. refs \in Heaps /\ start.refs \in Heaps
      BY <1>1 DEF TypeOK, StartOK, Heaps
  <2>. QED
      BY ONLY <2>1, <2>2 DEF Heaps
<1>7. Visited \subseteq used
    BY <1>1, <1>5 DEF Visited
<1>8. \A n \in Visited : rcount[n] > nref[n]
    BY <1>1, <1>3, <1>5 DEF Counted
<1>9. Reached \subseteq Visited
  <2>. DEFINE succ == [n \in Node |-> Untraversed(n) \ start.used]
  <2>1. Visited \subseteq Node /\ start.root \in Visited
      BY <1>1 DEF Visited, TypeOK, StartOK
  <2>2. ASSUME NEW n \in Visited, NEW m \in Untraversed(n) \ start.used
        PROVE  m \in Visited
    <3>1. PICK i \in start.rcount[n] + 1 .. nref[n] : m = start.refs[n][i] /\ m # NULL
        BY <2>2 DEF Untraversed
    <3>2. /\ start.rcount[n] \in Nat /\ nref[n] \in 0 .. MaxRef
          /\ rcount[n] \in Nat /\ rcount[n] > nref[n] /\ MaxRef \in Nat
        BY <1>1, <1>8, <2>1, BcTraverseAssumption DEF StartOK, TypeOK
    <3>3. i \in 1 .. MaxRef /\ i > start.rcount[n] /\ i <= rcount[n] /\ i <= nref[n]
        BY <3>1, <3>2
    <3>4. start.refs[n][i] \in used \cup {NULL, p}
        BY <1>1, <3>3 DEF MarksOK
    <3>. QED
        BY <1>1, <2>2, <3>1, <3>4 DEF Visited
  <2>3. IsClosed(Visited, succ)
      BY <2>1, <2>2 DEF IsClosed
  <2>4. Reached = Closure({start.root}, succ) /\ DOMAIN succ = Node
      BY DEF Reached
  <2>. HIDE DEF succ
  <2>. QED
      BY <2>1, <2>3, <2>4 DEF Closure
<1>10. Visited \subseteq Reached
    BY <1>1 DEF MarksOK
<1>. QED
    BY <1>6, <1>7, <1>8, <1>9, <1>10

\* The traversal marks exactly what the root leads to without passing through
\* blocks that had a mark, counts all their fields, leaves the counts of others
\* alone and every reference as it was (bctraverse.c:48).
THEOREM Marking == Spec => []MarksWhatItReaches
<1>1. IInv => MarksWhatItReaches
  <2>. SUFFICES ASSUME IInv, done
       PROVE  /\ refs = start.refs
              /\ used = start.used \cup Reached
              /\ \A n \in Node :
                   IF n \in Reached THEN rcount[n] > nref[n]
                   ELSE rcount[n] = start.rcount[n]
      BY DEF MarksWhatItReaches
  <2>. USE AtTheEndIsClosed
  <2>1. MarksOK
      BY DEF IInv
  <2>2. used = start.used \cup Reached
    <3>1. start.used \subseteq used /\ used \subseteq start.used \cup Visited
        BY <2>1 DEF MarksOK, Visited
    <3>. QED
        BY <3>1
  <2>3. \A n \in Node : IF n \in Reached THEN rcount[n] > nref[n]
                        ELSE rcount[n] = start.rcount[n]
      BY <2>1 DEF MarksOK
  <2>. QED
      BY <2>2, <2>3
<1>. QED
    BY <1>1, Invariance, PTL

-----------------------------------------------------------------------------
(* The references that are reversed can be put back by going up.  The      *)
(* invariant gives the way back; here it is followed, block after block.   *)

\* One block further up, as Undone goes.
Up(h) == IF h.p = h.q THEN h ELSE Back(h)

IsAscent(up) ==
    up = [n \in Nat |-> IF n = 0 THEN [p |-> p, q |-> q, refs |-> refs] ELSE Up(up[n - 1])]

LEMMA OneAscent ==
    ASSUME NEW f, NEW g, IsAscent(f), IsAscent(g)
    PROVE  f = g
<1>1. /\ f = [n \in Nat |-> f[n]] /\ g = [n \in Nat |-> g[n]]
      /\ f[0] = g[0]
      /\ \A n \in Nat \ {0} : f[n] = Up(f[n - 1]) /\ g[n] = Up(g[n - 1])
    BY DEF IsAscent
<1>. DEFINE Differ == {n \in Nat : f[n] # g[n]}
<1>2. ASSUME Differ # {}  PROVE FALSE
  <2>1. PICK n \in Differ : \A m \in Differ : n <= m
    <3>1. Differ \in SUBSET Nat
        OBVIOUS
    <3>. HIDE DEF Differ
    <3>. QED
        BY <1>2, <3>1, LeastNatural
  <2>2. n # 0 /\ n - 1 \in Nat /\ f[n] # g[n]
      BY <1>1, <2>1
  <2>3. f[n - 1] = g[n - 1]
      BY <2>1, <2>2
  <2>. QED
      BY <1>1, <2>2, <2>3
<1>. QED
    BY <1>1, <1>2

-----------------------------------------------------------------------------
(* The way up.                                                             *)

Before(path, i) == IF i = 1 THEN path[1] ELSE path[i - 1]

\* The references when the blocks from number i of the way on are restored.
Restored(path, len, i) ==
    [n \in Node |-> IF \E j \in i .. len - 1 : path[j] = n THEN start.refs[n] ELSE refs[n]]

\* The traversal as it was when it had come to number i of the way.
AtBlock(path, len, i) ==
    [p |-> path[i], q |-> Before(path, i), refs |-> Restored(path, len, i)]

\* Going up from a block of the way leads to the one before.
LEMMA UpTheWay ==
    ASSUME TypeOK, StartOK, NEW len \in Nat \ {0}, NEW path \in [1 .. len -> Node],
           Way(path, len), Reversed(path, len), NEW i \in 2 .. len
    PROVE  Up(AtBlock(path, len, i)) = AtBlock(path, len, i - 1)
<1>. DEFINE h == AtBlock(path, len, i)
            m == path[i - 1]
            c == rcount[m]
            old == Restored(path, len, i)
            new == Restored(path, len, i - 1)
<1>1. /\ i - 1 \in 1 .. len - 1 /\ i \in 1 .. len /\ m \in Node /\ path[i] \in Node
      /\ m # path[i]
    BY DEF Way
<1>2. /\ Turned(m, c, Before(path, i - 1), path[i])
  <2>1. (i - 1) + 1 = i
      OBVIOUS
  <2>. QED
      BY <1>1, <2>1 DEF Reversed, Before
<1>3. h.p = path[i] /\ h.q = m /\ h.refs = old /\ h.p # h.q
    BY <1>1 DEF AtBlock, Before
<1>4. old[m] = refs[m]
  <2>1. ~ \E j \in i .. len - 1 : path[j] = m
      BY <1>1 DEF Way
  <2>. QED
      BY <1>1, <2>1 DEF Restored
<1>5. old[m][c] = Before(path, i - 1)
    BY <1>2, <1>4 DEF Turned
<1>6. [old EXCEPT ![m][c] = path[i]] = new
  <2>1. [refs[m] EXCEPT ![c] = path[i]] = start.refs[m]
    <3>1. refs[m] \in [1 .. MaxRef -> Node \cup {NULL}]
          /\ start.refs[m] \in [1 .. MaxRef -> Node \cup {NULL}]
        BY <1>1 DEF TypeOK, StartOK, Heaps
    <3>2. c \in 1 .. MaxRef /\ start.refs[m][c] = path[i]
          /\ \A j \in 1 .. MaxRef : j # c => refs[m][j] = start.refs[m][j]
      <4>1. nref[m] \in 0 .. MaxRef /\ c \in 1 .. nref[m]
          BY <1>1, <1>2 DEF StartOK, Turned
      <4>2. c \in 1 .. MaxRef
          BY <4>1, BcTraverseAssumption
      <4>. QED
          BY <1>2, <4>2 DEF Turned
    <3>. QED
        BY <3>1, <3>2
  <2>2. \A n \in Node : (\E j \in i - 1 .. len - 1 : path[j] = n)
                          <=> n = m \/ \E j \in i .. len - 1 : path[j] = n
    <3>1. \A j : j \in i - 1 .. len - 1 <=> j = i - 1 \/ j \in i .. len - 1
        BY <1>1
    <3>. QED
        BY <3>1
  <2>3. \A n \in Node : new[n] = IF n = m THEN start.refs[m] ELSE old[n]
      BY <1>1, <2>2 DEF Restored
  <2>4. [old EXCEPT ![m] = start.refs[m]] = new
      BY <1>1, <2>3 DEF Restored
  <2>5. [old EXCEPT ![m][c] = path[i]] = [old EXCEPT ![m] = start.refs[m]]
      BY <1>1, <1>4, <2>1 DEF Restored
  <2>. QED
      BY <2>4, <2>5
<1>7. Back(h) = [p |-> m, q |-> old[m][c], refs |-> [old EXCEPT ![m][c] = path[i]]]
    BY <1>3 DEF Back
<1>8. AtBlock(path, len, i - 1) = [p |-> m, q |-> Before(path, i - 1), refs |-> new]
    BY DEF AtBlock
<1>9. Up(h) = Back(h)
    BY <1>3 DEF Up
<1>. QED
    BY <1>5, <1>6, <1>7, <1>8, <1>9

\* A way that does not meet itself is no longer than there are blocks.
LEMMA WayIsShort ==
    ASSUME NEW len \in Nat \ {0}, NEW path \in [1 .. len -> Node],
           \A i, j \in 1 .. len : path[i] = path[j] => i = j
    PROVE  Cardinality(Node) \in Nat /\ len <= Cardinality(Node)
<1>1. Cardinality(Node) \in Nat
    BY BcTraverseAssumption, FS_CardinalityType
<1>2. IsFiniteSet(1 .. len) /\ Cardinality(1 .. len) = len
    BY FS_Interval
<1>3. path \in Injection(1 .. len, Node)
    BY DEF Injection, IsInjective
<1>4. Cardinality(1 .. len) <= Cardinality(Node)
    BY <1>3, BcTraverseAssumption, FS_Injection
<1>. QED
    BY <1>1, <1>2, <1>4

\* The invariant leaves nothing to lose.
LEMMA AllRestored ==
    ASSUME IInv
    PROVE  NoReferenceIsLost
<1>0. PICK len \in Nat \ {0} : \E path \in [1 .. len -> Node] :
        Way(path, len) /\ Reversed(path, len) /\ Counted(path, len)
    BY DEF IInv, OnTheWay
<1>1. PICK path \in [1 .. len -> Node] : Way(path, len) /\ Reversed(path, len)
    BY <1>0
<1>. DEFINE f == [n \in Nat |-> AtBlock(path, len, IF n < len THEN len - n ELSE 1)]
<1>2. f[0] = [p |-> p, q |-> q, refs |-> refs]
  <2>1. Restored(path, len, len) = refs
      BY DEF Restored, IInv, TypeOK
  <2>2. f[0] = AtBlock(path, len, len)
      OBVIOUS
  <2>. QED
      BY <1>1, <2>1, <2>2 DEF AtBlock, Before, Way
<1>3. ASSUME NEW n \in Nat \ {0}
      PROVE  f[n] = Up(f[n - 1])
  <2>1. CASE n < len
    <3>1. f[n] = AtBlock(path, len, len - n) /\ f[n - 1] = AtBlock(path, len, len - n + 1)
          /\ len - n + 1 \in 2 .. len /\ (len - n + 1) - 1 = len - n
        BY <2>1
    <3>. HIDE DEF f
    <3>2. TypeOK /\ StartOK
        BY DEF IInv
    <3>3. Up(AtBlock(path, len, len - n + 1)) = AtBlock(path, len, (len - n + 1) - 1)
        BY <1>1, <3>1, <3>2, UpTheWay
    <3>. QED
        BY <3>1, <3>3
  <2>2. CASE ~ n < len
    <3>1. f[n] = AtBlock(path, len, 1) /\ f[n - 1] = AtBlock(path, len, 1)
        BY <2>2
    <3>. HIDE DEF f
    <3>. QED
        BY <3>1 DEF Up, AtBlock, Before
  <2>. QED
      BY <2>1, <2>2
<1>4. IsAscent(f)
  <2>. DEFINE g == [n \in Nat |-> IF n = 0 THEN [p |-> p, q |-> q, refs |-> refs]
                                  ELSE Up(f[n - 1])]
  <2>1. \A n \in Nat : f[n] = g[n]
      BY <1>2, <1>3
  <2>2. f = [n \in Nat |-> f[n]] /\ g = [n \in Nat |-> g[n]]
      OBVIOUS
  <2>. HIDE DEF f
  <2>. QED
      BY <2>1, <2>2 DEF IsAscent
<1>5. f[Cardinality(Node)].refs = start.refs
  <2>1. PICK c \in Nat : c = Cardinality(Node) /\ len <= c
      BY <1>1, WayIsShort DEF Way
  <2>2. f[c] = AtBlock(path, len, 1)
      BY <2>1
  <2>3. Restored(path, len, 1) = start.refs
    <3>1. \A n \in Node : ~ (\E j \in 1 .. len - 1 : path[j] = n) => refs[n] = start.refs[n]
        BY <1>1 DEF Reversed, Left
    <3>. QED
        BY <3>1 DEF Restored, IInv, StartOK, Heaps
  <2>. QED
      BY <2>1, <2>2, <2>3 DEF AtBlock
<1>. DEFINE Goes(u) == u = [n \in Nat |->
              IF n = 0 THEN [p |-> p, q |-> q, refs |-> refs]
              ELSE IF u[n - 1].p = u[n - 1].q THEN u[n - 1] ELSE Back(u[n - 1])]
            up == CHOOSE u : Goes(u)
<1>6. up = f
  <2>1. Goes(f)
      BY <1>4 DEF IsAscent, Up
  <2>. HIDE DEF Goes
  <2>2. Goes(up)
      BY <2>1, Zenon
  <2>. HIDE DEF up
  <2>. USE DEF Goes
  <2>3. IsAscent(up)
      BY <2>2 DEF IsAscent, Up
  <2>. QED
      BY <1>4, <2>3, OneAscent
<1>7. Undone = up[Cardinality(Node)].refs
    BY DEF Undone
<1>. QED
    BY <1>5, <1>6, <1>7 DEF NoReferenceIsLost

\* At every turn of the traversal, of whatever heap, going up from the block
\* being visited restores all references: none is lost while the only way back
\* is in the fields of the heap itself (bctraverse.c:78-82, 87-95).
THEOREM Undoing == Spec => []NoReferenceIsLost
<1>1. IInv => NoReferenceIsLost
    BY AllRestored
<1>. QED
    BY Invariance, <1>1, PTL
=============================================================================
