---------------------------- MODULE BcHeapProof ----------------------------
(***************************************************************************)
(* Theorems about the heap of the bytecode interpreter, for any number of  *)
(* blocks of any size, under every policy, with destructors that read the  *)
(* object they destroy but neither allocate, nor raise, nor publish it.    *)
(*                                                                         *)
(* First come lemmas about what BcHeap is built from: the lists that its   *)
(* blocks are chained in, the blocks that references lead to, and sizes.   *)
(* They are about any functions of blocks, so that they can be used of a   *)
(* state and of its successor.                                             *)
(***************************************************************************)
EXTENDS BcHeap, FiniteSetTheorems, SequenceTheorems, TLAPS

Ref == Node \cup {NULL}

LEMMA Alone ==
  ASSUME NEW x
  PROVE  <<x>> \o << >> = <<x>>
<1>1. <<x>> \in Seq({x})
  OBVIOUS
<1>. QED
  BY <1>1, ConcatEmptySeq

---------------------------------------------------------------------------
\* Closures.

LEMMA ClosureLeast ==
  ASSUME NEW succ \in [Node -> SUBSET Node], NEW S \in SUBSET Node
  PROVE  /\ Closure(S, succ) \in SUBSET Node
         /\ S \subseteq Closure(S, succ)
         /\ \A x \in Closure(S, succ) : succ[x] \subseteq Closure(S, succ)
         /\ \A X \in SUBSET Node :
              S \subseteq X /\ (\A x \in X : succ[x] \subseteq X) => Closure(S, succ) \subseteq X
BY DEF Closure, IsClosed

LEMMA ClosureFrame ==
  ASSUME NEW f \in [Node -> SUBSET Node], NEW g \in [Node -> SUBSET Node],
         NEW S \in SUBSET Node, \A a \in Closure(S, f) : g[a] = f[a]
  PROVE  Closure(S, g) = Closure(S, f)
<1>. DEFINE X == Closure(S, f)
            Y == Closure(S, g)
<1>1. X \in SUBSET Node /\ S \subseteq X /\ \A a \in X : g[a] \subseteq X /\ g[a] = f[a]
  BY ClosureLeast
<1>. HIDE DEF X
<1>2. Y \subseteq X
  BY <1>1, ClosureLeast
<1>3. Y \in SUBSET Node /\ S \subseteq Y /\ \A a \in Y : f[a] \subseteq Y
  BY <1>1, <1>2, ClosureLeast
<1>. HIDE DEF Y
<1>4. X \subseteq Y
  BY <1>3, ClosureLeast DEF X
<1>. QED
  BY <1>2, <1>4 DEF X, Y

---------------------------------------------------------------------------
\* Lists.

\* A list goes through every block once, and ends.
Chained(f, h) == Closure({h} \ {NULL}, [m \in Node |-> {f[m]} \ {NULL}])
Linear(f, h) ==
  /\ \A a \in Chained(f, h) : f[a] # h
  /\ \A a, b \in Chained(f, h) : f[a] = f[b] => a = b
  /\ h # NULL => \E a \in Chained(f, h) : f[a] = NULL

LEMMA ChainLeast ==
  ASSUME NEW f \in [Node -> Ref], NEW h \in Ref
  PROVE  /\ Chained(f, h) \in SUBSET Node
         /\ h # NULL => h \in Chained(f, h)
         /\ \A a \in Chained(f, h) : f[a] \in Chained(f, h) \cup {NULL}
         /\ \A X \in SUBSET Node :
              h \in X \cup {NULL} /\ (\A a \in X : f[a] \in X \cup {NULL})
                => Chained(f, h) \subseteq X
<1>. DEFINE succ == [m \in Node |-> {f[m]} \ {NULL}]
            S == {h} \ {NULL}
<1>1. succ \in [Node -> SUBSET Node] /\ S \in SUBSET Node
  BY DEF Ref
<1>2. \A m \in Node : succ[m] = {f[m]} \ {NULL}
  OBVIOUS
<1>. HIDE DEF succ
<1>3. /\ Closure(S, succ) \in SUBSET Node
      /\ S \subseteq Closure(S, succ)
      /\ \A x \in Closure(S, succ) : succ[x] \subseteq Closure(S, succ)
      /\ \A X \in SUBSET Node :
           S \subseteq X /\ (\A x \in X : succ[x] \subseteq X) => Closure(S, succ) \subseteq X
  BY <1>1, ClosureLeast
<1>4. Chained(f, h) = Closure(S, succ)
  BY DEF Chained, succ
<1>. HIDE DEF S
<1>5. S = {h} \ {NULL}
  BY DEF S
<1>. QED
  BY <1>2, <1>3, <1>4, <1>5

LEMMA ChainOfNull ==
  ASSUME NEW f \in [Node -> Ref]
  PROVE  Chained(f, NULL) = {} /\ Linear(f, NULL)
<1>. DEFINE X == {}
<1>0. X \in SUBSET Node /\ NULL \in X \cup {NULL} /\ \A a \in X : f[a] \in X \cup {NULL}
  OBVIOUS
<1>. HIDE DEF X
<1>1. Chained(f, NULL) \subseteq X
  BY <1>0, ChainLeast DEF Ref
<1>2. Chained(f, NULL) = {}
  BY <1>1 DEF X
<1>. QED
  BY <1>2 DEF Linear

\* The list only looks at its own blocks.
LEMMA ChainFrame ==
  ASSUME NEW f \in [Node -> Ref], NEW g \in [Node -> Ref], NEW h \in Ref,
         \A a \in Chained(f, h) : g[a] = f[a]
  PROVE  /\ Chained(g, h) = Chained(f, h)
         /\ Linear(f, h) => Linear(g, h)
<1>1. Chained(g, h) \subseteq Chained(f, h)
  <2>. DEFINE X == Chained(f, h)
  <2>1. X \in SUBSET Node /\ h \in X \cup {NULL} /\ \A a \in X : g[a] \in X \cup {NULL}
    BY ChainLeast
  <2>. HIDE DEF X
  <2>2. Chained(g, h) \subseteq X
    BY <2>1, ChainLeast
  <2>. QED
    BY <2>2 DEF X
<1>2. Chained(f, h) \subseteq Chained(g, h)
  <2>. DEFINE X == Chained(g, h)
  <2>1. X \in SUBSET Node /\ h \in X \cup {NULL} /\ \A a \in X : g[a] \in X \cup {NULL}
    BY ChainLeast
  <2>2. \A a \in X : f[a] \in X \cup {NULL}
    BY <1>1, <2>1
  <2>. HIDE DEF X
  <2>3. Chained(f, h) \subseteq X
    BY <2>1, <2>2, ChainLeast
  <2>. QED
    BY <2>3 DEF X
<1>3. Chained(g, h) = Chained(f, h)
  BY <1>1, <1>2
<1>. QED
  BY <1>3 DEF Linear

\* A new block becomes the head.
LEMMA Pushed ==
  ASSUME NEW f \in [Node -> Ref], NEW h \in Ref, NEW n \in Node, n \notin Chained(f, h),
         Linear(f, h)
  PROVE  LET g == [f EXCEPT ![n] = h]
         IN  Chained(g, n) = Chained(f, h) \cup {n} /\ Linear(g, n)
<1>. DEFINE g == [f EXCEPT ![n] = h]
            C == Chained(f, h)
<1>1. /\ g \in [Node -> Ref] /\ g[n] = h /\ \A a \in Node \ {n} : g[a] = f[a]
      /\ n # NULL
  BY BcHeapAssumption DEF Ref
<1>. HIDE DEF g
<1>2. /\ C \in SUBSET Node /\ h \in C \cup {NULL} /\ \A a \in C : f[a] \in C \cup {NULL}
      /\ n \in Ref /\ n \notin C
  BY ChainLeast DEF Ref
<1>3. Chained(g, n) \subseteq C \cup {n}
  <2>. DEFINE X == C \cup {n}
  <2>. HIDE DEF C
  <2>1. X \in SUBSET Node /\ n \in X \cup {NULL} /\ \A a \in X : g[a] \in X \cup {NULL}
    BY <1>1, <1>2
  <2>. HIDE DEF X
  <2>2. Chained(g, n) \subseteq X
    BY <1>1, <1>2, <2>1, ChainLeast
  <2>. QED
    BY <2>2 DEF X
<1>4. C \cup {n} \subseteq Chained(g, n)
  <2>. DEFINE X == Chained(g, n)
  <2>1. X \in SUBSET Node /\ n \in X /\ \A a \in X : g[a] \in X \cup {NULL}
    BY <1>1, <1>2, ChainLeast
  <2>2. X \subseteq C \cup {n}
    BY <1>3
  <2>. HIDE DEF X
  <2>. DEFINE Y == X \ {n}
  <2>3. Y \in SUBSET Node /\ h \in Y \cup {NULL} /\ \A a \in Y : f[a] \in Y \cup {NULL}
    BY <1>1, <1>2, <2>1, <2>2
  <2>. HIDE DEF Y
  <2>4. C \subseteq Y
    BY <2>3, ChainLeast
  <2>. QED
    BY <2>1, <2>4 DEF X, Y
<1>5. Chained(g, n) = C \cup {n}
  BY <1>3, <1>4
<1>6. /\ \A a \in C : f[a] # h
      /\ \A a, b \in C : f[a] = f[b] => a = b
      /\ h # NULL => \E a \in C : f[a] = NULL
  BY DEF Linear
<1>. HIDE DEF C
<1>7. Linear(g, n)
  <2>1. \A a \in C \cup {n} : g[a] # n
    BY <1>1, <1>2
  <2>2. ASSUME NEW a \in C \cup {n}, NEW b \in C \cup {n}, g[a] = g[b]
        PROVE  a = b
    BY <1>1, <1>2, <1>6, <2>2
  <2>3. \E a \in C \cup {n} : g[a] = NULL
    BY <1>1, <1>2, <1>6
  <2>. QED
    BY <1>5, <2>1, <2>2, <2>3 DEF Linear
<1>. QED
  BY <1>5, <1>7 DEF g, C

\* The head leaves the list.
LEMMA HeadRemoved ==
  ASSUME NEW f \in [Node -> Ref], NEW h \in Node, Linear(f, h)
  PROVE  Chained(f, f[h]) = Chained(f, h) \ {h} /\ Linear(f, f[h])
<1>. DEFINE C == Chained(f, h)
            D == Chained(f, f[h])
<1>1. /\ C \in SUBSET Node /\ h \in C /\ \A a \in C : f[a] \in C \cup {NULL}
      /\ h # NULL /\ f[h] \in Ref
  BY ChainLeast, BcHeapAssumption DEF Ref
<1>2. /\ D \in SUBSET Node /\ f[h] \in D \cup {NULL} /\ \A a \in D : f[a] \in D \cup {NULL}
  BY <1>1, ChainLeast
<1>3. /\ \A a \in C : f[a] # h
      /\ \A a, b \in C : f[a] = f[b] => a = b
      /\ h # NULL => \E a \in C : f[a] = NULL
  BY DEF Linear
<1>4. D \subseteq C \ {h}
  <2>. DEFINE X == C \ {h}
  <2>. HIDE DEF C
  <2>1. X \in SUBSET Node /\ f[h] \in X \cup {NULL} /\ \A a \in X : f[a] \in X \cup {NULL}
    BY <1>1, <1>3
  <2>. HIDE DEF X
  <2>2. D \subseteq X
    BY <1>1, <2>1, ChainLeast
  <2>. QED
    BY <2>2 DEF X
<1>5. C \subseteq D \cup {h}
  <2>. DEFINE X == D \cup {h}
  <2>. HIDE DEF D
  <2>1. X \in SUBSET Node /\ h \in X \cup {NULL} /\ \A a \in X : f[a] \in X \cup {NULL}
    BY <1>1, <1>2
  <2>. HIDE DEF X
  <2>2. C \subseteq X
    BY <2>1, ChainLeast DEF Ref
  <2>. QED
    BY <2>2 DEF X
<1>6. D = C \ {h}
  BY <1>4, <1>5
<1>. HIDE DEF C
<1>7. \A a \in D : f[a] # f[h]
  BY <1>1, <1>3, <1>6
<1>8. \A a, b \in D : f[a] = f[b] => a = b
  BY <1>3, <1>6
<1>9. f[h] # NULL => \E a \in D : f[a] = NULL
  BY <1>1, <1>3, <1>6
<1>10. Linear(f, f[h])
  BY <1>7, <1>8, <1>9 DEF Linear
<1>. QED
  BY <1>6, <1>10 DEF C

\* Another block leaves the list, which its predecessor p is made to skip.
Skips(f, g, h, p, n) ==
  /\ f \in [Node -> Ref] /\ h \in Node /\ Linear(f, h)
  /\ n \in Chained(f, h) /\ n # h /\ p \in Chained(f, h) /\ f[p] = n
  /\ g = [f EXCEPT ![p] = f[n]]

LEMMA InnerRemoved ==
  ASSUME NEW f, NEW g, NEW h, NEW p, NEW n, Skips(f, g, h, p, n)
  PROVE  /\ Chained(g, h) = Chained(f, h) \ {n} /\ Linear(g, h)
         /\ p # n
         /\ \A a \in Chained(g, h) : a \notin Chained(g, f[n]) => a \notin Chained(f, n)
<1>. DEFINE C == Chained(f, h)
            D == Chained(g, h)
<1>0. /\ f \in [Node -> Ref] /\ h \in Node /\ Linear(f, h)
      /\ n \in C /\ n # h /\ p \in C /\ f[p] = n
      /\ g = [f EXCEPT ![p] = f[n]]
  BY DEF Skips
<1>. USE <1>0
<1>1. /\ C \in SUBSET Node /\ h \in C /\ \A a \in C : f[a] \in C \cup {NULL}
      /\ h # NULL /\ h \in Ref
  BY ChainLeast, BcHeapAssumption DEF Ref
<1>2. /\ \A a \in C : f[a] # h
      /\ \A a, b \in C : f[a] = f[b] => a = b
      /\ h # NULL => \E a \in C : f[a] = NULL
  BY <1>0 DEF Linear
<1>3. p \in Node /\ n \in Node /\ n # NULL /\ n \in C /\ p \in C
  BY <1>1, BcHeapAssumption
<1>4. g \in [Node -> Ref] /\ g[p] = f[n] /\ \A a \in Node \ {p} : g[a] = f[a]
  BY <1>3
<1>5. \A a \in Node : g[a] = f[a] \/ (a = p /\ g[a] = f[n])
  BY <1>4
<1>6. p # n
  <2>. SUFFICES ASSUME p = n PROVE FALSE
    OBVIOUS
  <2>. DEFINE X == C \ {n}
  <2>1. X \in SUBSET Node /\ h \in X \cup {NULL} /\ \A a \in X : f[a] \in X \cup {NULL}
    BY <1>1, <1>2, <1>3
  <2>. HIDE DEF X
  <2>2. C \subseteq X
    BY <1>1, <2>1, ChainLeast
  <2>. QED
    BY <1>3, <2>2 DEF X
<1>7. D \subseteq C \ {n}
  <2>. DEFINE X == C \ {n}
  <2>. HIDE DEF C
  <2>1. \A a \in X : g[a] \in X \cup {NULL}
    <3>. TAKE a \in X
    <3>1. CASE a = p
      BY <1>1, <1>2, <1>3, <1>4, <1>6, <3>1
    <3>2. CASE a # p
      BY <1>1, <1>2, <1>3, <1>4, <3>2
    <3>. QED
      BY <3>1, <3>2
  <2>2. X \in SUBSET Node /\ h \in X \cup {NULL}
    BY <1>1
  <2>. HIDE DEF X
  <2>3. D \subseteq X
    BY <1>1, <1>4, <2>1, <2>2, ChainLeast
  <2>. QED
    BY <2>3 DEF X
<1>8. /\ D \in SUBSET Node /\ h \in D /\ \A a \in D : g[a] \in D \cup {NULL}
  BY <1>1, <1>4, ChainLeast
<1>9. C \subseteq D \cup {n}
  <2>. DEFINE X == D \cup {n}
  <2>. HIDE DEF D, C
  <2>1. \A a \in X : f[a] \in X \cup {NULL}
    <3>1. CASE p \in D
      BY <1>1, <1>3, <1>4, <1>8, <3>1
    <3>2. CASE p \notin D
      <4>. DEFINE Y == D
      <4>1. \A a \in D : f[a] \in D \cup {NULL}
        BY <1>4, <1>8, <3>2
      <4>2. D \in SUBSET Node /\ h \in D \cup {NULL}
        BY <1>8
      <4>3. C \subseteq D
        BY <1>1, <4>1, <4>2, ChainLeast DEF C
      <4>. QED
        BY <1>3, <3>2, <4>3
    <3>. QED
      BY <3>1, <3>2
  <2>2. X \in SUBSET Node /\ h \in X \cup {NULL}
    BY <1>3, <1>8
  <2>. HIDE DEF X
  <2>3. C \subseteq X
    BY <1>1, <2>1, <2>2, ChainLeast DEF C
  <2>. QED
    BY <2>3 DEF X
<1>10. D = C \ {n}
  BY <1>7, <1>9
<1>11. Linear(g, h)
  <2>. HIDE DEF C
  <2>1. \A a \in D : g[a] # h
    BY <1>2, <1>3, <1>5, <1>8, <1>10
  <2>2. ASSUME NEW a \in D, NEW b \in D, g[a] = g[b]
        PROVE  a = b
    <3>0. a \in C /\ b \in C /\ a # n /\ b # n /\ a \in Node /\ b \in Node
      BY <1>1, <1>10, <2>2
    <3>1. CASE a = p /\ b # p
      <4>1. f[b] = f[n]
        BY <1>4, <2>2, <3>0, <3>1
      <4>. QED
        BY <1>2, <1>3, <3>0, <4>1
    <3>2. CASE b = p /\ a # p
      <4>1. f[a] = f[n]
        BY <1>4, <2>2, <3>0, <3>2
      <4>. QED
        BY <1>2, <1>3, <3>0, <4>1
    <3>3. CASE a # p /\ b # p
      BY <1>2, <1>4, <2>2, <3>0, <3>3
    <3>. QED
      BY <3>1, <3>2, <3>3
  <2>3. \E a \in D : g[a] = NULL
    <3>1. PICK e \in C : f[e] = NULL
      BY <1>1, <1>2
    <3>2. CASE e = n
      BY <1>3, <1>4, <1>6, <1>10, <3>1, <3>2
    <3>3. CASE e # n
      BY <1>1, <1>3, <1>4, <1>10, <3>1, <3>3
    <3>. QED
      BY <3>2, <3>3
  <2>. QED
    BY <2>1, <2>2, <2>3 DEF Linear
<1>12. Chained(f, n) \subseteq Chained(g, f[n]) \cup {n}
  <2>. DEFINE k == f[n]
              R == Chained(g, k)
              X == R \cup {n}
  <2>0. k \in Ref
    BY <1>3
  <2>. HIDE DEF k
  <2>1. R \in SUBSET Node /\ k \in R \cup {NULL} /\ \A a \in R : g[a] \in R \cup {NULL}
    BY <1>4, <2>0, ChainLeast
  <2>. HIDE DEF R
  <2>2. X \in SUBSET Node /\ n \in X \cup {NULL} /\ \A a \in X : f[a] \in X \cup {NULL}
    BY <1>3, <1>5, <2>1 DEF k
  <2>. HIDE DEF X
  <2>3. Chained(f, n) \subseteq X
    BY <1>3, <2>2, ChainLeast DEF Ref
  <2>. QED
    BY <2>3 DEF X, R, k
<1>13. \A a \in D : a \notin Chained(g, f[n]) => a \notin Chained(f, n)
  BY <1>10, <1>12
<1>. QED
  BY <1>6, <1>10, <1>11, <1>13

\* The blocks from n on are n and those from the next one on.
LEMMA TailOfList ==
  ASSUME NEW f \in [Node -> Ref], NEW n \in Node
  PROVE  Chained(f, n) \subseteq Chained(f, f[n]) \cup {n}
<1>. DEFINE R == Chained(f, f[n])
            X == R \cup {n}
<1>1. R \in SUBSET Node /\ f[n] \in R \cup {NULL} /\ \A a \in R : f[a] \in R \cup {NULL}
  BY ChainLeast
<1>. HIDE DEF R
<1>2. X \in SUBSET Node /\ n \in X \cup {NULL} /\ \A a \in X : f[a] \in X \cup {NULL}
  BY <1>1
<1>. HIDE DEF X
<1>3. Chained(f, n) \subseteq X
  BY <1>2, ChainLeast DEF Ref
<1>. QED
  BY <1>3 DEF X, R
---------------------------------------------------------------------------
\* References.

Heaps == [Node -> [1 .. NRef -> Ref]]
FieldsOf(r, n) == {r[n][i] : i \in 1 .. NRef} \ {NULL}
Reached(r, S) == Closure(S, [n \in Node |-> FieldsOf(r, n)])

LEMMA FieldsType ==
  ASSUME NEW r \in Heaps, NEW n \in Node
  PROVE  FieldsOf(r, n) \in SUBSET Node
BY DEF Heaps, FieldsOf, Ref

LEMMA ReachedLeast ==
  ASSUME NEW r \in Heaps, NEW S \in SUBSET Node
  PROVE  /\ Reached(r, S) \in SUBSET Node
         /\ S \subseteq Reached(r, S)
         /\ \A a \in Reached(r, S) : FieldsOf(r, a) \subseteq Reached(r, S)
         /\ \A X \in SUBSET Node :
              S \subseteq X /\ (\A a \in X : FieldsOf(r, a) \subseteq X)
                => Reached(r, S) \subseteq X
<1>. DEFINE succ == [n \in Node |-> FieldsOf(r, n)]
<1>1. succ \in [Node -> SUBSET Node] /\ \A n \in Node : succ[n] = FieldsOf(r, n)
  BY FieldsType
<1>. HIDE DEF succ
<1>2. /\ Closure(S, succ) \in SUBSET Node
      /\ S \subseteq Closure(S, succ)
      /\ \A x \in Closure(S, succ) : succ[x] \subseteq Closure(S, succ)
      /\ \A X \in SUBSET Node :
           S \subseteq X /\ (\A x \in X : succ[x] \subseteq X) => Closure(S, succ) \subseteq X
  BY <1>1, ClosureLeast
<1>3. Reached(r, S) = Closure(S, succ)
  BY DEF Reached, succ
<1>. QED
  BY <1>1, <1>2, <1>3

LEMMA ReachedOfNone ==
  ASSUME NEW r \in Heaps
  PROVE  Reached(r, {}) = {}
<1>. DEFINE X == {}
            S == {}
<1>1. /\ X \in SUBSET Node /\ S \in SUBSET Node /\ S \subseteq X
      /\ \A a \in X : FieldsOf(r, a) \subseteq X
  OBVIOUS
<1>. HIDE DEF X, S
<1>2. Reached(r, S) \subseteq X
  BY <1>1, ReachedLeast
<1>. QED
  BY <1>2 DEF X, S

\* What ManagedHeap calls reachable is this.
LEMMA ReachIsReached ==
  ASSUME refs \in Heaps, NEW S
  PROVE  /\ Heap!Reach(S) = Reached(refs, S)
         /\ \A n \in Node : Heap!Fields(n) = FieldsOf(refs, n)
<1>1. \A n \in Node : Heap!Fields(n) = FieldsOf(refs, n)
  BY DEF Heap!Fields, FieldsOf, Heaps
<1>2. [n \in Node |-> Heap!Fields(n)] = [n \in Node |-> FieldsOf(refs, n)]
  BY <1>1
<1>3. Heap!Reach(S) = Reached(refs, S)
  BY <1>2 DEF Heap!Reach, Heap!Closure, Heap!IsClosed, Reached, Closure, IsClosed
<1>. QED
  BY <1>1, <1>3

\* Only the fields of what is reached matter.
LEMMA ReachedFrame ==
  ASSUME NEW r \in Heaps, NEW s \in Heaps, NEW S \in SUBSET Node,
         \A a \in Reached(r, S) : FieldsOf(s, a) = FieldsOf(r, a)
  PROVE  Reached(s, S) = Reached(r, S)
<1>. DEFINE X == Reached(r, S)
            Y == Reached(s, S)
<1>1. X \in SUBSET Node /\ S \subseteq X /\ \A a \in X : FieldsOf(s, a) \subseteq X
  BY ReachedLeast
<1>2. \A a \in X : FieldsOf(s, a) = FieldsOf(r, a)
  OBVIOUS
<1>. HIDE DEF X
<1>3. Y \subseteq X
  BY <1>1, ReachedLeast
<1>4. Y \in SUBSET Node /\ S \subseteq Y /\ \A a \in Y : FieldsOf(r, a) \subseteq Y
  BY <1>2, <1>3, ReachedLeast
<1>. HIDE DEF Y
<1>5. X \subseteq Y
  BY <1>4, ReachedLeast DEF X
<1>. QED
  BY <1>3, <1>5 DEF X, Y

\* From what is reached, nothing else is; in particular after a store of one
\* of these references, and after a copy of one to the stack.
LEMMA ReachedWithin ==
  ASSUME NEW r \in Heaps, NEW s \in Heaps, NEW S \in SUBSET Node, NEW T \in SUBSET Node,
         T \subseteq Reached(r, S),
         \A a \in Reached(r, S) : FieldsOf(s, a) \subseteq Reached(r, S)
  PROVE  Reached(s, T) \subseteq Reached(r, S)
<1>. DEFINE X == Reached(r, S)
<1>1. X \in SUBSET Node /\ T \subseteq X /\ \A a \in X : FieldsOf(s, a) \subseteq X
  BY ReachedLeast
<1>. HIDE DEF X
<1>2. Reached(s, T) \subseteq X
  BY <1>1, ReachedLeast
<1>. QED
  BY <1>2 DEF X

\* A block m without references takes the place of blocks Old, to which only the stacks
\* had references.
LEMMA ReachedReplaced ==
  ASSUME NEW r \in Heaps, NEW s \in Heaps, NEW S \in SUBSET Node, NEW Old \in SUBSET S,
         NEW m \in Node, FieldsOf(s, m) = {},
         \A a \in Reached(r, S) : FieldsOf(r, a) \cap Old = {},
         \A a \in Old : FieldsOf(r, a) = {},
         \A a \in Reached(r, S) \ (Old \cup {m}) : FieldsOf(s, a) = FieldsOf(r, a),
         m \in Old \/ m \notin Reached(r, S)
  PROVE  Reached(s, (S \ Old) \cup {m}) = (Reached(r, S) \ Old) \cup {m}
<1>. DEFINE R == Reached(r, S)
            T == (S \ Old) \cup {m}
            X == (R \ Old) \cup {m}
            Q == Reached(s, T)
            Y == Q \cup Old
<1>1. R \in SUBSET Node /\ S \subseteq R /\ \A a \in R : FieldsOf(r, a) \subseteq R
  BY ReachedLeast
<1>2. T \in SUBSET Node
  OBVIOUS
<1>3. /\ \A a \in R : FieldsOf(r, a) \cap Old = {}
      /\ \A a \in R \ (Old \cup {m}) : FieldsOf(s, a) = FieldsOf(r, a)
      /\ m \in Old \/ m \notin R
  OBVIOUS
<1>. HIDE DEF R
<1>4. X \in SUBSET Node /\ T \subseteq X /\ \A a \in X : FieldsOf(s, a) \subseteq X
  BY <1>1, <1>3
<1>. HIDE DEF T, X
<1>5. Q \subseteq X
  BY <1>2, <1>4, ReachedLeast
<1>6. Q \in SUBSET Node /\ T \subseteq Q /\ \A a \in Q : FieldsOf(s, a) \subseteq Q
  BY <1>2, ReachedLeast
<1>. HIDE DEF Q
<1>7. ASSUME NEW a \in Y \cap R
      PROVE  FieldsOf(r, a) \subseteq Y
  <2>1. CASE a \in Old
    BY <2>1
  <2>2. CASE a \notin Old
    BY <1>3, <1>6, <2>2
  <2>. QED
    BY <2>1, <2>2
<1>. DEFINE Z == Y \cap R
<1>8. Z \in SUBSET Node /\ S \subseteq Z /\ \A a \in Z : FieldsOf(r, a) \subseteq Z
  BY <1>1, <1>6, <1>7 DEF T
<1>. HIDE DEF Z
<1>9. R \subseteq Z
  BY <1>8, ReachedLeast DEF R
<1>10. X \subseteq Q
  BY <1>6, <1>9 DEF X, Z, T
<1>. QED
  BY <1>5, <1>10 DEF X, Q, T, R

---------------------------------------------------------------------------
\* Sizes.

LEMMA SizesAdd ==
  ASSUME NEW s \in [Node -> 0 .. MaxSize], NEW S \in SUBSET Node, NEW n \in Node \ S
  PROVE  /\ Cardinality(Bytes(s, S)) \in Nat
         /\ Cardinality(Bytes(s, S \cup {n})) = Cardinality(Bytes(s, S)) + s[n]
<1>. USE BcHeapAssumption
<1>1. IsFiniteSet(S) /\ IsFiniteSet({n}) /\ Cardinality({n}) = 1
  BY FS_Subset, FS_Singleton
<1>2. IsFiniteSet(1 .. MaxSize)
  BY FS_Interval
<1>3. IsFiniteSet(S \X (1 .. MaxSize))
  BY <1>1, <1>2, FS_Product
<1>4. IsFiniteSet(Bytes(s, S))
  BY <1>3, FS_Subset DEF Bytes
<1>5. s[n] \in Nat /\ s[n] <= MaxSize
  OBVIOUS
<1>6. IsFiniteSet(1 .. s[n]) /\ Cardinality(1 .. s[n]) = s[n]
  BY <1>5, FS_Interval
<1>. DEFINE T == {n} \X (1 .. s[n])
<1>7. IsFiniteSet(T) /\ Cardinality(T) = s[n]
  <2>1. IsFiniteSet(T) /\ Cardinality(T) = Cardinality({n}) * Cardinality(1 .. s[n])
    BY <1>1, <1>6, FS_Product
  <2>2. Cardinality(T) = 1 * s[n]
    BY <1>1, <1>6, <2>1
  <2>3. \A x \in Nat : 1 * x = x
    OBVIOUS
  <2>. QED
    BY <1>5, <2>1, <2>2, <2>3
<1>8. Bytes(s, S \cup {n}) = Bytes(s, S) \cup T
  BY <1>5 DEF Bytes
<1>9. Bytes(s, S) \cap T = {}
  BY DEF Bytes
<1>. HIDE DEF T
<1>10. Cardinality(Bytes(s, S)) \in Nat
  BY <1>4, FS_CardinalityType
<1>11. Cardinality(Bytes(s, S) \cup T)
         = Cardinality(Bytes(s, S)) + Cardinality(T) - Cardinality({})
  BY <1>4, <1>7, <1>9, FS_Union
<1>12. Cardinality({}) = 0
  BY FS_EmptySet
<1>13. Cardinality(Bytes(s, S \cup {n})) = Cardinality(Bytes(s, S)) + s[n] - 0
  BY <1>7, <1>8, <1>11, <1>12
<1>14. \A x, y \in Nat : x + y - 0 = x + y
  OBVIOUS
<1>. QED
  BY <1>5, <1>10, <1>13, <1>14

LEMMA SizesNat ==
  ASSUME NEW s \in [Node -> 0 .. MaxSize], NEW S \in SUBSET Node
  PROVE  Cardinality(Bytes(s, S)) \in Nat
<1>. USE BcHeapAssumption
<1>1. IsFiniteSet(S) /\ IsFiniteSet(1 .. MaxSize)
  BY FS_Subset, FS_Interval
<1>2. IsFiniteSet(S \X (1 .. MaxSize))
  BY <1>1, FS_Product
<1>3. IsFiniteSet(Bytes(s, S))
  BY <1>2, FS_Subset DEF Bytes
<1>. QED
  BY <1>3, FS_CardinalityType

LEMMA SizesFrame ==
  ASSUME NEW s, NEW t, NEW S, \A n \in S : s[n] = t[n]
  PROVE  Bytes(s, S) = Bytes(t, S)
BY DEF Bytes

LEMMA SizesOfNone ==
  ASSUME NEW s
  PROVE  Cardinality(Bytes(s, {})) = 0
<1>1. Bytes(s, {}) = {}
  BY DEF Bytes
<1>. QED
  BY <1>1, FS_EmptySet

---------------------------------------------------------------------------
\* Destructors that do no harm.

Restrained == Features \subseteq {"collect", "self"}

---------------------------------------------------------------------------
\* The invariant.

Jobs ==
  [op : {"bcalloc", "bcalloc_on_limit", "GCOLLECT", "GCOLLECT_again", "interpret",
         "interpret_again"},
   kind : {"object", "record", "blob"}, size : 0 .. MaxSize]
Walks ==
  [at : {"sweep", "destructor", "final", "finaliser"}, prev : Ref, curr : Ref, next : Ref,
   reclaimed : Nat, job : Jobs]

Types ==
  /\ mem \in [Node -> {"live", "free"}]
  /\ kind \in [Node -> {"object", "record", "blob"}]
  /\ size \in [Node -> 0 .. MaxSize]
  /\ refs \in Heaps
  /\ next \in [Node -> Ref] /\ prev \in [Node -> Ref]
  /\ used \in SUBSET Node /\ rcount \in [Node -> 0 .. NRef + 1]
  /\ allocated \in Ref /\ finalised \in Ref /\ builder \in Ref
  /\ total_allocated_bytes \in Nat /\ byte_allocation_limit \in Nat
  /\ gc_policy \in Policies
  /\ roots \in SUBSET Node /\ droots \in SUBSET Node
  /\ cycles \in Nat

\* Whatever the program can reach is allocated.  Only records and objects have
\* references, and a block that is free counts as a blob.
Sound ==
  /\ used \subseteq Live
  /\ Reached(refs, roots) \subseteq Live
  /\ \A n \in Node : kind[n] = "blob" => FieldsOf(refs, n) = {}
  /\ \A n \in Node : mem[n] = "free" => kind[n] = "blob"

Listed == Chained(next, allocated) \cup Chained(next, finalised)

\* The lists hold the live blocks but the dying ones, and so do the bytes
\* counted, once those a walk has reclaimed are taken off.
Lists(dying, reclaimed) ==
  /\ Linear(next, allocated) /\ Linear(next, finalised)
  /\ Listed = Live \ dying
  /\ allocated = NULL \/ finalised = NULL
  /\ total_allocated_bytes = SizeOf(Live \ dying) + reclaimed

\* The blob an opcode fills is the newest block, and nothing refers to it yet
\* but the stack.
Filling ==
  builder # NULL =>
    /\ program = "running"
    /\ builder = allocated /\ builder \in roots
    /\ kind[builder] = "blob" /\ prev[builder] = NULL
    /\ \A n \in Reached(refs, roots) : builder \notin FieldsOf(refs, n)

Idle ==
  /\ droots = {}
  /\ Lists({}, 0)
  /\ program = "running" => finalised = NULL
  /\ program \in {"running", "done", "bailed"}
  /\ program = "done" => Live = {}
  /\ Filling

\* A sweep that comes to block n knows the one before it, and everything up to
\* there is marked, as is whatever the program can reach.
SweptTo(w, n) ==
  /\ finalised = NULL /\ builder = NULL
  /\ n \in Chained(next, allocated) \cup {NULL}
  /\ n \notin {allocated, NULL} => w.prev \in Chained(next, allocated) /\ next[w.prev] = n
  /\ Chained(next, allocated) \ Chained(next, n) \subseteq used
  /\ Reached(refs, roots) \subseteq used
  /\ \/ /\ program = "running"
        /\ w.job.op \in {"bcalloc", "bcalloc_on_limit", "GCOLLECT", "GCOLLECT_again"}
     \/ program = "exiting" /\ used = {} /\ w.job.op \in {"interpret", "interpret_again"}

InSweep(w) ==
  /\ w.at = "sweep"
  /\ droots = {}
  /\ Lists({}, w.reclaimed)
  /\ SweptTo(w, w.curr)

InSweepDestructor(w) ==
  /\ w.at = "destructor"
  /\ w.curr \in Live \ used /\ kind[w.curr] = "object"
  /\ Lists({w.curr}, w.reclaimed)
  /\ SweptTo(w, w.next)

InFinalisation(w) ==
  /\ w.at \in {"final", "finaliser"} /\ w.reclaimed = 0
  /\ w.at = "final" => droots = {}
  /\ w.at = "finaliser" => w.curr # NULL
  /\ w.curr \in Chained(next, finalised) \cup {NULL}
  /\ Lists({}, 0)
  /\ allocated = NULL /\ builder = NULL /\ program = "exiting"

UnderWay(w) == InSweep(w) \/ InSweepDestructor(w) \/ InFinalisation(w)

IInv ==
  /\ Types /\ Sound /\ failed = NULL
  /\ \/ gc = << >> /\ Idle
     \/ gc = <<top>> /\ top \in Walks /\ UnderWay(top)

---------------------------------------------------------------------------
\* One walk is under way, or none.

LEMMA OneWalk ==
  ASSUME NEW w, gc = <<w>>
  PROVE  /\ top = w /\ Tail(gc) = << >> /\ gc # << >>
         /\ \A at : At(at) <=> w.at = at
         /\ in_gc <=> w.at \in {"destructor", "finaliser"}
         /\ InDestructor <=> w.at \in {"destructor", "finaliser"}
<1>1. top = w /\ Tail(gc) = << >> /\ gc # << >> /\ Len(gc) = 1 /\ gc[1] = w
  BY DEF top
<1>2. \A i : i \in 1 .. Len(gc) <=> i = 1
  BY <1>1
<1>3. in_gc <=> w.at \in {"destructor", "finaliser"}
  BY <1>1, <1>2 DEF in_gc
<1>. QED
  BY <1>1, <1>3 DEF At, InDestructor

LEMMA NoWalk ==
  ASSUME gc = << >>
  PROVE  ~ InDestructor /\ \A at : ~ At(at)
BY DEF At, InDestructor

\* The same of the next state.
LEMMA OneWalkNext ==
  ASSUME NEW w, gc' = <<w>>
  PROVE  top' = w /\ gc' = <<top'>>
BY DEF top

LEMMA ToIdle ==
  ASSUME Types', Sound', failed' = NULL, gc' = << >>, Idle'
  PROVE  IInv'
BY DEF IInv

LEMMA ToWalk ==
  ASSUME Types', Sound', failed' = NULL, NEW w \in Walks, gc' = <<w>>, UnderWay(w)'
  PROVE  IInv'
<1>1. top' = w /\ gc' = <<top'>>
  BY OneWalkNext
<1>. QED
  BY <1>1 DEF IInv, UnderWay, InSweep, InSweepDestructor, InFinalisation, Lists, SweptTo

---------------------------------------------------------------------------
LEMMA InitInv == Init => IInv
<1>. SUFFICES ASSUME Init PROVE IInv
  OBVIOUS
<1>. USE BcHeapAssumption DEF Init
<1>1. Types
  BY DEF Types, Heaps, NoRefs, Ref
<1>2. Live = {}
  BY DEF Live
<1>3. Reached(refs, roots) = {}
  <2>. DEFINE X == {}
  <2>1. X \in SUBSET Node /\ roots \subseteq X /\ \A a \in X : FieldsOf(refs, a) \subseteq X
    OBVIOUS
  <2>. HIDE DEF X
  <2>2. Reached(refs, roots) \subseteq X
    BY <1>1, <2>1, ReachedLeast DEF Types
  <2>. QED
    BY <2>2 DEF X
<1>4. Sound
  BY <1>2, <1>3 DEF Sound, FieldsOf, NoRefs
<1>5. next \in [Node -> Ref]
  BY <1>1 DEF Types
<1>6. Chained(next, allocated) = {} /\ Linear(next, allocated) /\ finalised = allocated
  BY <1>5, ChainOfNull
<1>7. SizeOf(Live) = 0
  BY <1>2, SizesOfNone DEF SizeOf
<1>8. Lists({}, 0)
  BY <1>2, <1>6, <1>7 DEF Lists, Listed
<1>. QED
  BY <1>1, <1>2, <1>4, <1>8 DEF IInv, Idle, Filling
---------------------------------------------------------------------------
\* Allocation.

LEMMA CallocReaches ==
  ASSUME Types, Sound, NEW n \in Node \ Live, NEW k \in {"object", "record", "blob"},
         NEW s, NEW total, Calloc(n, k, s, total, << >>)
  PROVE  /\ refs' \in Heaps /\ FieldsOf(refs', n) = {}
         /\ \A a \in Node \ {n} : FieldsOf(refs', a) = FieldsOf(refs, a)
         /\ Live' = Live \cup {n}
         /\ Reached(refs, roots) \in SUBSET Node
         /\ Reached(refs', roots') = Reached(refs, roots) \cup {n}
<1>. USE BcHeapAssumption
<1>0. /\ mem \in [Node -> {"live", "free"}] /\ refs \in Heaps /\ roots \in SUBSET Node
  BY DEF Types
<1>1. n # NULL /\ n \in Ref /\ n \notin Live /\ n \in Node
  BY <1>0 DEF Ref, Live
<1>2. /\ refs' \in Heaps /\ refs'[n] = NoRefs /\ \A a \in Node \ {n} : refs'[a] = refs[a]
      /\ mem'[n] = "live" /\ \A a \in Node \ {n} : mem'[a] = mem[a]
      /\ roots' = roots \cup {n}
  BY <1>0, <1>1 DEF Calloc, Heaps, NoRefs, Ref
<1>3. /\ FieldsOf(refs', n) = {}
      /\ \A a \in Node \ {n} : FieldsOf(refs', a) = FieldsOf(refs, a)
  BY <1>2 DEF FieldsOf, NoRefs
<1>4. Live' = Live \cup {n}
  BY <1>1, <1>2 DEF Live
<1>5. Reached(refs', roots') = Reached(refs, roots) \cup {n}
  <2>. DEFINE S == roots
              Old == {}
              s2 == refs'
  <2>1. Reached(refs, S) \in SUBSET Node /\ n \notin Reached(refs, S)
    BY <1>0, <1>1, ReachedLeast DEF Sound
  <2>2. /\ S \in SUBSET Node /\ Old \in SUBSET S /\ roots' = (S \ Old) \cup {n}
        /\ refs \in Heaps /\ s2 \in Heaps /\ n \in Node /\ FieldsOf(s2, n) = {}
    BY <1>0, <1>1, <1>2, <1>3
  <2>3. /\ \A a \in Reached(refs, S) : FieldsOf(refs, a) \cap Old = {}
        /\ \A a \in Old : FieldsOf(refs, a) = {}
        /\ \A a \in Reached(refs, S) \ (Old \cup {n}) : FieldsOf(s2, a) = FieldsOf(refs, a)
        /\ n \in Old \/ n \notin Reached(refs, S)
    BY <1>3, <2>1
  <2>. HIDE DEF Old, S, s2
  <2>4. Reached(s2, (S \ Old) \cup {n}) = (Reached(refs, S) \ Old) \cup {n}
    BY <2>2, <2>3, ReachedReplaced
  <2>. QED
    BY <2>2, <2>4 DEF Old, S, s2
<1>6. Reached(refs, roots) \in SUBSET Node
  BY <1>0, ReachedLeast
<1>. QED
  BY <1>2, <1>3, <1>4, <1>5, <1>6

LEMMA CallocInv ==
  ASSUME Types, Sound, Linear(next, allocated), Chained(next, allocated) = Live,
         NEW total \in Nat, total = SizeOf(Live),
         NEW n \in Node \ Live, NEW k \in {"object", "record", "blob"}, NEW s \in 0 .. MaxSize,
         program = "running", finalised = NULL, droots = {},
         Calloc(n, k, s, total, << >>),
         byte_allocation_limit' \in Nat, gc_policy' \in Policies, UNCHANGED exitVars
  PROVE  Types' /\ Sound' /\ Idle'
<1>. USE BcHeapAssumption
<1>0. /\ mem \in [Node -> {"live", "free"}] /\ refs \in Heaps /\ next \in [Node -> Ref]
      /\ prev \in [Node -> Ref] /\ kind \in [Node -> {"object", "record", "blob"}]
      /\ size \in [Node -> 0 .. MaxSize] /\ allocated \in Ref /\ roots \in SUBSET Node
      /\ used \in SUBSET Node
  BY DEF Types
<1>1. n # NULL /\ n \in Ref /\ n \notin Live /\ mem[n] = "free" /\ n \in Node
  BY <1>0 DEF Ref, Live
<1>2. /\ refs' \in Heaps /\ refs'[n] = NoRefs /\ \A a \in Node \ {n} : refs'[a] = refs[a]
      /\ next' \in [Node -> Ref] /\ next' = [next EXCEPT ![n] = allocated]
      /\ kind' \in [Node -> {"object", "record", "blob"}]
      /\ kind'[n] = k /\ \A a \in Node \ {n} : kind'[a] = kind[a]
      /\ size' \in [Node -> 0 .. MaxSize]
      /\ size'[n] = s /\ \A a \in Node \ {n} : size'[a] = size[a]
      /\ mem' \in [Node -> {"live", "free"}]
      /\ mem'[n] = "live" /\ \A a \in Node \ {n} : mem'[a] = mem[a]
      /\ prev' \in [Node -> Ref] /\ (allocated # n => prev'[n] = NULL)
      /\ allocated' = n /\ roots' = roots \cup {n} /\ droots' = {} /\ used' = used \ {n}
      /\ total_allocated_bytes' = total + s
      /\ finalised' = NULL /\ program' = "running"
      /\ builder' = IF k = "blob" THEN n ELSE NULL
  BY <1>0, <1>1 DEF Calloc, Heaps, NoRefs, Ref, exitVars
<1>3. /\ FieldsOf(refs', n) = {}
      /\ \A a \in Node \ {n} : FieldsOf(refs', a) = FieldsOf(refs, a)
      /\ Live' = Live \cup {n} /\ Live' \in SUBSET Node
      /\ Reached(refs, roots) \in SUBSET Node
      /\ Reached(refs', roots') = Reached(refs, roots) \cup {n}
  BY CallocReaches DEF Live
<1>5. Types'
  BY <1>0, <1>1, <1>2 DEF Types, Calloc, exitVars
<1>8. Sound'
  BY <1>0, <1>1, <1>2, <1>3 DEF Sound
<1>9. /\ Chained(next, allocated) = Live /\ Linear(next, allocated)
  OBVIOUS
<1>10. Chained(next', n) = Live \cup {n} /\ Linear(next', n)
  <2>1. n \notin Chained(next, allocated)
    BY <1>1, <1>9
  <2>2. next \in [Node -> Ref] /\ allocated \in Ref /\ n \in Node /\ Linear(next, allocated)
    BY <1>0, <1>1, <1>9
  <2>3. LET g == [next EXCEPT ![n] = allocated]
        IN  Chained(g, n) = Chained(next, allocated) \cup {n} /\ Linear(g, n)
    BY <2>1, <2>2, Pushed
  <2>4. next' = [next EXCEPT ![n] = allocated]
    BY <1>2
  <2>. QED
    BY <1>9, <2>3, <2>4
<1>11. Chained(next', NULL) = {} /\ Linear(next', NULL)
  BY <1>2, ChainOfNull
<1>12. SizeOf(Live)' = SizeOf(Live) + s
  <2>1. Live \in SUBSET Node /\ n \in Node \ Live
    BY <1>1 DEF Live
  <2>2. Cardinality(Bytes(size', Live \cup {n})) = Cardinality(Bytes(size', Live)) + s
    <3>1. size' \in [Node -> 0 .. MaxSize] /\ size'[n] = s
      BY <1>2
    <3>2. Cardinality(Bytes(size', Live \cup {n})) = Cardinality(Bytes(size', Live)) + size'[n]
      BY <2>1, <3>1, SizesAdd
    <3>. QED
      BY <3>1, <3>2
  <2>3. Bytes(size', Live) = Bytes(size, Live)
    <3>1. \A a \in Live : size'[a] = size[a]
      BY <1>2, <2>1
    <3>. QED
      BY <3>1, SizesFrame
  <2>. QED
    BY <1>3, <2>2, <2>3 DEF SizeOf
<1>13. Lists({}, 0)'
  <2>1. Live' \ {} = Live'
    OBVIOUS
  <2>2. total_allocated_bytes' = SizeOf(Live)' + 0
    BY <1>2, <1>5, <1>12 DEF Types
  <2>. QED
    BY <1>2, <1>3, <1>10, <1>11, <2>1, <2>2 DEF Lists, Listed, SizeOf
<1>14. Filling'
  <2>1. SUFFICES ASSUME builder' # NULL PROVE Filling'
    BY DEF Filling
  <2>2. k = "blob" /\ builder' = n
    BY <1>2, <2>1
  <2>3. allocated # n
    BY <1>0, <1>1, <1>9, ChainLeast
  <2>4. \A a \in Reached(refs', roots') : n \notin FieldsOf(refs', a)
    <3>1. \A a \in Reached(refs, roots) : FieldsOf(refs, a) \subseteq Reached(refs, roots)
      BY <1>0, ReachedLeast
    <3>. QED
      BY <1>1, <1>3, <3>1 DEF Sound
  <2>. QED
    <3>1. /\ program' = "running" /\ builder' = allocated' /\ builder' \in roots'
          /\ kind'[builder'] = "blob" /\ prev'[builder'] = NULL
      BY <1>2, <2>2, <2>3
    <3>2. \A a \in Reached(refs', roots') : builder' \notin FieldsOf(refs', a)
      BY <2>2, <2>4
    <3>. QED
      BY <3>1, <3>2 DEF Filling
<1>. QED
  BY <1>2, <1>5, <1>8, <1>13, <1>14 DEF Idle
LEMMA Idling ==
  ASSUME IInv, gc = << >>
  PROVE  Types /\ Sound /\ failed = NULL /\ Idle
BY DEF IInv

LEMMA Walking ==
  ASSUME IInv, gc # << >>
  PROVE  Types /\ Sound /\ failed = NULL /\ \E w \in Walks : gc = <<w>> /\ UnderWay(w)
BY DEF IInv

LEMMA ListsFrame ==
  ASSUME UNCHANGED <<mem, size, next, allocated, finalised, total_allocated_bytes>>,
         NEW dying, NEW reclaimed, Lists(dying, reclaimed)
  PROVE  Lists(dying, reclaimed)'
BY DEF Lists, Listed, SizeOf, Live

LEMMA BcallocInv ==
  ASSUME Restrained, IInv, NEW k \in Kinds, NEW s \in 1 .. MaxSize, Bcalloc(k, s)
  PROVE  IInv'
<1>. USE BcHeapAssumption
<1>1. /\ CodeRuns /\ ~ InDestructor
      /\ byte_allocation_limit' = byte_allocation_limit /\ gc_policy' = gc_policy
      /\ UNCHANGED exitVars /\ gc' = gc /\ failed' = failed
  BY DEF Bcalloc, MayAllocate, Restrained
<1>2. gc = << >> /\ program = "running"
  BY <1>1 DEF CodeRuns
<1>3. Types /\ Sound /\ failed = NULL /\ Idle
  BY <1>2, Idling
<1>4. droots = {} /\ finalised = NULL /\ Lists({}, 0)
  BY <1>2, <1>3 DEF Idle
<1>5. CASE \E n \in Node \ Live : Calloc(n, k, s, total_allocated_bytes, gc)
  <2>1. PICK n \in Node \ Live : Calloc(n, k, s, total_allocated_bytes, << >>)
    BY <1>2, <1>5
  <2>2. next \in [Node -> Ref] /\ total_allocated_bytes \in Nat
    BY <1>3 DEF Types
  <2>3. /\ Linear(next, allocated) /\ Chained(next, allocated) = Live
        /\ total_allocated_bytes = SizeOf(Live)
    <3>1. Live \ {} = Live /\ Chained(next, finalised) = {}
      BY <1>4, <2>2, ChainOfNull
    <3>2. SizeOf(Live) \in Nat
      BY <1>3, <3>1, SizesNat DEF SizeOf, Types, Live
    <3>. QED
      BY <1>4, <3>1, <3>2 DEF Lists, Listed
  <2>4. byte_allocation_limit' \in Nat /\ gc_policy' \in Policies /\ s \in 0 .. MaxSize
    BY <1>1, <1>3 DEF Types
  <2>. HIDE DEF Live
  <2>5. Types' /\ Sound' /\ Idle'
    BY <1>1, <1>2, <1>3, <1>4, <2>1, <2>2, <2>3, <2>4, CallocInv
  <2>. QED
    BY <1>1, <1>2, <1>3, <2>5, ToIdle
<1>6. CASE CallocFails(total_allocated_bytes)
  <2>. USE <1>1, <1>3, <1>4, <1>6 DEF CallocFails, blockVars, exitVars
  <2>1. Types'
    BY DEF Types, Ref
  <2>2. Sound'
    BY DEF Sound, Live
  <2>3. Lists({}, 0)'
    BY ListsFrame
  <2>4. Idle'
    BY <1>2, <2>3 DEF Idle, Filling, Live
  <2>. QED
    BY <1>2, <2>1, <2>2, <2>4, ToIdle
<1>. QED
  BY <1>5, <1>6 DEF Bcalloc

---------------------------------------------------------------------------
\* Code that leaves the lists alone, and finds nothing the program could not
\* reach before.

LEMMA CodeInv ==
  ASSUME IInv, CodeRuns, Types', builder' = NULL,
         UNCHANGED <<mem, kind, size, next, used, allocated, finalised, program,
                     total_allocated_bytes, gc, failed>>,
         Reached(refs', roots') \subseteq Reached(refs, roots),
         \A n \in Node : kind[n] = "blob" => FieldsOf(refs', n) = {},
         gc = << >> => droots' = {}
  PROVE  IInv'
<1>1. CASE gc = << >>
  <2>1. Types /\ Sound /\ failed = NULL /\ Idle
    BY <1>1, Idling
  <2>2. Sound'
    BY <2>1 DEF Sound, Live
  <2>3. Lists({}, 0)'
    BY <2>1, ListsFrame DEF Idle
  <2>4. Idle'
    BY <1>1, <2>1, <2>3 DEF Idle, Filling, Live
  <2>. QED
    BY <1>1, <2>1, <2>2, <2>4, ToIdle
<1>2. CASE gc # << >>
  <2>1. Types /\ Sound /\ failed = NULL
    BY <1>2, Walking
  <2>2. PICK w \in Walks : gc = <<w>> /\ UnderWay(w)
    BY <1>2, Walking
  <2>3. w.at \in {"destructor", "finaliser"}
    BY <1>2, <2>2, OneWalk DEF CodeRuns
  <2>4. Sound'
    BY <2>1 DEF Sound, Live
  <2>5. CASE InSweepDestructor(w)
    <3>1. Lists({w.curr}, w.reclaimed)'
      BY <2>5, ListsFrame DEF InSweepDestructor
    <3>2. SweptTo(w, w.next)'
      BY <2>5 DEF InSweepDestructor, SweptTo
    <3>3. UnderWay(w)'
      BY <2>5, <3>1, <3>2 DEF UnderWay, InSweepDestructor, Live
    <3>. QED
      BY <2>1, <2>2, <2>4, <3>3, ToWalk
  <2>6. CASE InFinalisation(w)
    <3>1. Lists({}, 0)'
      BY <2>6, ListsFrame DEF InFinalisation
    <3>2. UnderWay(w)'
      BY <2>3, <2>6, <3>1 DEF UnderWay, InFinalisation
    <3>. QED
      BY <2>1, <2>2, <2>4, <3>2, ToWalk
  <2>. QED
    BY <2>2, <2>3, <2>5, <2>6 DEF UnderWay, InSweep
<1>. QED
  BY <1>1, <1>2

LEMMA LoadFieldInv ==
  ASSUME IInv, NEW n \in Node, NEW i \in 1 .. NRef, LoadField(n, i)
  PROVE  IInv' /\ Reached(refs', roots') \subseteq Reached(refs, roots)
<1>. USE DEF LoadField, blockVars, listVars, exitVars
<1>0. Types
  BY DEF IInv
<1>1. refs[n][i] \in Node /\ refs[n][i] \in FieldsOf(refs, n)
  <2>1. refs \in [Node -> [1 .. NRef -> Ref]] /\ refs[n][i] # NULL
    BY <1>0 DEF Types, Heaps
  <2>2. refs[n][i] \in Ref
    BY <2>1
  <2>. QED
    BY <2>1, <2>2 DEF Ref, FieldsOf
<1>2. roots' \in SUBSET Node /\ droots' \in SUBSET Node
  BY <1>0, <1>1 DEF Receive, Types
<1>3. Types'
  BY <1>0, <1>2 DEF Types, Ref
<1>4. roots' \subseteq Reached(refs, roots)
  <2>0. refs \in Heaps /\ roots \in SUBSET Node
    BY <1>0 DEF Types
  <2>1. /\ roots \subseteq Reached(refs, roots)
        /\ \A a \in Reached(refs, roots) : FieldsOf(refs, a) \subseteq Reached(refs, roots)
    BY <2>0, ReachedLeast
  <2>2. CASE InDestructor
    BY <2>1, <2>2 DEF Receive
  <2>3. CASE ~ InDestructor
    <3>1. gc = << >>
      BY <2>3 DEF CodeRuns
    <3>2. droots = {}
      BY <3>1, Idling DEF Idle
    <3>. QED
      BY <1>1, <2>1, <2>3, <3>2 DEF Receive, Cells
  <2>. QED
    BY <2>2, <2>3
<1>5. Reached(refs', roots') \subseteq Reached(refs, roots)
  <2>1. refs \in Heaps /\ roots \in SUBSET Node /\ refs' = refs
    BY <1>0 DEF Types
  <2>2. \A a \in Reached(refs, roots) : FieldsOf(refs, a) \subseteq Reached(refs, roots)
    BY <2>1, ReachedLeast
  <2>. QED
    BY <1>2, <1>4, <2>1, <2>2, ReachedWithin
<1>6. gc = << >> => droots' = {}
  BY Idling, NoWalk DEF Idle, Receive
<1>. QED
  BY <1>3, <1>5, <1>6, CodeInv DEF IInv, Sound
\* What MayPublish() asks for, without "publish".
LEMMA NothingPublished ==
  ASSUME Restrained, IInv, CodeRuns, NEW m \in Ref,
         InDestructor => MayPublish(m), ~ InDestructor => m \in roots \cup {NULL}
  PROVE  m \in Reached(refs, roots) \cup {NULL}
<1>0. refs \in Heaps /\ roots \in SUBSET Node
  BY DEF IInv, Types
<1>1. CASE InDestructor
  <2>1. m \in Heap!Reach(roots) \cup {NULL}
    BY <1>1 DEF Restrained, MayPublish, Publishes
  <2>. QED
    BY <1>0, <2>1, ReachIsReached
<1>2. CASE ~ InDestructor
  BY <1>0, <1>2, ReachedLeast
<1>. QED
  BY <1>1, <1>2

LEMMA StoreFieldInv ==
  ASSUME Restrained, IInv, NEW n \in Node, NEW i \in 1 .. NRef, NEW m \in Ref,
         StoreField(n, i, m)
  PROVE  IInv' /\ Reached(refs', roots') \subseteq Reached(refs, roots)
<1>. USE DEF StoreField, listVars, exitVars
<1>0. Types /\ refs \in Heaps /\ roots \in SUBSET Node
  BY DEF IInv, Types
<1>1. /\ refs' \in Heaps
      /\ \A a \in Node \ {n} : refs'[a] = refs[a]
      /\ \A j \in 1 .. NRef : refs'[n][j] \in {refs[n][j], m}
  BY <1>0 DEF Heaps
<1>2. Types'
  BY <1>0, <1>1 DEF Types, Ref
<1>3. /\ \A a \in Node \ {n} : FieldsOf(refs', a) = FieldsOf(refs, a)
      /\ FieldsOf(refs', n) \subseteq FieldsOf(refs, n) \cup ({m} \ {NULL})
  BY <1>1 DEF FieldsOf
<1>4. n \in Reached(refs, roots) => m \in Reached(refs, roots) \cup {NULL}
  <2>. SUFFICES ASSUME n \in Reached(refs, roots)
                PROVE  m \in Reached(refs, roots) \cup {NULL}
    OBVIOUS
  <2>1. InDestructor => MayPublish(m)
    BY <1>0, ReachIsReached
  <2>2. ~ InDestructor => m \in roots \cup {NULL}
    BY Idling DEF CodeRuns, Idle, Cells
  <2>. QED
    BY <2>1, <2>2, NothingPublished
<1>5. Reached(refs', roots') \subseteq Reached(refs, roots)
  <2>. DEFINE R == Reached(refs, roots)
  <2>1. R \in SUBSET Node /\ \A a \in R : FieldsOf(refs, a) \subseteq R
    BY <1>0, ReachedLeast
  <2>2. roots' = roots /\ roots \subseteq R
    BY <1>0, ReachedLeast
  <2>3. n \in R => m \in R \cup {NULL}
    BY <1>4
  <2>4. \A a \in R : FieldsOf(refs', a) \subseteq R
    <3>. HIDE DEF R
    <3>. QED
      BY <1>3, <2>1, <2>3
  <2>5. /\ refs \in Heaps /\ refs' \in Heaps /\ roots \in SUBSET Node /\ roots' \in SUBSET Node
        /\ roots' \subseteq Reached(refs, roots)
        /\ \A a \in Reached(refs, roots) : FieldsOf(refs', a) \subseteq Reached(refs, roots)
    BY <1>0, <1>1, <2>2, <2>4
  <2>. QED
    BY ONLY <2>5, ReachedWithin
<1>6. \A a \in Node : kind[a] = "blob" => FieldsOf(refs', a) = {}
  <2>1. kind[n] # "blob"
    BY DEF nref
  <2>. QED
    BY <1>3, <2>1 DEF IInv, Sound
<1>7. gc = << >> => droots' = {}
  BY Idling DEF Idle
<1>. QED
  BY <1>2, <1>5, <1>6, <1>7, CodeInv DEF IInv

LEMMA StoreGlobalInv ==
  ASSUME Restrained, IInv, NEW m \in Node, StoreGlobal(m)
  PROVE  IInv' /\ Reached(refs', roots') \subseteq Reached(refs, roots)
<1>. USE DEF StoreGlobal, blockVars, listVars, exitVars
<1>0. Types /\ refs \in Heaps /\ roots \in SUBSET Node
  BY DEF IInv, Types
<1>1. Types'
  BY <1>0 DEF Types, Ref
<1>2. m \in Reached(refs, roots)
  BY NothingPublished, BcHeapAssumption DEF Ref
<1>3. Reached(refs', roots') \subseteq Reached(refs, roots)
  <2>1. /\ roots \subseteq Reached(refs, roots) /\ refs' = refs /\ roots' \in SUBSET Node
        /\ \A a \in Reached(refs, roots) : FieldsOf(refs, a) \subseteq Reached(refs, roots)
    BY <1>0, ReachedLeast
  <2>. QED
    BY <1>0, <1>2, <2>1, ReachedWithin
<1>. QED
  BY <1>1, <1>3, NoWalk, CodeInv DEF IInv, Sound

LEMMA DropReferenceInv ==
  ASSUME IInv, NEW n \in Node, DropReference(n)
  PROVE  IInv' /\ Reached(refs', roots') \subseteq Reached(refs, roots)
<1>. USE DEF DropReference, blockVars, listVars, exitVars
<1>0. Types /\ refs \in Heaps /\ roots \in SUBSET Node
  BY DEF IInv, Types
<1>1. Types'
  BY <1>0 DEF Types, Ref
<1>2. Reached(refs', roots') \subseteq Reached(refs, roots)
  <2>1. /\ roots \subseteq Reached(refs, roots) /\ refs' = refs /\ roots' \subseteq roots
        /\ \A a \in Reached(refs, roots) : FieldsOf(refs, a) \subseteq Reached(refs, roots)
    BY <1>0, ReachedLeast
  <2>. QED
    BY <1>0, <2>1, ReachedWithin
<1>3. gc = << >> => droots' = {}
  BY Idling DEF Idle
<1>. QED
  BY <1>1, <1>2, <1>3, CodeInv DEF IInv, Sound

LEMMA SetPolicyInv ==
  ASSUME IInv, NEW p \in Policies, SetPolicy(p)
  PROVE  IInv'
<1>. USE DEF SetPolicy, blockVars, exitVars
<1>1. Types'
  BY DEF IInv, Types, Ref
<1>2. gc = << >> => droots' = {}
  BY Idling DEF Idle
<1>. QED
  BY <1>1, <1>2, CodeInv DEF IInv, Sound

---------------------------------------------------------------------------
\* Collections start, and the program ends.

\* Marking finds what the program can reach, and nothing it must not find.
LEMMA MarkFromRoots ==
  ASSUME Types, Sound, Chained(next, allocated) = Live, droots = {}, MarkFrom(Cells)
  PROVE  /\ used' = Reached(refs, roots) /\ failed' = NULL
         /\ rcount' \in [Node -> 0 .. NRef + 1] /\ prev' \in [Node -> Ref]
<1>. DEFINE listed == Chain(allocated)
            count == [n \in Node |-> IF n \in listed THEN 0 ELSE rcount[n]]
            marked == used \ listed
            reach == Traverse(Cells, count, marked)
<1>0. /\ rcount \in [Node -> 0 .. NRef + 1] /\ prev \in [Node -> Ref] /\ refs \in Heaps
      /\ roots \in SUBSET Node /\ used \subseteq Live /\ NRef \in Nat
      /\ Reached(refs, roots) \subseteq Live
  BY BcHeapAssumption DEF Types, Sound
<1>1. listed = Live
  BY DEF Chain, Chained
<1>2. marked = {} /\ Cells = roots
  BY <1>0, <1>1 DEF Cells
<1>. DEFINE succ == [n \in Node |-> Untraversed(n, count) \ marked]
            fields == [n \in Node |-> FieldsOf(refs, n)]
<1>3. \A n \in Live : count[n] = 0 /\ n \in Node
  BY <1>1 DEF Live
<1>4. \A n \in Node : succ[n] = Untraversed(n, count) /\ fields[n] = FieldsOf(refs, n)
  BY <1>2
<1>5. fields \in [Node -> SUBSET Node]
  BY <1>0, FieldsType
<1>6. succ \in [Node -> SUBSET Node]
  <2>. SUFFICES ASSUME NEW n \in Node PROVE Untraversed(n, count) \in SUBSET Node
    BY <1>2
  <2>1. count[n] \in Nat /\ refs[n] \in [1 .. NRef -> Ref] /\ nref(n) \in Nat
        /\ nref(n) <= NRef
    BY <1>0 DEF Heaps, nref
  <2>. HIDE DEF count
  <2>2. ASSUME NEW i \in count[n] + 1 .. nref(n)
        PROVE  refs[n][i] \in Ref
    <3>1. i \in 1 .. NRef
      BY <1>0, <2>1
    <3>. QED
      BY <2>1, <3>1
  <2>. QED
    BY <2>2 DEF Untraversed, Ref
<1>7. Reached(refs, roots) = Closure(roots, fields)
  BY DEF Reached
<1>8. reach = Closure(roots, succ)
  BY <1>2 DEF Traverse
<1>9. \A n \in Live : succ[n] = fields[n]
  <2>. SUFFICES ASSUME NEW n \in Live PROVE Untraversed(n, count) = FieldsOf(refs, n)
    BY <1>3, <1>4
  <2>0. count[n] = 0 /\ n \in Node
    BY <1>3
  <2>. HIDE DEF count
  <2>1. CASE kind[n] = "blob"
    BY <2>0, <2>1 DEF Untraversed, nref, Sound
  <2>2. CASE kind[n] # "blob"
    BY <1>0, <2>0, <2>2 DEF Untraversed, nref, FieldsOf
  <2>. QED
    BY <2>1, <2>2
<1>. HIDE DEF succ, fields, Live
<1>10. Closure(roots, succ) = Closure(roots, fields)
  BY <1>0, <1>5, <1>6, <1>7, <1>9, ClosureFrame
<1>11. reach = Reached(refs, roots)
  BY <1>7, <1>8, <1>10
<1>12. reach \subseteq Live
  BY <1>0, <1>11
<1>13. /\ used' = marked \cup reach /\ failed' = NULL
       /\ rcount' = [n \in Node |-> IF n \in reach THEN nref(n) + 1 ELSE count[n]]
       /\ prev' = [n \in Node |-> IF n \in listed THEN NULL ELSE prev[n]]
  BY <1>12 DEF MarkFrom
<1>14. \A n \in Node : nref(n) + 1 \in 0 .. NRef + 1 /\ count[n] \in 0 .. NRef + 1
  BY <1>0 DEF nref
<1>15. used' = Reached(refs, roots) /\ failed' = NULL
  BY <1>2, <1>11, <1>13
<1>16. rcount' \in [Node -> 0 .. NRef + 1]
  <2>. HIDE DEF count, reach
  <2>. QED
    BY <1>13, <1>14
<1>17. prev' \in [Node -> Ref]
  BY <1>0, <1>13 DEF Ref
<1>. QED
  BY <1>15, <1>16, <1>17
\* While no walk is under way and the program runs, the heap is one list.
LEMMA OneList ==
  ASSUME Types, Lists({}, 0), finalised = NULL
  PROVE  /\ Linear(next, allocated) /\ Chained(next, allocated) = Live
         /\ total_allocated_bytes = SizeOf(Live) /\ SizeOf(Live) \in Nat
<1>1. next \in [Node -> Ref] /\ size \in [Node -> 0 .. MaxSize] /\ Live \in SUBSET Node
  BY DEF Types, Live
<1>2. Live \ {} = Live /\ Chained(next, finalised) = {}
  BY <1>1, ChainOfNull
<1>3. SizeOf(Live) \in Nat
  BY <1>1, SizesNat DEF SizeOf
<1>. QED
  BY <1>2, <1>3 DEF Lists, Listed

LEMMA StartCollectionInv ==
  ASSUME IInv, gc = << >>, program = "running", NEW job \in Jobs,
         job.op \in {"bcalloc", "bcalloc_on_limit", "GCOLLECT"},
         StartCollection(job)
  PROVE  IInv'
<1>. USE DEF StartCollection, listVars, exitVars
<1>1. /\ Types /\ Sound /\ failed = NULL /\ Idle /\ finalised = NULL /\ droots = {}
      /\ Lists({}, 0)
  BY Idling DEF Idle
<1>2. Chained(next, allocated) = Live
  BY <1>1, OneList
<1>3. /\ used' = Reached(refs, roots) /\ failed' = NULL
      /\ rcount' \in [Node -> 0 .. NRef + 1] /\ prev' \in [Node -> Ref]
  BY <1>1, <1>2, MarkFromRoots
<1>4. Reached(refs, roots) \in SUBSET Node
  BY <1>1, ReachedLeast DEF Types
<1>5. Types'
  BY <1>1, <1>3, <1>4 DEF Types, Ref
<1>6. Sound'
  BY <1>1, <1>3 DEF Sound, Live
<1>7. Lists({}, 0)'
  BY <1>1, ListsFrame
<1>8. PICK w \in Walks :
        /\ gc' = <<w>> /\ w.at = "sweep" /\ w.curr = allocated /\ w.reclaimed = 0
        /\ w.job = job
  <2>. DEFINE w == Walk("sweep", allocated, job)
  <2>1. /\ w \in Walks /\ w.at = "sweep" /\ w.curr = allocated /\ w.reclaimed = 0
        /\ w.job = job
    BY <1>1, BcHeapAssumption DEF Walks, Walk, Types, Ref
  <2>. HIDE DEF w
  <2>2. gc' = <<w>> \o << >>
    BY DEF w
  <2>3. gc' = <<w>>
    BY <2>2, Alone
  <2>. QED
    BY <2>1, <2>3
<1>9. allocated \in Chained(next, allocated) \cup {NULL}
  BY <1>1, ChainLeast DEF Types
<1>10. SweptTo(w, w.curr)'
  BY <1>1, <1>3, <1>8, <1>9 DEF SweptTo
<1>11. UnderWay(w)'
  BY <1>1, <1>7, <1>8, <1>10 DEF UnderWay, InSweep
<1>. QED
  BY <1>3, <1>5, <1>6, <1>8, <1>11, ToWalk

LEMMA BcallocCollectsInv ==
  ASSUME Restrained, IInv, NEW k \in Kinds, NEW s \in 1 .. MaxSize, BcallocCollects(k, s)
  PROVE  IInv'
<1>1. gc = << >> /\ program = "running"
  BY DEF BcallocCollects, MayAllocate, CodeRuns, Restrained
<1>2. AllocJob(k, s) \in Jobs /\ AllocJob(k, s).op \in {"bcalloc", "bcalloc_on_limit"}
  BY BcHeapAssumption DEF AllocJob, Jobs
<1>. QED
  BY <1>1, <1>2, StartCollectionInv DEF BcallocCollects

LEMMA GcollectInv ==
  ASSUME Restrained, IInv, Gcollect
  PROVE  IInv'
<1>1. gc = << >> /\ program = "running"
  BY NoWalk DEF Gcollect, CodeRuns, Restrained
<1>2. Job("GCOLLECT") \in Jobs /\ Job("GCOLLECT").op = "GCOLLECT"
  BY BcHeapAssumption DEF Job, Jobs
<1>. QED
  BY <1>1, <1>2, StartCollectionInv DEF Gcollect

LEMMA ExitProgramInv ==
  ASSUME IInv, ExitProgram
  PROVE  IInv'
<1>. USE DEF ExitProgram, Detach, blockVars
<1>1. /\ Types /\ Sound /\ failed = NULL /\ Idle /\ finalised = NULL /\ droots = {}
      /\ Lists({}, 0)
  BY Idling DEF Idle
<1>2. Types'
  BY <1>1 DEF Types, Ref
<1>3. Sound'
  BY <1>1 DEF Sound, Live
<1>4. Lists({}, 0)'
  BY <1>1 DEF Lists, Listed, SizeOf, Live
<1>5. PICK w \in Walks :
        /\ gc' = <<w>> /\ w.at = "final" /\ w.curr = allocated /\ w.reclaimed = 0
  <2>. DEFINE w == Walk("final", allocated, Job("interpret"))
  <2>1. w \in Walks /\ w.at = "final" /\ w.curr = allocated /\ w.reclaimed = 0
    BY <1>1, BcHeapAssumption DEF Walks, Walk, Types, Ref, Job, Jobs
  <2>. QED
    BY <2>1
<1>6. allocated \in Chained(next, allocated) \cup {NULL}
  BY <1>1, ChainLeast DEF Types
<1>7. UnderWay(w)'
  BY <1>1, <1>4, <1>5, <1>6 DEF UnderWay, InFinalisation
<1>. QED
  BY <1>1, <1>2, <1>3, <1>5, <1>7, ToWalk
---------------------------------------------------------------------------
\* bcrealloc_blob().

\* The blob that is being filled is the head of the list, and nobody's field
\* refers to it.
LEMMA BuilderFacts ==
  ASSUME IInv, NEW n \in Node, CanRealloc(n)
  PROVE  /\ Types /\ Sound /\ failed = NULL /\ Idle /\ finalised = NULL /\ droots = {}
         /\ gc = << >> /\ program = "running"
         /\ n = allocated /\ n \in roots /\ kind[n] = "blob" /\ prev[n] = NULL
         /\ \A a \in Reached(refs, roots) : n \notin FieldsOf(refs, a)
         /\ Linear(next, n) /\ Chained(next, n) = Live /\ n \in Live
         /\ total_allocated_bytes = SizeOf(Live)
         /\ Linear(next, next[n]) /\ Chained(next, next[n]) = Live \ {n}
<1>0. n # NULL /\ builder = n
  BY BcHeapAssumption DEF CanRealloc
<1>1. gc = << >>
  <2>. SUFFICES ASSUME gc # << >> PROVE FALSE
    OBVIOUS
  <2>1. PICK w \in Walks : gc = <<w>> /\ UnderWay(w)
    BY Walking
  <2>. QED
    BY <1>0, <2>1, OneWalk DEF CanRealloc, CodeRuns, UnderWay, InSweep, InSweepDestructor,
       SweptTo, InFinalisation
<1>2. Types /\ Sound /\ failed = NULL /\ Idle
  BY <1>1, Idling
<1>3. /\ program = "running" /\ finalised = NULL /\ droots = {}
      /\ n = allocated /\ n \in roots /\ kind[n] = "blob" /\ prev[n] = NULL
      /\ \A a \in Reached(refs, roots) : n \notin FieldsOf(refs, a)
      /\ Lists({}, 0)
  BY <1>0, <1>2 DEF Idle, Filling
<1>4. /\ Linear(next, n) /\ Chained(next, n) = Live
      /\ total_allocated_bytes = SizeOf(Live)
  BY <1>2, <1>3, OneList
<1>5. next \in [Node -> Ref] /\ n \in Ref
  BY <1>2 DEF Types, Ref
<1>6. n \in Live
  BY <1>0, <1>4, <1>5, ChainLeast
<1>7. Linear(next, next[n]) /\ Chained(next, next[n]) = Live \ {n}
  BY <1>4, <1>5, HeadRemoved
<1>. QED
  BY <1>1, <1>2, <1>3, <1>4, <1>6, <1>7

LEMMA BcreallocBlobInv ==
  ASSUME IInv, NEW n \in Node, NEW m \in Node, NEW s \in 1 .. MaxSize, BcreallocBlob(n, m, s)
  PROVE  /\ IInv'
         /\ Live' = (Live \ {n}) \cup {m} /\ m \notin Live \ {n}
         /\ Reached(refs', roots') = (Reached(refs, roots) \ {n}) \cup {m}
<1>. USE BcHeapAssumption
<1>0. /\ Types /\ Sound /\ failed = NULL /\ Idle /\ finalised = NULL /\ droots = {}
      /\ gc = << >> /\ program = "running"
      /\ n = allocated /\ n \in roots /\ kind[n] = "blob" /\ prev[n] = NULL
      /\ \A a \in Reached(refs, roots) : n \notin FieldsOf(refs, a)
      /\ n \in Live /\ total_allocated_bytes = SizeOf(Live)
      /\ Linear(next, next[n]) /\ Chained(next, next[n]) = Live \ {n}
  BY BuilderFacts DEF BcreallocBlob
<1>1. /\ mem \in [Node -> {"live", "free"}] /\ refs \in Heaps /\ next \in [Node -> Ref]
      /\ prev \in [Node -> Ref] /\ size \in [Node -> 0 .. MaxSize] /\ roots \in SUBSET Node
      /\ used \in SUBSET Live /\ Live \in SUBSET Node /\ n # NULL /\ m # NULL
      /\ m \notin Live \ {n} /\ s \in 0 .. MaxSize /\ next[n] \in Ref
      /\ rcount \in [Node -> 0 .. NRef + 1]
  <2>1. m \in {n} \cup (Node \ Live)
    BY DEF BcreallocBlob
  <2>2. Live \in SUBSET Node /\ used \in SUBSET Live
    BY <1>0 DEF Live, Sound
  <2>3. next[n] \in Ref
    BY <1>0 DEF Types
  <2>. QED
    BY <1>0, <2>1, <2>2, <2>3 DEF Types
<1>. DEFINE head == next[n]
<1>2. HeadWithout(n) = head /\ NextWithout(n) = next
  BY <1>0 DEF HeadWithout, NextWithout
<1>3. next' = [next EXCEPT ![m] = head]
  BY <1>2 DEF BcreallocBlob
<1>4. Linear(next', m) /\ Chained(next', m) = (Live \ {n}) \cup {m} /\ next' \in [Node -> Ref]
  <2>1. m \notin Chained(next, head) /\ head \in Ref /\ Linear(next, head)
    BY <1>0, <1>1
  <2>. HIDE DEF head
  <2>2. LET g == [next EXCEPT ![m] = head]
        IN  Chained(g, m) = Chained(next, head) \cup {m} /\ Linear(g, m)
    BY <1>1, <2>1, Pushed
  <2>3. next' \in [Node -> Ref]
    BY <1>1, <1>3, <2>1
  <2>. QED
    BY <1>0, <1>3, <2>2, <2>3 DEF head
<1>5. PrevWithout(n) \in [Node -> Ref] /\ PrevWithout(n)[n] = NULL
  BY <1>0, <1>1 DEF PrevWithout, Ref
<1>6. prev' \in [Node -> Ref] /\ prev'[m] = NULL
  <2>1. head # m
    <3>1. head \in Chained(next, head) \cup {NULL}
      BY <1>1, ChainLeast
    <3>. QED
      BY <1>0, <1>1, <3>1
  <2>. DEFINE prevIn == [PrevWithout(n) EXCEPT ![m] = PrevWithout(n)[n]]
  <2>2. prev' = IF head = NULL THEN prevIn ELSE [prevIn EXCEPT ![head] = m]
    BY <1>2 DEF BcreallocBlob
  <2>3. prevIn \in [Node -> Ref] /\ prevIn[m] = NULL
    BY <1>5
  <2>. HIDE DEF prevIn, head
  <2>. QED
    BY <2>1, <2>2, <2>3 DEF Ref
<1>7. Live' = (Live \ {n}) \cup {m} /\ mem' \in [Node -> {"live", "free"}]
      /\ \A a \in Node : mem'[a] = "free" => mem[a] = "free" \/ a = n
  BY <1>1 DEF BcreallocBlob, Live
<1>8. /\ size' \in [Node -> 0 .. MaxSize] /\ size'[m] = s
      /\ \A a \in Live \ {n, m} : size'[a] = size[a]
  BY <1>1 DEF BcreallocBlob
<1>9. /\ used' = Moved(used, n, m) /\ rcount' \in [Node -> 0 .. NRef + 1]
      /\ refs' = refs /\ kind' = kind /\ allocated' = m /\ builder' = m
      /\ roots' = (roots \ {n}) \cup {m} /\ droots' = {} /\ gc' = << >> /\ failed' = NULL
      /\ program' = "running" /\ finalised' = NULL /\ cycles' = cycles
      /\ byte_allocation_limit' = byte_allocation_limit /\ gc_policy' = gc_policy
      /\ total_allocated_bytes' = SizeOf(Live) + s - size[n]
  BY <1>0, <1>1 DEF BcreallocBlob, Moved, exitVars
<1>10. FieldsOf(refs, n) = {} /\ FieldsOf(refs, m) = {} /\ kind[m] = "blob"
  <2>1. kind[m] = "blob"
    BY <1>0, <1>1 DEF Sound, Live, Types
  <2>. QED
    BY <1>0, <2>1 DEF Sound
<1>. DEFINE R == Reached(refs, roots)
<1>11. R \in SUBSET Live /\ \A a \in R : FieldsOf(refs, a) \subseteq R
  BY <1>1, <1>0, ReachedLeast DEF Sound
<1>12. Reached(refs', roots') = (R \ {n}) \cup {m}
  <2>. DEFINE Old == {n}
              S == roots
  <2>1. /\ S \in SUBSET Node /\ Old \in SUBSET S /\ m \in Node /\ FieldsOf(refs, m) = {}
        /\ \A a \in Reached(refs, S) : FieldsOf(refs, a) \cap Old = {}
        /\ \A a \in Old : FieldsOf(refs, a) = {}
        /\ m \in Old \/ m \notin Reached(refs, S)
        /\ roots' = (S \ Old) \cup {m}
    BY <1>0, <1>1, <1>9, <1>10, <1>11
  <2>. HIDE DEF Old, S
  <2>2. Reached(refs, (S \ Old) \cup {m}) = (Reached(refs, S) \ Old) \cup {m}
    BY <1>1, <2>1, ReachedReplaced
  <2>. QED
    BY <1>9, <2>1, <2>2 DEF S, Old
<1>13. SizeOf(Live)' = SizeOf(Live) + s - size[n] /\ SizeOf(Live)' \in Nat
  <2>. DEFINE Rest == Live \ {n}
  <2>1. /\ Rest \in SUBSET Node /\ n \in Node \ Rest /\ m \in Node \ Rest
        /\ Live = Rest \cup {n} /\ Live' = Rest \cup {m}
    BY <1>0, <1>1, <1>7
  <2>2. \A a \in Rest : size'[a] = size[a]
    BY <1>1, <1>8
  <2>. HIDE DEF Rest
  <2>3. /\ Cardinality(Bytes(size, Rest)) \in Nat
        /\ Cardinality(Bytes(size, Rest \cup {n})) = Cardinality(Bytes(size, Rest)) + size[n]
    BY <1>1, <2>1, SizesAdd
  <2>4. Cardinality(Bytes(size', Rest \cup {m})) = Cardinality(Bytes(size', Rest)) + size'[m]
    BY <1>8, <2>1, SizesAdd
  <2>5. Bytes(size', Rest) = Bytes(size, Rest)
    BY <2>2, SizesFrame
  <2>. DEFINE c == Cardinality(Bytes(size, Rest))
  <2>6. SizeOf(Live) = c + size[n] /\ SizeOf(Live)' = c + s
    BY <1>8, <2>1, <2>3, <2>4, <2>5 DEF SizeOf
  <2>7. c \in Nat /\ size[n] \in Nat /\ s \in Nat
    BY <1>1, <2>3
  <2>. HIDE DEF c
  <2>. QED
    BY <2>6, <2>7
<1>14. Types'
  <2>1. used' \in SUBSET Node /\ roots' \in SUBSET Node /\ allocated' \in Ref
        /\ finalised' \in Ref /\ total_allocated_bytes' \in Nat /\ droots' \in SUBSET Node
    BY <1>1, <1>9, <1>13 DEF Moved, Ref
  <2>. QED
    BY <1>0, <1>4, <1>6, <1>7, <1>8, <1>9, <2>1 DEF Types
<1>15. Sound'
  <2>1. used' \subseteq Live'
    BY <1>1, <1>7, <1>9 DEF Moved
  <2>2. Reached(refs', roots') \subseteq Live'
    BY <1>7, <1>11, <1>12
  <2>. QED
    BY <1>0, <1>7, <1>9, <2>1, <2>2 DEF Sound
<1>16. Lists({}, 0)'
  <2>1. Chained(next', NULL) = {} /\ Linear(next', NULL)
    BY <1>4, ChainOfNull
  <2>2. Live' \ {} = Live' /\ total_allocated_bytes' = SizeOf(Live)' + 0
    BY <1>9, <1>13
  <2>. QED
    BY <1>4, <1>7, <1>9, <2>1, <2>2 DEF Lists, Listed, SizeOf
<1>17. Filling'
  <2>1. ASSUME NEW a \in Reached(refs', roots')
        PROVE  m \notin FieldsOf(refs', a)
    <3>1. CASE a = m
      BY <1>9, <1>10, <3>1
    <3>2. CASE a # m
      <4>1. a \in R /\ FieldsOf(refs', a) = FieldsOf(refs, a)
        BY <1>9, <1>12, <3>2
      <4>2. CASE m = n
        BY <1>0, <4>1, <4>2
      <4>3. CASE m # n
        BY <1>1, <1>11, <4>1, <4>3
      <4>. QED
        BY <4>2, <4>3
    <3>. QED
      BY <3>1, <3>2
  <2>. QED
    BY <1>6, <1>9, <1>10, <2>1 DEF Filling
<1>. QED
  <2>1. IInv'
    BY <1>9, <1>14, <1>15, <1>16, <1>17, ToIdle DEF Idle
  <2>. QED
    BY <1>1, <1>7, <1>12, <2>1

LEMMA BcreallocBlobFailsInv ==
  ASSUME IInv, NEW n \in Node, BcreallocBlobFails(n)
  PROVE  IInv'
<1>. USE BcHeapAssumption
<1>0. /\ Types /\ Sound /\ failed = NULL /\ Idle /\ finalised = NULL /\ droots = {}
      /\ gc = << >> /\ n = allocated /\ prev[n] = NULL
  BY BuilderFacts DEF BcreallocBlobFails
<1>1. next \in [Node -> Ref] /\ prev \in [Node -> Ref] /\ n # NULL
  BY <1>0 DEF Types
<1>2. next' = [next EXCEPT ![n] = next[n]] /\ allocated' = n
  BY <1>0 DEF HeadWithout, NextWithout, BcreallocBlobFails
<1>3. next' = next /\ allocated' = allocated
  BY <1>0, <1>1, <1>2
<1>4. prev' \in [Node -> Ref]
  BY <1>1 DEF BcreallocBlobFails, PrevWithout, Ref
<1>. USE <1>0, <1>3 DEF BcreallocBlobFails, exitVars
<1>5. Types'
  BY <1>4 DEF Types, Ref
<1>6. Sound'
  BY DEF Sound, Live
<1>7. Lists({}, 0)'
  BY ListsFrame DEF Idle
<1>. QED
  BY <1>5, <1>6, <1>7, ToIdle DEF Idle, Filling, Live
---------------------------------------------------------------------------
\* A sweep goes on.

\* What the walk under way, at block n, is like.
LEMMA SweepFacts ==
  ASSUME IInv, NEW n \in Ref, Sweeping(n)
  PROVE  \E w \in Walks :
           /\ gc = <<w>> /\ top = w /\ Tail(gc) = << >> /\ ~ in_gc
           /\ w.at = "sweep" /\ w.curr = n
           /\ Types /\ Sound /\ failed = NULL /\ finalised = NULL /\ droots = {}
           /\ Lists({}, w.reclaimed) /\ SweptTo(w, n)
           /\ Linear(next, allocated) /\ Chained(next, allocated) = Live
           /\ Live \in SUBSET Node /\ total_allocated_bytes = SizeOf(Live) + w.reclaimed
<1>1. gc # << >>
  BY DEF Sweeping, At
<1>2. PICK w \in Walks : gc = <<w>> /\ UnderWay(w)
  BY <1>1, Walking
<1>3. /\ Types /\ Sound /\ failed = NULL /\ top = w /\ Tail(gc) = << >> /\ ~ in_gc
      /\ w.at = "sweep" /\ w.curr = n
  BY <1>1, <1>2, Walking, OneWalk DEF Sweeping
<1>4. /\ finalised = NULL /\ droots = {} /\ Lists({}, w.reclaimed) /\ SweptTo(w, n)
  BY <1>2, <1>3 DEF UnderWay, InSweep, InSweepDestructor, InFinalisation, SweptTo
<1>5. Chained(next, finalised) = {} /\ Live \ {} = Live /\ Live \in SUBSET Node
  BY <1>3, <1>4, ChainOfNull DEF Types, Live
<1>6. /\ Linear(next, allocated) /\ Chained(next, allocated) = Live
      /\ total_allocated_bytes = SizeOf(Live) + w.reclaimed
  BY <1>4, <1>5 DEF Lists, Listed
<1>. QED
  BY <1>2, <1>3, <1>4, <1>5, <1>6

LEMMA KeepBlockInv ==
  ASSUME IInv, NEW n \in Node, KeepBlock(n)
  PROVE  IInv'
<1>. USE DEF KeepBlock, listVars, codeVars, exitVars
<1>1. PICK w \in Walks :
           /\ gc = <<w>> /\ top = w /\ Tail(gc) = << >> /\ ~ in_gc
           /\ w.at = "sweep" /\ w.curr = n
           /\ Types /\ Sound /\ failed = NULL /\ finalised = NULL /\ droots = {}
           /\ Lists({}, w.reclaimed) /\ SweptTo(w, n)
           /\ Linear(next, allocated) /\ Chained(next, allocated) = Live
           /\ Live \in SUBSET Node /\ total_allocated_bytes = SizeOf(Live) + w.reclaimed
  BY SweepFacts DEF Ref
<1>2. next \in [Node -> Ref] /\ allocated \in Ref /\ w.prev \in Ref /\ next[n] \in Ref
  BY <1>1 DEF Types, Walks
<1>3. Types'
  BY <1>1, <1>2 DEF Types
<1>4. Sound'
  BY <1>1 DEF Sound, Live
<1>5. Lists({}, w.reclaimed)'
  BY <1>1, ListsFrame
<1>6. PICK v \in Walks :
        /\ gc' = <<v>> /\ v.at = "sweep" /\ v.prev = n /\ v.curr = next[n]
        /\ v.reclaimed = w.reclaimed /\ v.job = w.job
  <2>. DEFINE v == [w EXCEPT !.prev = n, !.curr = next[n]]
  <2>1. /\ v \in Walks /\ v.at = "sweep" /\ v.prev = n /\ v.curr = next[n]
        /\ v.reclaimed = w.reclaimed /\ v.job = w.job
    BY <1>1, <1>2 DEF Walks, Ref
  <2>2. gc' = <<v>> \o << >>
    BY <1>1
  <2>. HIDE DEF v
  <2>3. gc' = <<v>>
    BY <2>2, Alone
  <2>. QED
    BY <2>1, <2>3
<1>7. n \in Chained(next, allocated)
  BY <1>1, BcHeapAssumption DEF SweptTo
<1>8. next[n] \in Chained(next, allocated) \cup {NULL}
  BY <1>2, <1>7, ChainLeast
<1>9. Chained(next, allocated) \ Chained(next, next[n]) \subseteq used
  <2>1. Chained(next, n) \subseteq Chained(next, next[n]) \cup {n}
    BY <1>2, TailOfList
  <2>2. Chained(next, allocated) \ Chained(next, n) \subseteq used
    BY <1>1 DEF SweptTo
  <2>. QED
    BY <2>1, <2>2
<1>10. SweptTo(v, v.curr)'
  BY <1>1, <1>6, <1>7, <1>8, <1>9 DEF SweptTo
<1>11. UnderWay(v)'
  BY <1>1, <1>5, <1>6, <1>10 DEF UnderWay, InSweep
<1>. QED
  BY <1>1, <1>3, <1>4, <1>6, <1>11, ToWalk

\* A block is taken off the list, without the sweep losing its place.
LEMMA UnlinkInv ==
  ASSUME Types, Linear(next, allocated), Chained(next, allocated) = Live,
         NEW w \in Walks, top = w, NEW n \in Node \ used, SweptTo(w, n), Unlink(n)
  PROVE  /\ next' \in [Node -> Ref] /\ prev' \in [Node -> Ref] /\ allocated' \in Ref
         /\ next[n] \in Ref /\ n \in Live
         /\ Linear(next', allocated') /\ Chained(next', allocated') = Live \ {n}
         /\ next[n] \in Chained(next', allocated') \cup {NULL}
         /\ next[n] \notin {allocated', NULL} =>
              /\ (IF n = allocated THEN next[n] ELSE w.prev) \in Chained(next', allocated')
              /\ next'[IF n = allocated THEN next[n] ELSE w.prev] = next[n]
         /\ Chained(next', allocated') \ Chained(next', next[n]) \subseteq used
<1>. USE BcHeapAssumption
<1>0. /\ next \in [Node -> Ref] /\ prev \in [Node -> Ref] /\ allocated \in Ref
      /\ next[n] \in Ref /\ n \in Node /\ n # NULL /\ w.prev \in Ref /\ n \notin used
  BY DEF Types, Walks
<1>1. n \in Chained(next, allocated)
  BY <1>0 DEF SweptTo
<1>2. CASE n = allocated
  <2>1. next' = next /\ prev' = prev /\ allocated' = next[n]
    BY <1>2 DEF Unlink
  <2>2. Chained(next, next[n]) = Chained(next, n) \ {n} /\ Linear(next, next[n])
    BY <1>0, <1>2, HeadRemoved
  <2>3. next[n] \in Chained(next, next[n]) \cup {NULL}
    BY <1>0, ChainLeast
  <2>. QED
    BY <1>0, <1>1, <1>2, <2>1, <2>2, <2>3
<1>3. CASE n # allocated
  <2>. DEFINE p == w.prev
  <2>1. /\ p \in Chained(next, allocated) /\ next[p] = n /\ p \in Node
        /\ Chained(next, allocated) \ Chained(next, n) \subseteq used
    <3>1. /\ p \in Chained(next, allocated) /\ next[p] = n
          /\ Chained(next, allocated) \ Chained(next, n) \subseteq used
      BY <1>0, <1>3 DEF SweptTo
    <3>. QED
      BY <1>0, <3>1, ChainLeast
  <2>2. allocated \in Node
    <3>1. allocated # NULL
      BY <1>0, <1>1, ChainOfNull
    <3>. QED
      BY <1>0, <3>1 DEF Ref
  <2>3. /\ allocated' = allocated /\ next' = [next EXCEPT ![p] = next[n]]
        /\ prev' \in [Node -> Ref]
    BY <1>0, <1>3, <2>1 DEF Unlink, Ref
  <2>. HIDE DEF p
  <2>5. /\ Chained(next', allocated) = Live \ {n} /\ Linear(next', allocated)
        /\ p # n
        /\ \A a \in Chained(next', allocated) :
             a \notin Chained(next', next[n]) => a \notin Chained(next, n)
    <3>. DEFINE g == next'
    <3>1. Skips(next, g, allocated, p, n)
      BY <1>0, <1>1, <1>3, <2>1, <2>2, <2>3 DEF Skips, Types, Sound
    <3>. HIDE DEF g
    <3>2. /\ Chained(g, allocated) = Chained(next, allocated) \ {n} /\ Linear(g, allocated)
          /\ p # n
          /\ \A a \in Chained(g, allocated) :
               a \notin Chained(g, next[n]) => a \notin Chained(next, n)
      BY <3>1, InnerRemoved
    <3>. QED
      BY <3>2 DEF g
  <2>6. next' \in [Node -> Ref] /\ next'[p] = next[n]
    BY <1>0, <2>1, <2>3
  <2>7. p \in Chained(next', allocated)
    BY <2>1, <2>5
  <2>8. next[n] \in Chained(next', allocated) \cup {NULL}
    BY <1>0, <2>6, <2>7, ChainLeast
  <2>9. Chained(next', allocated') \ Chained(next', next[n]) \subseteq used
    BY <2>1, <2>3, <2>5
  <2>. QED
    BY <1>0, <1>1, <1>3, <2>3, <2>5, <2>6, <2>7, <2>8, <2>9 DEF p
<1>. QED
  BY <1>2, <1>3

LEMMA SizeSplit ==
  ASSUME Types, NEW n \in Live
  PROVE  /\ SizeOf(Live \ {n}) \in Nat /\ size[n] \in Nat
         /\ SizeOf(Live) = SizeOf(Live \ {n}) + size[n]
<1>. DEFINE Rest == Live \ {n}
<1>1. /\ size \in [Node -> 0 .. MaxSize] /\ Rest \in SUBSET Node /\ n \in Node \ Rest
      /\ Live = Rest \cup {n} /\ size[n] \in Nat
  BY DEF Types, Live
<1>. HIDE DEF Rest
<1>2. /\ Cardinality(Bytes(size, Rest)) \in Nat
      /\ Cardinality(Bytes(size, Rest \cup {n})) = Cardinality(Bytes(size, Rest)) + size[n]
  BY <1>1, SizesAdd
<1>. QED
  BY <1>1, <1>2 DEF SizeOf, Rest

\* What bcfree() leaves of the heap.
LEMMA BcfreeInv ==
  ASSUME Types, Sound, NEW n \in Live \ used, Reached(refs, roots) \subseteq used, Bcfree(n)
  PROVE  /\ mem' \in [Node -> {"live", "free"}]
         /\ kind' \in [Node -> {"object", "record", "blob"}]
         /\ size' \in [Node -> 0 .. MaxSize] /\ refs' \in Heaps
         /\ rcount' \in [Node -> 0 .. NRef + 1] /\ used' = used /\ failed' = NULL
         /\ Live' = Live \ {n} /\ SizeOf(Live)' = SizeOf(Live \ {n})
         /\ Reached(refs', roots) = Reached(refs, roots)
         /\ \A a \in Node : kind'[a] = "blob" => FieldsOf(refs', a) = {}
         /\ \A a \in Node : mem'[a] = "free" => kind'[a] = "blob"
<1>. USE BcHeapAssumption
<1>1. /\ mem \in [Node -> {"live", "free"}] /\ kind \in [Node -> {"object", "record", "blob"}]
      /\ size \in [Node -> 0 .. MaxSize] /\ refs \in Heaps /\ n \in Node
      /\ rcount \in [Node -> 0 .. NRef + 1] /\ roots \in SUBSET Node /\ n \notin used
  BY DEF Types, Live
<1>2. /\ mem' = [mem EXCEPT ![n] = "free"] /\ kind' = [kind EXCEPT ![n] = "blob"]
      /\ size' = [size EXCEPT ![n] = 0] /\ refs' = [refs EXCEPT ![n] = NoRefs]
      /\ rcount' = [rcount EXCEPT ![n] = 0] /\ used' = used \ {n} /\ failed' = NULL
  BY DEF Bcfree
<1>3. /\ mem' \in [Node -> {"live", "free"}] /\ kind' \in [Node -> {"object", "record", "blob"}]
      /\ size' \in [Node -> 0 .. MaxSize] /\ refs' \in Heaps /\ used' = used
      /\ rcount' \in [Node -> 0 .. NRef + 1] /\ Live' = Live \ {n}
  BY <1>1, <1>2 DEF Heaps, NoRefs, Ref, Live
<1>4. FieldsOf(refs', n) = {} /\ \A a \in Node \ {n} : FieldsOf(refs', a) = FieldsOf(refs, a)
  BY <1>1, <1>2 DEF FieldsOf, NoRefs, Heaps
<1>5. Reached(refs', roots) = Reached(refs, roots)
  <2>1. \A a \in Reached(refs, roots) : FieldsOf(refs', a) = FieldsOf(refs, a)
    <3>1. Reached(refs, roots) \in SUBSET Node
      BY <1>1, ReachedLeast
    <3>. QED
      BY <1>1, <1>4, <3>1
  <2>. QED
    BY <1>1, <1>3, <2>1, ReachedFrame
<1>6. SizeOf(Live)' = SizeOf(Live \ {n})
  <2>1. \A a \in Live \ {n} : size'[a] = size[a]
    BY <1>1, <1>2 DEF Live
  <2>2. Bytes(size', Live \ {n}) = Bytes(size, Live \ {n})
    BY <2>1, SizesFrame
  <2>. QED
    BY <1>3, <2>2 DEF SizeOf
<1>7. /\ \A a \in Node : kind'[a] = "blob" => FieldsOf(refs', a) = {}
      /\ \A a \in Node : mem'[a] = "free" => kind'[a] = "blob"
  BY <1>1, <1>2, <1>4 DEF Sound
<1>. QED
  BY <1>2, <1>3, <1>5, <1>6, <1>7
LEMMA FreeBlockInv ==
  ASSUME IInv, NEW n \in Node, FreeBlock(n)
  PROVE  IInv'
<1>. USE DEF FreeBlock, codeVars, exitVars
<1>1. PICK w \in Walks :
           /\ gc = <<w>> /\ top = w /\ Tail(gc) = << >> /\ ~ in_gc
           /\ w.at = "sweep" /\ w.curr = n
           /\ Types /\ Sound /\ failed = NULL /\ finalised = NULL /\ droots = {}
           /\ Lists({}, w.reclaimed) /\ SweptTo(w, n)
           /\ Linear(next, allocated) /\ Chained(next, allocated) = Live
           /\ Live \in SUBSET Node /\ total_allocated_bytes = SizeOf(Live) + w.reclaimed
  BY SweepFacts DEF Ref
<1>. DEFINE p == IF n = allocated THEN next[n] ELSE w.prev
<1>2. /\ next' \in [Node -> Ref] /\ prev' \in [Node -> Ref] /\ allocated' \in Ref
      /\ next[n] \in Ref /\ n \in Live
      /\ Linear(next', allocated') /\ Chained(next', allocated') = Live \ {n}
      /\ next[n] \in Chained(next', allocated') \cup {NULL}
      /\ next[n] \notin {allocated', NULL} =>
           p \in Chained(next', allocated') /\ next'[p] = next[n]
      /\ Chained(next', allocated') \ Chained(next', next[n]) \subseteq used
  BY <1>1, UnlinkInv
<1>3. n \in Live \ used /\ Reached(refs, roots) \subseteq used
  BY <1>1, <1>2 DEF SweptTo
<1>4. /\ mem' \in [Node -> {"live", "free"}]
      /\ kind' \in [Node -> {"object", "record", "blob"}]
      /\ size' \in [Node -> 0 .. MaxSize] /\ refs' \in Heaps
      /\ rcount' \in [Node -> 0 .. NRef + 1] /\ used' = used /\ failed' = NULL
      /\ Live' = Live \ {n} /\ SizeOf(Live)' = SizeOf(Live \ {n})
      /\ Reached(refs', roots) = Reached(refs, roots)
      /\ \A a \in Node : kind'[a] = "blob" => FieldsOf(refs', a) = {}
      /\ \A a \in Node : mem'[a] = "free" => kind'[a] = "blob"
  BY <1>1, <1>3, BcfreeInv
<1>5. Types'
  BY <1>1, <1>2, <1>4 DEF Types
<1>6. Sound'
  BY <1>1, <1>3, <1>4 DEF Sound
<1>7. w.reclaimed + size[n] \in Nat /\ p \in Ref
  BY <1>1, <1>2, SizeSplit DEF Walks
<1>8. PICK v \in Walks :
        /\ gc' = <<v>> /\ v.at = "sweep" /\ v.prev = p /\ v.curr = next[n]
        /\ v.reclaimed = w.reclaimed + size[n] /\ v.job = w.job
  <2>. DEFINE v == Advance(Unlinked(n))
  <2>1. v = [w EXCEPT !.next = next[n], !.prev = p, !.reclaimed = w.reclaimed + size[n],
                      !.curr = next[n]]
    BY <1>1 DEF Advance, Unlinked, Walks
  <2>2. gc' = <<v>> \o << >>
    BY <1>1
  <2>. HIDE DEF v, p
  <2>3. /\ v \in Walks /\ v.at = "sweep" /\ v.prev = p /\ v.curr = next[n]
        /\ v.reclaimed = w.reclaimed + size[n] /\ v.job = w.job
    BY <1>1, <1>2, <1>7, <2>1 DEF Walks
  <2>4. gc' = <<v>>
    BY <2>2, Alone
  <2>. QED
    BY <2>3, <2>4
<1>9. Lists({}, v.reclaimed)'
  <2>1. Chained(next', NULL) = {} /\ Linear(next', NULL) /\ finalised' = NULL
    BY <1>1, <1>2, ChainOfNull
  <2>2. total_allocated_bytes = SizeOf(Live \ {n}) + v.reclaimed
    BY <1>1, <1>2, <1>8, SizeSplit DEF Walks
  <2>3. Live' \ {} = Live'
    OBVIOUS
  <2>. QED
    BY <1>2, <1>4, <2>1, <2>2, <2>3 DEF Lists, Listed, SizeOf
<1>10. SweptTo(v, v.curr)'
  <2>1. next[n] \notin {allocated', NULL} =>
           v.prev \in Chained(next', allocated') /\ next'[v.prev] = next[n]
    BY <1>2, <1>8
  <2>2. \/ /\ program' = "running"
           /\ v.job.op \in {"bcalloc", "bcalloc_on_limit", "GCOLLECT", "GCOLLECT_again"}
        \/ /\ program' = "exiting" /\ used' = {}
           /\ v.job.op \in {"interpret", "interpret_again"}
    BY <1>1, <1>4, <1>8 DEF SweptTo
  <2>3. finalised' = NULL /\ builder' = NULL /\ Reached(refs', roots') \subseteq used'
    BY <1>1, <1>3, <1>4 DEF SweptTo
  <2>. QED
    BY <1>2, <1>4, <1>8, <2>1, <2>2, <2>3 DEF SweptTo
<1>11. UnderWay(v)'
  BY <1>1, <1>8, <1>9, <1>10 DEF UnderWay, InSweep
<1>. QED
  BY <1>4, <1>5, <1>6, <1>8, <1>11, ToWalk

LEMMA StartDestructorInv ==
  ASSUME IInv, NEW n \in Node, StartDestructor(n)
  PROVE  IInv'
<1>. USE DEF StartDestructor, exitVars
<1>1. PICK w \in Walks :
           /\ gc = <<w>> /\ top = w /\ Tail(gc) = << >> /\ ~ in_gc
           /\ w.at = "sweep" /\ w.curr = n
           /\ Types /\ Sound /\ failed = NULL /\ finalised = NULL /\ droots = {}
           /\ Lists({}, w.reclaimed) /\ SweptTo(w, n)
           /\ Linear(next, allocated) /\ Chained(next, allocated) = Live
           /\ Live \in SUBSET Node /\ total_allocated_bytes = SizeOf(Live) + w.reclaimed
  BY SweepFacts DEF Ref
<1>. DEFINE p == IF n = allocated THEN next[n] ELSE w.prev
<1>2. /\ next' \in [Node -> Ref] /\ prev' \in [Node -> Ref] /\ allocated' \in Ref
      /\ next[n] \in Ref /\ n \in Live
      /\ Linear(next', allocated') /\ Chained(next', allocated') = Live \ {n}
      /\ next[n] \in Chained(next', allocated') \cup {NULL}
      /\ next[n] \notin {allocated', NULL} =>
           p \in Chained(next', allocated') /\ next'[p] = next[n]
      /\ Chained(next', allocated') \ Chained(next', next[n]) \subseteq used
  BY <1>1, UnlinkInv
<1>3. Types'
  BY <1>1, <1>2 DEF Types
<1>4. Sound'
  BY <1>1 DEF Sound, Live
<1>5. w.reclaimed + size[n] \in Nat /\ p \in Ref
  BY <1>1, <1>2, SizeSplit DEF Walks
<1>6. PICK v \in Walks :
        /\ gc' = <<v>> /\ v.at = "destructor" /\ v.prev = p /\ v.curr = n /\ v.next = next[n]
        /\ v.reclaimed = w.reclaimed + size[n] /\ v.job = w.job
  <2>. DEFINE v == [Unlinked(n) EXCEPT !.at = "destructor"]
  <2>1. v = [w EXCEPT !.next = next[n], !.prev = p, !.reclaimed = w.reclaimed + size[n],
                      !.at = "destructor"]
    BY <1>1 DEF Unlinked, Walks
  <2>2. gc' = <<v>> \o << >>
    BY <1>1
  <2>. HIDE DEF v, p
  <2>3. /\ v \in Walks /\ v.at = "destructor" /\ v.prev = p /\ v.curr = n /\ v.next = next[n]
        /\ v.reclaimed = w.reclaimed + size[n] /\ v.job = w.job
    BY <1>1, <1>2, <1>5, <2>1 DEF Walks
  <2>4. gc' = <<v>>
    BY <2>2, Alone
  <2>. QED
    BY <2>3, <2>4
<1>7. Live' = Live /\ SizeOf(Live \ {n})' = SizeOf(Live \ {n})
  BY DEF Live, SizeOf
<1>8. Lists({v.curr}, v.reclaimed)'
  <2>1. Chained(next', NULL) = {} /\ Linear(next', NULL) /\ finalised' = NULL
    BY <1>1, <1>2, ChainOfNull
  <2>2. total_allocated_bytes = SizeOf(Live \ {n}) + v.reclaimed
    BY <1>1, <1>2, <1>6, SizeSplit DEF Walks
  <2>. QED
    BY <1>2, <1>6, <1>7, <2>1, <2>2 DEF Lists, Listed
<1>9. SweptTo(v, v.next)'
  <2>1. next[n] \notin {allocated', NULL} =>
           v.prev \in Chained(next', allocated') /\ next'[v.prev] = next[n]
    BY <1>2, <1>6
  <2>2. \/ /\ program' = "running"
           /\ v.job.op \in {"bcalloc", "bcalloc_on_limit", "GCOLLECT", "GCOLLECT_again"}
        \/ /\ program' = "exiting" /\ used' = {}
           /\ v.job.op \in {"interpret", "interpret_again"}
    BY <1>1, <1>6 DEF SweptTo
  <2>3. finalised' = NULL /\ builder' = NULL /\ Reached(refs', roots') \subseteq used'
    BY <1>1 DEF SweptTo
  <2>. QED
    BY <1>2, <1>6, <2>1, <2>2, <2>3 DEF SweptTo
<1>10. UnderWay(v)'
  <2>1. v.curr \in Live' \ used' /\ kind'[v.curr] = "object"
    BY <1>2, <1>6, <1>7 DEF RunsDestructor
  <2>. QED
    BY <1>6, <1>8, <1>9, <2>1 DEF UnderWay, InSweepDestructor
<1>. QED
  BY <1>1, <1>3, <1>4, <1>6, <1>10, ToWalk

LEMMA EndDestructorInv ==
  ASSUME Restrained, IInv, EndDestructor
  PROVE  IInv'
<1>. USE DEF EndDestructor, listVars, exitVars
<1>1. PICK w \in Walks :
        gc = <<w>> /\ top = w /\ Tail(gc) = << >> /\ Types /\ Sound /\ InSweepDestructor(w)
  <2>1. gc # << >>
    BY DEF At
  <2>2. PICK w \in Walks : gc = <<w>> /\ UnderWay(w)
    BY <2>1, Walking
  <2>. QED
    BY <2>1, <2>2, Walking, OneWalk DEF UnderWay, InSweep, InFinalisation
<1>. DEFINE n == w.curr
<1>2. /\ n \in Live \ used /\ Reached(refs, roots) \subseteq used /\ finalised = NULL
      /\ Linear(next, allocated) /\ SweptTo(w, w.next)
      /\ Chained(next, allocated) \cup Chained(next, finalised) = Live \ {n}
      /\ total_allocated_bytes = SizeOf(Live \ {n}) + w.reclaimed
  BY <1>1 DEF InSweepDestructor, SweptTo, Lists, Listed
<1>3. roots' = roots /\ droots' = {}
  BY DEF LeaveDestructor, Restrained
<1>4. /\ mem' \in [Node -> {"live", "free"}]
      /\ kind' \in [Node -> {"object", "record", "blob"}]
      /\ size' \in [Node -> 0 .. MaxSize] /\ refs' \in Heaps
      /\ rcount' \in [Node -> 0 .. NRef + 1] /\ used' = used /\ failed' = NULL
      /\ Live' = Live \ {n} /\ SizeOf(Live)' = SizeOf(Live \ {n})
      /\ Reached(refs', roots) = Reached(refs, roots)
      /\ \A a \in Node : kind'[a] = "blob" => FieldsOf(refs', a) = {}
      /\ \A a \in Node : mem'[a] = "free" => kind'[a] = "blob"
  BY <1>1, <1>2, BcfreeInv
<1>5. Types'
  BY <1>1, <1>3, <1>4 DEF Types, Ref
<1>6. Sound'
  BY <1>1, <1>2, <1>3, <1>4 DEF Sound
<1>7. PICK v \in Walks :
        /\ gc' = <<v>> /\ v.at = "sweep" /\ v.prev = w.prev /\ v.curr = w.next
        /\ v.reclaimed = w.reclaimed /\ v.job = w.job
  <2>. DEFINE v == [Advance(top) EXCEPT !.at = "sweep"]
  <2>1. v = [w EXCEPT !.curr = w.next, !.at = "sweep"]
    BY <1>1 DEF Advance, Walks
  <2>2. gc' = <<v>> \o << >>
    BY <1>1
  <2>. HIDE DEF v
  <2>3. /\ v \in Walks /\ v.at = "sweep" /\ v.prev = w.prev /\ v.curr = w.next
        /\ v.reclaimed = w.reclaimed /\ v.job = w.job
    BY <1>1, <2>1 DEF Walks
  <2>4. gc' = <<v>>
    BY <2>2, Alone
  <2>. QED
    BY <2>3, <2>4
<1>8. Lists({}, v.reclaimed)'
  <2>1. Chained(next, NULL) = {} /\ Linear(next, NULL) /\ Live' \ {} = Live'
    BY <1>1, ChainOfNull DEF Types
  <2>. QED
    BY <1>2, <1>4, <1>7, <2>1 DEF Lists, Listed, SizeOf
<1>9. SweptTo(v, v.curr)'
  BY <1>2, <1>3, <1>4, <1>7 DEF SweptTo
<1>10. UnderWay(v)'
  BY <1>3, <1>7, <1>8, <1>9 DEF UnderWay, InSweep
<1>. QED
  BY <1>4, <1>5, <1>6, <1>7, <1>10, ToWalk

---------------------------------------------------------------------------
\* The end of a sweep.

LEMMA EndOfWalkFacts ==
  ASSUME IInv, NEW ops, EndOfWalk(ops)
  PROVE  \E w \in Walks :
           /\ gc = <<w>> /\ top = w /\ Tail(gc) = << >> /\ w.job.op \in ops
           /\ Types /\ Sound /\ failed = NULL /\ finalised = NULL /\ droots = {}
           /\ SweptTo(w, NULL) /\ Linear(next, allocated) /\ Chained(next, allocated) = Live
           /\ Live \subseteq used /\ TotalAfter = SizeOf(Live) /\ TotalAfter \in Nat
<1>1. PICK w \in Walks :
           /\ gc = <<w>> /\ top = w /\ Tail(gc) = << >> /\ ~ in_gc
           /\ w.at = "sweep" /\ w.curr = NULL
           /\ Types /\ Sound /\ failed = NULL /\ finalised = NULL /\ droots = {}
           /\ Lists({}, w.reclaimed) /\ SweptTo(w, NULL)
           /\ Linear(next, allocated) /\ Chained(next, allocated) = Live
           /\ Live \in SUBSET Node /\ total_allocated_bytes = SizeOf(Live) + w.reclaimed
  BY SweepFacts DEF Ref, EndOfWalk
<1>2. w.job.op \in ops
  BY <1>1 DEF EndOfWalk
<1>3. Live \subseteq used
  BY <1>1, ChainOfNull DEF SweptTo, Types
<1>4. SizeOf(Live) \in Nat /\ w.reclaimed \in Nat
  BY <1>1, SizesNat DEF SizeOf, Types, Walks
<1>5. TotalAfter = SizeOf(Live)
  <2>1. TotalAfter = (SizeOf(Live) + w.reclaimed) - w.reclaimed
    BY <1>1 DEF TotalAfter
  <2>2. \A a, b \in Nat : (a + b) - b = a
    OBVIOUS
  <2>. QED
    BY <1>4, <2>1, <2>2
<1>. QED
  BY <1>1, <1>2, <1>3, <1>4, <1>5

LEMMA EndBcallocInv ==
  ASSUME IInv, EndBcalloc
  PROVE  IInv'
<1>. USE BcHeapAssumption
<1>1. PICK w \in Walks :
           /\ gc = <<w>> /\ top = w /\ Tail(gc) = << >>
           /\ w.job.op \in {"bcalloc", "bcalloc_on_limit"}
           /\ Types /\ Sound /\ failed = NULL /\ finalised = NULL /\ droots = {}
           /\ SweptTo(w, NULL) /\ Linear(next, allocated) /\ Chained(next, allocated) = Live
           /\ Live \subseteq used /\ TotalAfter = SizeOf(Live) /\ TotalAfter \in Nat
  BY EndOfWalkFacts DEF EndBcalloc
<1>2. /\ w.job.kind \in {"object", "record", "blob"} /\ w.job.size \in 0 .. MaxSize
      /\ program = "running" /\ builder = NULL
  BY <1>1 DEF Walks, Jobs, SweptTo
<1>3. /\ byte_allocation_limit' \in Nat /\ gc_policy' \in Policies /\ UNCHANGED exitVars
      /\ gc' = << >> /\ failed' = NULL /\ gc_policy' = gc_policy
  <2>1. byte_allocation_limit' \in Nat
    <3>1. byte_allocation_limit \in Nat
      BY <1>1 DEF Types
    <3>2. \A j \in 0 .. MaxSize : \A t \in Nat : 2 * (t + j) \in Nat
      OBVIOUS
    <3>3. TotalAfter \in Nat
      BY <1>1
    <3>4. 2 * (TotalAfter + w.job.size) \in Nat
      BY <1>2, <3>2, <3>3, Zenon
    <3>. QED
      BY <1>1, <3>1, <3>4 DEF EndBcalloc
  <2>. QED
    BY <1>1, <2>1 DEF EndBcalloc, Types
<1>4. TotalAfter = TotalAfter + 0
  <2>1. \A t \in Nat : t = t + 0
    OBVIOUS
  <2>. QED
    BY <1>1, <2>1
<1>5. CASE \E n \in Node \ Live : Calloc(n, w.job.kind, w.job.size, TotalAfter, << >>)
  <2>1. PICK n \in Node \ Live : Calloc(n, w.job.kind, w.job.size, TotalAfter, << >>)
    BY <1>5
  <2>2. PICK total \in Nat : total = TotalAfter
    BY <1>1
  <2>3. Types' /\ Sound' /\ Idle'
    <3>1. Calloc(n, w.job.kind, w.job.size, total, << >>)
      BY <2>1, <2>2
    <3>. HIDE DEF Live
    <3>. QED
      BY <1>1, <1>2, <1>3, <2>1, <2>2, <3>1, CallocInv
  <2>. QED
    BY <1>3, <2>3, ToIdle
<1>6. CASE CallocFails(TotalAfter)
  <2>. USE <1>1, <1>3, <1>6 DEF CallocFails, blockVars, exitVars
  <2>1. Types'
    BY DEF Types, Ref
  <2>2. Sound'
    BY DEF Sound, Live
  <2>3. Live' = Live /\ SizeOf(Live)' = SizeOf(Live) /\ Live \ {} = Live
    BY DEF Live, SizeOf
  <2>4. Lists({}, 0)'
    <3>1. Chained(next, NULL) = {} /\ Linear(next, NULL)
      BY ChainOfNull DEF Types
    <3>2. TotalAfter = TotalAfter + 0
      BY <1>4
    <3>. QED
      BY <2>3, <3>1, <3>2 DEF Lists, Listed
  <2>5. Idle'
    BY <1>2, <2>4 DEF Idle, Filling
  <2>. QED
    BY <2>1, <2>2, <2>5, ToIdle
<1>. QED
  BY <1>1, <1>5, <1>6 DEF EndBcalloc
LEMMA NewWalk ==
  ASSUME NEW op \in {"GCOLLECT_again", "interpret", "interpret_again"}, NEW start \in Ref
  PROVE  LET v == Walk("sweep", start, Job(op))
         IN  /\ v \in Walks /\ v.at = "sweep" /\ v.curr = start /\ v.reclaimed = 0
             /\ v.job.op = op
<1>1. Job(op) \in Jobs /\ Job(op).op = op
  <2>1. 0 \in 0 .. MaxSize
    <3>1. MaxSize \in Nat
      BY BcHeapAssumption
    <3>. QED
      BY <3>1
  <2>2. Job(op) = [op |-> op, kind |-> "blob", size |-> 0]
    BY DEF Job
  <2>. QED
    BY <2>1, <2>2 DEF Jobs
<1>2. ASSUME NEW job \in Jobs
      PROVE  /\ Walk("sweep", start, job) \in Walks
             /\ Walk("sweep", start, job).at = "sweep"
             /\ Walk("sweep", start, job).curr = start
             /\ Walk("sweep", start, job).reclaimed = 0
             /\ Walk("sweep", start, job).job = job
  BY DEF Walks, Walk, Ref
<1>. QED
  BY <1>1, <1>2

LEMMA AfterSweep ==
  ASSUME Types, finalised = NULL, Linear(next, allocated), Chained(next, allocated) = Live,
         TotalAfter = SizeOf(Live), TotalAfter \in Nat,
         UNCHANGED <<mem, size, next, allocated, finalised>>,
         total_allocated_bytes' = TotalAfter
  PROVE  Lists({}, 0)'
<1>1. Live' = Live /\ SizeOf(Live)' = SizeOf(Live) /\ Live \ {} = Live
  BY DEF Live, SizeOf
<1>2. Chained(next, NULL) = {} /\ Linear(next, NULL)
  BY ChainOfNull DEF Types
<1>3. TotalAfter = TotalAfter + 0
  <2>1. \A t \in Nat : t = t + 0
    OBVIOUS
  <2>. QED
    BY <2>1
<1>. QED
  BY <1>1, <1>2, <1>3 DEF Lists, Listed

LEMMA SweepAgainInv ==
  ASSUME IInv, SweepAgain
  PROVE  IInv'
<1>. USE DEF SweepAgain, blockVars, codeVars, exitVars
<1>1. PICK w \in Walks :
           /\ gc = <<w>> /\ top = w /\ Tail(gc) = << >>
           /\ w.job.op \in {"GCOLLECT", "interpret"}
           /\ Types /\ Sound /\ failed = NULL /\ finalised = NULL /\ droots = {}
           /\ SweptTo(w, NULL) /\ Linear(next, allocated) /\ Chained(next, allocated) = Live
           /\ Live \subseteq used /\ TotalAfter = SizeOf(Live) /\ TotalAfter \in Nat
  BY EndOfWalkFacts
<1>2. Types'
  BY <1>1 DEF Types
<1>3. Sound'
  BY <1>1 DEF Sound, Live
<1>4. Lists({}, 0)'
  BY <1>1, AfterSweep
<1>5. PICK v \in Walks :
        /\ gc' = <<v>> /\ v.at = "sweep" /\ v.curr = allocated /\ v.reclaimed = 0
        /\ v.job.op = Again(w.job.op)
  <2>. DEFINE v == Walk("sweep", allocated, Job(Again(w.job.op)))
  <2>1. /\ v \in Walks /\ v.at = "sweep" /\ v.curr = allocated /\ v.reclaimed = 0
        /\ v.job.op = Again(w.job.op)
    <3>1. Again(w.job.op) \in {"GCOLLECT_again", "interpret_again"} /\ allocated \in Ref
      BY <1>1 DEF Again, Types
    <3>. DEFINE op == Again(w.job.op)
    <3>. HIDE DEF op
    <3>2. LET u == Walk("sweep", allocated, Job(op))
          IN  /\ u \in Walks /\ u.at = "sweep" /\ u.curr = allocated /\ u.reclaimed = 0
              /\ u.job.op = op
      <4>1. op \in {"GCOLLECT_again", "interpret", "interpret_again"}
        BY <3>1 DEF op
      <4>. QED
        BY <3>1, <4>1, NewWalk
    <3>. QED
      BY <3>2 DEF op
  <2>2. gc' = <<v>>
    BY <1>1
  <2>. QED
    BY <2>1, <2>2
<1>6. allocated \in Chained(next, allocated) \cup {NULL}
  BY <1>1, ChainLeast DEF Types
<1>7. SweptTo(v, v.curr)'
  BY <1>1, <1>5, <1>6 DEF SweptTo, Again
<1>8. UnderWay(v)'
  BY <1>1, <1>4, <1>5, <1>7 DEF UnderWay, InSweep
<1>. QED
  BY <1>1, <1>2, <1>3, <1>5, <1>8, ToWalk

LEMMA EndGcollectInv ==
  ASSUME IInv, EndGcollect
  PROVE  IInv'
<1>. USE DEF EndGcollect, blockVars, codeVars, exitVars
<1>1. PICK w \in Walks :
           /\ gc = <<w>> /\ top = w /\ Tail(gc) = << >> /\ w.job.op \in {"GCOLLECT_again"}
           /\ Types /\ Sound /\ failed = NULL /\ finalised = NULL /\ droots = {}
           /\ SweptTo(w, NULL) /\ Linear(next, allocated) /\ Chained(next, allocated) = Live
           /\ Live \subseteq used /\ TotalAfter = SizeOf(Live) /\ TotalAfter \in Nat
  BY EndOfWalkFacts
<1>2. Types'
  BY <1>1 DEF Types
<1>3. Sound'
  BY <1>1 DEF Sound, Live
<1>4. Lists({}, 0)'
  BY <1>1, AfterSweep
<1>5. Idle'
  BY <1>1, <1>4 DEF Idle, Filling, SweptTo
<1>. QED
  BY <1>1, <1>2, <1>3, <1>5, ToIdle

LEMMA EndInterpretInv ==
  ASSUME IInv, EndInterpret
  PROVE  IInv'
<1>. USE DEF EndInterpret, blockVars, codeVars
<1>1. PICK w \in Walks :
           /\ gc = <<w>> /\ top = w /\ Tail(gc) = << >> /\ w.job.op \in {"interpret_again"}
           /\ Types /\ Sound /\ failed = NULL /\ finalised = NULL /\ droots = {}
           /\ SweptTo(w, NULL) /\ Linear(next, allocated) /\ Chained(next, allocated) = Live
           /\ Live \subseteq used /\ TotalAfter = SizeOf(Live) /\ TotalAfter \in Nat
  BY EndOfWalkFacts
<1>2. Types'
  BY <1>1 DEF Types
<1>3. Sound'
  BY <1>1 DEF Sound, Live
<1>4. Lists({}, 0)'
  BY <1>1, AfterSweep
<1>5. Live' = {}
  BY <1>1 DEF SweptTo, Live
<1>6. Idle'
  BY <1>1, <1>4, <1>5 DEF Idle, Filling, SweptTo
<1>. QED
  BY <1>1, <1>2, <1>3, <1>6, ToIdle

---------------------------------------------------------------------------
\* The destructors that run when the program has ended.

LEMMA FinalFacts ==
  ASSUME IInv, At("final") \/ At("finaliser")
  PROVE  \E w \in Walks :
           /\ gc = <<w>> /\ top = w
           /\ Types /\ Sound /\ failed = NULL /\ InFinalisation(w) /\ Lists({}, 0)
           /\ Chained(next, finalised) = Live
           /\ next \in [Node -> Ref] /\ Linear(next, finalised)
<1>1. gc # << >>
  BY DEF At
<1>2. PICK w \in Walks : gc = <<w>> /\ UnderWay(w)
  BY <1>1, Walking
<1>3. Types /\ Sound /\ failed = NULL /\ top = w /\ InFinalisation(w)
  BY <1>1, <1>2, Walking, OneWalk DEF UnderWay, InSweep, InSweepDestructor
<1>4. /\ Lists({}, 0) /\ allocated = NULL /\ next \in [Node -> Ref] /\ Live \ {} = Live
  BY <1>3 DEF InFinalisation, Types
<1>5. Chained(next, finalised) = Live /\ Linear(next, finalised)
  BY <1>4, ChainOfNull DEF Lists, Listed
<1>. QED
  BY <1>2, <1>3, <1>4, <1>5

LEMMA SkipFinalisedInv ==
  ASSUME IInv, NEW n \in Node, SkipFinalised(n)
  PROVE  IInv'
<1>. USE DEF SkipFinalised, Finalising, blockVars, listVars, codeVars, exitVars
<1>1. PICK w \in Walks :
           /\ gc = <<w>> /\ top = w
           /\ Types /\ Sound /\ failed = NULL /\ InFinalisation(w) /\ Lists({}, 0)
           /\ Chained(next, finalised) = Live
           /\ next \in [Node -> Ref] /\ Linear(next, finalised)
  BY FinalFacts
<1>2. w.at = "final" /\ w.curr = n /\ n # NULL /\ next[n] \in Ref
  BY <1>1, OneWalk, BcHeapAssumption
<1>3. next[n] \in Chained(next, finalised) \cup {NULL}
  BY <1>1, <1>2, ChainLeast DEF InFinalisation, Types
<1>4. Types'
  BY <1>1 DEF Types
<1>5. Sound'
  BY <1>1 DEF Sound, Live
<1>6. Lists({}, 0)'
  BY <1>1, ListsFrame
<1>7. PICK v \in Walks :
        gc' = <<v>> /\ v.at = "final" /\ v.curr = next[n] /\ v.reclaimed = w.reclaimed
  <2>. DEFINE v == [w EXCEPT !.curr = next[n]]
  <2>1. v \in Walks /\ v.at = "final" /\ v.curr = next[n] /\ v.reclaimed = w.reclaimed
    BY <1>2 DEF Walks
  <2>2. gc' = <<v>>
    BY <1>1
  <2>. QED
    BY <2>1, <2>2
<1>8. UnderWay(v)'
  BY <1>1, <1>2, <1>3, <1>6, <1>7 DEF UnderWay, InFinalisation
<1>. QED
  BY <1>1, <1>4, <1>5, <1>7, <1>8, ToWalk

LEMMA StartFinaliserInv ==
  ASSUME IInv, NEW n \in Node, StartFinaliser(n)
  PROVE  IInv'
<1>. USE DEF StartFinaliser, Finalising, blockVars, listVars, exitVars
<1>1. PICK w \in Walks :
           /\ gc = <<w>> /\ top = w
           /\ Types /\ Sound /\ failed = NULL /\ InFinalisation(w) /\ Lists({}, 0)
           /\ Chained(next, finalised) = Live
           /\ next \in [Node -> Ref] /\ Linear(next, finalised)
  BY FinalFacts
<1>2. w.at = "final" /\ w.curr = n /\ n # NULL
  BY <1>1, OneWalk, BcHeapAssumption
<1>3. Types'
  BY <1>1 DEF Types
<1>4. Sound'
  BY <1>1 DEF Sound, Live
<1>5. Lists({}, 0)'
  BY <1>1, ListsFrame
<1>6. PICK v \in Walks :
        gc' = <<v>> /\ v.at = "finaliser" /\ v.curr = n /\ v.reclaimed = w.reclaimed
  <2>. DEFINE v == [w EXCEPT !.at = "finaliser"]
  <2>1. v \in Walks /\ v.at = "finaliser" /\ v.curr = n /\ v.reclaimed = w.reclaimed
    BY <1>2 DEF Walks
  <2>2. gc' = <<v>>
    BY <1>1
  <2>. QED
    BY <2>1, <2>2
<1>7. UnderWay(v)'
  BY <1>1, <1>2, <1>5, <1>6 DEF UnderWay, InFinalisation
<1>. QED
  BY <1>1, <1>3, <1>4, <1>6, <1>7, ToWalk

LEMMA EndFinaliserInv ==
  ASSUME Restrained, IInv, EndFinaliser
  PROVE  IInv'
<1>. USE DEF EndFinaliser, listVars, exitVars
<1>1. PICK w \in Walks :
           /\ gc = <<w>> /\ top = w
           /\ Types /\ Sound /\ failed = NULL /\ InFinalisation(w) /\ Lists({}, 0)
           /\ Chained(next, finalised) = Live
           /\ next \in [Node -> Ref] /\ Linear(next, finalised)
  BY FinalFacts
<1>. DEFINE n == w.curr
<1>2. w.at = "finaliser" /\ n \in Live /\ n \in Node /\ next[n] \in Ref
  <2>1. w.at = "finaliser"
    BY <1>1, OneWalk
  <2>. QED
    BY <1>1, <2>1 DEF InFinalisation, Live
<1>3. roots' = roots /\ droots' = {}
  BY DEF LeaveDestructor, Restrained
<1>4. next[n] \in Chained(next, finalised) \cup {NULL}
  BY <1>1, <1>2, ChainLeast DEF Types
<1>5. kind' = [kind EXCEPT ![n] = "record"]
  BY <1>1
<1>6. Types'
  BY <1>1, <1>2, <1>3, <1>5, BcHeapAssumption DEF Types, Ref
<1>7. Sound'
  BY <1>1, <1>2, <1>3, <1>5 DEF Sound, Live, Types
<1>8. Lists({}, 0)'
  BY <1>1, ListsFrame
<1>9. PICK v \in Walks :
        gc' = <<v>> /\ v.at = "final" /\ v.curr = next[n] /\ v.reclaimed = w.reclaimed
  <2>. DEFINE v == [w EXCEPT !.at = "final", !.curr = next[n]]
  <2>1. v \in Walks /\ v.at = "final" /\ v.curr = next[n] /\ v.reclaimed = w.reclaimed
    BY <1>2 DEF Walks
  <2>2. gc' = <<v>>
    BY <1>1
  <2>. QED
    BY <2>1, <2>2
<1>10. UnderWay(v)'
  BY <1>1, <1>2, <1>3, <1>4, <1>8, <1>9 DEF UnderWay, InFinalisation
<1>. QED
  BY <1>1, <1>6, <1>7, <1>9, <1>10, ToWalk

LEMMA BailInv ==
  ASSUME IInv, Bail
  PROVE  IInv'
<1>. USE DEF Bail, Finalising, blockVars, listVars, codeVars
<1>1. PICK w \in Walks :
           /\ gc = <<w>> /\ top = w
           /\ Types /\ Sound /\ failed = NULL /\ InFinalisation(w) /\ Lists({}, 0)
           /\ Chained(next, finalised) = Live
           /\ next \in [Node -> Ref] /\ Linear(next, finalised)
  BY FinalFacts
<1>2. w.at = "final"
  BY <1>1, OneWalk
<1>3. Types'
  BY <1>1 DEF Types
<1>4. Sound'
  BY <1>1 DEF Sound, Live
<1>5. Lists({}, 0)'
  BY <1>1, ListsFrame
<1>6. Idle'
  BY <1>1, <1>2, <1>5 DEF Idle, Filling, InFinalisation
<1>. QED
  BY <1>1, <1>3, <1>4, <1>6, ToIdle

\* The destructors allocate nothing, so that one round is enough.
LEMMA NoOtherRound ==
  ASSUME IInv
  PROVE  ~ AnotherRound
<1>. SUFFICES ASSUME AnotherRound PROVE FALSE
  OBVIOUS
<1>1. \E w \in Walks : InFinalisation(w)
  BY FinalFacts DEF AnotherRound, Finalising
<1>. QED
  BY <1>1 DEF AnotherRound, InFinalisation

LEMMA LastCollectionInv ==
  ASSUME IInv, LastCollection
  PROVE  IInv'
<1>. USE BcHeapAssumption DEF LastCollection, Finalising
<1>1. PICK w \in Walks :
           /\ gc = <<w>> /\ top = w
           /\ Types /\ Sound /\ failed = NULL /\ InFinalisation(w) /\ Lists({}, 0)
           /\ Chained(next, finalised) = Live
           /\ next \in [Node -> Ref] /\ Linear(next, finalised)
  BY FinalFacts
<1>2. program = "exiting" /\ builder = NULL /\ allocated = NULL /\ finalised \in Ref
  BY <1>1 DEF InFinalisation, Types
<1>3. /\ used' = {} /\ roots' = {} /\ droots' = {}
      /\ rcount' \in [Node -> 0 .. NRef + 1] /\ prev' \in [Node -> Ref]
      /\ allocated' = finalised /\ finalised' = NULL
  <2>1. Chain(finalised) = Live
    BY <1>1 DEF Chain, Chained
  <2>2. rcount \in [Node -> 0 .. NRef + 1] /\ prev \in [Node -> Ref] /\ used \subseteq Live
        /\ 0 \in 0 .. NRef + 1
    BY <1>1 DEF Types, Sound
  <2>. QED
    BY <2>1, <2>2 DEF Ref
<1>4. Types'
  BY <1>1, <1>2, <1>3 DEF Types, Ref
<1>5. Reached(refs', roots') = {}
  BY <1>1, <1>3, ReachedOfNone DEF Types
<1>6. Sound'
  BY <1>1, <1>3, <1>5 DEF Sound, Live
<1>7. Lists({}, 0)'
  BY <1>1, <1>2, <1>3 DEF Lists, Listed, SizeOf, Live
<1>8. PICK v \in Walks :
        /\ gc' = <<v>> /\ v.at = "sweep" /\ v.curr = finalised /\ v.reclaimed = 0
        /\ v.job.op = "interpret"
  <2>. DEFINE v == Walk("sweep", finalised, Job("interpret"))
  <2>1. /\ v \in Walks /\ v.at = "sweep" /\ v.curr = finalised /\ v.reclaimed = 0
        /\ v.job.op = "interpret"
    BY <1>2, NewWalk
  <2>. QED
    BY <2>1
<1>9. finalised \in Chained(next, finalised) \cup {NULL}
  BY <1>1, <1>2, ChainLeast
<1>10. SweptTo(v, v.curr)'
  BY <1>1, <1>2, <1>3, <1>5, <1>8, <1>9 DEF SweptTo
<1>11. UnderWay(v)'
  BY <1>3, <1>7, <1>8, <1>10 DEF UnderWay, InSweep
<1>. QED
  BY <1>1, <1>4, <1>6, <1>8, <1>11, ToWalk
---------------------------------------------------------------------------
LEMMA StutterInv ==
  ASSUME IInv, UNCHANGED vars
  PROVE  IInv'
BY DEF IInv, vars, blockVars, listVars, codeVars, exitVars, Types, Sound, Idle, UnderWay,
   InSweep, InSweepDestructor, InFinalisation, SweptTo, Lists, Listed, Filling, Live, SizeOf,
   top

LEMMA NextInv ==
  ASSUME Restrained, IInv, Next
  PROVE  IInv'
<1>1. CASE Code
  <2>. USE <1>1, BcHeapAssumption
  <2>1. CASE \E k \in Kinds, s \in 1 .. MaxSize : Bcalloc(k, s) \/ BcallocCollects(k, s)
    BY <2>1, BcallocInv, BcallocCollectsInv
  <2>2. CASE \E n \in Node : \E m \in Node, s \in 1 .. MaxSize : BcreallocBlob(n, m, s)
    BY <2>2, BcreallocBlobInv
  <2>3. CASE \E n \in Node : BcreallocBlobFails(n)
    BY <2>3, BcreallocBlobFailsInv
  <2>4. CASE \E n \in Node, i \in 1 .. NRef : LoadField(n, i)
    BY <2>4, LoadFieldInv
  <2>5. CASE \E n \in Node, i \in 1 .. NRef, m \in Node \cup {NULL} : StoreField(n, i, m)
    BY <2>5, StoreFieldInv DEF Ref
  <2>6. CASE \E n \in Node : StoreGlobal(n) \/ DropReference(n)
    BY <2>6, StoreGlobalInv, DropReferenceInv
  <2>7. CASE \E p \in Policies : SetPolicy(p)
    BY <2>7, SetPolicyInv
  <2>8. CASE Gcollect
    BY <2>8, GcollectInv
  <2>9. CASE ExitProgram
    BY <2>9, ExitProgramInv
  <2>. QED
    BY <2>1, <2>2, <2>3, <2>4, <2>5, <2>6, <2>7, <2>8, <2>9 DEF Code
<1>2. CASE Collector
  <2>1. CASE \E n \in Node : KeepBlock(n) \/ FreeBlock(n) \/ StartDestructor(n)
    BY <2>1, KeepBlockInv, FreeBlockInv, StartDestructorInv
  <2>2. CASE \E n \in Node : SkipFinalised(n) \/ StartFinaliser(n)
    BY <2>2, SkipFinalisedInv, StartFinaliserInv
  <2>3. CASE EndBcalloc \/ SweepAgain \/ EndGcollect \/ EndInterpret
    BY <2>3, EndBcallocInv, SweepAgainInv, EndGcollectInv, EndInterpretInv
  <2>4. CASE Bail \/ AnotherRound \/ LastCollection
    BY <2>4, BailInv, NoOtherRound, LastCollectionInv
  <2>. QED
    BY <1>2, <2>1, <2>2, <2>3, <2>4 DEF Collector
<1>3. CASE Return
  BY <1>3, EndDestructorInv, EndFinaliserInv DEF Return
<1>4. CASE Stopped
  BY <1>4, StutterInv DEF Stopped
<1>. QED
  BY <1>1, <1>2, <1>3, <1>4 DEF Next

\* The invariant holds throughout, whatever the program does and however its
\* policy makes collections fall between its steps.
THEOREM Invariance ==
  ASSUME Restrained
  PROVE  Spec => []IInv
<1>1. IInv /\ [Next]_vars => IInv'
  BY NextInv, StutterInv
<1>. QED
  BY <1>1, InitInv, PTL DEF Spec

---------------------------------------------------------------------------
\* What it says of the state.

LEMMA Phases ==
  ASSUME IInv
  PROVE  \/ /\ gc = << >> /\ Idle /\ Dying = {} /\ Reclaimed = 0
         \/ \E w \in Walks :
              /\ gc = <<w>> /\ UnderWay(w)
              /\ Dying = IF w.at = "destructor" THEN {w.curr} ELSE {}
              /\ Reclaimed = w.reclaimed
<1>1. CASE gc = << >>
  <2>1. Len(gc) = 0
    BY <1>1
  <2>2. Dying = {}
    BY <2>1 DEF Dying
  <2>3. Reclaimed = 0
    BY <2>1 DEF Reclaimed, ReclaimedBy
  <2>. QED
    BY <1>1, <2>2, <2>3, Idling
<1>2. CASE gc # << >>
  <2>1. PICK w \in Walks : gc = <<w>> /\ UnderWay(w)
    BY <1>2, Walking
  <2>2. Len(gc) = 1 /\ gc[1] = w
    BY <2>1
  <2>3. \A j : j \in 1 .. Len(gc) <=> j = 1
    BY <2>2
  <2>4. Dying = IF w.at = "destructor" THEN {w.curr} ELSE {}
    BY <2>2, <2>3 DEF Dying
  <2>5. Reclaimed = w.reclaimed
    <3>1. w.reclaimed \in Nat
      BY <2>1 DEF Walks
    <3>2. ReclaimedBy(1) = w.reclaimed /\ ReclaimedBy(2) = 0
      BY <2>2 DEF ReclaimedBy
    <3>3. \A r \in Nat : r + 0 = r
      OBVIOUS
    <3>. QED
      BY <3>1, <3>2, <3>3 DEF Reclaimed
  <2>. QED
    BY <2>1, <2>4, <2>5
<1>. QED
  BY <1>1, <1>2

LEMMA InvTypeOK == IInv => TypeOK
<1>. SUFFICES ASSUME IInv PROVE TypeOK
  OBVIOUS
<1>1. Types /\ failed = NULL
  BY DEF IInv
<1>2. Len(gc) <= 2
  <2>1. CASE gc = << >>
    BY <2>1
  <2>2. CASE \E w \in Walks : gc = <<w>>
    BY <2>2
  <2>. QED
    BY <2>1, <2>2, Phases
<1>. QED
  BY <1>1, <1>2 DEF Types, TypeOK, Heaps, Ref

\* Lists() speaks of the dying blocks, and of the bytes reclaimed, of the state.
LEMMA InvLists == IInv => Types /\ Lists(Dying, Reclaimed)
BY Phases DEF IInv, UnderWay, InSweep, InSweepDestructor, InFinalisation, Idle

LEMMA InvListIsTheHeap == IInv => ListIsTheHeap
<1>. SUFFICES ASSUME IInv PROVE ListIsTheHeap
  OBVIOUS
<1>1. Types /\ Lists(Dying, Reclaimed)
  BY InvLists
<1>2. \A h \in Ref : Chain(h) = Chained(next, h)
  BY DEF Chain, Chained
<1>3. Chain(allocated) \cap Chain(finalised) = {}
  BY <1>1, <1>2, ChainOfNull DEF Types, Lists
<1>4. Ends(allocated) /\ Ends(finalised)
  BY <1>1, <1>2 DEF Types, Lists, Linear, Ends
<1>. QED
  BY <1>1, <1>2, <1>3, <1>4 DEF ListIsTheHeap, Lists, Listed, Types

LEMMA InvBytes == IInv => BytesAreAccounted
BY InvLists DEF BytesAreAccounted, Lists

LEMMA InvNoAssertionFails == IInv => NoAssertionFails
BY DEF IInv, NoAssertionFails, UnderWay, InSweep, InSweepDestructor, InFinalisation, SweptTo,
   Idle, Filling

LEMMA InvExitIsClean == IInv => ExitIsClean
<1>. SUFFICES ASSUME IInv, program = "done" PROVE Live = {} /\ total_allocated_bytes = 0
  BY DEF ExitIsClean
<1>1. Idle
  BY DEF IInv, UnderWay, InSweep, InSweepDestructor, InFinalisation, SweptTo
<1>2. Live = {} /\ total_allocated_bytes = SizeOf(Live \ {}) + 0
  BY <1>1 DEF Idle, Lists
<1>3. SizeOf(Live \ {}) = 0
  BY <1>2, SizesOfNone DEF SizeOf
<1>. QED
  BY <1>2, <1>3

\* The variables keep their types; in particular no second walk starts inside
\* the first.
THEOREM Typing ==
  ASSUME Restrained
  PROVE  Spec => []TypeOK
BY Invariance, InvTypeOK, PTL

\* However sweeps unlink blocks from the middle of the list and destructors
\* run half way through them, the list neither loses nor repeats a block.
THEOREM TheListIsTheHeap ==
  ASSUME Restrained
  PROVE  Spec => []ListIsTheHeap
BY Invariance, InvListIsTheHeap, PTL

\* total_allocated_bytes agrees with the blocks at every step of a sweep, and
\* never goes below zero when what it has reclaimed is subtracted.
THEOREM Accounting ==
  ASSUME Restrained
  PROVE  Spec => []BytesAreAccounted
BY Invariance, InvBytes, PTL

\* No block is freed twice, no reference the marking follows leads to a block
\* that is free, and the blob that bcrealloc_blob() finds is on the list.
THEOREM Assertions ==
  ASSUME Restrained
  PROVE  Spec => []NoAssertionFails
BY Invariance, InvNoAssertionFails, PTL

\* The sweeps at the end of the program free what is left.
THEOREM CleanExit ==
  ASSUME Restrained
  PROVE  Spec => []ExitIsClean
BY Invariance, InvExitIsClean, PTL

---------------------------------------------------------------------------
\* What a step may not do.

\* The steps that free blocks.
Frees(n) == mem[n] = "live" /\ mem'[n] = "free"

LEMMA WhoFrees ==
  ASSUME IInv, Next, NEW n \in Node, Frees(n)
  PROVE  FreeBlock(n) \/ (EndDestructor /\ n = top.curr)
         \/ \E m \in Node, s \in 1 .. MaxSize : BcreallocBlob(n, m, s)
<1>. USE DEF Frees
<1>0. mem \in [Node -> {"live", "free"}] /\ mem[n] # mem'[n]
  BY DEF IInv, Types
<1>1. ASSUME NEW a \in Node, Bcfree(a)
      PROVE  n = a
  BY <1>0, <1>1 DEF Bcfree
<1>2. ASSUME NEW a \in Node, NEW k, NEW s, NEW total, NEW rest, Calloc(a, k, s, total, rest)
      PROVE  FALSE
  BY <1>0, <1>2 DEF Calloc
<1>3. ASSUME NEW total, CallocFails(total)
      PROVE  FALSE
  BY <1>0, <1>3 DEF CallocFails, blockVars
<1>4. CASE Code
  <2>1. CASE \E k \in Kinds, s \in 1 .. MaxSize : Bcalloc(k, s) \/ BcallocCollects(k, s)
    BY <1>0, <1>2, <1>3, <2>1 DEF Bcalloc, BcallocCollects, StartCollection
  <2>2. ASSUME NEW a \in Node, NEW m \in Node, NEW s \in 1 .. MaxSize, BcreallocBlob(a, m, s)
        PROVE  n = a
    BY <1>0, <2>2 DEF BcreallocBlob
  <2>3. CASE \E a \in Node : BcreallocBlobFails(a) \/ StoreGlobal(a) \/ DropReference(a)
    BY <1>0, <2>3 DEF BcreallocBlobFails, StoreGlobal, DropReference, blockVars
  <2>4. CASE \E a \in Node, i \in 1 .. NRef :
               LoadField(a, i) \/ \E m \in Node \cup {NULL} : StoreField(a, i, m)
    BY <1>0, <2>4 DEF LoadField, StoreField, blockVars
  <2>5. CASE (\E p \in Policies : SetPolicy(p)) \/ Gcollect \/ ExitProgram
    BY <1>0, <2>5 DEF SetPolicy, Gcollect, ExitProgram, StartCollection, blockVars
  <2>. QED
    BY <1>4, <2>1, <2>2, <2>3, <2>4, <2>5 DEF Code
<1>5. CASE Collector
  <2>1. CASE \E a \in Node : KeepBlock(a) \/ StartDestructor(a) \/ SkipFinalised(a)
                             \/ StartFinaliser(a)
    BY <1>0, <2>1 DEF KeepBlock, StartDestructor, SkipFinalised, StartFinaliser, blockVars
  <2>2. CASE \E a \in Node : FreeBlock(a)
    BY <1>1, <2>2 DEF FreeBlock
  <2>3. CASE EndBcalloc
    BY <1>2, <1>3, <2>3 DEF EndBcalloc
  <2>4. CASE SweepAgain \/ EndGcollect \/ EndInterpret \/ Bail \/ AnotherRound
             \/ LastCollection
    BY <1>0, <2>4 DEF SweepAgain, EndGcollect, EndInterpret, Bail, AnotherRound,
       LastCollection, blockVars
  <2>. QED
    BY <1>5, <2>1, <2>2, <2>3, <2>4 DEF Collector
<1>6. CASE Return
  <2>1. CASE EndDestructor
    <3>1. top.curr \in Node
      <4>1. gc # << >>
        BY <2>1 DEF EndDestructor, At
      <4>2. PICK w \in Walks : gc = <<w>> /\ UnderWay(w)
        BY <4>1, Walking
      <4>. QED
        BY <2>1, <4>2, OneWalk DEF EndDestructor, UnderWay, InSweep, InSweepDestructor,
           InFinalisation, Live
    <3>. QED
      BY <1>1, <2>1, <3>1 DEF EndDestructor
  <2>2. CASE EndFinaliser
    BY <1>0, <2>2 DEF EndFinaliser
  <2>. QED
    BY <1>6, <2>1, <2>2 DEF Return
<1>7. CASE Stopped
  BY <1>0, <1>7 DEF Stopped, vars, blockVars
<1>. QED
  BY <1>4, <1>5, <1>6, <1>7 DEF Next

\* No block that has a destructor is freed unless it has just run: a sweep
\* frees at once only what has none, and a blob that moves has none either.
THEOREM DestructorsRunFirst ==
  ASSUME Restrained
  PROVE  Spec => DestructorBeforeFree
<1>1. ASSUME IInv, [Next]_vars, NEW n \in Node, Frees(n)
      PROVE  kind[n] # "object" \/ n \in Dying
  <2>1. Next
    BY <1>1 DEF Frees, vars, blockVars
  <2>2. CASE FreeBlock(n)
    <3>1. ~ in_gc
      BY <1>1, <2>2, SweepFacts DEF FreeBlock, Ref
    <3>. QED
      BY <2>2, <3>1 DEF FreeBlock, RunsDestructor
  <2>3. CASE EndDestructor /\ n = top.curr
    <3>1. gc # << >>
      BY <2>3 DEF EndDestructor, At
    <3>2. PICK w \in Walks : gc = <<w>> /\ Dying = IF w.at = "destructor" THEN {w.curr} ELSE {}
      BY <1>1, <3>1, Phases
    <3>. QED
      BY <2>3, <3>2, OneWalk DEF EndDestructor
  <2>4. CASE \E m \in Node, s \in 1 .. MaxSize : BcreallocBlob(n, m, s)
    BY <1>1, <2>4, BuilderFacts DEF BcreallocBlob
  <2>. QED
    BY <1>1, <2>1, <2>2, <2>3, <2>4, WhoFrees
<1>2. IInv /\ [Next]_vars =>
        [\A n \in Node :
           mem[n] = "live" /\ mem'[n] = "free" => kind[n] # "object" \/ n \in Dying]_vars
  BY <1>1 DEF Frees
<1>. QED
  BY <1>2, Invariance, PTL DEF Spec, DestructorBeforeFree

LEMMA CollectionStarts ==
  ASSUME IInv, gc = << >>, program = "running", StartCollection(Job("GCOLLECT"))
         \/ \E k \in Kinds, s \in 1 .. MaxSize : StartCollection(AllocJob(k, s))
  PROVE  used' = Heap!Reach(roots)
<1>1. Types /\ Sound /\ Idle /\ finalised = NULL /\ Lists({}, 0) /\ droots = {}
  BY Idling DEF Idle
<1>2. Chained(next, allocated) = Live /\ refs \in Heaps
  BY <1>1, OneList DEF Types
<1>3. MarkFrom(Cells)
  BY DEF StartCollection
<1>4. used' = Reached(refs, roots)
  BY <1>1, <1>2, <1>3, MarkFromRoots
<1>. QED
  BY <1>2, <1>4, ReachIsReached

\* The steps that end the last walk.
LEMMA WhoStops ==
  ASSUME Restrained, IInv, Next, gc # << >>, gc' = << >>
  PROVE  EndBcalloc \/ EndGcollect \/ EndInterpret \/ Bail
<1>1. Tail(gc) = << >>
  BY Walking, OneWalk
<1>2. \A x : <<x>> # << >> /\ <<x>> \o Tail(gc) # << >>
  BY <1>1, Alone
<1>3. gc' # gc
  OBVIOUS
<1>4. ~ Code
  <2>1. ASSUME NEW k, NEW s, Bcalloc(k, s) \/ BcallocCollects(k, s)
        PROVE  FALSE
    BY <1>3, <2>1 DEF Bcalloc, BcallocCollects, MayAllocate, CodeRuns, Restrained
  <2>2. ASSUME NEW a, NEW m, NEW s, BcreallocBlob(a, m, s)
        PROVE  FALSE
    BY <1>3, <2>2 DEF BcreallocBlob
  <2>3. ASSUME NEW a, BcreallocBlobFails(a) \/ StoreGlobal(a) \/ DropReference(a)
        PROVE  FALSE
    BY <1>3, <2>3 DEF BcreallocBlobFails, StoreGlobal, DropReference
  <2>4. ASSUME NEW a, NEW i, LoadField(a, i) \/ \E m : StoreField(a, i, m)
        PROVE  FALSE
    BY <1>3, <2>4 DEF LoadField, StoreField
  <2>5. ASSUME (\E p : SetPolicy(p)) \/ Gcollect \/ ExitProgram
        PROVE  FALSE
    BY <1>3, <2>5 DEF SetPolicy, Gcollect, ExitProgram, CodeRuns, Restrained
  <2>. QED
    BY <2>1, <2>2, <2>3, <2>4, <2>5 DEF Code
<1>5. ~ Return
  BY <1>2 DEF Return, EndDestructor, EndFinaliser
<1>6. ~ Stopped
  BY <1>3 DEF Stopped, vars
<1>7. Collector
  BY <1>4, <1>5, <1>6 DEF Next
<1>8. ASSUME NEW a, KeepBlock(a) \/ FreeBlock(a) \/ StartDestructor(a) \/ SkipFinalised(a)
                      \/ StartFinaliser(a)
      PROVE  FALSE
  BY <1>2, <1>8 DEF KeepBlock, FreeBlock, StartDestructor, SkipFinalised, StartFinaliser
<1>9. ~ SweepAgain /\ ~ AnotherRound /\ ~ LastCollection
  BY <1>2 DEF SweepAgain, AnotherRound, LastCollection, Detach
<1>. QED
  BY <1>7, <1>8, <1>9 DEF Collector

LEMMA WhoStarts ==
  ASSUME Restrained, IInv, Next, gc = << >>, gc' # << >>, program' = "running"
  PROVE  Gcollect \/ \E k \in Kinds, s \in 1 .. MaxSize : BcallocCollects(k, s)
<1>1. gc' # gc /\ \A at : ~ At(at)
  BY NoWalk
<1>2. ~ Collector
  BY <1>1 DEF Collector, KeepBlock, FreeBlock, StartDestructor, SkipFinalised, StartFinaliser,
     EndBcalloc, SweepAgain, EndGcollect, EndInterpret, Bail, AnotherRound, LastCollection,
     EndOfWalk, Sweeping, Finalising
<1>3. ~ Return
  BY <1>1 DEF Return, EndDestructor, EndFinaliser
<1>4. ~ Stopped
  BY <1>1 DEF Stopped, vars
<1>5. Code
  BY <1>2, <1>3, <1>4 DEF Next
<1>6. ASSUME NEW k, NEW s, Bcalloc(k, s)
      PROVE  FALSE
  BY <1>1, <1>6 DEF Bcalloc
<1>7. ASSUME NEW a, NEW m, NEW s, BcreallocBlob(a, m, s)
      PROVE  FALSE
  BY <1>1, <1>7 DEF BcreallocBlob
<1>8. ASSUME NEW a, BcreallocBlobFails(a) \/ StoreGlobal(a) \/ DropReference(a)
      PROVE  FALSE
  BY <1>1, <1>8 DEF BcreallocBlobFails, StoreGlobal, DropReference
<1>9. ASSUME NEW a, NEW i, LoadField(a, i) \/ \E m : StoreField(a, i, m)
      PROVE  FALSE
  BY <1>1, <1>9 DEF LoadField, StoreField
<1>10. ASSUME (\E p : SetPolicy(p)) \/ ExitProgram
       PROVE  FALSE
  BY <1>1, <1>10 DEF SetPolicy, ExitProgram
<1>. QED
  BY <1>5, <1>6, <1>7, <1>8, <1>9, <1>10 DEF Code

\* A collection marks what the program can reach and nothing else, and when it
\* is over what it has not marked is gone: no garbage survives it.
THEOREM GarbageIsCollected ==
  ASSUME Restrained
  PROVE  Spec => CollectsGarbage
<1>1. ASSUME IInv, [Next]_vars, gc = << >>, gc' # << >>, program' = "running"
      PROVE  used' = Heap!Reach(roots)
  <2>1. Next
    BY <1>1 DEF vars
  <2>2. CASE Gcollect
    <3>1. program = "running"
      BY <1>1, <2>2, NoWalk DEF Gcollect, CodeRuns
    <3>. QED
      BY <1>1, <2>2, <3>1, CollectionStarts DEF Gcollect
  <2>3. CASE \E k \in Kinds, s \in 1 .. MaxSize : BcallocCollects(k, s)
    <3>1. program = "running"
      BY <1>1, <2>3, NoWalk DEF BcallocCollects, MayAllocate, CodeRuns
    <3>. QED
      BY <1>1, <2>3, <3>1, CollectionStarts DEF BcallocCollects
  <2>. QED
    BY <1>1, <2>1, <2>2, <2>3, WhoStarts
<1>2. ASSUME IInv, [Next]_vars, gc # << >>, gc' = << >>, program = "running",
             NEW n \in Live
      PROVE  n \in used
  <2>1. Next
    BY <1>2 DEF vars
  <2>2. CASE EndBcalloc \/ EndGcollect \/ EndInterpret
    <3>1. \E ops : EndOfWalk(ops)
      BY <2>2 DEF EndBcalloc, EndGcollect, EndInterpret
    <3>. QED
      BY <1>2, <3>1, EndOfWalkFacts
  <2>3. CASE Bail
    BY <1>2, <2>3, FinalFacts DEF Bail, Finalising, InFinalisation
  <2>. QED
    BY <1>2, <2>1, <2>2, <2>3, WhoStops
<1>3. IInv /\ [Next]_vars =>
        [/\ gc = << >> /\ gc' # << >> /\ program' = "running" /\ failed' = NULL
              => used' = Heap!Reach(roots)
         /\ gc # << >> /\ gc' = << >> /\ program = "running"
              => \A n \in Live : mem'[n] = "live" => n \in used]_vars
  BY <1>1, <1>2
<1>. QED
  BY <1>3, Invariance, PTL DEF Spec, CollectsGarbage

---------------------------------------------------------------------------
\* To the program, the heap is a managed heap.

LEMMA HeapViews ==
  ASSUME refs \in Heaps, refs' \in Heaps
  PROVE  /\ Heap!Accessible = Reached(refs, roots)
         /\ Heap!Accessible' = Reached(refs', roots')
         /\ \A n \in Node : Heap!Fields(n) = FieldsOf(refs, n)
         /\ \A n \in Node : Heap!Fields(n)' = FieldsOf(refs', n)
<1>1. \A n \in Node : Heap!Fields(n)' = FieldsOf(refs', n)
  BY DEF Heap!Fields, FieldsOf, Heaps
<1>2. [n \in Node |-> Heap!Fields(n)]' = [n \in Node |-> FieldsOf(refs', n)]
  BY <1>1
<1>3. Heap!Accessible' = Reached(refs', roots')
  BY <1>2 DEF Heap!Accessible, Heap!Reach, Heap!Closure, Heap!IsClosed, Reached, Closure,
     IsClosed
<1>. QED
  BY <1>1, <1>3, ReachIsReached DEF Heap!Accessible

LEMMA Mutates ==
  ASSUME refs \in Heaps, refs' \in Heaps, mem' = mem,
         Reached(refs', roots') \subseteq Reached(refs, roots)
  PROVE  Heap!Next
<1>1. Live' = Live
  BY DEF Live
<1>. QED
  BY <1>1, HeapViews DEF Heap!Next, Heap!Mutate

LEMMA Allocates ==
  ASSUME Types, Sound, NEW n \in Node \ Live, NEW k \in {"object", "record", "blob"},
         NEW s, NEW total, Calloc(n, k, s, total, << >>)
  PROVE  Heap!Next
<1>1. /\ refs' \in Heaps /\ FieldsOf(refs', n) = {} /\ n \notin Live /\ refs \in Heaps
      /\ \A a \in Node \ {n} : FieldsOf(refs', a) = FieldsOf(refs, a)
      /\ Live' = Live \cup {n} /\ Reached(refs, roots) \in SUBSET Node
      /\ Reached(refs', roots') = Reached(refs, roots) \cup {n}
      /\ Reached(refs, roots) \subseteq Live
  BY CallocReaches DEF Types, Sound
<1>2. \A a \in Reached(refs, roots) : Heap!Fields(a)' = Heap!Fields(a)
  BY <1>1, HeapViews
<1>3. /\ Heap!Fields(n)' = {}
      /\ Heap!Accessible = Reached(refs, roots)
      /\ Heap!Accessible' = Heap!Accessible \cup {n}
  BY <1>1, HeapViews
<1>4. Heap!Allocate
  BY <1>1, <1>2, <1>3 DEF Heap!Allocate
<1>. QED
  BY <1>4 DEF Heap!Next

\* Blocks that are neither marked nor dying are out of the program's reach.
LEMMA Reclaims ==
  ASSUME Types, Sound, NEW n \in Live \ used, Reached(refs, roots) \subseteq used,
         Bcfree(n), roots' = roots
  PROVE  Heap!Next
<1>1. /\ refs \in Heaps /\ refs' \in Heaps /\ Live' = Live \ {n}
      /\ Reached(refs', roots') = Reached(refs, roots)
      /\ Reached(refs, roots) \subseteq Live'
      /\ Reached(refs, roots) \in SUBSET Node
  <2>1. Reached(refs, roots) \in SUBSET Node
    BY ReachedLeast DEF Types
  <2>. QED
    BY <2>1, BcfreeInv DEF Types, Sound
<1>2. \A a \in Node \ {n} : FieldsOf(refs', a) = FieldsOf(refs, a)
  BY <1>1 DEF Bcfree, FieldsOf, Heaps
<1>3. \A a \in Reached(refs, roots) : Heap!Fields(a)' = Heap!Fields(a)
  BY <1>1, <1>2, HeapViews
<1>4. Heap!Accessible = Reached(refs, roots) /\ Heap!Accessible' = Reached(refs, roots)
  BY <1>1, HeapViews
<1>5. Heap!Reclaim
  BY <1>1, <1>3, <1>4 DEF Heap!Reclaim
<1>. QED
  BY <1>5 DEF Heap!Next

LEMMA Moves ==
  ASSUME IInv, NEW n \in Node, NEW m \in Node, NEW s \in 1 .. MaxSize, BcreallocBlob(n, m, s)
  PROVE  Heap!Next
<1>1. /\ refs \in Heaps /\ refs' = refs /\ n \in roots /\ n \in Live
      /\ \A a \in Reached(refs, roots) : n \notin FieldsOf(refs, a)
      /\ Live' = (Live \ {n}) \cup {m} /\ m \notin Live \ {n}
      /\ Reached(refs', roots') = (Reached(refs, roots) \ {n}) \cup {m}
      /\ Reached(refs, roots) \in SUBSET Node /\ roots \subseteq Reached(refs, roots)
  <2>1. Types /\ refs' = refs /\ CanRealloc(n)
    BY DEF IInv, BcreallocBlob
  <2>2. Reached(refs, roots) \in SUBSET Node /\ roots \subseteq Reached(refs, roots)
    BY <2>1, ReachedLeast DEF Types
  <2>. QED
    BY <2>1, <2>2, BuilderFacts, BcreallocBlobInv DEF Types
<1>2. /\ Heap!Accessible = Reached(refs, roots)
      /\ Heap!Accessible' = (Heap!Accessible \ {n}) \cup {m}
      /\ \A a \in Heap!Accessible : Heap!Fields(a) = FieldsOf(refs, a)
  BY <1>1, HeapViews
<1>3. CASE m = n
  BY <1>1, <1>2, <1>3 DEF Heap!Next, Heap!Mutate
<1>4. CASE m # n
  <2>1. n \notin UNION {Heap!Fields(a) : a \in Heap!Accessible}
    BY <1>1, <1>2
  <2>. QED
    BY <1>1, <1>2, <1>4, <2>1 DEF Heap!Next, Heap!Move
<1>. QED
  BY <1>3, <1>4

LEMMA StepImplements ==
  ASSUME Restrained, IInv, Next
  PROVE  Heap!Next \/ UNCHANGED <<Live, refs, roots>>
<1>. USE BcHeapAssumption
<1>0. Types /\ Sound /\ refs \in Heaps /\ roots \in SUBSET Node
  BY DEF IInv, Types
<1>1. ASSUME NEW rest, NEW total, CallocFails(total)
      PROVE  UNCHANGED <<Live, refs, roots>>
  BY <1>1 DEF CallocFails, blockVars, Live
<1>2. CASE Code
  <2>1. ASSUME NEW k \in Kinds, NEW s \in 1 .. MaxSize, Bcalloc(k, s)
        PROVE  Heap!Next \/ UNCHANGED <<Live, refs, roots>>
    <3>1. gc = << >>
      BY <2>1 DEF Bcalloc, MayAllocate, CodeRuns, Restrained
    <3>2. CASE CallocFails(total_allocated_bytes)
      BY <3>2 DEF CallocFails, blockVars, Live
    <3>3. CASE \E n \in Node \ Live : Calloc(n, k, s, total_allocated_bytes, << >>)
      <4>1. PICK n \in Node \ Live : Calloc(n, k, s, total_allocated_bytes, << >>)
        BY <3>3
      <4>. HIDE DEF Live
      <4>. QED
        BY <1>0, <4>1, Allocates
    <3>. QED
      BY <2>1, <3>1, <3>2, <3>3 DEF Bcalloc
  <2>2. CASE \E k \in Kinds, s \in 1 .. MaxSize : BcallocCollects(k, s)
    BY <2>2 DEF BcallocCollects, StartCollection, Live
  <2>3. CASE \E n \in Node : \E m \in Node, s \in 1 .. MaxSize : BcreallocBlob(n, m, s)
    BY <2>3, Moves
  <2>4. CASE \E n \in Node : BcreallocBlobFails(n)
    BY <2>4 DEF BcreallocBlobFails, Live
  <2>5. CASE \E n \in Node, i \in 1 .. NRef : LoadField(n, i)
    <3>1. refs' = refs /\ mem' = mem /\ Reached(refs', roots') \subseteq Reached(refs, roots)
      BY <2>5, LoadFieldInv DEF LoadField, blockVars
    <3>. QED
      BY <1>0, <3>1, Mutates
  <2>6. CASE \E n \in Node, i \in 1 .. NRef, m \in Node \cup {NULL} : StoreField(n, i, m)
    <3>1. IInv' /\ mem' = mem /\ Reached(refs', roots') \subseteq Reached(refs, roots)
      BY <2>6, StoreFieldInv DEF StoreField, Ref
    <3>2. refs' \in Heaps
      BY <3>1 DEF IInv, Types
    <3>. QED
      BY <1>0, <3>1, <3>2, Mutates
  <2>7. CASE \E n \in Node : StoreGlobal(n) \/ DropReference(n)
    <3>1. refs' = refs /\ mem' = mem
      BY <2>7 DEF StoreGlobal, DropReference, blockVars
    <3>2. Reached(refs', roots') \subseteq Reached(refs, roots)
      BY <2>7, StoreGlobalInv, DropReferenceInv
    <3>. QED
      BY <1>0, <3>1, <3>2, Mutates
  <2>8. CASE (\E p \in Policies : SetPolicy(p)) \/ Gcollect \/ ExitProgram
    BY <2>8 DEF SetPolicy, Gcollect, ExitProgram, StartCollection, blockVars, Live
  <2>. QED
    BY <1>2, <2>1, <2>2, <2>3, <2>4, <2>5, <2>6, <2>7, <2>8 DEF Code
<1>3. CASE Collector
  <2>1. CASE \E n \in Node : KeepBlock(n) \/ StartDestructor(n) \/ SkipFinalised(n)
                             \/ StartFinaliser(n)
    BY <2>1 DEF KeepBlock, StartDestructor, SkipFinalised, StartFinaliser, blockVars,
       codeVars, Live
  <2>2. ASSUME NEW n \in Node, FreeBlock(n)
        PROVE  Heap!Next
    <3>1. /\ Sweeping(n) /\ n \notin used /\ Bcfree(n) /\ roots' = roots
      BY <2>2 DEF FreeBlock, codeVars
    <3>2. n \in Live /\ Reached(refs, roots) \subseteq used
      <4>1. PICK w \in Walks : SweptTo(w, n) /\ Chained(next, allocated) = Live
        BY <3>1, SweepFacts DEF Ref
      <4>. QED
        BY <4>1 DEF SweptTo
    <3>. QED
      BY <1>0, <3>1, <3>2, Reclaims
  <2>3. CASE EndBcalloc
    <3>1. CASE CallocFails(TotalAfter)
      BY <3>1 DEF CallocFails, blockVars, Live
    <3>2. CASE \E n \in Node \ Live : Calloc(n, top.job.kind, top.job.size, TotalAfter, Tail(gc))
      <4>1. PICK w \in Walks : gc = <<w>> /\ top = w /\ Tail(gc) = << >>
        BY <2>3, EndOfWalkFacts DEF EndBcalloc
      <4>2. PICK n \in Node \ Live : Calloc(n, w.job.kind, w.job.size, TotalAfter, << >>)
        BY <3>2, <4>1
      <4>. DEFINE k == w.job.kind
                  s == w.job.size
                  total == TotalAfter
      <4>3. k \in {"object", "record", "blob"} /\ Calloc(n, k, s, total, << >>)
        BY <4>1, <4>2 DEF Walks, Jobs
      <4>. HIDE DEF Live, k, s, total
      <4>. QED
        BY <1>0, <4>2, <4>3, Allocates
    <3>. QED
      BY <2>3, <3>1, <3>2 DEF EndBcalloc
  <2>4. CASE SweepAgain \/ EndGcollect \/ EndInterpret \/ Bail
    BY <2>4 DEF SweepAgain, EndGcollect, EndInterpret, Bail, blockVars, codeVars, Live
  <2>5. ~ AnotherRound
    BY NoOtherRound
  <2>6. CASE LastCollection
    <3>1. mem' = mem /\ refs' = refs /\ roots' = {}
      BY <2>6 DEF LastCollection
    <3>2. Reached(refs', roots') \subseteq Reached(refs, roots)
      BY <1>0, <3>1, ReachedOfNone
    <3>. QED
      BY <1>0, <3>1, <3>2, Mutates
  <2>. QED
    BY <1>3, <2>1, <2>2, <2>3, <2>4, <2>5, <2>6 DEF Collector
<1>4. CASE Return
  <2>1. CASE EndDestructor
    <3>1. roots' = roots
      BY <2>1 DEF EndDestructor, LeaveDestructor, Restrained
    <3>2. gc # << >>
      BY <2>1 DEF EndDestructor, At
    <3>3. PICK w \in Walks : gc = <<w>> /\ UnderWay(w)
      BY <3>2, Walking
    <3>4. top = w /\ InSweepDestructor(w)
      BY <2>1, <3>3, OneWalk DEF EndDestructor, UnderWay, InSweep, InFinalisation
    <3>5. w.curr \in Live \ used /\ Reached(refs, roots) \subseteq used /\ Bcfree(w.curr)
      BY <2>1, <3>4 DEF EndDestructor, InSweepDestructor, SweptTo
    <3>. QED
      BY <1>0, <3>1, <3>5, Reclaims
  <2>2. CASE EndFinaliser
    BY <2>2 DEF EndFinaliser, LeaveDestructor, Restrained, Live
  <2>. QED
    BY <1>4, <2>1, <2>2 DEF Return
<1>5. CASE Stopped
  BY <1>5 DEF Stopped, vars, blockVars, codeVars, Live
<1>. QED
  BY <1>2, <1>3, <1>4, <1>5 DEF Next

\* Allocation, marking, sweeping and destructors together implement what a
\* program may assume about its memory: a block goes away only when nothing the
\* program has leads to it.
THEOREM Implementation ==
  ASSUME Restrained
  PROVE  Spec => IsAManagedHeap
<1>1. Init => Heap!Init
  <2>. SUFFICES ASSUME Init PROVE Heap!Init
    OBVIOUS
  <2>1. Live = {} /\ roots = {}
    BY DEF Init, Live
  <2>2. refs \in Heaps
    BY InitInv DEF IInv, Types
  <2>3. Heap!Accessible = {}
    BY <2>1, <2>2, ReachIsReached, ReachedOfNone DEF Heap!Accessible
  <2>. QED
    BY <2>1, <2>3 DEF Heap!Init
<1>2. IInv /\ [Next]_vars => [Heap!Next]_<<Live, refs, roots>>
  <2>. SUFFICES ASSUME IInv, [Next]_vars
                PROVE  Heap!Next \/ UNCHANGED <<Live, refs, roots>>
    OBVIOUS
  <2>1. CASE UNCHANGED vars
    BY <2>1 DEF vars, blockVars, codeVars, Live
  <2>. QED
    BY <2>1, StepImplements
<1>. QED
  BY <1>1, <1>2, Invariance, PTL DEF Spec, IsAManagedHeap, Heap!Spec

=============================================================================
