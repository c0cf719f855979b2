---------------------------- MODULE StrPoolProof ----------------------------
(***************************************************************************)
(* Theorems about StrPool.  The inductive invariant is the typing of the   *)
(* variables, the shape of the free list, and the fact that the cells      *)
(* whose index is held hold strings - which is what tells a string from a  *)
(* link in a cell, since the cell itself does not.                         *)
(***************************************************************************)
EXTENDS StrPool, LeastNumber, FiniteSetTheorems, TLAPS

USE DEF Cells

HeldAreStrings == \A i \in held : pool[i] \in Strings

IInv == TypeOK /\ FreeListExact /\ HeldAreStrings

-----------------------------------------------------------------------------
(* Lists.                                                                  *)

\* A subset of the cells is finite, and the empty one has no elements.
LEMMA CellsFinite ==
    ASSUME NEW n \in Nat, NEW U \in SUBSET (0 .. n - 1)
    PROVE  IsFiniteSet(U) /\ Cardinality(U) \in Nat
<1>1. IsFiniteSet(0 .. n - 1)
    BY FS_Interval
<1>2. IsFiniteSet(U)
    BY <1>1, FS_Subset
<1>. QED
    BY <1>2, FS_CardinalityType

\* Taking the head off a list leaves a list that starts with its successor,
\* whatever is put into its cell (strpool.c:104-107).
LEMMA PopHead ==
    ASSUME NEW U, IsFiniteSet(U), NEW cells, NEW head \in U, NEW rank, NEW s,
           U \subseteq DOMAIN cells, IsRanking(rank, U, head, cells)
    PROVE  IsRanking([i \in U \ {head} |-> rank[i]], U \ {head}, cells[head],
                     [cells EXCEPT ![head] = s])
<1>. DEFINE V == U \ {head}
            new == [i \in V |-> rank[i]]
            after == [cells EXCEPT ![head] = s]
            c == Cardinality(U)
<1>1. c \in Nat /\ Cardinality(V) = c - 1 /\ IsFiniteSet(V) /\ Cardinality(V) \in Nat
    BY FS_RemoveElement, FS_CardinalityType
<1>2. rank \in [U -> 1 .. c] /\ rank[head] = c
    BY DEF IsRanking
<1>3. \A i \in V : rank[i] \in 1 .. c - 1
    BY <1>1, <1>2 DEF IsRanking
<1>4. new \in [V -> 1 .. Cardinality(V)]
    BY <1>1, <1>3
<1>5. \A i, j \in V : new[i] = new[j] => i = j
    BY DEF IsRanking
<1>6. \A i \in V : after[i] = cells[i]
    OBVIOUS
<1>7. IF V = {} THEN cells[head] = -1
      ELSE cells[head] \in V /\ new[cells[head]] = Cardinality(V)
  <2>1. CASE c = 1
    <3>1. V = {}
        BY <1>3, <2>1
    <3>. QED
        BY <3>1, <1>2, <2>1 DEF IsRanking
  <2>2. CASE c # 1
    <3>1. cells[head] \in U /\ rank[cells[head]] = c - 1
        BY <1>2, <2>2 DEF IsRanking
    <3>2. cells[head] \in V
        BY <1>1, <1>2, <3>1
    <3>. QED
        BY <1>1, <3>1, <3>2
  <2>. QED
    BY <2>1, <2>2
<1>8. ASSUME NEW i \in V
      PROVE  IF new[i] = 1 THEN after[i] = -1
             ELSE after[i] \in V /\ new[after[i]] = new[i] - 1
  <2>1. CASE rank[i] = 1
    BY <1>6, <2>1 DEF IsRanking
  <2>2. CASE rank[i] # 1
    <3>1. cells[i] \in U /\ rank[cells[i]] = rank[i] - 1
        BY <2>2 DEF IsRanking
    <3>2. cells[i] # head
        BY <1>1, <1>2, <1>3, <3>1
    <3>. QED
        BY <1>6, <2>2, <3>1, <3>2
  <2>. QED
    BY <2>1, <2>2
<1>. QED
    BY <1>4, <1>5, <1>7, <1>8 DEF IsRanking

\* A cell that is linked to the head of a list becomes its head
\* (strpool.c:155-156).
LEMMA PushHead ==
    ASSUME NEW U, IsFiniteSet(U), NEW cells, NEW head, NEW rank, NEW k,
           k \in DOMAIN cells, k \notin U, IsRanking(rank, U, head, cells)
    PROVE  IsRanking([i \in U \cup {k} |-> IF i = k THEN Cardinality(U) + 1 ELSE rank[i]],
                     U \cup {k}, k, [cells EXCEPT ![k] = head])
<1>. DEFINE V == U \cup {k}
            c == Cardinality(U)
            new == [i \in V |-> IF i = k THEN c + 1 ELSE rank[i]]
            after == [cells EXCEPT ![k] = head]
<1>1. c \in Nat /\ Cardinality(V) = c + 1
    BY FS_AddElement, FS_CardinalityType
<1>2. rank \in [U -> 1 .. c]
    BY DEF IsRanking
<1>3. new \in [V -> 1 .. Cardinality(V)]
    BY <1>1, <1>2
<1>4. \A i, j \in V : new[i] = new[j] => i = j
    BY <1>1, <1>2 DEF IsRanking
<1>5. V # {} /\ k \in V /\ new[k] = Cardinality(V)
    BY <1>1
<1>6. ASSUME NEW i \in V
      PROVE  IF new[i] = 1 THEN after[i] = -1
             ELSE after[i] \in V /\ new[after[i]] = new[i] - 1
  <2>1. CASE i = k
    <3>1. after[i] = head /\ new[i] = c + 1
        BY <2>1
    <3>2. CASE U = {}
        BY <1>1, <3>1, <3>2, FS_EmptySet DEF IsRanking
    <3>3. CASE U # {}
      <4>1. head \in U /\ rank[head] = c
        BY <3>3 DEF IsRanking
      <4>2. c # 0
        BY <1>2, <4>1
      <4>. QED
        BY <1>1, <3>1, <4>1, <4>2
    <3>. QED
        BY <3>2, <3>3
  <2>2. CASE i # k
    <3>1. i \in U /\ after[i] = cells[i] /\ new[i] = rank[i]
        BY <2>2
    <3>. QED
        BY <3>1 DEF IsRanking
  <2>. QED
    BY <2>1, <2>2
<1>. QED
    BY <1>3, <1>4, <1>5, <1>6 DEF IsRanking

\* The cells realloc_strpool() has appended form a list (strpool.c:83-89).
LEMMA ChainRanking ==
    ASSUME NEW m \in Nat, NEW n \in Nat, m <= n, NEW cells,
           \A i \in m .. n - 1 : cells[i] = IF i = n - 1 THEN -1 ELSE i + 1
    PROVE  IsRanking([i \in m .. n - 1 |-> n - i], m .. n - 1,
                     IF m = n THEN -1 ELSE m, cells)
<1>. DEFINE U == m .. n - 1
            rank == [i \in U |-> n - i]
<1>1. Cardinality(U) = n - m
    BY FS_Interval
<1>2. rank \in [U -> 1 .. Cardinality(U)]
    BY <1>1
<1>3. \A i, j \in U : rank[i] = rank[j] => i = j
    OBVIOUS
<1>4. IF U = {} THEN m = n ELSE m # n /\ m \in U /\ rank[m] = Cardinality(U)
    BY <1>1
<1>5. \A i \in U : IF rank[i] = 1 THEN cells[i] = -1
                   ELSE cells[i] \in U /\ rank[cells[i]] = rank[i] - 1
    OBVIOUS
<1>. QED
    BY <1>2, <1>3, <1>4, <1>5 DEF IsRanking

-----------------------------------------------------------------------------
(* The operations.                                                         *)

\* A ranking of the right cells is all FreeListExact asks for.
LEMMA Listed ==
    ASSUME NEW U, NEW rank, NEW head, NEW cells, IsRanking(rank, U, head, cells),
           Unheld' = U, next_free' = head, pool' = cells
    PROVE  FreeListExact'
<1>1. rank \in [U -> 1 .. Cardinality(U)]
    BY DEF IsRanking
<1>. QED
    BY <1>1 DEF FreeListExact

\* A pool without cells has an empty free list.
LEMMA EmptyList ==
    ASSUME NEW cells
    PROVE  \E rank \in [{} -> 1 .. Cardinality({})] : IsRanking(rank, {}, -1, cells)
<1>1. Cardinality({}) = 0
    BY FS_EmptySet
<1>. DEFINE none == [i \in {} |-> 0]
<1>2. IsRanking(none, {}, -1, cells)
    BY <1>1 DEF IsRanking
<1>3. none \in [{} -> 1 .. Cardinality({})]
    OBVIOUS
<1>. QED
    BY <1>2, <1>3

LEMMA UnheldFinite ==
    ASSUME TypeOK
    PROVE  IsFiniteSet(Unheld) /\ Cardinality(Unheld) \in Nat
BY CellsFinite DEF TypeOK, Unheld

\* The pool grows by at least one cell.
LEMMA Grows ==
    ASSUME TypeOK
    PROVE  GrownLength \in Nat /\ GrownLength > pool_length
BY StrPoolAssumption DEF TypeOK, GrownLength

\* What every action but Insert, ObtainString and FreeStrpool leaves alone.
LEMMA SamePool ==
    ASSUME IInv, UNCHANGED <<pool, pool_length, next_free, held>>
    PROVE  FreeListExact' /\ HeldAreStrings'
BY DEF IInv, FreeListExact, HeldAreStrings, Unheld

\* Adding a string to the pool.
LEMMA InsertInv ==
    ASSUME IInv, NEW s \in Strings, Insert(s)
    PROVE  /\ pool_length' \in Nat /\ next_free' \in Int
           /\ pool' \in [Cells' -> Strings \cup Int] /\ held' \subseteq Cells'
           /\ FreeListExact' /\ HeldAreStrings'
<1>. USE DEF IInv, TypeOK
<1>1. PICK rank : IsRanking(rank, Unheld, next_free, pool)
    BY DEF FreeListExact
<1>2. CASE next_free < 0
  <2>. DEFINE n == GrownLength
              new == pool_length + 1 .. n - 1
  <2>1. Unheld = {}
      BY <1>1, <1>2 DEF IsRanking, Unheld
  <2>2. n \in Nat /\ n > pool_length
      BY Grows
  <2>. HIDE DEF n
  <2>3. /\ pool_length' = n /\ next_free' = GrownPool[pool_length]
        /\ pool' = [GrownPool EXCEPT ![pool_length] = s]
        /\ held' = held \cup {pool_length}
      BY <1>2 DEF Insert, n
  <2>4. /\ GrownPool \in [0 .. n - 1 -> Strings \cup Int]
        /\ \A i \in 0 .. pool_length - 1 : GrownPool[i] = pool[i]
        /\ \A i \in pool_length .. n - 1 : GrownPool[i] = IF i = n - 1 THEN -1 ELSE i + 1
      BY <2>2 DEF GrownPool, n
  <2>5. Unheld' = new
      BY <2>1, <2>2, <2>3 DEF Unheld
  <2>6. IsRanking([i \in new |-> n - i], new, IF pool_length + 1 = n THEN -1 ELSE pool_length + 1,
                  pool')
    <3>1. \A i \in new : pool'[i] = IF i = n - 1 THEN -1 ELSE i + 1
        BY <2>2, <2>3, <2>4
    <3>2. pool_length + 1 \in Nat /\ pool_length + 1 <= n
        BY <2>2
    <3>. HIDE DEF IInv, TypeOK
    <3>. QED
        BY <2>2, <3>1, <3>2, ChainRanking
  <2>7. next_free' = IF pool_length + 1 = n THEN -1 ELSE pool_length + 1
      BY <2>2, <2>3, <2>4
  <2>8. FreeListExact'
      BY <2>5, <2>6, <2>7, Listed
  <2>9. HeldAreStrings'
    <3>1. \A i \in held : i \in 0 .. pool_length - 1 /\ pool'[i] = pool[i]
        BY <2>2, <2>3, <2>4
    <3>2. pool'[pool_length] = s
        BY <2>2, <2>3, <2>4
    <3>. QED
        BY <2>3, <3>1, <3>2 DEF HeldAreStrings
  <2>. QED
      BY <2>2, <2>3, <2>4, <2>7, <2>8, <2>9
<1>3. CASE ~ next_free < 0
  <2>1. /\ pool_length' = pool_length /\ next_free' = pool[next_free]
        /\ pool' = [pool EXCEPT ![next_free] = s]
        /\ held' = held \cup {next_free}
      BY <1>3 DEF Insert
  <2>2. next_free \in Unheld
      BY <1>1, <1>3 DEF IsRanking
  <2>3. Unheld' = Unheld \ {next_free}
      BY <2>1 DEF Unheld
  <2>4. Unheld \subseteq DOMAIN pool
      BY DEF Unheld
  <2>5. IsRanking([i \in Unheld \ {next_free} |-> rank[i]], Unheld \ {next_free},
                  pool[next_free], pool')
      BY <1>1, <2>1, <2>2, <2>4, UnheldFinite, PopHead
  <2>6. FreeListExact'
      BY <2>1, <2>3, <2>5, Listed
  <2>7. HeldAreStrings'
      BY <2>1, <2>2 DEF HeldAreStrings, Unheld
  <2>8. next_free' \in Int
    <3>1. pool[next_free] = -1 \/ pool[next_free] \in Unheld
        BY <1>1, <2>2 DEF IsRanking
    <3>. QED
        BY <2>1, <3>1 DEF Unheld
  <2>. QED
      BY <2>1, <2>2, <2>6, <2>7, <2>8 DEF Unheld
<1>. QED
    BY <1>2, <1>3

\* Taking a string out again.
LEMMA ObtainInv ==
    ASSUME IInv, NEW i \in held, ObtainString(i)
    PROVE  IInv'
<1>. USE DEF IInv, TypeOK
<1>1. PICK rank : IsRanking(rank, Unheld, next_free, pool)
    BY DEF FreeListExact
<1>2. /\ pool_length' = pool_length /\ next_free' = i
      /\ pool' = [pool EXCEPT ![i] = next_free]
      /\ held' = held \ {i} /\ i \in Cells
      /\ mine' = mine \cup {pool[i]} /\ heap' = heap /\ lost' = lost /\ wild' = wild
    BY DEF ObtainString
<1>3. Unheld' = Unheld \cup {i} /\ i \notin Unheld
    BY <1>2 DEF Unheld
<1>4. IsRanking([j \in Unheld \cup {i} |-> IF j = i THEN Cardinality(Unheld) + 1 ELSE rank[j]],
                Unheld \cup {i}, i, pool')
    BY <1>1, <1>2, <1>3, UnheldFinite, PushHead
<1>5. FreeListExact'
    BY <1>2, <1>3, <1>4, Listed
<1>6. HeldAreStrings'
    BY <1>2 DEF HeldAreStrings
<1>7. TypeOK'
    BY <1>2 DEF HeldAreStrings
<1>. QED
    BY <1>5, <1>6, <1>7

\* Every step preserves the invariant.
LEMMA StepInv ==
    ASSUME IInv, [Next]_vars
    PROVE  IInv'
<1>1. ASSUME NEW s \in Strings, MallocString(s)  PROVE IInv'
    BY <1>1, SamePool DEF MallocString, IInv, TypeOK
<1>2. ASSUME NEW s \in Strings, InsertString(s)  PROVE IInv'
    BY <1>2, InsertInv DEF InsertString, IInv, TypeOK
<1>3. ASSUME NEW s \in Strings, FreeMine(s)  PROVE IInv'
    BY <1>3, SamePool DEF FreeMine, Free, IInv, TypeOK
<1>4. ASSUME NEW s \in Strings, Strclone(s)  PROVE IInv'
    BY <1>4, InsertInv DEF Strclone, IInv, TypeOK
<1>5. ASSUME NEW s \in Strings, StrcloneFails(s)  PROVE IInv'
    BY <1>5, SamePool DEF StrcloneFails, InsertFails, IInv, TypeOK
<1>6. ASSUME NEW s \in Strings, StrncloneFails(s)  PROVE IInv'
    BY <1>6, SamePool DEF StrncloneFails, InsertFails, IInv, TypeOK
<1>7. ASSUME NEW p \in Junk, StrncloneMallocFails(p)  PROVE IInv'
    BY <1>7, SamePool DEF StrncloneMallocFails, Free, IInv, TypeOK
<1>8. ASSUME NEW i \in held, ObtainString(i)  PROVE IInv'
    BY <1>8, ObtainInv
<1>9. ASSUME FreeStrpool  PROVE IInv'
  <2>1. pool' = [i \in {} |-> NULL] /\ pool_length' = 0 /\ next_free' = -1 /\ held' = {}
      BY <1>9 DEF FreeStrpool
  <2>2. TypeOK'
      BY <1>9, <2>1 DEF FreeStrpool, IInv, TypeOK
  <2>3. HeldAreStrings'
      BY <2>1 DEF HeldAreStrings
  <2>4. Unheld' = {}
      BY <2>1 DEF Unheld
  <2>5. FreeListExact'
      BY <2>1, <2>4, EmptyList DEF FreeListExact
  <2>. QED
      BY <2>2, <2>3, <2>5 DEF IInv
<1>10. ASSUME UNCHANGED vars  PROVE IInv'
    BY <1>10, SamePool DEF vars, IInv, TypeOK
<1>. QED
    BY <1>1, <1>2, <1>3, <1>4, <1>5, <1>6, <1>7, <1>8, <1>9, <1>10 DEF Next, Strnclone

-----------------------------------------------------------------------------
(* The theorems.                                                           *)

LEMMA InitInv == Init => IInv
<1>. SUFFICES ASSUME Init  PROVE IInv
    OBVIOUS
<1>1. Cells = {} /\ pool = [i \in {} |-> NULL] /\ held = {}
    BY DEF Init
<1>2. TypeOK /\ HeldAreStrings
  <2>1. pool \in [Cells -> Strings \cup Int]
      BY <1>1, Zenon
  <2>2. pool_length \in Nat /\ next_free \in Int
      BY DEF Init
  <2>3. /\ held \subseteq Cells /\ wild \in BOOLEAN
        /\ heap \subseteq Strings /\ mine \subseteq Strings /\ lost \subseteq Strings
      BY DEF Init
  <2>. HIDE DEF Cells
  <2>. QED
      BY <1>1, <2>1, <2>2, <2>3 DEF TypeOK, HeldAreStrings
<1>3. FreeListExact
  <2>1. Unheld = {} /\ next_free = -1
      BY <1>1 DEF Init, Unheld
  <2>. QED
      BY <2>1, EmptyList DEF FreeListExact
<1>. QED
    BY <1>2, <1>3 DEF IInv

\* The inductive invariant holds in every reachable state.
THEOREM Invariance == Spec => []IInv
<1>1. IInv /\ [Next]_vars => IInv'
    BY StepInv
<1>. QED
    BY InitInv, <1>1, PTL DEF Spec

\* The variables keep their types; in particular next_free is a number even
\* though it is read from a cell that may just as well hold a string.
THEOREM Typing == Spec => []TypeOK
<1>1. IInv => TypeOK
    BY DEF IInv
<1>. QED
    BY Invariance, <1>1, PTL

\* However the pool is used, and however often it grows, the free list runs
\* exactly once through the cells whose index nobody holds.
THEOREM FreeList == Spec => []FreeListExact
<1>1. IInv => FreeListExact
    BY DEF IInv
<1>. QED
    BY Invariance, <1>1, PTL

-----------------------------------------------------------------------------
(* The pool is a StringStore.  For this the strings in the cells have to   *)
(* be known apart from those the program owns.                             *)

OwnedOnce ==
    /\ pool_length <= MaxPoolLength
    /\ \A i, j \in held : pool[i] = pool[j] => i = j
    /\ \A i \in held : pool[i] \in heap /\ pool[i] \notin mine
    /\ mine \subseteq heap

\* An uninitialised pointer does not happen to be that of a string.
JunkIsNoString == Junk \cap Strings = {}

Inv == IInv /\ OwnedOnce

\* Adding a string puts it under an index nobody holds, below the bound.
LEMMA InsertPuts ==
    ASSUME Inv, NEW s, Insert(s)
    PROVE  /\ pool_length' <= MaxPoolLength
           /\ \E k \in (0 .. MaxPoolLength - 1) \ held :
                /\ held' = held \cup {k}
                /\ pool'[k] = s
                /\ \A i \in held : pool'[i] = pool[i]
<1>. USE DEF Inv, IInv, TypeOK, OwnedOnce
<1>1. CASE next_free < 0
  <2>1. GrownLength \in Nat /\ GrownLength > pool_length /\ GrownLength <= MaxPoolLength
      BY <1>1, Grows DEF Insert, CanGrow
  <2>2. /\ pool' = [GrownPool EXCEPT ![pool_length] = s] /\ pool_length' = GrownLength
        /\ held' = held \cup {pool_length}
      BY <1>1 DEF Insert
  <2>3. /\ DOMAIN GrownPool = 0 .. GrownLength - 1
        /\ \A i \in 0 .. pool_length - 1 : GrownPool[i] = pool[i]
      BY <2>1 DEF GrownPool
  <2>4. pool_length \in 0 .. GrownLength - 1 /\ pool'[pool_length] = s
      BY <2>1, <2>2, <2>3
  <2>5. pool_length \in (0 .. MaxPoolLength - 1) \ held
      BY <2>1, StrPoolAssumption
  <2>6. \A i \in held : pool'[i] = pool[i]
      BY <2>1, <2>2, <2>3
  <2>. QED
      BY <2>1, <2>2, <2>4, <2>5, <2>6
<1>2. CASE ~ next_free < 0
  <2>1. PICK rank : IsRanking(rank, Unheld, next_free, pool)
      BY DEF FreeListExact
  <2>2. next_free \in Unheld
      BY <1>2, <2>1 DEF IsRanking
  <2>3. /\ pool' = [pool EXCEPT ![next_free] = s] /\ pool_length' = pool_length
        /\ held' = held \cup {next_free}
      BY <1>2 DEF Insert
  <2>4. MaxPoolLength \in Nat
      BY StrPoolAssumption
  <2>5. next_free \in (0 .. MaxPoolLength - 1) \ held /\ pool'[next_free] = s
      BY <2>2, <2>3, <2>4 DEF Unheld
  <2>6. \A i \in held : pool'[i] = pool[i]
      BY <2>2, <2>3 DEF Unheld
  <2>. QED
      BY <2>3, <2>5, <2>6
<1>. QED
    BY <1>1, <1>2

\* What free_strpool frees, besides the links of free cells it may have
\* missed, are strings of held cells, and so none of the program's own.
LEMMA FreedNotMine ==
    ASSUME Inv
    PROVE  Freed \cap mine = {}
<1>1. PICK rank : IsRanking(rank, Unheld, next_free, pool)
    BY DEF Inv, IInv, FreeListExact
<1>2. ASSUME NEW i \in Cells, pool[i] \in mine  PROVE FALSE
  <2>1. i \in Unheld
      BY <1>2 DEF Inv, OwnedOnce, Unheld
  <2>2. pool[i] = -1 \/ pool[i] \in Unheld
      BY <1>1, <2>1 DEF IsRanking
  <2>3. pool[i] \in Int
      BY <2>2 DEF Unheld
  <2>4. pool[i] \in Strings
      BY <1>2 DEF Inv, IInv, TypeOK
  <2>. QED
      BY <2>3, <2>4, StrPoolAssumption
<1>. QED
    BY <1>2 DEF Freed

\* Every step leaves the strings with one owner, and is a step of the store
\* or none at all.
LEMMA StepImplements ==
    ASSUME Inv, [Next]_vars, JunkIsNoString
    PROVE  OwnedOnce' /\ [Store!Next]_<<[i \in held |-> pool[i]], mine>>
<1>. DEFINE store == [i \in held |-> pool[i]]
            Goal == OwnedOnce' /\ [Store!Next]_<<store, mine>>
<1>. USE DEF Inv
<1>1. ASSUME NEW s \in Strings, MallocString(s)  PROVE Goal
  <2>1. /\ UNCHANGED <<pool, pool_length, held>> /\ s \notin heap
        /\ heap' = heap \cup {s} /\ mine' = mine \cup {s}
      BY <1>1 DEF MallocString, Fresh
  <2>2. OwnedOnce'
      BY <2>1 DEF OwnedOnce
  <2>3. Store!Obtain(s)
      BY <2>1 DEF Store!Obtain, OwnedOnce
  <2>. QED
      BY <2>2, <2>3 DEF Store!Next
<1>2. ASSUME NEW s \in Strings, Insert(s), s \in mine, mine' = mine \ {s}, heap' = heap
      PROVE  Goal
  <2>1. PICK k \in (0 .. MaxPoolLength - 1) \ held :
            /\ held' = held \cup {k}
            /\ pool'[k] = s
            /\ \A i \in held : pool'[i] = pool[i]
      BY <1>2, InsertPuts
  <2>2. OwnedOnce'
      BY <1>2, <2>1, InsertPuts DEF OwnedOnce
  <2>3. Store!Put(k, s)
      BY <1>2, <2>1 DEF Store!Put, OwnedOnce
  <2>. QED
      BY <2>1, <2>2, <2>3 DEF Store!Next
<1>3. ASSUME NEW s \in Strings, Strclone(s)  PROVE Goal
  <2>1. PICK k \in (0 .. MaxPoolLength - 1) \ held :
            /\ held' = held \cup {k}
            /\ pool'[k] = s
            /\ \A i \in held : pool'[i] = pool[i]
      BY <1>3, InsertPuts DEF Strclone
  <2>2. s \notin heap /\ heap' = heap \cup {s} /\ mine' = mine
      BY <1>3 DEF Strclone, Fresh
  <2>3. OwnedOnce'
      BY <1>3, <2>1, <2>2, InsertPuts DEF OwnedOnce, Strclone
  <2>4. Store!Put(k, s)
      BY <2>1, <2>2 DEF Store!Put, OwnedOnce
  <2>. QED
      BY <2>1, <2>3, <2>4 DEF Store!Next
<1>4. ASSUME NEW s \in Strings, StrcloneFails(s)  PROVE Goal
    BY <1>4 DEF StrcloneFails, InsertFails, OwnedOnce
<1>5. ASSUME NEW s \in Strings, StrncloneFails(s)  PROVE Goal
    BY <1>5 DEF StrncloneFails, InsertFails, OwnedOnce
<1>6. ASSUME NEW p \in Junk, StrncloneMallocFails(p)  PROVE Goal
  <2>1. heap' = heap
      BY <1>6 DEF StrncloneMallocFails, Free, JunkIsNoString, IInv, TypeOK
  <2>. QED
      BY <1>6, <2>1 DEF StrncloneMallocFails, OwnedOnce
<1>7. ASSUME NEW i \in held, ObtainString(i)  PROVE Goal
  <2>1. /\ held' = held \ {i} /\ mine' = mine \cup {pool[i]}
        /\ UNCHANGED <<heap, pool_length>>
        /\ \A j \in held \ {i} : pool'[j] = pool[j]
      BY <1>7 DEF ObtainString
  <2>2. OwnedOnce'
      BY <2>1 DEF OwnedOnce
  <2>3. Store!Take(i)
      BY <2>1 DEF Store!Take
  <2>. QED
      BY <2>2, <2>3 DEF Store!Next
<1>8. ASSUME NEW s \in Strings, FreeMine(s)  PROVE Goal
  <2>1. /\ s \in mine /\ mine' = mine \ {s} /\ heap' = heap \ {s}
        /\ UNCHANGED <<pool, pool_length, held>>
      BY <1>8 DEF FreeMine, Free
  <2>2. OwnedOnce'
      BY <2>1 DEF OwnedOnce
  <2>3. Store!Drop(s)
      BY <2>1 DEF Store!Drop
  <2>. QED
      BY <2>2, <2>3 DEF Store!Next
<1>9. ASSUME FreeStrpool  PROVE Goal
  <2>1. /\ held' = {} /\ pool_length' = 0 /\ mine' = mine /\ heap' = heap \ Freed
      BY <1>9 DEF FreeStrpool
  <2>2. OwnedOnce'
      BY <2>1, FreedNotMine, StrPoolAssumption DEF OwnedOnce
  <2>3. Store!Clear
      BY <2>1 DEF Store!Clear
  <2>. QED
      BY <2>2, <2>3 DEF Store!Next
<1>10. ASSUME UNCHANGED vars  PROVE Goal
    BY <1>10 DEF vars, OwnedOnce
<1>. QED
    BY <1>1, <1>2, <1>3, <1>4, <1>5, <1>6, <1>7, <1>8, <1>9, <1>10
    DEF Next, Strnclone, InsertString

\* The pool implements the string store: whatever is added, taken out or
\* freed, the string behind an index somebody holds is never another one.
THEOREM Implementation ==
    ASSUME JunkIsNoString
    PROVE  Spec => IsAStringStore
<1>1. Init => OwnedOnce /\ Store!Init
    BY StrPoolAssumption DEF Init, OwnedOnce, Store!Init
<1>2. Inv /\ [Next]_vars => Inv' /\ [Store!Next]_<<[i \in held |-> pool[i]], mine>>
    BY StepInv, StepImplements DEF Inv
<1>. QED
    BY <1>1, <1>2, InitInv, PTL DEF Spec, Inv, IsAStringStore, Store!Spec

-----------------------------------------------------------------------------
(* Every string has one owner.  The hard step is free_strpool(): it finds  *)
(* the cells it must not free by walking the free list, and the walk is a  *)
(* recursive function.  Facts about it are proved with the least number    *)
(* for which they fail.                                                    *)

(* The walk along the free list.                                           *)

\* Every rank is that of a cell.
LEMMA EveryRank ==
    ASSUME NEW U, Cardinality(U) \in Nat, NEW rank, NEW head, NEW cells,
           IsRanking(rank, U, head, cells)
    PROVE  \A r \in 1 .. Cardinality(U) : \E i \in U : rank[i] = r
<1>. TAKE r \in 1 .. Cardinality(U)
<1>0. PICK c \in Nat : c = Cardinality(U) /\ r \in 1 .. c
    OBVIOUS
<1>. DEFINE Missing == {k \in 0 .. c - 1 : \A i \in U : rank[i] # c - k}
<1>1. SUFFICES ASSUME c - r \in Missing
      PROVE  FALSE
    BY <1>0
<1>2. PICK k \in Missing : \A m \in Missing : k <= m
  <2>1. Missing \subseteq 0 .. c - 1 /\ Missing # {}
      BY <1>1
  <2>2. Missing \in SUBSET Nat
      BY <2>1
  <2>. HIDE DEF Missing
  <2>. QED
      BY <2>1, <2>2, LeastNatural
<1>3. U # {}
    BY <1>0, FS_EmptySet
<1>4. head \in U /\ rank[head] = c
    BY <1>0, <1>3 DEF IsRanking
<1>5. k # 0
    BY <1>4
<1>6. PICK i \in U : rank[i] = c - (k - 1)
    BY <1>2, <1>5
<1>7. rank[i] # 1
    BY <1>5, <1>6
<1>8. cells[i] \in U /\ rank[cells[i]] = rank[i] - 1
    BY <1>7 DEF IsRanking
<1>. QED
    BY <1>5, <1>6, <1>8

\* walk is what free_strpool() computes.
IsWalk(walk, n, head, cells) ==
    walk = [k \in Nat |->
              IF k = 0 THEN head
              ELSE IF walk[k - 1] \in 0 .. n - 1 THEN cells[walk[k - 1]] ELSE -1]

\* It goes from the cell of the highest rank to that of the lowest, and stays
\* at -1.
LEMMA WalkOnTheList ==
    ASSUME NEW n \in Nat, NEW U, \A i \in U : i \in 0 .. n - 1, NEW rank,
           NEW head, NEW cells, IsRanking(rank, U, head, cells)
    PROVE  \E f \in [Nat -> U \cup {-1}] :
             /\ IsWalk(f, n, head, cells)
             /\ {f[k] : k \in 0 .. n} \cap (0 .. n - 1) = U
<1>0. Cardinality(U) \in Nat /\ Cardinality(U) <= n
  <2>1. IsFiniteSet(0 .. n - 1) /\ Cardinality(0 .. n - 1) = n
      BY FS_Interval
  <2>. QED
      BY <2>1, CellsFinite, FS_Subset
<1>1. PICK c \in Nat : c = Cardinality(U) /\ c <= n
    BY <1>0
<1>2. \A r \in 1 .. c : \E i \in U : rank[i] = r
  <2>1. Cardinality(U) \in Nat
      BY <1>0
  <2>2. \A r \in 1 .. Cardinality(U) : \E i \in U : rank[i] = r
      BY <2>1, EveryRank
  <2>. QED
      BY <1>1, <2>2
<1>3. /\ rank \in [U -> 1 .. c]
      /\ \A i, j \in U : rank[i] = rank[j] => i = j
      /\ IF U = {} THEN head = -1 ELSE head \in U /\ rank[head] = c
      /\ \A i \in U : IF rank[i] = 1 THEN cells[i] = -1
                      ELSE cells[i] \in U /\ rank[cells[i]] = rank[i] - 1
    BY <1>1 DEF IsRanking
<1>4. PICK at \in [1 .. c -> U] : \A r \in 1 .. c : rank[at[r]] = r
  <2>. DEFINE a == [r \in 1 .. c |-> CHOOSE i \in U : rank[i] = r]
  <2>1. a \in [1 .. c -> U] /\ \A r \in 1 .. c : rank[a[r]] = r
      BY <1>2
  <2>. HIDE DEF a
  <2>. QED
      BY <2>1
<1>5. ASSUME NEW i \in U
      PROVE  i = at[rank[i]]
  <2>1. rank[i] \in 1 .. c
      BY <1>3
  <2>2. at[rank[i]] \in U /\ rank[at[rank[i]]] = rank[i]
      BY <1>4, <2>1
  <2>. QED
      BY <1>3, <2>2
<1>. DEFINE f == [k \in Nat |-> IF k < c THEN at[c - k] ELSE -1]
<1>6. f \in [Nat -> U \cup {-1}]
    BY <1>1, <1>4
<1>7. f[0] = head
  <2>1. U = {} => c = 0
      BY <1>1, FS_EmptySet
  <2>2. U # {} => c \in 1 .. c /\ at[c] = head
    <3>1. U # {} => head \in U /\ rank[head] = c
        BY <1>3
    <3>2. U # {} => c \in 1 .. c
        BY <1>1, <1>3, <3>1
    <3>. QED
        BY <1>5, <3>1, <3>2
  <2>. QED
      BY <1>1, <1>3, <2>1, <2>2
<1>8. ASSUME NEW k \in Nat \ {0}
      PROVE  f[k] = IF f[k - 1] \in 0 .. n - 1 THEN cells[f[k - 1]] ELSE -1
  <2>1. CASE k - 1 < c
    <3>1. /\ c - k + 1 \in 1 .. c /\ f[k - 1] = at[c - k + 1]
          /\ at[c - k + 1] \in U /\ rank[at[c - k + 1]] = c - k + 1
        BY <1>1, <1>4, <2>1
    <3>2. CASE k = c
      <4>1. PICK i \in U : i = f[k - 1] /\ rank[i] = 1
        <5>1. c - k + 1 = 1
            BY <3>2
        <5>. HIDE DEF f
        <5>. QED
            BY <3>1, <5>1
      <4>2. cells[i] = -1 /\ i \in 0 .. n - 1
          BY <1>3, <4>1
      <4>3. f[k] = -1
          BY <1>1, <3>2
      <4>. HIDE DEF f
      <4>. QED
          BY <4>1, <4>2, <4>3
    <3>3. CASE k # c
      <4>1. c - k \in 1 .. c /\ f[k] = at[c - k] /\ at[c - k] \in U
            /\ rank[at[c - k]] = c - k
          BY <1>1, <1>4, <2>1, <3>3
      <4>2. cells[at[c - k + 1]] \in U /\ rank[cells[at[c - k + 1]]] = c - k
        <5>1. PICK i \in U : i = at[c - k + 1] /\ rank[i] = c - k + 1
            BY <3>1
        <5>2. rank[i] # 1 /\ rank[i] - 1 = c - k
            BY <1>1, <3>3, <5>1
        <5>. QED
            BY <1>3, <5>1, <5>2
      <4>3. cells[at[c - k + 1]] = at[c - k]
        <5>1. PICK i \in U, j \in U : i = cells[at[c - k + 1]] /\ j = at[c - k]
                                      /\ rank[i] = rank[j]
            BY <4>1, <4>2
        <5>. QED
            BY <1>3, <5>1
      <4>. QED
          BY <3>1, <4>1, <4>3
    <3>. QED
        BY <3>2, <3>3
  <2>2. CASE ~ k - 1 < c
      BY <1>1, <2>2
  <2>. QED
      BY <2>1, <2>2
<1>9. IsWalk(f, n, head, cells)
  <2>. DEFINE g == [k \in Nat |->
              IF k = 0 THEN head
              ELSE IF f[k - 1] \in 0 .. n - 1 THEN cells[f[k - 1]] ELSE -1]
  <2>1. \A k \in Nat : f[k] = g[k]
      BY <1>7, <1>8
  <2>2. f = [k \in Nat |-> f[k]] /\ g = [k \in Nat |-> g[k]]
      BY <1>6
  <2>. QED
      BY <2>1, <2>2 DEF IsWalk
<1>10. {f[k] : k \in 0 .. n} \cap (0 .. n - 1) = U
  <2>1. ASSUME NEW i \in U
        PROVE  \E k \in 0 .. n : f[k] = i
    <3>1. PICK r \in 1 .. c : r = rank[i]
        BY <1>3
    <3>2. c - r \in 0 .. n /\ f[c - r] = at[r]
      <4>1. c - r \in Nat /\ c - r < c /\ c - (c - r) = r /\ c - r <= n
          BY <1>1, <3>1
      <4>. QED
          BY <1>1, <4>1
    <3>3. at[r] = i
        BY <1>5, <3>1
    <3>. HIDE DEF f
    <3>. QED
        BY <3>2, <3>3
  <2>2. ASSUME NEW k \in 0 .. n, f[k] \in 0 .. n - 1
        PROVE  f[k] \in U
      BY <1>6, <2>2
  <2>. HIDE DEF f
  <2>. QED
      BY <2>1, <2>2
<1>. HIDE DEF f
<1>. QED
    BY <1>6, <1>9, <1>10

\* No other function is the walk: where two of them first differed they would
\* have come from the same cell.
LEMMA OneWalk ==
    ASSUME NEW n, NEW head, NEW cells, NEW f, NEW g,
           IsWalk(f, n, head, cells), IsWalk(g, n, head, cells)
    PROVE  f = g
<1>1. /\ f = [k \in Nat |-> f[k]] /\ g = [k \in Nat |-> g[k]]
      /\ f[0] = head /\ g[0] = head
      /\ \A k \in Nat \ {0} :
           /\ f[k] = IF f[k - 1] \in 0 .. n - 1 THEN cells[f[k - 1]] ELSE -1
           /\ g[k] = IF g[k - 1] \in 0 .. n - 1 THEN cells[g[k - 1]] ELSE -1
    BY DEF IsWalk
<1>. DEFINE Differ == {k \in Nat : f[k] # g[k]}
<1>2. ASSUME Differ # {}  PROVE FALSE
  <2>1. PICK k \in Differ : \A m \in Differ : k <= m
    <3>1. Differ \in SUBSET Nat
        OBVIOUS
    <3>. HIDE DEF Differ
    <3>. QED
        BY <1>2, <3>1, LeastNatural
  <2>2. k # 0 /\ k - 1 \in Nat /\ f[k] # g[k]
      BY <1>1, <2>1
  <2>3. f[k - 1] = g[k - 1]
      BY <2>1, <2>2
  <2>. QED
      BY <1>1, <2>2, <2>3
<1>. QED
    BY <1>1, <1>2

\* The cells free_strpool() takes out are those whose index nobody holds
\* (strpool.c:117-123).
LEMMA FreeCellsExact ==
    ASSUME TypeOK, FreeListExact
    PROVE  FreeCells = Unheld
<1>1. PICK rank : IsRanking(rank, Unheld, next_free, pool)
    BY DEF FreeListExact
<1>2. pool_length \in Nat /\ \A i \in Unheld : i \in 0 .. pool_length - 1
    BY DEF TypeOK, Unheld, Cells
<1>3. PICK f : /\ IsWalk(f, pool_length, next_free, pool)
               /\ {f[k] : k \in 0 .. pool_length} \cap (0 .. pool_length - 1) = Unheld
    BY <1>1, <1>2, WalkOnTheList
<1>. DEFINE Walks(g) == g = [k \in Nat |->
              IF k = 0 THEN next_free
              ELSE IF g[k - 1] \in Cells THEN pool[g[k - 1]] ELSE -1]
            walk == CHOOSE g : Walks(g)
<1>4. IsWalk(walk, pool_length, next_free, pool)
  <2>1. Walks(f)
      BY <1>3 DEF IsWalk, Cells
  <2>. HIDE DEF Walks
  <2>2. Walks(walk)
      BY <2>1, Zenon
  <2>. HIDE DEF walk
  <2>. USE DEF Walks
  <2>. QED
      BY <2>2 DEF IsWalk, Cells
<1>5. walk = f
    BY <1>3, <1>4, OneWalk
<1>6. FreeCells = {walk[k] : k \in 0 .. pool_length} \cap Cells
    BY DEF FreeCells
<1>. HIDE DEF walk
<1>. QED
    BY <1>3, <1>5, <1>6 DEF Cells

-----------------------------------------------------------------------------
(* The strings.                                                            *)

\* The automatic pointer that is freed unassigned (strpool.c:142) happens to
\* be NULL.
JunkIsNull == Junk \subseteq {NULL}

OInv == Inv /\ OneOwner

\* The strings in the cells.
InCells == {pool[i] : i \in held}

\* What is put under a free index joins the strings in the cells.
LEMMA InsertOwns ==
    ASSUME OInv, NEW s, Insert(s), s \notin InCells
    PROVE  /\ InCells' = InCells \cup {s}
           /\ \A i, j \in held' : pool'[i] = pool'[j] => i = j
<1>1. PICK k \in (0 .. MaxPoolLength - 1) \ held :
        /\ held' = held \cup {k}
        /\ pool'[k] = s
        /\ \A i \in held : pool'[i] = pool[i]
    BY InsertPuts DEF OInv
<1>. QED
    BY <1>1 DEF OInv, OneOwner, InCells

\* OneOwner in terms of sets.
LEMMA Owners ==
    OneOwner <=> /\ heap = InCells \cup mine \cup lost
                 /\ InCells \cap (mine \cup lost) = {}
                 /\ mine \cap lost = {}
                 /\ \A i, j \in held : pool[i] = pool[j] => i = j
                 /\ ~ wild
BY DEF OneOwner, InCells

\* Emptying the pool frees the strings in its cells and nothing else.
LEMMA FreedExact ==
    ASSUME OInv
    PROVE  Freed = InCells
<1>1. FreeCells = Unheld
    BY FreeCellsExact DEF OInv, Inv, IInv
<1>2. Cells \ Unheld = held
    BY DEF OInv, Inv, IInv, TypeOK, Unheld
<1>. QED
    BY <1>1, <1>2 DEF Freed, InCells

LEMMA StepOwns ==
    ASSUME OInv, [Next]_vars, JunkIsNull
    PROVE  OneOwner'
<1>a. /\ heap = InCells \cup mine \cup lost
      /\ InCells \cap (mine \cup lost) = {}
      /\ mine \cap lost = {}
      /\ \A i, j \in held : pool[i] = pool[j] => i = j
      /\ ~ wild
    BY Owners DEF OInv
<1>. DEFINE Goal == /\ heap' = InCells' \cup mine' \cup lost'
                    /\ InCells' \cap (mine' \cup lost') = {}
                    /\ mine' \cap lost' = {}
                    /\ \A i, j \in held' : pool'[i] = pool'[j] => i = j
                    /\ ~ wild'
<1>b. ASSUME UNCHANGED <<pool, held>>
       PROVE  /\ InCells' = InCells
              /\ \A i, j \in held' : pool'[i] = pool'[j] => i = j
    BY <1>a, <1>b DEF InCells
<1>1. ASSUME NEW s \in Strings, MallocString(s)  PROVE Goal
    BY <1>a, <1>b, <1>1 DEF MallocString, Fresh
<1>2. ASSUME NEW s \in Strings, InsertString(s)  PROVE Goal
  <2>1. s \in mine /\ Insert(s) /\ mine' = mine \ {s} /\ UNCHANGED <<heap, lost, wild>>
      BY <1>2 DEF InsertString
  <2>2. /\ InCells' = InCells \cup {s}
        /\ \A i, j \in held' : pool'[i] = pool'[j] => i = j
      BY <1>a, <2>1, InsertOwns
  <2>. QED
      BY <1>a, <2>1, <2>2
<1>3. ASSUME NEW s \in Strings, Strclone(s)  PROVE Goal
  <2>1. s \notin heap /\ Insert(s) /\ heap' = heap \cup {s} /\ UNCHANGED <<mine, lost, wild>>
      BY <1>3 DEF Strclone, Fresh
  <2>2. /\ InCells' = InCells \cup {s}
        /\ \A i, j \in held' : pool'[i] = pool'[j] => i = j
      BY <1>a, <2>1, InsertOwns
  <2>. QED
      BY <1>a, <2>1, <2>2
<1>4. ASSUME NEW s \in Strings, StrcloneFails(s)  PROVE Goal
    BY <1>a, <1>b, <1>4 DEF StrcloneFails, InsertFails, Fresh
<1>5. ASSUME NEW s \in Strings, StrncloneFails(s)  PROVE Goal
    BY <1>a, <1>b, <1>5 DEF StrncloneFails, InsertFails
<1>6. ASSUME NEW p \in Junk, StrncloneMallocFails(p)  PROVE Goal
  <2>1. p = NULL /\ p \notin heap
      BY StrPoolAssumption DEF JunkIsNull, OInv, Inv, IInv, TypeOK
  <2>. QED
      BY <1>a, <1>b, <1>6, <2>1 DEF StrncloneMallocFails, Free
<1>7. ASSUME NEW i \in held, ObtainString(i)  PROVE Goal
  <2>1. /\ held' = held \ {i} /\ mine' = mine \cup {pool[i]}
        /\ UNCHANGED <<heap, lost, wild>>
        /\ \A j \in held \ {i} : pool'[j] = pool[j]
      BY <1>7 DEF ObtainString
  <2>2. pool[i] \in InCells /\ InCells' = InCells \ {pool[i]}
      BY <1>a, <2>1 DEF InCells
  <2>3. \A j, k \in held' : pool'[j] = pool'[k] => j = k
      BY <1>a, <2>1
  <2>. QED
      BY <1>a, <2>1, <2>2, <2>3
<1>8. ASSUME NEW s \in Strings, FreeMine(s)  PROVE Goal
  <2>1. /\ s \in mine /\ mine' = mine \ {s} /\ heap' = heap \ {s}
        /\ UNCHANGED <<pool, held, lost>>
      BY <1>8 DEF FreeMine, Free
  <2>2. ~ wild'
    <3>1. s \in heap
        BY <1>a, <2>1
    <3>. QED
        BY <1>a, <1>8, <3>1, Zenon DEF FreeMine, Free
  <2>. QED
      BY <1>a, <1>b, <2>1, <2>2
<1>9. ASSUME FreeStrpool  PROVE Goal
  <2>1. /\ held' = {} /\ heap' = heap \ InCells /\ UNCHANGED <<mine, lost>>
        /\ wild' = (wild \/ ~ InCells \subseteq heap \cup {NULL})
      BY <1>9, FreedExact DEF FreeStrpool
  <2>2. InCells' = {}
      BY <2>1 DEF InCells
  <2>. QED
      BY <1>a, <2>1, <2>2
<1>10. ASSUME UNCHANGED vars  PROVE Goal
    BY <1>a, <1>b, <1>10 DEF vars
<1>11. Goal
    BY <1>1, <1>2, <1>3, <1>4, <1>5, <1>6, <1>7, <1>8, <1>9, <1>10 DEF Next, Strnclone
<1>. QED
    BY <1>11 DEF OneOwner, InCells

\* However the pool is used, grown, refused memory and emptied, every
\* allocated string has exactly one owner and none is freed twice, for every
\* size of the pool - as long as the pointer strpool_strnclone() frees
\* unassigned is NULL.
THEOREM Ownership ==
    ASSUME JunkIsNull
    PROVE  Spec => []OneOwner
<1>1. Init => OInv
  <2>1. Init => OwnedOnce
      BY StrPoolAssumption DEF Init, OwnedOnce
  <2>2. Init => OneOwner
      BY DEF Init, OneOwner
  <2>. QED
      BY <2>1, <2>2, InitInv DEF OInv, Inv
<1>2. OInv /\ [Next]_vars => OInv'
  <2>1. JunkIsNoString
      BY StrPoolAssumption DEF JunkIsNull, JunkIsNoString
  <2>. QED
      BY <2>1, StepInv, StepImplements, StepOwns DEF OInv, Inv
<1>3. OInv => OneOwner
    BY DEF OInv
<1>. QED
    BY <1>1, <1>2, <1>3, PTL DEF Spec
=============================================================================
