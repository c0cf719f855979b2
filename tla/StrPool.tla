------------------------------ MODULE StrPool ------------------------------
(***************************************************************************)
(* The string pool of common/strpool.c.  The lexer puts the text of each   *)
(* token into the pool and hands the parser the index of the cell; a       *)
(* grammar action takes the string out again, once.  A cell is a union: it *)
(* holds the string while its index is out, and the index of the next free *)
(* cell while it is not, so the free list runs through the cells and       *)
(* nothing in a cell tells which of the two it is.                         *)
(***************************************************************************)
EXTENDS Integers, FiniteSets

CONSTANTS
    Strings,              \* heap addresses of strings
    NULL,                 \* the null pointer
    Junk,                 \* what an uninitialised automatic pointer may hold
    INITIAL_POOL_LENGTH,  \* strpool.c:20
    MaxPoolLength         \* bound: allocation fails beyond this many cells

ASSUME StrPoolAssumption ==
    /\ INITIAL_POOL_LENGTH \in Nat \ {0}
    /\ MaxPoolLength \in Nat
    /\ NULL \notin Strings \cup Int
    /\ Strings \cap Int = {}

VARIABLES
    pool,         \* the cells: a string, or the index of the next free cell
    pool_length,
    next_free,    \* head of the free list, -1 when it is empty
    heap,         \* the strings malloc() has handed out and nobody freed
    held,         \* the indices the parser has and has not obtained yet
    mine,         \* the strings the program owns itself
    lost,         \* allocated strings that nobody can reach any more
    wild          \* has free() been given anything but an allocated string?

vars == <<pool, pool_length, next_free, heap, held, mine, lost, wild>>

Cells == 0 .. pool_length - 1

Init ==
    /\ pool = [i \in {} |-> NULL]
    /\ pool_length = 0
    /\ next_free = -1
    /\ heap = {} /\ held = {} /\ mine = {} /\ lost = {}
    /\ wild = FALSE

-----------------------------------------------------------------------------
(* realloc_strpool: the new cells are chained and become the free list.    *)

GrownLength == IF pool_length = 0 THEN INITIAL_POOL_LENGTH ELSE 2 * pool_length

\* Mutants: the last new cell does not end the list; the cells are chained
\* from the first one on, those in use included.
GrownPoolUnended ==
    [i \in 0 .. GrownLength - 1 |-> IF i < pool_length THEN pool[i] ELSE i + 1]
GrownPoolRechained ==
    [i \in 0 .. GrownLength - 1 |-> IF i = GrownLength - 1 THEN -1 ELSE i + 1]

GrownPool ==
    [i \in 0 .. GrownLength - 1 |->
        IF i < pool_length THEN pool[i] ELSE IF i = GrownLength - 1 THEN -1 ELSE i + 1]

CanGrow == GrownLength <= MaxPoolLength

\* strpool_insert_string: the pool grows only when the free list is empty.
\* The caller's pointer is cleared, so the string now belongs to the pool.
Insert(s) ==
    LET full  == next_free < 0
        cells == IF full THEN GrownPool ELSE pool
        index == IF full THEN pool_length ELSE next_free
    IN  /\ full => CanGrow
        /\ pool_length' = IF full THEN GrownLength ELSE pool_length
        /\ next_free' = cells[index]
        /\ pool' = [cells EXCEPT ![index] = s]
        /\ held' = held \cup {index}

\* The exception of reallocx(): the pool stays as it was.
InsertFails == next_free < 0 /\ UNCHANGED <<pool, pool_length, next_free, held>>

-----------------------------------------------------------------------------
(* The operations.  A fresh address stands for a successful malloc().      *)

Fresh(s) == s \in Strings \ heap

\* The program allocates a string of its own.
MallocString(s) ==
    /\ Fresh(s)
    /\ heap' = heap \cup {s}
    /\ mine' = mine \cup {s}
    /\ UNCHANGED <<pool, pool_length, next_free, held, lost, wild>>

InsertString(s) ==
    /\ s \in mine
    /\ Insert(s)
    /\ mine' = mine \ {s}
    /\ UNCHANGED <<heap, lost, wild>>

\* strpool_strclone by way of strpool_add_string.
Strclone(s) ==
    /\ Fresh(s)
    /\ Insert(s)
    /\ heap' = heap \cup {s}
    /\ UNCHANGED <<mine, lost, wild>>

\* strdupx() succeeded, the pool could not grow: the copy is not freed.
StrcloneFails(s) ==
    /\ Fresh(s)
    /\ InsertFails
    /\ heap' = heap \cup {s}
    /\ lost' = lost \cup {s}
    /\ UNCHANGED <<mine, wild>>

\* strpool_strnclone; when the pool cannot grow the copy is freed again.
Strnclone(s) == Strclone(s)

StrncloneFails(s) ==
    /\ Fresh(s)
    /\ InsertFails
    /\ UNCHANGED <<heap, mine, lost, wild>>

\* free() of a pointer: harmless for NULL, undefined for what malloc() did
\* not return.
Free(p) ==
    /\ heap' = heap \ {p}
    /\ wild' = (wild \/ p \notin heap \cup {NULL})

\* strpool_strnclone when mallocx() fails: `cloned' was never assigned and
\* is passed to freex().
StrncloneMallocFails(p) ==
    /\ p \in Junk
    /\ Free(p)
    /\ UNCHANGED <<pool, pool_length, next_free, held, mine, lost>>

\* obtain_string_from_strpool: the cell becomes the head of the free list.
ObtainString(i) ==
    /\ i \in held
    /\ mine' = mine \cup {pool[i]}
    /\ pool' = [pool EXCEPT ![i] = next_free]
    /\ next_free' = i
    /\ held' = held \ {i}
    /\ UNCHANGED <<pool_length, heap, lost, wild>>

\* The program frees a string it owns.
FreeMine(s) ==
    /\ s \in mine
    /\ mine' = mine \ {s}
    /\ Free(s)
    /\ UNCHANGED <<pool, pool_length, next_free, held, lost>>

\* The cells the free list runs through, as free_strpool walks it.
FreeCells ==
    LET walk[k \in Nat] ==
            IF k = 0 THEN next_free
            ELSE IF walk[k - 1] \in Cells THEN pool[walk[k - 1]] ELSE -1
    IN  {walk[k] : k \in 0 .. pool_length} \cap Cells

\* Mutant: the links in the free cells are freed like strings.
FreedWithLinks == {pool[i] : i \in Cells}

\* free_strpool: the free cells are set to NULL first, so that the links in
\* them are not taken for strings; then every cell that is not NULL is freed.
Freed == {pool[i] : i \in Cells \ FreeCells}

\* Mutant: the static pool_length keeps its value.
FreeStrpoolKeepsLength ==
    /\ heap' = heap \ Freed
    /\ wild' = wild
    /\ pool' = [i \in {} |-> NULL]
    /\ next_free' = -1
    /\ held' = {}
    /\ UNCHANGED <<pool_length, mine, lost>>

FreeStrpool ==
    /\ heap' = heap \ Freed
    /\ wild' = (wild \/ ~ Freed \subseteq heap \cup {NULL})
    /\ pool' = [i \in {} |-> NULL]
    /\ pool_length' = 0
    /\ next_free' = -1
    /\ held' = {}
    /\ UNCHANGED <<mine, lost>>

Next ==
    \/ \E s \in Strings :
         \/ MallocString(s) \/ InsertString(s) \/ FreeMine(s)
         \/ Strclone(s) \/ StrcloneFails(s)
         \/ Strnclone(s) \/ StrncloneFails(s)
    \/ \E p \in Junk : StrncloneMallocFails(p)
    \/ \E i \in held : ObtainString(i)
    \/ FreeStrpool

Spec == Init /\ [][Next]_vars

-----------------------------------------------------------------------------
TypeOK ==
    /\ pool_length \in Nat
    /\ pool \in [Cells -> Strings \cup Int]
    /\ next_free \in Int
    /\ held \subseteq Cells
    /\ heap \subseteq Strings /\ mine \subseteq Strings /\ lost \subseteq Strings
    /\ wild \in BOOLEAN

Unheld == Cells \ held

\* rank numbers the cells of a list from its head down to 1.
IsRanking(rank, U, head, cells) ==
    /\ rank \in [U -> 1 .. Cardinality(U)]
    /\ \A i, j \in U : rank[i] = rank[j] => i = j
    /\ IF U = {} THEN head = -1 ELSE head \in U /\ rank[head] = Cardinality(U)
    /\ \A i \in U : IF rank[i] = 1 THEN cells[i] = -1
                    ELSE cells[i] \in U /\ rank[cells[i]] = rank[i] - 1

\* The free list runs exactly once through every cell whose index nobody
\* holds, and through no other (strpool.c:83-89, 105, 154-156).
FreeListExact ==
    \E rank \in [Unheld -> 1 .. Cardinality(Unheld)] :
        IsRanking(rank, Unheld, next_free, pool)

\* Every allocated string has one owner: the cell of a held index, the
\* program, or - after a failed strpool_add_string - nobody; and no string
\* is freed twice or while it is not allocated.
OneOwner ==
    /\ heap = {pool[i] : i \in held} \cup mine \cup lost
    /\ \A i, j \in held : pool[i] = pool[j] => i = j
    /\ \A i \in held : pool[i] \notin mine \cup lost
    /\ mine \cap lost = {}
    /\ ~ wild

\* Through growth, reuse of cells and emptying, the pool is a store that
\* never changes the string behind an index somebody holds.
Store == INSTANCE StringStore WITH
    store <- [i \in held |-> pool[i]], Index <- 0 .. MaxPoolLength - 1
IsAStringStore == Store!Spec
=============================================================================
