# A TLA+ model of the Starta compiler and interpreter

Starta (`src/starta`) is a compiler from the Starta/SL language to threaded
bytecode together with the interpreter that runs it, in C.  `src/common`,
`src/lists`, `src/cexceptions` and `src/getoptions` are the libraries it is built
on.  The compiler is one pass: the Bison grammar (`grammar.y`) emits code while it
parses.  The interpreter (`run.c`, with the opcodes and the heap of one of three
variants under `interpreters/`) has one evaluation stack, one call stack, a chain
of exception handlers, and a mark and sweep collector that calls destructors
written in Starta.  The model of the heap and of the registers follows the
`packed-type` variant; the opcodes are modelled for all three variants.

There are no threads.  What makes this code hard is interleaving of another kind:
destructors are Starta programs that run in the middle of the collector's walks and
of other opcodes; exceptions leave functions, loops and destructors from anywhere;
and the compiler has to know, at every jump, what the registers hold at its target.

## 1. Inventory

| Component | State | Operations | Used by, and how | What makes it right |
|---|---|---|---|---|
| String pool `common/strpool.c` | cells that hold a string or a free list link, `next_free`, `pool_length` | insert, clone, clone n bytes, obtain, free | lexer stores tokens, grammar actions take them out by index | the free list is exactly the cells nobody holds; one owner per string; all freed at the end |
| Heap `bcalloc.c`, `alloccell.h` | block headers, list `allocated`, byte total and limit, policy | allocate, reallocate a blob, collect, run all destructors, set policy | opcodes allocate; `run.c` marks; the collector calls back into `run.c` for destructors | the list is the heap, nothing reachable is freed, all garbage is, each destructor once and before the free |
| Traversal `bctraverse.c` | marks, counts and (reversed) references of the blocks | traverse from a root | `thrcode_gc_mark_and_sweep()` for each reference on the stacks | the references come back unchanged, marks are those of what is reached, it returns |
| Interpreter registers `run.c`, `run.h` | `istate`: ip, fp, sp, ep, xp, save_xp, the stacks | run, raise, run a subroutine, grow the stacks, mark and sweep | opcodes; called back by the collector | handlers match open try bodies, no dangling pointer into a stack, destructors leave no trace |
| Opcodes `tcodes.c` | none of their own | the opcodes | called by `run()` | each keeps the stacks as the compiler expects |
| Code generation `grammar.y` | stacks of loops, try counters, tables | actions of the grammar | emits opcodes into `thrcode` | jumps restore what the blocks they leave have set up |
| Threaded code `thrcode.c`, `fixup.c` | code arrays, fixup stacks and lists | emit, patch, append, merge, resolve | grammar actions | every operand is patched once and to the right place |
| Symbol tables `vartab.c`, `typetab.c`, `symtab.c`, `stlist.c` | name lists with scope counters | insert, look up, begin and end scope | grammar actions | a lookup finds the innermost declaration, a scope takes just its own names along |
| Nodes `dnode.c`, `enode.c`, `anode.c`, `tnode.c` | reference counted records that may form cycles | create, share, dispose, break cycles | the compiler | deleted once, and not while used |
| Type compatibility `tnode_compat.c` | none, pure | compare and convert types | grammar actions | reflexivity, agreement of its variants |
| Lists `lists/sllist.c` and its instances | shared cells with counts | create, insert, remove, share, dispose | tables and node lists | as for nodes |
| Compiler driver, modules `grammar.y`, `yy.c` | stacks of files, modules and tables | include, use, import, finish | the main program | stacks are balanced on every error path |
| Lexer `lexer.flex` | flex buffers | tokens | parser, string pool | -- |
| Constant values `cvalue_t.c` | plain data | convert | grammar actions | -- |
| C exceptions `cexceptions/` | jump buffers | try, raise, checked `malloc` | everything | a failing call leaves through its caller's catch |
| Options `getoptions/` | none kept | parse `argv` | main program | -- |
| Packing, bytecode files `pack.c`, `bytecode_file.c` | files | pack, unpack, read, write | opcodes | byte conversions |
| Number formats `common/formats.c` | none | format | everything | -- |
| Other interpreter variants | the same, other cell layouts | the same | chosen at build time | as above |
| Libraries, modules, programs | Starta sources | -- | -- | input and output |

The hard behaviours, each at its line, are the `hazards` of `PROJECT.json`.

## 2. Modules

| Module | What it is |
|---|---|
| `StringStore` | abstract: what the lexer and the parser assume of the string pool |
| `StrPool` | `strpool.c` with the checked allocation of `allocx.c`; implements `StringStore` |
| `StrPoolProof` | the theorems about `StrPool` |
| `Reachability` | closure of a set of nodes in a graph, as a least closed set |
| `ManagedHeap` | abstract: what a program may assume of garbage collected memory |
| `LeastNumber` | lemma: a set of numbers that is not empty has a least element |
| `BcTraverse` | `bctraverse()`, one step per turn of its loop |
| `BcTraverseProof` | the theorems about `BcTraverse` |
| `BcHeap` | `bcalloc.c`, marking, and the destructor calls of `run.c`; implements `ManagedHeap` |
| `MCBcHeap` | `BcHeap` with the symmetry of the addresses |
| `BcHeapProof` | the theorems about `BcHeap`, with lemmas about lists of blocks, what references lead to, and sums of sizes |
| `StructuredControl` | abstract: the control flow of the source language |
| `Interpreter` | registers, stacks, handlers, destructors, and the code emitted for loops, try and return; implements `StructuredControl` |
| `InterpreterProof` | the theorems about `Interpreter` |
| `Operations` | the words in which opcodes are described: contracts and steps |
| `Tcodes`, `TcodesSplit`, `TcodesFull` | the opcodes of the three variants, with `pack.c` |
| `OpcodeMachine` | one opcode, run step by step on stacks, heap and collector |
| `Thrcode` | operators: code under construction and its fixup lists (`thrcode.c`, `fixup.c`) |
| `ThrcodeProof` | the theorems about `Thrcode` |
| `Fixups` | the grammar actions that emit jumps, calls, functions and modules |
| `MCFixups` | `Fixups` with bounds on programs |
| `Vartab` | operators: the tables of names (`vartab.c`, `typetab.c`) |
| `SymbolTables` | the grammar actions that declare names, open and close scopes, and take names over from modules |
| `MCSymbolTables` | `SymbolTables` with bounds on programs and the symmetry of module names |
| `SymbolTablesLemmas` | the theorems about `Vartab`, and when a table agrees with the blocks of the source |
| `SymbolTablesProof` | the theorems about `SymbolTables` |

`BcHeap` takes the result of a whole traversal from a set definition (`Traverse`);
`BcTraverse` checks, with the property `MarksWhatItReaches`, that the loop of the
code computes that set, for every combination of old marks and counts.  `BcHeap` and
`Interpreter` both model destructors: the first what they may do to the heap, with
their control flow abstracted to "returns or raises", the second what happens to the
registers, with the heap abstracted away.  `OpcodeMachine` looks at the same stacks and
heap at a finer grain, inside a single opcode.  `Interpreter` has the opcodes that a jump
out of blocks needs; `Fixups` checks that the jump itself gets to its target.  `Fixups` and
`SymbolTables` are two views of one parser: the first keeps the code and its loops, the
second the names.

### StrPool

`pool`, `pool_length` and `next_free` are the statics of the file.  `heap` is what
`malloc()` has handed out, `mine` what the program owns, `lost` what leaked, `held`
the indices that are out, and `wild` records a bad `free()`.  One action is one call,
with the variants in which the pool cannot grow or `malloc()` fails.  A string is its
address; its text does not matter.  `Junk` is what an uninitialised pointer may hold:
`strpool_strnclone()` frees such a pointer when `mallocx()` fails (strpool.c:142).

### BcTraverse

`p`, `q` and the fields are those of the function; `k` is `rcount` of the current
block.  A run starts in *every* heap of the given size, with the marks and counts that
a reset leaves on listed blocks and any that an earlier traversal may have left on
unlisted ones.  `start` remembers the heap as it was at the call.

### BcHeap

A block has `mem` (is the magic number in place?), `kind`, `size`, `refs`, `next`,
`prev`, its mark and its count.  A kind stands for layout and destructor: an *object*
has `vmt_offset` set, a *record* is a block of references, a *blob* has none.
`gc` is the stack of walks under way (a destructor that allocates can start a second
one), each with the locals of `bccollect()`: `prev`, `curr`, `next`, `reclaimed`; and
`at` says where the walk is.  Marking is one step, since nothing interrupts it; the
sweep is one step per block; a destructor is entered, takes any number of steps, and
returns or raises.  The running code loads, stores and drops references, allocates,
reallocates the blob it is still filling (`builder`), collects, and switches policy.
`roots` are the references on the stacks of the program, `droots` those in the frame
of the running destructor.

`Features` says what destructors do: read their object, publish it, allocate, call the
collector (`"nest"`), raise.  In every run they may switch the policy.  See section 5 for why
the runs leave some of the rest out.

### Interpreter

A pointer into a stack is the index of a cell and the number of times the stack had
moved when the pointer was made, so that a pointer that was not adjusted shows.  `ip`
is abstracted to `ctx`, the static blocks around it, which is all the compiler looks at
when it decides how many `RESTORE` and loop counter drops a jump needs.  `stack` holds
return addresses, saved frame pointers and locals.  `xp` is the handler chain,
`save_xp` that of the program a destructor interrupted, `saved` what
`thrcode_run_subroutine()` has set aside (with `sp` and `ep` recorded for the
properties).  The evaluation stack is abstracted to its height in loops with
counters.  `Uses` says which constructs programs use.  `StructuredControl` has the program and the
functions under way, each with its open blocks; `ProgramBodies` reads them off the return
addresses on the stack, up to where a destructor begins.

### Tcodes, TcodesSplit, TcodesFull and OpcodeMachine

An opcode is a record: the operand words that follow it, the stack effect its comment states
(where it has none, the one the compiler relies on), and the steps its C function
takes.  A step is one statement or one macro of `stackcell.h` that touches the stacks, the
heap, `istate.ip` or the handlers: move `ep`, copy a cell, assign a number and leave the
reference of the cell as it is, read a reference, allocate, raise, return a length.
Arithmetic inside a number is left out.  An allocating helper of the same file (`deep_clone`,
`fill_md_array`, the functions of `pack.c`) is a sequence of steps of its own.

`OpcodeMachine` takes any opcode of any variant with any combination of operands that are
null, on the heap or static, flat or nested, and runs it.  The collector works at every
allocation and whenever an exception is raised, and frees whatever the cells from `ep` and
`sp` downwards do not lead to: what only a C variable points to goes.  An allocation may
fail.  Cells above `ep` are without references at the start, as `NothingStaleAbove` demands
of every opcode at its end; cells above `sp` hold references to objects that are gone,
because the opcodes that pop frames do not clear them.

The properties name the opcodes that do not satisfy them (`UsesNull`, `RaisesAndGoesOn`,
...); section 5 says what these do.

### Thrcode and Fixups

A thrcode is its length and the operands that matter: those that hold a distance or an
address.  An operand remembers its `goal`, the label of the construct that the source means by it;
the code does not know the goal, it has fixups, on the lists the program keeps
(`fixups`, `op_break_fixups`, `op_continue_fixups`, `forward_function_calls`).
`Fixups` parses every program within the bounds.  A construct is a set of rules, each
from one point of the construct to the next with the calls its grammar action makes, so
the order of pushes, swaps and pops is that of `grammar.y`.  Code that is kept aside (the
condition of a while loop, the step of a for loop, a function) is a thrcode of its own on
`thrstack`, merged where the action merges it.  What the C code asserts or dereferences on the
way is `Asserts`; a construct that would fail one stops the compiler with `failed`.  `Uses`
says what programs do that the passing run leaves out.

### Vartab and SymbolTables

A table is its nodes, newest first, with the two counters.  `SymbolTables` has the four
tables of the compiler, the stack of those of the enclosing modules, and the tables in the
node of each module.  Beside them it keeps the source: the blocks of the current module that
are open, with what was declared in and imported into each (`blocks`), the blocks that the
modules around are open in (`enclosing`, one for each tables of `symtab_stack`), and what is
declared at the top of each module (`published`).  `Meant` and `Clashes` say from these what a
name should mean.  An action is
what a grammar action does with names: declare a variable, constant, type, operator or
function; begin and end a block, function or module; `use M`, `import M`,
`use name from M`, with a module that is known or read from a file; end, perhaps in the middle.
Variables of a module are exported by the scope of their dnode (`dnode_scope`), and that is not
always the one of the table: the rule `identifier` gives a variable the scope it is parsed in
(grammar.y:9019), and entering a dnode gives it that of the table (vartab.c:64), but the dnode of an
exception has scope 0 until it is entered, so one that is refused keeps 0.  A list of variables is
declared one by one.

## 3. Runs

Passing runs:

| Run | Bounds | What it shows |
|---|---|---|
| `StrPool` | 5 strings, 2 then 4 cells, `Junk = {NULL}` | the free list is exact through growth, reuse and failure; one owner per string; `StringStore` is implemented |
| `BcTraverse` | 3 blocks of up to 2 fields, one of them unlisted | at every turn the reversed references can be undone; on return they are, and the marks are right; it returns |
| `Collections` | 3 addresses, 1 field, objects and records, `GC_ALWAYS`; destructors read their object | the list is the heap, destructors before frees, collections precise and complete, `ManagedHeap` is implemented |
| `HeapBlobs` | 3 addresses, sizes 1 and 2, all policies | doubly linked list and byte total through `realloc()` that moves, stays or fails, and collections by limit |
| `HeapExit` | 3 addresses, objects; destructors read, allocate and raise; 3 rounds | the end of the program: everything is freed unless the bound on rounds was hit; walks end (under `GC_NEVER` three addresses run out before the rounds do, so that the counter of rounds is needed is not shown) |
| `Control` | 2 nested blocks per function, 2 calls and a destructor | handler chain and evaluation stack match the open blocks at every point; destructors are transparent; `StructuredControl` is implemented |
| `Stacks` | 2 nested blocks, 1 call, each stack moves once, destructors may raise | no handler or frame pointer is stale, none is followed that is |
| `Opcodes` | every opcode of the three variants; arrays and lists of two elements; three allocations | an opcode uses no null or freed operand, leaves no dangling or stale reference, stops when it has raised, has its stack effect and skips its own words |
| `Fixups` | `Programs` of `MCFixups`: three nested constructs; two with two jumps; functions, calls and modules; 1 label, functions `f`, `g`, a function `h` of modules, catch clauses of up to 3 exceptions | every jump and call ends where the source means it to; the fixups that wait are for just the operands without a value; no assertion of `thrcode.c` or `fixup.c` fails |
| `SymbolTables` | `Programs` of `MCSymbolTables`: 3 declarations in a block and a function, 2 in a block and 2 functions; a module with 2 declarations, a block, a function and a use; 2 modules with 2 declarations and 2 uses; a module with a function and 3 declarations; one name for everything but modules, 2 types of operands | every name is found as it is meant, or is known to be ambiguous; modules show just what is declared at their top; a declaration is refused just when it clashes |

An opcode ends, so `Opcodes` does not check for deadlock.

Violation runs: each turns on one thing that the passing runs leave out.

| Run | Turned on | What TLC finds |
|---|---|---|
| `DestructorPrepends` | destructors allocate | `BcfreeFindsMagic` fails: after the head has been freed `prev` is the block after it rather than NULL (bcalloc.c:287); with a new block in front, that block is freed while it stays on the list |
| `JumpOutOfTry` | `break` or `continue` leaves a try body | `XpDescribesOpenTries` fails: no `RESTORE` is emitted (grammar.y:6345) |

### Why the bounds are enough

*StrPool*: the pool grows from nothing to 2 and from 2 to 4 cells and then cannot
grow, with fewer cells than strings, so every branch of every function is taken, on
lists of every length up to 4; the proof covers all other sizes.
*BcTraverse*: three blocks give cycles, self references, sharing, and a child that was
entered through the second field; two fields give a first, a next and a last one.
*BcHeap*: the list operations look at a block and its two neighbours, so three blocks
are the head, the middle and the end; `MaxCycles = 3` (1000 in the code, bcalloc.c:320)
lets a run bail out, go round again, and end after a second round.
*Interpreter*: two nested blocks are a try in a loop, a loop in a try, and so on; two
calls let exceptions and returns cross frames and come back to a caller with blocks of
its own; one move of each stack tells adjusted pointers from others.
*OpcodeMachine*: loops over operands, fields and elements do the same for each, and two
show what the second one finds after the first; no opcode allocates more than three objects
outside of such loops.
*Fixups*: a construct touches its own fixups and those of the construct around it, and code is
merged at most three deep; with two jumps, one list holds fixups of two loops.  Larger bounds,
`(3,1,0,0,0)` and `(1,0,2,2,1)`, were run by hand and pass.
*SymbolTables*: a node differs from another in its scope, its subscope, its origin and its
order.  Two declarations of one name around and in a block, a function or a module, or in
two modules that are used, give every pair; the third shows what is left when the
second is dropped.
`MaxNest`, `MaxCalls`, `MaxMoves`, `MaxPoolLength`, `MaxSize`, `MaxRef`, `MaxCycles`,
`MaxIdentifiers` and the records of `Bounds` are the only bounds.  They are guards, not state
constraints.

### Fairness

`HeapExit` uses `FairSpec`: weak fairness of the collector's own steps, because nothing
but the destructors it calls interrupts a walk, and of a destructor's return, which
assumes that destructors end.  The program itself is under no fairness: it need not
exit.  `BcTraverse` has weak fairness of its next step: it is a sequential
function.  No other run depends on fairness.  `[]<>(gc = << >>)` would fail without a
bound on the finalisers' rounds: a finaliser that allocates a new object each time
(the code has such a bound, too).

## 4. Proofs

All proofs are checked by TLAPS with no step left out.  They assume the named assumptions on the
constants: `StrPoolAssumption` (the initial length is positive, addresses are not integers),
and those of `BcTraverse` and `BcHeap` (finitely many blocks, each with finitely many fields).

### StrPool

The invariant is `IInv == TypeOK /\ FreeListExact /\ HeldAreStrings`.  None of its parts is
inductive alone: `next_free` is read from a cell, which is an integer only if the cell
is on the free list; the list stays a list only if the cell that is pushed was not on
it; and the cell that is pushed is a held one, which holds a string.  `FreeListExact` says
that a ranking of the unheld cells exists under which every link goes down by one.
This replaces the induction over the list that a recursive definition would ask
for, and each operation gives its new ranking explicitly: `PopHead` drops the first rank,
`PushHead` adds one, `ChainRanking` numbers the cells that growth has appended.

| Theorem | States |
|---|---|
| `Invariance` | `Spec => []IInv` |
| `Typing` | `Spec => []TypeOK` |
| `FreeList` | `Spec => []FreeListExact` |
| `Implementation` | `Spec => IsAStringStore`, if an uninitialised pointer is not that of a string |

`Implementation` needs one more fact, that strings behind held indices are distinct
and not the program's own, and a case for every action: it maps to `Put`, `Take`,
`Obtain`, `Drop`, `Clear`, or to no step.  With a `Junk` that contains a string it would be
false, since `strpool_strnclone()` could free somebody's string.

`Ownership` is `Spec => []OneOwner`, if the uninitialised pointer is null.
The hard step is `free_strpool()`, which finds the cells it must not free by walking the
free list.  The walk is a recursive function; that it goes through the ranks in order is proved
with the least number for which it would not (`LeastNatural`), which is how the proofs do without
induction theorems.

### BcTraverse

While `bctraverse()` runs, the way back to the root exists only in references it has reversed.
The invariant of `BcTraverseProof` says that there *is* such a way, a sequence of blocks
without repetition from the root to the block being visited, in which each block has the
next one in the field it has counted last; that every counted field of a marked block
leads to marked blocks; that only what can be reached is marked; and that all other
references are as they were.  `Visit`, `Descend`, `Ascend` and the others each give the
new way.

| Theorem | States |
|---|---|
| `Invariance` | the invariant above holds in every heap |
| `Typing` | `Spec => []TypeOK` |
| `Marking` | `Spec => []MarksWhatItReaches`: when it returns, what is marked is closed under references and within what the root reaches, so it is what the root reaches |
| `Undoing` | `Spec => []NoReferenceIsLost`: going up restores all references.  The ascent follows the way, which is no longer than there are blocks |

### BcHeap

The runs have three blocks; the theorems any finite number, any number of fields, any sizes and
every policy.  They assume `Restrained`, that is `Features \subseteq {"collect", "self"}`: the
program may do everything, and a destructor may read its object and what it leads to, but
does not allocate, raise, collect, or publish what it has read.  The assumption is needed: with
any of these, section 5 has a run in which one of the properties fails, or
`DestructorPrepends` is one.

The invariant `IInv` says, beside types,

- `Sound`: what the program can reach is allocated, so is what is marked;
- `Lists`: each block that is live and not dying is on one of the two lists, which are without
  cycles and shared ends, and the byte total is theirs plus what the walk has reclaimed;
- `Filling`: the blob an opcode is filling is the head of the list, and nothing refers to it but the
  stack, which is why `bcrealloc_blob()` may move it and mend only the list;
- `SweptTo`: a sweep that has come to a block knows the one before it, the blocks behind it are all
  marked, and what the program can reach is marked.

None of it is inductive without the rest: that freeing keeps `Sound` needs `SweptTo` (an unmarked
block is unreachable), unlinking keeps the list only if `prev` of the walk is the block
before (which fails as soon as a destructor may prepend a block), and a sweep that starts needs
`Lists` to know that it will see every block.  `UnderWay` has a case for each place a walk can be
at.  TLC has checked `IInv` on the constants of `Collections`.

| Theorem | States |
|---|---|
| `Invariance` | `Spec => []IInv` |
| `Typing`, `TheListIsTheHeap`, `Accounting`, `Assertions`, `CleanExit` | the invariants `TypeOK`, `ListIsTheHeap`, `BytesAreAccounted`, `NoAssertionFails`, `ExitIsClean` |
| `DestructorsRunFirst` | `DestructorBeforeFree`: only a block without a destructor, or one whose destructor has just run, is freed |
| `GarbageIsCollected` | `CollectsGarbage`: marking finds what is reachable and nothing else, and a collection leaves just that |
| `Implementation` | `Spec => IsAManagedHeap`, action by action |

A list is the least set that holds its head and the next of each of its blocks, so that no lemma
needs an induction along it: to show that a block is not on a list, `ChainLeast` asks for a
closed set without it (`HeadRemoved`, `InnerRemoved`, `TailOfList`).  `SizeOf` is the number
of bytes, a pair of a block and an index each, which the theorems on cardinality can add.

### Interpreter

The runs nest two blocks and one or two calls; the theorems hold for any number of blocks and
calls, for stacks that move at any point, and for destructors that run between any two
opcodes.  They assume `Mild`, that is `Uses \subseteq {"destructor grows"}`: each of the other
uses breaks one of the properties (section 5; `JumpOutOfTry` is one of those runs), except
that raising destructors leave `NoStaleHandler` and the like intact, which `Stacks` checks.
The last three theorems need `Uses = {}`, since `save_xp` is not adjusted when a stack
moves under a destructor.

The functions that are under way are told apart by the cells of their return addresses:
`Contexts` maps each such cell to the static blocks of its function, and a block that is
open is a pair of a cell and an index (`Open`).  So properties about stacks of any height
are about finite sets of pairs, and need no induction.  The invariant `IInv` says, beside types,

- `Layout`: frames of three cells (return address, frame pointer, locals) lie on the
  variables of the program, each frame pointer leads to the one below, `fp` to the topmost;
- `Coherent`: the contexts, the handler chain and the height of the evaluation stack agree: `xp`
  has the handlers of the open try bodies in their order, each handler leads to the catch
  list of its body (`Catches`) with the height that the loops around the body make up, and the
  height is that of all open loops;
- `Homed`: the frame of a handler is on the stack;
- `Interrupted`: while a destructor runs, the same holds of what it interrupted, which is
  at the bottom of the stack, under the one return address that stops;
- `Unmoved`: handlers point into the stacks as they are now, if destructors do not make them move.

That only the count of handlers is right is not inductive: `raise` restores what the handler
has recorded, so each handler must be known to be that of its try body.  The hard steps are
`Raise`, which leaves any number of functions and loops at once (`Below`: what remains is
what was open before the body), `Return`, which must find the handlers of just its own
function (`ReturnFinds`), and the return of a destructor.  TLC has checked `IInv` on
constants smaller than those of `Control`.

| Theorem | States |
|---|---|
| `Invariance` | `Spec => []IInv` |
| `Typing`, `HandlersAreOpenTries`, `CountersAreOpenLoops`, `FramePointer` | the invariants `TypeOK`, `XpDescribesOpenTries`, `EvalStackIsBalanced`, `FpIsTheTopFrame` |
| `Transparency` | `DestructorIsTransparent`: a destructor that ends leaves `fp`, `sp`, `ep` as they were |
| `HandlersStayGood`, `NothingRunsWild` | `NoStaleHandler` and `NoWildAccess`, if `Uses = {}` |
| `Implementation` | `Spec => FollowsTheSource`, if `Uses = {}` |

For the refinement, `FramesOfThree` finds the number of functions in the height of the stack, and
`FunctionsAre` finds the context of each of them where `Contexts` has it.  A step outside
of destructors then changes the sequence of functions at its end (`ProgramBecomes`), and
each action has a lemma that finds the step of the source (`EnterFollows` to
`EndFollows`): an exception goes to the body of the first handler, which `Describes` makes
the innermost that is open (`RaiseUnwinds`).  A destructor changes no cell below it
(`DestructorHides`).  That a program may end only outside of its try bodies needs one more
invariant, `Headed`: whatever lies above the program is the body of a function, so a context
without blocks is that of the program, with nobody below.  It is proved of the steps of
`StructuredControl`, not of those of the interpreter.

### Thrcode

| Theorem | States |
|---|---|
| `Merging` | jumps that lead where they should in two pieces of code do so when one is put behind the other |
| `MergingOwes` | so do fixups: they wait for just the operands without a value |
| `Patching` | a fixup that is used at a place makes its operand lead there; if that is its goal, jumps still lead where they should |

### Vartab and SymbolTables

A scope that ends drops nodes from the head of the list up to the first of another scope.
That this is where the scope began needs two facts, of which `vartab.c` checks neither: no older
node is of a scope that is not open (`Settled`), and nothing is entered but at the head and
with the counters of the moment (`EnteredSince`).

| Theorem | States |
|---|---|
| `ScopeEnds`, `SubscopeEnds` | under these two facts, the end of a function or block gives back the table from before it |
| `EnteringKeepsScopesApart` | every way to enter a name keeps the two facts |
| `EnteringHidesItsNameOnly` | the last entry of a name is what it stands for; other names keep their meaning |

These are about single operations.  The next ones are about the sequences of grammar
actions that `SymbolTables` allows: any names, any bounds, any nesting of blocks, functions and
modules.  They assume `Uses = {}`; section 5 has, for each of the uses, the property that fails
with it.

A table `Agrees` with the open blocks if each name and operator is found in it as the
blocks mean it (`View` is what they say of a name, `Finds` what a node must say to match).
That is not inductive: the end of a block uncovers nodes on which a table that only
agrees now says nothing.  `AgreesToTheEnd` therefore asks that the table that is left when the
innermost block ends agrees with the blocks that are left, and so on down to the last.  It is
stated as a set of tables and blocks that is closed under ending, so that it needs no
induction over the depth of the blocks.  The invariant `Ind` says

- `TablesFit`: each of the four tables agrees to the end with the blocks of the current module;
- `EnclosingFits`: each of the tables that were put aside agrees with the block its module was
  begun in;
- `BlocksFit`: just the outermost block is a module or the program, what was imported comes
  from modules that the block uses, and a name of a module stands for the compiled one;
- `PublishedFits`, `CompiledFit`: the tables in the node of a module show just what was declared at its top
  (`Shows`), and no two modules show the same declaration, without which a name that is taken
  over could count as imported twice;
- `ModulesFit`: the stack of modules goes with that of the blocks around them;
- `FilesFit`: a file that is read was opened outside of functions, in blocks that are still open;
  without this the names it brings would be entered in the scope of a function;
- `RefusesOnlyClashes`.

Each grammar action has a lemma that it keeps `Ind`.  What is entered for one name changes the
view of that name only (`EnteringHidesItsNameOnly`), and for the view of the name itself there
is a lemma for each way to enter: a declaration, a name that is imported, the node of a
module.  Copying the table of a module enters its nodes one by one, as a
recursive function of the number of nodes; the least number for which the table would not agree
with the declarations taken over so far (`LeastNatural`) takes the place of the induction.
TLC has checked `Ind`, with a recursive operator for `AgreesToTheEnd`, on constants smaller than
those of `SymbolTables`.

| Theorem | States |
|---|---|
| `SymbolsInvariance` | `Spec => []Ind`, if `Uses = {}` |
| `NamesMeanWhatTheyShould` | `FindsWhatIsMeant`, if `Uses = {}` |
| `OnlyClashesAreRefused` | `RefusesOnlyClashes`, if `Uses = {}` |

### Only model-checked

- `BcHeap` with destructors that allocate or raise (`HeapExit`): a walk can then start inside another one.
- `Interpreter` with destructors that raise (`Stacks`): the stacks then keep what the destructor
  has pushed, and another invariant would be needed.
- `Fixups`: its invariants are about folds and filters of sequences of any length, which ask for
  induction over data.  The theorems on `Thrcode` are the part of the argument that does not.
- `OpcodeMachine`: the opcodes are the three fixed tables of the variants, and the run goes through
  all of them; a proof could add only longer arrays and lists.
- All liveness, which is out of the prover's reach.

## 5. Limits, and disagreements met on the way

A passing run with a restricted `Features` or `Uses` speaks only of programs inside that
restriction.  `Collections` leaves out destructors that allocate, collect, publish or raise;
`HeapExit` allows allocation and raising, but under `GC_NEVER` and without `GCOLLECT`, so
destructors run only after the program and no walk starts in another; `Control` has none of `Uses`; `Stacks` has raising
destructors only; `Fixups` and `SymbolTables` have none of their `Uses`.  The reason
is always a violation run above or one of these, which can be reproduced by changing the
constants (for `SymbolTables`, "both" are its two properties):

| Constants | Property that fails | Code |
|---|---|---|
| the constants of `Collections` | `NoDanglingReference` of `BcHeap`, for the references of a destructor | the sweep may already have freed the block the field leads to (bcalloc.c:291) |
| `Uses = {"destructor raises"}` | `DestructorIsTransparent` | fp, sp and ep are not put back (run.c:678) |
| `Uses = {"destructor grows"}` | `NoStaleHandler` | the handlers on `save_xp` are not adjusted (run.c:270) |
| `Uses = {"return from catch"}` | `XpDescribesOpenTries` | a return in a catch block emits a `RESTORE` for the try whose handler is already popped (grammar.y:2346-2351; run.h:152-154) |
| `Uses = {"define in try"}` | `XpDescribesOpenTries` | a return in a function that is defined inside a try body emits a `RESTORE` for that try (grammar.y:2346-2351) |
| `Uses = {"return from loops"}` | `EvalStackIsBalanced` | `return` drops the counters of at most the innermost loop (grammar.y:9877-9893) |
| `Features = {"self", "allocate", "collect"}`, `GC_ALWAYS` | `NoAssertionFails` | a nested collection marks from a destructor's reference to a freed block (bctraverse.c:60) |
| `Features = {"self", "raise", "collect"}` | `NoAssertionFails` | the frame of a raising destructor stays on the stacks and is scanned later |
| the constants of `HeapExit` with `"nest"` | `NoAssertionFails` | the blocks on the detached list are not reset (bcalloc.c:349), so a collection in a finaliser does not go through the fields of theirs that are counted (bctraverse.c:66), and frees new blocks that only these lead to |
| the constants of `Collections` with `"nest"` | `NoAssertionFails`, `DestructorBeforeFree` | the same with `GCOLLECT` in a destructor (tcodes.c:6252) as with an allocation that collects |
| `Features = {"allocate", "collect"}`, `GC_ALWAYS` | `DestructorBeforeFree` | a nested collection frees objects without their destructors, because `in_gc` is set (run.c:699) |
| `Fixups`: `Bounds = {(0,0,3,1,1)}`, functions of one name in and around a module | `CallsGoHome` | `compiler_begin_module()` puts aside the calls that wait in the current code only (grammar.y:5956; thrcode.c:106 says the lists are pushed "when a new module is being compiled"): a call that waits in the code of the functions is patched with a function of the module |
| `Fixups`: `"undefined call in module"` | `NoAssertionFails` | a module is left with a call that waits: `compiler_end_module()` (grammar.y:5982) asserts that there is none (thrcode.c:290), so a module whose top-level code calls a function that it declares and never defines ends the compiler by the assertion, where outside of modules the call is reported (grammar.y:5785) |
| `Fixups`: `"shadowed label"` | `JumpsGoHome` | fixups of `break` and `continue` are found by name, so the inner of two loops of one label takes those of the outer one that wait (thrcode.c:792, 812) |
| `Fixups`: `"continue in step"` | `NothingLeftOpen` | `continue` in the step of a for loop waits on the list of the code of the step, which is merged after the fixups of the loop have been used (grammar.y:10161-10162) |
| `SymbolTables`: `"for lvariable in"` | `FindsWhatIsMeant` | this form of the loop begins a subscope (grammar.y:10026) and does not end it (grammar.y:10436-10507): what the block around it declares stays visible after it |
| `"declare in block of module"` | both | a module exports what is declared while the counter of functions is 0, in blocks and loops, too (grammar.y:1289); the second loop variable of a name is refused |
| `"repeat exception in function"` | `FindsWhatIsMeant`; both with 3 declarations, a function and a module | an exception that is refused in a function of a module has no scope, which is taken for the top level (grammar.y:1563): the module shows it, and refuses a later declaration of the name at its top |
| `"constant in body of module"` | `FindsWhatIsMeant` | constants are exported without a look at the scope (grammar.y:1337) |
| `"function named as outer one"` | both | a function is refused as "already declared in this scope" when a scope around has the name (grammar.y:4477-4483) |
| `"operator before use"` | `FindsWhatIsMeant` | names only are compared, so an own operator hides all imported ones of its name, whatever their arguments (vartab.c:316) |
| `"use twice"` | `FindsWhatIsMeant` | names of a module that is used again become ambiguous with themselves, where vartab.c:31-32 counts imports "from different modules" |
| `"import imported module"` | `FindsWhatIsMeant` | `import` of a module whose name came with another one counts both (vartab.c:274, 292) |
| `"import beside forward type"` | `FindsWhatIsMeant` | an imported type without a description makes later imports of its name vanish ("A forward declaration must be overriden", typetab.c:244), and its ambiguity is not seen |
| `"repeat module name"` | both | one table of compiled modules serves the whole program: a module in another one cannot have the name of a module elsewhere (grammar.y:5959) |

The opcodes that the properties of `OpcodeMachine` name:

- `UsesNull`, `UsesFreed`: opcodes that follow a null operand without a check, among them
  `FCLOSE`, `SSPRINTF`, the packing opcodes and `VCALL`; `APOP` goes on with an array that
  raising has taken off the stack, and the collector may have freed.
- `RaisesAndGoesOn`: `CHECKREF`, `APOP`, `DEEPCLONE`, `STDREAD` and `STRUNPACKMDARRAY` do not
  return 0 at once after an exception has set ip, sp and ep to the handler's; what they
  still do is done to the stacks of the handler.
- `ReturnsOdd`: what is returned is not the length of the opcode: `MEMCPY` returns 1 for a
  null operand, though a word follows it, `FILLARRAY` returns 0 for a null array, as if it
  had raised; the unpacking opcodes return 1 or 2 after an exception inside `pack.c`.
- `LeavesOdd`: the comment and the function differ.  `FILLARRAY` is documented as
  `value, array_ref -->` and leaves the array; `HASHVAL` leaves the reference of the table in
  the cell of a number; `FREAD` and `FWRITE` leave both operands when the blob is null.
- `LeavesStale`: the reference of a popped cell stays above ep, or beside a number, where ST
  takes care to clear it ("must zero ptr, since the stored stackcell could have been
  reference", tcodes.c:651): `PEQBOOL` and `PNEBOOL` (tcodes.c:4408), `RTOR`, `STRPACK`,
  `VCALL`.

More that is plain from reading: after a sweep that frees the head, `prev` of the next
block is not its predecessor (alloccell.h:26, bcalloc.c:287, 293); `GCOLLECT` reports
the result of the second of its two sweeps, which finds nothing (tcodes.c:6249,
6261-6262); a reference to a file is dropped with `DROP` after `SFILEREADLN` and `SWAP`
(grammar.y:13373, 13409); the zero-length jump of a comprehension lands with another
stack than its target has (grammar.y:14228); `catch` clauses of `module::name` are told
by the module alone (grammar.y:5511-5524); `use M in "file"` of a module that is known
keeps the file name for the next `use` (grammar.y:6119).

What the models leave out of the parts they cover:

- `BcHeap`: the layout of blocks (references before or after the header, arrays of
  arrays), and the conservative scan of the stacks by address range (run.c:622), which
  is a set of roots here; the blocks of C libraries.
- `Interpreter`: operands on the evaluation stack other than loop counters, messages of
  exceptions and the choice between catch clauses (grammar.y:10753), the safety margins
  of the stacks, tracing, argument vectors.
- Both: exceptions raised by C code inside an opcode count as raised by the program.
- `OpcodeMachine`: the opcodes for arithmetic, which are generated from templates; the values
  of numbers and strings; what follows an opcode.
- `Fixups`: code other than jumps and calls; `break` in a named function inside a loop; named
  functions in functions; that `jz` operators of user types are longer than a word
  (grammar.y:3799).  `elsif` is the same code as a nested `if`.  An error ends the parse in the
  model; the compiler goes on to find more.
- `SymbolTables`: modules with parameters, file names or synonyms, types that are taken over by name,
  suffixes of types, enumerations that are extended, the default variables `$_` and `$ARG` of `<>`
  loops (grammar.y:13301, 13347: they have no scope before they are entered, as exceptions, so
  those of nested loops in a function of a module are exported as well), prototypes (calls and definitions of them
  are in `Fixups`), and a file that uses itself.  A compound statement stands for every
  block whose subscope is begun and ended by its rule.
- `printf`-style dumps of every part.

Not modelled at all: the components with status `not_modelled` in `PROJECT.json`; the
lexer, constants, packing, formats and libraries because they are conversions or
input and output; the other ones because they come later in the plan.

## 6. Plan

In order of importance, with what each is to show:

1. `SLList` and `NodeGraph` (`sllist.c`, `dnode.c`, `tnode.c`, `delete_compiler` of
   grammar.y): shared lists and nodes with counts, cycle breaking and final deletion.
   To be proved: an object is freed when, and only when, its count says so.
2. Modules with parameters, file names and synonyms in `SymbolTables`, and errors in the
   middle of a file (the lists of `COMPILER_STATE`).
3. `TypeCompat` and `GetOptions`: pure operators against reference definitions over bounded
   inputs.
4. Proofs: `Interpreter` and `BcHeap` with destructors that raise; `JumpsGoHome` from
   the theorems on merging and patching; `SymbolTables` with each of its `Uses` as the code
   behaves, against a weaker `Meant`.

Done so far, in this order: string pool, traversal, heap, interpreter; then opcodes, fixups,
symbol tables, and the proofs of ownership, traversal, merging, scopes,
the heap and the registers; last, that the interpreter implements structured control flow, and
that names mean what they should.

Small runs of new modules will be joined where two questions share an instance, so that
each run still asks one thing.
