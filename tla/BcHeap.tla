------------------------------- MODULE BcHeap -------------------------------
(***************************************************************************)
(* The garbage collected heap of the bytecode interpreter:                 *)
(* starta/interpreters/packed-type/bcalloc.c with the marking and the      *)
(* destructor calls of starta/run.c.                                       *)
(*                                                                         *)
(* Every block is on one list that starts at `allocated'.  A collection    *)
(* resets the mark of every block on the list, marks what the stacks can   *)
(* reach, and walks the list freeing what is not marked.  Before a block   *)
(* with a destructor is freed, a sub-interpreter runs the destructor in    *)
(* the middle of that walk, and the destructor is a Starta program like    *)
(* any other: it can load and store references and allocate, and when it   *)
(* allocates, a second collection may run inside the first.                *)
(*                                                                         *)
(* `gc' is the stack of the walks that are under way.  The interrupted     *)
(* program takes no step while it is not empty.                            *)
(***************************************************************************)
EXTENDS Integers, Sequences, FiniteSets, Reachability

CONSTANTS
    Node,         \* the addresses calloc() may return
    NULL,
    NRef,         \* number of reference fields of a record or an object
    Kinds,        \* of "object" (its class has a destructor), "record", "blob"
    Policies,     \* the GC policies the program may switch between
    Features,     \* what the program does, see below
    MaxSize,      \* bound: the largest blob
    MaxCycles     \* bcalloc.c:320, 1000 there

(* "collect": the program calls the collector itself, by opcode GCOLLECT.  *)
(* The others are about its destructors, which may                         *)
(*   "self"     load the fields of the object that is destroyed,           *)
(*   "publish"  store a reference to a dying block where the program finds *)
(*              it,                                                        *)
(*   "allocate" allocate blocks,                                           *)
(*   "nest"     call the collector by GCOLLECT,                            *)
(*   "raise"    end with an exception.                                     *)
ASSUME BcHeapAssumption ==
    /\ NULL \notin Node /\ IsFiniteSet(Node)
    /\ NRef \in Nat /\ MaxSize \in Nat \ {0} /\ MaxCycles \in Nat
    /\ Kinds \subseteq {"object", "record", "blob"}
    /\ Policies \subseteq {"GC_ON_LIMIT_HIT", "GC_ALWAYS", "GC_NEVER"}
    /\ Features \subseteq {"collect", "self", "publish", "allocate", "nest", "raise"}

VARIABLES
    (* the blocks: what alloccell_t holds, and the fields after it *)
    mem,        \* "live" while the magic number is in place, or "free"
    kind,       \* an "object" has vmt_offset # 0
    size, refs, next, prev,
    used,       \* the blocks with AF_USED set
    rcount,     \* how many fields bctraverse() has been through
    (* the statics of bcalloc.c *)
    allocated, total_allocated_bytes, byte_allocation_limit, gc_policy,
    (* the interpreter *)
    roots,      \* the blocks the program's stacks refer to
    droots,     \* those the frame of the running destructor refers to
    builder,    \* the blob an opcode is still filling, or NULL
    program,    \* "running", "exiting", "done", or "bailed" by exit( 98 )
    finalised,  \* the list bcalloc_run_all_destructors() has detached
    cycles,     \* its loop counter
    gc,         \* the walks under way, the innermost first
    failed      \* the assertion that failed, or NULL

blockVars == <<mem, kind, size, refs, next, prev, used, rcount>>
listVars  == <<allocated, total_allocated_bytes, byte_allocation_limit, gc_policy>>
codeVars  == <<roots, droots, builder>>
exitVars  == <<program, finalised, cycles>>
vars == <<blockVars, listVars, codeVars, exitVars, gc, failed>>

Live == {n \in Node : mem[n] = "live"}
NoRefs == [i \in 1 .. NRef |-> NULL]

Init ==
    /\ mem = [n \in Node |-> "free"]
    /\ kind = [n \in Node |-> "blob"]
    /\ size = [n \in Node |-> 0]
    /\ refs = [n \in Node |-> NoRefs]
    /\ next = [n \in Node |-> NULL]
    /\ prev = [n \in Node |-> NULL]
    /\ used = {}
    /\ rcount = [n \in Node |-> 0]
    /\ allocated = NULL
    /\ total_allocated_bytes = 0
    /\ byte_allocation_limit = 0
    /\ gc_policy \in Policies
    /\ roots = {} /\ droots = {} /\ builder = NULL
    /\ program = "running" /\ finalised = NULL /\ cycles = 0
    /\ gc = << >>
    /\ failed = NULL

-----------------------------------------------------------------------------
(* Walks.  `prev', `curr' and `next' are the locals of bccollect(); `job'  *)
(* is what waits for the walk to end.                                      *)

Walk(at, start, job) ==
    [at |-> at, prev |-> NULL, curr |-> start, next |-> NULL,
     reclaimed |-> 0, job |-> job]

Job(op) == [op |-> op, kind |-> "blob", size |-> 0]
AllocJob(k, s) ==
    [op |-> IF gc_policy = "GC_ALWAYS" THEN "bcalloc" ELSE "bcalloc_on_limit",
     kind |-> k, size |-> s]

top == Head(gc)
At(at) == gc # << >> /\ top.at = at
InDestructor == At("destructor") \/ At("finaliser")
in_gc == \E i \in 1 .. Len(gc) : gc[i].at \in {"destructor", "finaliser"}

\* Starta code runs: the program, or a destructor.
CodeRuns == failed = NULL /\ ((gc = << >> /\ program = "running") \/ InDestructor)

Cells == roots \cup droots

\* The blocks a list leads through from n.
Chain(n) == Closure({n} \ {NULL}, [m \in Node |-> {next[m]} \ {NULL}])

-----------------------------------------------------------------------------
(* Marking: bcalloc_reset_allocated_nodes(), then bctraverse() from every  *)
(* reference on the stacks.  A traversal goes on from field number rcount  *)
(* of a block and skips fields that lead to a block with AF_USED set, so   *)
(* what it reaches depends on what earlier collections left in blocks that *)
(* are not on the list.                                                    *)

nref(n) == IF kind[n] = "blob" THEN 0 ELSE NRef

\* Mutant: the first field is taken to have been through already.
UntraversedSkipsOne(n, count) == {refs[n][i] : i \in count[n] + 2 .. nref(n)} \ {NULL}

Untraversed(n, count) == {refs[n][i] : i \in count[n] + 1 .. nref(n)} \ {NULL}

Traverse(S, count, marked) ==
    Closure(S, [n \in Node |-> Untraversed(n, count) \ marked])

\* thrcode_gc_mark_and_sweep up to the call of bccollect().
MarkFrom(S) ==
    LET listed == Chain(allocated)
        count  == [n \in Node |-> IF n \in listed THEN 0 ELSE rcount[n]]
        marked == used \ listed
        reach  == Traverse(S, count, marked)
    IN  IF reach \subseteq Live
        THEN /\ used' = marked \cup reach
             /\ rcount' = [n \in Node |-> IF n \in reach THEN nref(n) + 1 ELSE count[n]]
             /\ prev' = [n \in Node |-> IF n \in listed THEN NULL ELSE prev[n]]
             /\ failed' = NULL
        ELSE failed' = "bctraverse" /\ UNCHANGED <<used, rcount, prev>>

-----------------------------------------------------------------------------
(* Allocation.                                                             *)

\* The end of bcalloc(): calloc() returns block n, which becomes the head
\* of the list.  The reference is left where the running code finds it.
Calloc(n, k, s, total, rest) ==
    /\ mem' = [mem EXCEPT ![n] = "live"]
    /\ kind' = [kind EXCEPT ![n] = k]
    /\ size' = [size EXCEPT ![n] = s]
    /\ refs' = [refs EXCEPT ![n] = NoRefs]
    /\ next' = [next EXCEPT ![n] = allocated]
    /\ prev' = [m \in Node |-> IF m = allocated THEN n
                               ELSE IF m = n THEN NULL ELSE prev[m]]
    /\ used' = used \ {n}
    /\ rcount' = [rcount EXCEPT ![n] = 1]
    /\ allocated' = n
    /\ total_allocated_bytes' = total + s
    /\ IF rest = << >>
       THEN roots' = roots \cup {n} /\ UNCHANGED droots
       ELSE droots' = droots \cup {n} /\ UNCHANGED roots
    /\ builder' = IF k = "blob" THEN n ELSE NULL

\* calloc() may fail at any time; the exception of BC_CHECK_PTR() leaves the
\* heap as it is.
CallocFails(total) ==
    /\ total_allocated_bytes' = total
    /\ builder' = NULL
    /\ UNCHANGED <<blockVars, allocated, roots, droots>>

NeedsCollection(s) ==
    \/ gc_policy = "GC_ALWAYS"
    \/ /\ gc_policy = "GC_ON_LIMIT_HIT"
       /\ total_allocated_bytes + s > byte_allocation_limit

MayAllocate == CodeRuns /\ (InDestructor => "allocate" \in Features)

\* bcalloc() when no collection is due.
Bcalloc(k, s) ==
    /\ MayAllocate
    /\ ~ NeedsCollection(s)
    /\ \/ \E n \in Node \ Live : Calloc(n, k, s, total_allocated_bytes, gc)
       \/ CallocFails(total_allocated_bytes)
    /\ UNCHANGED <<byte_allocation_limit, gc_policy, exitVars, gc, failed>>

StartCollection(job) ==
    /\ MarkFrom(Cells)
    /\ gc' = <<Walk("sweep", allocated, job)>> \o gc
    /\ builder' = NULL
    /\ UNCHANGED <<mem, kind, size, refs, next, listVars, roots, droots, exitVars>>

\* bcalloc() when a collection comes first.
BcallocCollects(k, s) ==
    /\ MayAllocate
    /\ NeedsCollection(s)
    /\ StartCollection(AllocJob(k, s))

\* Opcode GCOLLECT.
Gcollect ==
    /\ CodeRuns
    /\ (IF InDestructor THEN "nest" ELSE "collect") \in Features
    /\ StartCollection(Job("GCOLLECT"))

-----------------------------------------------------------------------------
(* bccollect(): one step per block of the list.                            *)

Sweeping(n) == failed = NULL /\ At("sweep") /\ top.curr = n
\* Mutants: the walk ends with the first block it frees, or stays there.
AdvanceToEnd(walk) == [walk EXCEPT !.curr = NULL]
AdvanceNowhere(walk) == walk

Advance(walk) == [walk EXCEPT !.curr = walk.next]

\* A marked block stays.
KeepBlock(n) ==
    /\ Sweeping(n) /\ n \in used
    /\ prev' = [prev EXCEPT ![n] = top.prev]
    /\ gc' = <<[top EXCEPT !.prev = n, !.curr = next[n]]>> \o Tail(gc)
    /\ UNCHANGED <<mem, kind, size, refs, next, used, rcount, listVars, codeVars,
                   exitVars, failed>>

\* bcfree(), which asserts the magic number; what is left in the block
\* afterwards is of no use to anybody.
Bcfree(n) ==
    IF n \in Live
    THEN /\ mem' = [mem EXCEPT ![n] = "free"]
         /\ kind' = [kind EXCEPT ![n] = "blob"]
         /\ size' = [size EXCEPT ![n] = 0]
         /\ refs' = [refs EXCEPT ![n] = NoRefs]
         /\ rcount' = [rcount EXCEPT ![n] = 0]
         /\ used' = used \ {n}
         /\ failed' = NULL
    ELSE failed' = "bcfree" /\ UNCHANGED <<mem, kind, size, refs, rcount, used>>

\* The block is taken off the list.  At the head of the list the local
\* `prev' becomes the block that follows.
Unlinked(n) ==
    [top EXCEPT !.next = next[n],
                !.prev = IF n = allocated THEN next[n] ELSE top.prev,
                !.reclaimed = top.reclaimed + size[n]]

\* Mutants: the head of the list, or a block further on, is not taken off it.
UnlinkKeepsHead(n) ==
    IF n = allocated
    THEN UNCHANGED <<allocated, next, prev>>
    ELSE /\ next' = [next EXCEPT ![top.prev] = next[n]]
         /\ UNCHANGED <<allocated, prev>>
UnlinkHeadOnly(n) ==
    /\ allocated' = IF n = allocated THEN next[n] ELSE allocated
    /\ UNCHANGED <<next, prev>>

Unlink(n) ==
    IF n = allocated
    THEN allocated' = next[n] /\ UNCHANGED <<next, prev>>
    ELSE /\ next' = [next EXCEPT ![top.prev] = next[n]]
         /\ prev' = IF next[n] = NULL THEN prev ELSE [prev EXCEPT ![next[n]] = top.prev]
         /\ UNCHANGED allocated

\* Mutant: in_gc stays set after the first destructor of a walk.
RunsDestructorOnce(n) == kind[n] = "object" /\ ~ in_gc /\ top.reclaimed = 0

RunsDestructor(n) == kind[n] = "object" /\ ~ in_gc

\* An unmarked block without a destructor, or one that is reached while a
\* destructor runs, is freed at once.
FreeBlock(n) ==
    /\ Sweeping(n) /\ n \notin used /\ ~ RunsDestructor(n)
    /\ Unlink(n) /\ Bcfree(n)
    /\ gc' = <<Advance(Unlinked(n))>> \o Tail(gc)
    /\ UNCHANGED <<total_allocated_bytes, byte_allocation_limit, gc_policy, codeVars,
                   exitVars>>

\* thrcode_run_destructor_if_needed(): `self' is pushed and the destructor
\* is called.
StartDestructor(n) ==
    /\ Sweeping(n) /\ n \notin used /\ RunsDestructor(n)
    /\ Unlink(n)
    /\ gc' = <<[Unlinked(n) EXCEPT !.at = "destructor"]>> \o Tail(gc)
    /\ droots' = {n}
    /\ UNCHANGED <<mem, kind, size, refs, used, rcount, total_allocated_bytes,
                   byte_allocation_limit, gc_policy, roots, builder, exitVars, failed>>

\* A destructor that returns takes its frame along; the frame of one that
\* ends with an exception stays on the stacks, where sp and ep still are.
LeaveDestructor ==
    \/ droots' = {} /\ UNCHANGED roots
    \/ "raise" \in Features /\ roots' = Cells /\ droots' = {}

EndDestructor ==
    /\ failed = NULL /\ At("destructor")
    /\ LeaveDestructor
    /\ Bcfree(top.curr)
    /\ gc' = <<[Advance(top) EXCEPT !.at = "sweep"]>> \o Tail(gc)
    /\ builder' = NULL
    /\ UNCHANGED <<next, prev, listVars, exitVars>>

\* Mutants: what the walk has reclaimed is forgotten, or subtracted twice.
TotalUnchanged == total_allocated_bytes
TotalTooSmall == total_allocated_bytes - 2 * top.reclaimed

\* The end of the walk, and what waited for it: bcalloc() goes on, GCOLLECT
\* calls bccollect() once more and reports what that call returns, and so
\* does interpret() at its end.
TotalAfter == total_allocated_bytes - top.reclaimed

EndOfWalk(ops) == Sweeping(NULL) /\ top.job.op \in ops

EndBcalloc ==
    /\ EndOfWalk({"bcalloc", "bcalloc_on_limit"})
    /\ byte_allocation_limit' =
         IF top.job.op = "bcalloc" THEN byte_allocation_limit
         ELSE 2 * (TotalAfter + top.job.size)
    /\ \/ \E n \in Node \ Live :
            Calloc(n, top.job.kind, top.job.size, TotalAfter, Tail(gc))
       \/ CallocFails(TotalAfter)
    /\ gc' = Tail(gc)
    /\ UNCHANGED <<gc_policy, exitVars, failed>>

Again(op) == IF op = "GCOLLECT" THEN "GCOLLECT_again" ELSE "interpret_again"

SweepAgain ==
    /\ EndOfWalk({"GCOLLECT", "interpret"})
    /\ total_allocated_bytes' = TotalAfter
    /\ gc' = <<Walk("sweep", allocated, Job(Again(top.job.op)))>> \o Tail(gc)
    /\ UNCHANGED <<blockVars, allocated, byte_allocation_limit, gc_policy, codeVars,
                   exitVars, failed>>

EndGcollect ==
    /\ EndOfWalk({"GCOLLECT_again"})
    /\ total_allocated_bytes' = TotalAfter
    /\ gc' = Tail(gc)
    /\ UNCHANGED <<blockVars, allocated, byte_allocation_limit, gc_policy, codeVars,
                   exitVars, failed>>

EndInterpret ==
    /\ EndOfWalk({"interpret_again"})
    /\ total_allocated_bytes' = TotalAfter
    /\ program' = "done"
    /\ gc' = << >>
    /\ UNCHANGED <<blockVars, allocated, byte_allocation_limit, gc_policy, codeVars,
                   finalised, cycles, failed>>

-----------------------------------------------------------------------------
(* bcalloc_run_all_destructors(), when the program has ended.              *)

\* The list is detached, and its destructors run without anything being freed.
Detach ==
    /\ finalised' = allocated
    /\ allocated' = NULL
    /\ gc' = <<Walk("final", allocated, Job("interpret"))>>

ExitProgram ==
    /\ failed = NULL /\ gc = << >> /\ program = "running"
    /\ program' = "exiting"
    /\ Detach
    /\ builder' = NULL
    /\ UNCHANGED <<blockVars, total_allocated_bytes, byte_allocation_limit, gc_policy,
                   roots, droots, cycles, failed>>

Finalising(n) == failed = NULL /\ At("final") /\ top.curr = n

SkipFinalised(n) ==
    /\ Finalising(n) /\ ~ RunsDestructor(n)
    /\ gc' = <<[top EXCEPT !.curr = next[n]]>>
    /\ UNCHANGED <<blockVars, listVars, codeVars, exitVars, failed>>

StartFinaliser(n) ==
    /\ Finalising(n) /\ RunsDestructor(n)
    /\ gc' = <<[top EXCEPT !.at = "finaliser"]>>
    /\ droots' = {n}
    /\ UNCHANGED <<blockVars, listVars, roots, builder, exitVars, failed>>

\* vmt_offset is cleared, so that the destructor does not run again.
EndFinaliser ==
    /\ failed = NULL /\ At("finaliser")
    /\ LeaveDestructor
    /\ kind' = [kind EXCEPT ![top.curr] = "record"]
    /\ gc' = <<[top EXCEPT !.at = "final", !.curr = next[top.curr]]>>
    /\ builder' = NULL
    /\ UNCHANGED <<mem, size, refs, next, prev, used, rcount, listVars, exitVars, failed>>

\* The list ends: exit( 98 ) after too many rounds; another round when the
\* destructors have allocated; otherwise the stacks are zeroed and the heap
\* is collected for the last time.
Bail ==
    /\ Finalising(NULL) /\ cycles + 1 >= MaxCycles
    /\ program' = "bailed" /\ gc' = << >>
    /\ UNCHANGED <<blockVars, listVars, codeVars, finalised, cycles, failed>>

AnotherRound ==
    /\ Finalising(NULL) /\ cycles + 1 < MaxCycles /\ allocated # NULL
    /\ LET last == CHOOSE n \in Chain(allocated) : next[n] = NULL
       IN  next' = [next EXCEPT ![last] = finalised]
    /\ Detach
    /\ cycles' = cycles + 1
    /\ UNCHANGED <<mem, kind, size, refs, prev, used, rcount, total_allocated_bytes,
                   byte_allocation_limit, gc_policy, codeVars, program, failed>>

\* The last mark and sweep starts from zeroed stacks.
LastCollection ==
    /\ Finalising(NULL) /\ cycles + 1 < MaxCycles /\ allocated = NULL
    /\ allocated' = finalised /\ finalised' = NULL
    /\ LET listed == Chain(finalised)
       IN  /\ used' = used \ listed
           /\ rcount' = [n \in Node |-> IF n \in listed THEN 0 ELSE rcount[n]]
           /\ prev' = [n \in Node |-> IF n \in listed THEN NULL ELSE prev[n]]
    /\ roots' = {} /\ droots' = {}
    /\ gc' = <<Walk("sweep", finalised, Job("interpret"))>>
    /\ UNCHANGED <<mem, kind, size, refs, next, total_allocated_bytes,
                   byte_allocation_limit, gc_policy, builder, program, cycles, failed>>

-----------------------------------------------------------------------------
(* bcrealloc_blob(), which opcodes call on a blob they are still filling.  *)

Moved(S, n, m) == IF n \in S THEN (S \ {n}) \cup {m} ELSE S

\* The block the opcode fills leaves the list ...
NextWithout(n) == IF prev[n] = NULL THEN next ELSE [next EXCEPT ![prev[n]] = next[n]]
PrevWithout(n) == IF next[n] = NULL THEN prev ELSE [prev EXCEPT ![next[n]] = prev[n]]
\* Mutant: the head of the list stays its head.
HeadWithoutMove(n) == allocated
HeadWithout(n) == IF n = allocated THEN next[n] ELSE allocated

CanRealloc(n) == CodeRuns /\ builder = n

\* ... realloc() moves it with its header - and the old `prev' - to m, and it
\* becomes the head of the list.
BcreallocBlob(n, m, s) ==
    LET head   == HeadWithout(n)
        prevIn == [PrevWithout(n) EXCEPT ![m] = PrevWithout(n)[n]]
    IN  /\ CanRealloc(n)
        /\ m \in {n} \cup (Node \ Live)
        /\ mem' = [mem EXCEPT ![n] = "free", ![m] = "live"]
        /\ size' = [size EXCEPT ![n] = 0, ![m] = s]
        /\ used' = Moved(used, n, m)
        /\ rcount' = [rcount EXCEPT ![n] = 0, ![m] = rcount[n]]
        /\ next' = [NextWithout(n) EXCEPT ![m] = head]
        /\ prev' = IF head = NULL THEN prevIn ELSE [prevIn EXCEPT ![head] = m]
        /\ allocated' = m
        /\ total_allocated_bytes' = total_allocated_bytes + s - size[n]
        /\ roots' = Moved(roots, n, m)
        /\ droots' = Moved(droots, n, m)
        /\ builder' = m
        /\ UNCHANGED <<kind, refs, byte_allocation_limit, gc_policy, exitVars, gc, failed>>

\* realloc() fails: the block is put back at the head as it was.
BcreallocBlobFails(n) ==
    /\ CanRealloc(n)
    /\ next' = [NextWithout(n) EXCEPT ![n] = HeadWithout(n)]
    /\ prev' = PrevWithout(n)
    /\ allocated' = n
    /\ builder' = NULL
    /\ UNCHANGED <<mem, kind, size, refs, used, rcount, total_allocated_bytes,
                   byte_allocation_limit, gc_policy, roots, droots, exitVars, gc, failed>>

-----------------------------------------------------------------------------
(* The running code.  It copies references between the fields of blocks    *)
(* and its stacks; the frame of a destructor is apart from the stacks of   *)
(* the program it interrupted, which include the global variables.         *)

Heap == INSTANCE ManagedHeap WITH live <- Live

\* Storing a reference to m where the program can find it is "publishing"
\* m, unless the program could already reach it.
Publishes(m) == InDestructor /\ m \notin Heap!Reach(roots) \cup {NULL}
MayPublish(m) == Publishes(m) => "publish" \in Features

Receive(m) ==
    IF InDestructor THEN droots' = droots \cup {m} /\ UNCHANGED roots
                    ELSE roots' = roots \cup {m} /\ UNCHANGED droots

LoadField(n, i) ==
    /\ CodeRuns
    /\ n \in Cells \cap Live /\ i \in 1 .. nref(n) /\ refs[n][i] # NULL
    /\ InDestructor /\ n \notin roots => "self" \in Features
    /\ Receive(refs[n][i])
    /\ builder' = NULL
    /\ UNCHANGED <<blockVars, listVars, exitVars, gc, failed>>

StoreField(n, i, m) ==
    /\ CodeRuns
    /\ n \in Cells \cap Live /\ i \in 1 .. nref(n) /\ m \in Cells \cup {NULL}
    /\ InDestructor /\ n \in Heap!Reach(roots) => MayPublish(m)
    /\ refs' = [refs EXCEPT ![n][i] = m]
    /\ builder' = NULL
    /\ UNCHANGED <<mem, kind, size, next, prev, used, rcount, listVars, roots, droots,
                   exitVars, gc, failed>>

StoreGlobal(m) ==
    /\ CodeRuns
    /\ InDestructor /\ m \in droots \ roots /\ MayPublish(m)
    /\ roots' = roots \cup {m}
    /\ builder' = NULL
    /\ UNCHANGED <<blockVars, listVars, droots, exitVars, gc, failed>>

\* A variable is overwritten, or a frame is left.
DropReference(n) ==
    /\ CodeRuns
    /\ \/ n \in roots  /\ roots' = roots \ {n}   /\ UNCHANGED droots
       \/ n \in droots /\ droots' = droots \ {n} /\ UNCHANGED roots
    /\ builder' = NULL
    /\ UNCHANGED <<blockVars, listVars, exitVars, gc, failed>>

\* Opcode GCPOLICY, by way of bcalloc_set_gc_collector_policy().
SetPolicy(p) ==
    /\ CodeRuns
    /\ gc_policy' = p
    /\ builder' = NULL
    /\ UNCHANGED <<blockVars, allocated, total_allocated_bytes, byte_allocation_limit,
                   roots, droots, exitVars, gc, failed>>

Code ==
    \/ \E k \in Kinds, s \in 1 .. MaxSize :
         /\ k # "blob" => s = 1
         /\ Bcalloc(k, s) \/ BcallocCollects(k, s)
    \/ \E n \in Node :
         \/ \E m \in Node, s \in 1 .. MaxSize : BcreallocBlob(n, m, s)
         \/ BcreallocBlobFails(n)
    \/ \E n \in Node, i \in 1 .. NRef : LoadField(n, i)
    \/ \E n \in Node, i \in 1 .. NRef, m \in Node \cup {NULL} : StoreField(n, i, m)
    \/ \E n \in Node : StoreGlobal(n) \/ DropReference(n)
    \/ \E p \in Policies : SetPolicy(p)
    \/ Gcollect
    \/ ExitProgram

Collector ==
    \/ \E n \in Node :
         \/ KeepBlock(n) \/ FreeBlock(n) \/ StartDestructor(n)
         \/ SkipFinalised(n) \/ StartFinaliser(n)
    \/ EndBcalloc \/ SweepAgain \/ EndGcollect \/ EndInterpret
    \/ Bail \/ AnotherRound \/ LastCollection

\* A destructor returns or raises.
Return == EndDestructor \/ EndFinaliser

\* Once the program is over, or an assertion has stopped it, nothing happens.
Over == program \in {"done", "bailed"} \/ failed # NULL
Stopped == Over /\ UNCHANGED vars

Next == Code \/ Collector \/ Return \/ Stopped
Spec == Init /\ [][Next]_vars

\* The interpreter does not pause in the middle of a walk, and destructors
\* come to an end.
FairSpec == Spec /\ WF_vars(Collector) /\ WF_vars(Return)

-----------------------------------------------------------------------------
TypeOK ==
    /\ mem \in [Node -> {"live", "free"}]
    /\ kind \in [Node -> {"object", "record", "blob"}]
    /\ size \in [Node -> 0 .. MaxSize]
    /\ refs \in [Node -> [1 .. NRef -> Node \cup {NULL}]]
    /\ next \in [Node -> Node \cup {NULL}] /\ prev \in [Node -> Node \cup {NULL}]
    /\ used \subseteq Node /\ rcount \in [Node -> 0 .. NRef + 1]
    /\ {allocated, finalised, builder} \subseteq Node \cup {NULL}
    /\ total_allocated_bytes \in Nat /\ byte_allocation_limit \in Nat
    /\ gc_policy \in Policies
    /\ roots \subseteq Node /\ droots \subseteq Node
    /\ Len(gc) <= 2
    /\ failed \in {NULL, "bctraverse", "bcfree"}

\* No assertion of the heap fails: the magic numbers of bctraverse.c:60 and
\* bcalloc.c:247, and bcalloc.c:203 on the block that is reallocated.
NoAssertionFails ==
    /\ failed = NULL
    /\ builder # NULL => builder = allocated \/ prev[builder] # NULL

\* Of these, the one that guards against freeing a block twice (bcalloc.c:247).
BcfreeFindsMagic == failed # "bcfree"

\* Whatever the program can reach, and whatever a destructor has loaded, is
\* allocated: the collector takes nothing away that somebody still uses.
NoDanglingReference == Heap!Reach(roots) \cup droots \subseteq Live

\* The list is the heap: the detached list and the list of new blocks have
\* an end, have no block in common, and together hold every live block but
\* the one whose destructor runs in the middle of a sweep.
Dying == {gc[i].curr : i \in {j \in 1 .. Len(gc) : gc[j].at = "destructor"}}
Ends(head) == head = NULL \/ \E n \in Chain(head) : next[n] = NULL

ListIsTheHeap ==
    /\ Chain(allocated) \cup Chain(finalised) = Live \ Dying
    /\ Chain(allocated) \cap Chain(finalised) = {}
    /\ Ends(allocated) /\ Ends(finalised)

\* The byte count is what the live blocks hold, once the bytes that walks
\* have reclaimed and not yet subtracted are taken off (bcalloc.c:289, 298).
\* (A sum of sizes is the number of bytes in the blocks.)
Bytes(sizes, S) == {b \in S \X (1 .. MaxSize) : b[2] <= sizes[b[1]]}
SizeOf(S) == Cardinality(Bytes(size, S))
ReclaimedBy(i) == IF i <= Len(gc) THEN gc[i].reclaimed ELSE 0
Reclaimed == ReclaimedBy(1) + ReclaimedBy(2)

BytesAreAccounted ==
    total_allocated_bytes = SizeOf(Live \ Dying) + Reclaimed

\* A block is freed only after its destructor has run (run.c:695-740).
DestructorBeforeFree ==
    [][\A n \in Node :
        mem[n] = "live" /\ mem'[n] = "free" => kind[n] # "object" \/ n \in Dying]_vars

\* A collection the program asks for leaves only marked blocks, and marks
\* just what the program can reach.
CollectsGarbage ==
    [][/\ gc = << >> /\ gc' # << >> /\ program' = "running" /\ failed' = NULL
             => used' = Heap!Reach(roots)
       /\ gc # << >> /\ gc' = << >> /\ program = "running"
             => \A n \in Live : mem'[n] = "live" => n \in used]_vars

\* After a normal end every block has been freed, destructor and all.
ExitIsClean == program = "done" => Live = {} /\ total_allocated_bytes = 0

\* Every walk ends.
WalksEnd == []<>(gc = << >>)

\* To the program - the destructors apart - the heap is a managed heap.
IsAManagedHeap == Heap!Spec
=============================================================================
