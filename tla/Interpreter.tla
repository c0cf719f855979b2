---------------------------- MODULE Interpreter ----------------------------
(***************************************************************************)
(* The control registers of the bytecode interpreter: starta/run.c, the    *)
(* opcodes of interpreters/packed-type/tcodes.c that change them, and the  *)
(* instructions starta/grammar.y emits for calls, loops, try statements    *)
(* and the jumps out of them.                                              *)
(*                                                                         *)
(* A TRY opcode links a handler record into the chain that starts at xp;   *)
(* the record has copies of fp, sp and ep, which an exception puts back.   *)
(* The stacks may move when they grow, and then every such copy has to be  *)
(* found and adjusted.  When the garbage collector calls a destructor, a   *)
(* sub-interpreter runs on the same stacks with an empty handler chain,    *)
(* the interrupted one being set aside in save_xp.                         *)
(*                                                                         *)
(* The instruction pointer is abstracted to the static context it lies in: *)
(* the loops, try bodies and catch blocks that enclose it in its function, *)
(* which is all the compiler looks at when it emits a jump.  "outer_try"   *)
(* is a try body around the definition of the function.                    *)
(***************************************************************************)
EXTENDS Integers, Sequences, SequencesExt, FiniteSets

CONSTANTS
    Uses,        \* what programs do, see below
    MaxNest,     \* bound: blocks that enclose a point of a function
    MaxCalls,    \* bound: calls, and destructors, with a frame on the stack
    MaxMoves     \* bound: how often each stack moves

(*   "jump out of try"   break or continue leaves a try body               *)
(*   "return from catch" return inside a catch block                       *)
(*   "return from loops" return leaves loops whose counters it keeps       *)
(*   "define in try"     a function is defined inside a try body           *)
(*   "destructor raises" an exception leaves a destructor                  *)
(*   "destructor grows"  a stack moves while a destructor runs             *)
AllUses == {"jump out of try", "return from catch", "return from loops",
            "define in try", "destructor raises", "destructor grows"}

ASSUME InterpreterAssumption ==
    /\ Uses \subseteq AllUses
    /\ {MaxNest, MaxCalls, MaxMoves} \subseteq Nat

VARIABLES
    ctx,      \* ip: the blocks around it, the innermost last
    stack,    \* the call stack from its bottom to sp
    fp,       \* frame pointer: the cell it points to
    ep,       \* height of the evaluation stack, in loops with counters on it
    xp,       \* the chain of handlers, the most recent first
    save_xp,  \* that of the program a destructor interrupted
    in_gc,    \* does a destructor run?
    saved,    \* save_istate of thrcode_run_subroutine(), and sp as it was
    moves,    \* how often the call stack has moved
    emoves,   \* and the evaluation stack
    status    \* "running", "ended", or "crashed" by a wild access

vars == <<ctx, stack, fp, ep, xp, save_xp, in_gc, saved, moves, emoves, status>>

(* A pointer into the call stack is the index of a cell and the number of  *)
(* moves the stack had made when it was made: it is good as long as that   *)
(* number is the current one.                                              *)

Ptr(i) == [cell |-> i, moves |-> moves]

\* Cells: the return address, with the context it lies in; a saved frame
\* pointer; and the variables of a function.
RetCell(c) == [is |-> "ret", ctx |-> c, ptr |-> [cell |-> 0, moves |-> 0]]
FpCell(p)  == [is |-> "fp", ctx |-> << >>, ptr |-> p]
Locals     == [is |-> "locals", ctx |-> << >>, ptr |-> [cell |-> 0, moves |-> 0]]

Nothing == [ctx |-> << >>, fp |-> 0, sp |-> 0, ep |-> 0]

Init ==
    /\ ctx = << >>
    /\ stack = <<Locals>>
    /\ fp = [cell |-> 1, moves |-> 0]
    /\ ep = 0
    /\ xp = << >> /\ save_xp = << >>
    /\ in_gc = FALSE /\ saved = Nothing
    /\ moves = 0 /\ emoves = 0
    /\ status = "running"

Loops == {"for", "while"}
Kinds == Loops \cup {"function", "try", "catch", "outer_try"}

sp == Len(stack)
Allowed(use, condition) == condition => use \in Uses
\* How many of the blocks c, from the i-th on, are of the given kinds.
CountFrom(c, i, kinds) == Cardinality({j \in i .. Len(c) : c[j] \in kinds})
Count(c, kinds) == CountFrom(c, 1, kinds)
Frames(kind) == Len(SelectSeq(stack, LAMBDA cell : cell.is = kind))

Running == status = "running"
Crash == status' = "crashed"
         /\ UNCHANGED <<ctx, stack, fp, ep, xp, save_xp, in_gc, saved, moves, emoves>>

-----------------------------------------------------------------------------
(* Loops: a `for' loop keeps its counters on the evaluation stack.         *)

EnterBlock(b) ==
    /\ Count(ctx, Loops \cup {"try", "catch"}) < MaxNest
    /\ ctx' = Append(ctx, b)
InBlock(b) == ctx # << >> /\ Last(ctx) = b
Counters(c) == Count(c, {"for"})
CountersFrom(i) == CountFrom(ctx, i, {"for"})

EnterLoop(b) ==
    /\ Running
    /\ EnterBlock(b)
    /\ ep' = ep + Counters(<<b>>)
    /\ UNCHANGED <<stack, fp, xp, save_xp, in_gc, saved, moves, emoves, status>>

LeaveLoop(b) ==
    /\ Running /\ InBlock(b)
    /\ ctx' = Front(ctx)
    /\ ep' = ep - Counters(<<b>>)
    /\ UNCHANGED <<stack, fp, xp, save_xp, in_gc, saved, moves, emoves, status>>

\* Mutants: the counter of the loop itself is dropped by a `continue' as
\* well, or kept by a `break' as well.
JumpDropsCounter(i, cut) ==
    /\ Running
    /\ ctx[i] \in Loops
    /\ Allowed("jump out of try", CountFrom(ctx, i, {"try"}) > 0)
    /\ ctx' = SubSeq(ctx, 1, cut)
    /\ ep' = ep - CountersFrom(i)
    /\ UNCHANGED <<stack, fp, xp, save_xp, in_gc, saved, moves, emoves, status>>
JumpKeepsCounter(i, cut) ==
    /\ Running
    /\ ctx[i] \in Loops
    /\ Allowed("jump out of try", CountFrom(ctx, i, {"try"}) > 0)
    /\ ctx' = SubSeq(ctx, 1, cut)
    /\ ep' = ep - CountersFrom(i + 1)
    /\ UNCHANGED <<stack, fp, xp, save_xp, in_gc, saved, moves, emoves, status>>

\* compiler_compile_break and compiler_compile_continue for the loop at
\* index i: the counters of the loops that are left are dropped, and ip
\* jumps.  The handlers of try bodies that are left stay where they are.
Jump(i, cut) ==
    /\ Running
    /\ ctx[i] \in Loops
    /\ Allowed("jump out of try", CountFrom(ctx, i, {"try"}) > 0)
    /\ ctx' = SubSeq(ctx, 1, cut)
    /\ ep' = ep - CountersFrom(cut + 1)
    /\ UNCHANGED <<stack, fp, xp, save_xp, in_gc, saved, moves, emoves, status>>

Break(i) == Jump(i, i - 1)
Continue(i) == Jump(i, i)

-----------------------------------------------------------------------------
(* Try statements.                                                         *)

\* TRY: the handler remembers where its catch list is and the registers.
Handler ==
    [ctx |-> Append(ctx, "catch"), fp |-> fp, sp |-> Ptr(sp),
     ep |-> [cell |-> ep, moves |-> emoves]]

EnterTry ==
    /\ Running
    /\ EnterBlock("try")
    /\ xp' = <<Handler>> \o xp
    /\ UNCHANGED <<stack, fp, ep, save_xp, in_gc, saved, moves, emoves, status>>

\* RESTORE, n times over; it follows old_xp of whatever xp points to.
Restore(n) == n <= Len(xp) /\ xp' = SubSeq(xp, n + 1, Len(xp))

LeaveTry ==
    /\ Running /\ InBlock("try")
    /\ IF xp = << >> THEN Crash
       ELSE /\ Restore(1)
            /\ ctx' = Front(ctx)
            /\ UNCHANGED <<stack, fp, ep, save_xp, in_gc, saved, moves, emoves, status>>

LeaveCatch ==
    /\ Running /\ InBlock("catch")
    /\ ctx' = Front(ctx)
    /\ UNCHANGED <<stack, fp, ep, xp, save_xp, in_gc, saved, moves, emoves, status>>

\* interpret_raise_exception with a handler to go to.  Cells of the call
\* stack that the handler restores but that are gone hold anything; an
\* evaluation stack below that of the handler makes the memset() run wild.
Good(h) == h.fp.moves = moves /\ h.sp.moves = moves /\ h.ep.moves = emoves

Raise ==
    /\ Running /\ xp # << >>
    /\ LET h == Head(xp)
       IN  IF ~ Good(h) \/ ep < h.ep.cell THEN Crash
           ELSE /\ xp' = Tail(xp)
                /\ ctx' = h.ctx
                /\ stack' = [i \in 1 .. h.sp.cell |->
                                IF i <= sp THEN stack[i] ELSE Locals]
                /\ fp' = h.fp
                /\ ep' = h.ep.cell
                /\ UNCHANGED <<save_xp, in_gc, saved, moves, emoves, status>>

\* Nobody catches the exception: interpret() reraises it to its caller.
RaiseUnhandled ==
    /\ Running /\ xp = << >> /\ ~ in_gc
    /\ status' = "ended"
    /\ UNCHANGED <<ctx, stack, fp, ep, xp, save_xp, in_gc, saved, moves, emoves>>

-----------------------------------------------------------------------------
(* Calls.                                                                  *)

\* Mutant: fp is set before its old value is pushed.
PushFrameEarly(ret, outer) ==
    /\ stack' = stack \o <<ret, FpCell(fp), Locals>>
    /\ fp' = Ptr(sp + 1)
    /\ ctx' = Append(outer, "function")

\* CALL, and the ENTER the function begins with.
PushFrame(ret, outer) ==
    /\ stack' = stack \o <<ret, FpCell(fp), Locals>>
    /\ fp' = Ptr(sp + 2)
    /\ ctx' = Append(outer, "function")

Call(outer) ==
    /\ Running
    /\ Frames("ret") < MaxCalls
    /\ Allowed("define in try", outer # << >>)
    /\ PushFrame(RetCell(ctx), outer)
    /\ UNCHANGED <<ep, xp, save_xp, in_gc, saved, moves, emoves, status>>

\* Mutants: ip, or xp, is not put back.
LeaveSubroutineKeepsIp ==
    /\ xp' = save_xp
    /\ save_xp' = << >>
    /\ ctx' = << >>
    /\ in_gc' = FALSE
    /\ saved' = Nothing
LeaveSubroutineKeepsXp ==
    /\ xp' = xp
    /\ save_xp' = << >>
    /\ ctx' = saved.ctx
    /\ in_gc' = FALSE
    /\ saved' = Nothing

\* The registers thrcode_run_subroutine() puts back when the sub-interpreter
\* is done.  It does not put back fp, sp and ep.
LeaveSubroutine ==
    /\ xp' = save_xp
    /\ save_xp' = << >>
    /\ ctx' = saved.ctx
    /\ in_gc' = FALSE
    /\ saved' = Nothing

\* compiler_compile_return: `return' with a value drops the counters of the
\* innermost loop; then comes a RESTORE for every try statement around it,
\* whether it lies in the body or in the catch list, and whether in this
\* function or not; then RET, which takes sp and fp from the frame fp points
\* to.  The return address below a destructor is that of the opcode 0, which
\* ends the sub-interpreter - or the program.
LoopsAround == SelectSeq(ctx, LAMBDA b : b \in Loops)
\* Mutant: there is no RESTORE.
RestoresNone == 0

Dropped(value) ==
    IF value /\ LoopsAround # << >> THEN Counters(<<Last(LoopsAround)>>) ELSE 0
Restores == Count(ctx, {"try", "catch", "outer_try"})

PointsToFrame(p) ==
    p.moves = moves /\ p.cell \in 2 .. sp /\ stack[p.cell].is = "fp"

RestoreAndGo(c) ==
    /\ Restore(Restores)
    /\ ctx' = c
    /\ UNCHANGED <<save_xp, in_gc, saved>>

Return(value) ==
    /\ Running /\ Count(ctx, {"function"}) = 1
    /\ Allowed("return from catch", Count(ctx, {"catch"}) > 0)
    /\ Allowed("return from loops", Dropped(value) # Counters(ctx))
    /\ IF ~ PointsToFrame(fp) \/ Restores > Len(xp) THEN Crash
       ELSE LET ret == stack[fp.cell - 1]
            IN  /\ ep' = ep - Dropped(value)
                /\ stack' = SubSeq(stack, 1, fp.cell - 2)
                /\ fp' = stack[fp.cell].ptr
                /\ IF ret.is = "stop" /\ in_gc THEN LeaveSubroutine ELSE RestoreAndGo(ret.ctx)
                /\ status' = IF ret.is = "stop" /\ ~ in_gc THEN "ended" ELSE status
                /\ UNCHANGED <<moves, emoves>>

-----------------------------------------------------------------------------
(* Destructors: thrcode_run_destructor_if_needed() and                     *)
(* thrcode_run_subroutine(), called by an opcode that allocates.           *)

StartDestructor ==
    /\ Running /\ ~ in_gc
    /\ Frames("stop") < MaxCalls
    /\ in_gc' = TRUE
    /\ PushFrame([RetCell(<< >>) EXCEPT !.is = "stop"], << >>)
    /\ save_xp' = xp
    /\ xp' = << >>
    /\ saved' = [ctx |-> ctx, fp |-> fp.cell, sp |-> sp, ep |-> ep]
    /\ UNCHANGED <<ep, moves, emoves, status>>

\* An exception that no try statement of the destructor catches is printed,
\* and the interrupted opcode goes on.
DestructorRaises ==
    /\ Running /\ in_gc /\ xp = << >>
    /\ "destructor raises" \in Uses
    /\ LeaveSubroutine
    /\ UNCHANGED <<stack, fp, ep, moves, emoves, status>>

-----------------------------------------------------------------------------
(* The stacks grow, in check_runtime_stacks() after an opcode, and move.   *)
(* Saved frame pointers are found by looking at every cell; the handlers   *)
(* are those of the chain at xp.                                           *)

Moved(p) == IF p.moves = moves THEN [p EXCEPT !.moves = moves + 1] ELSE p

MayMove(count) ==
    /\ Running
    /\ count < MaxMoves
    /\ Allowed("destructor grows", in_gc)

ReallocCallStack ==
    /\ MayMove(moves)
    /\ moves' = moves + 1
    /\ fp' = Moved(fp)
    /\ stack' = [i \in 1 .. sp |->
                    IF stack[i].is = "fp" THEN [stack[i] EXCEPT !.ptr = Moved(@)]
                                          ELSE stack[i]]
    /\ xp' = [i \in 1 .. Len(xp) |-> [xp[i] EXCEPT !.fp = Moved(@), !.sp = Moved(@)]]
    /\ UNCHANGED <<ctx, ep, save_xp, in_gc, saved, emoves, status>>

\* Mutant: the ep of the handlers is not adjusted.
EMovedNot(p) == p

EMoved(p) == IF p.moves = emoves THEN [p EXCEPT !.moves = emoves + 1] ELSE p

ReallocEvalStack ==
    /\ MayMove(emoves)
    /\ emoves' = emoves + 1
    /\ xp' = [i \in 1 .. Len(xp) |-> [xp[i] EXCEPT !.ep = EMoved(@)]]
    /\ UNCHANGED <<ctx, stack, fp, ep, save_xp, in_gc, saved, moves, status>>

\* The main program comes to its end.
EndProgram ==
    /\ Running /\ ~ in_gc
    /\ ctx = << >>
    /\ status' = "ended"
    /\ UNCHANGED <<ctx, stack, fp, ep, xp, save_xp, in_gc, saved, moves, emoves>>

Stopped == ~ Running /\ UNCHANGED vars

Next ==
    \/ \E b \in Loops : EnterLoop(b) \/ LeaveLoop(b)
    \/ \E i \in 1 .. Len(ctx) : Break(i) \/ Continue(i)
    \/ EnterTry \/ LeaveTry \/ LeaveCatch
    \/ Raise \/ RaiseUnhandled
    \/ \E outer \in {<< >>, <<"outer_try">>} : Call(outer)
    \/ \E value \in BOOLEAN : Return(value)
    \/ StartDestructor \/ DestructorRaises
    \/ ReallocCallStack \/ ReallocEvalStack
    \/ EndProgram \/ Stopped

Spec == Init /\ [][Next]_vars

-----------------------------------------------------------------------------
Pointers == [cell : Nat, moves : Nat]
Handlers == [ctx : Seq(Kinds), fp : Pointers, sp : Pointers, ep : Pointers]

TypeOK ==
    /\ ctx \in Seq(Kinds)
    /\ stack \in Seq([is : {"ret", "stop", "fp", "locals"},
                      ctx : Seq(Kinds), ptr : Pointers])
    /\ fp \in Pointers /\ ep \in Nat
    /\ xp \in Seq(Handlers) /\ save_xp \in Seq(Handlers)
    /\ in_gc \in BOOLEAN
    /\ saved \in [ctx : Seq(Kinds), fp : Nat, sp : Nat, ep : Int]
    /\ moves \in Nat /\ emoves \in Nat
    /\ status \in {"running", "ended", "crashed"}

\* No opcode follows a null or a dangling pointer.
NoWildAccess == status # "crashed"

\* The functions that are under way on the stack s between lo and hi, and the
\* context of each: that of the innermost is c, the others have it in the cell
\* with their return address.
Contexts(s, lo, hi, c) ==
    [i \in {m \in lo + 1 .. hi : s[m].is = "ret"} \cup {hi + 1} |->
        IF i = hi + 1 THEN c ELSE s[i].ctx]

\* Where in which function a block of some kind is open.
Open(contexts, kinds) ==
    UNION {{i} \X {j \in 1 .. Len(contexts[i]) : contexts[i][j] \in kinds} :
              i \in DOMAIN contexts}

\* The code that runs is the program, or a destructor on top of it.
Here == Contexts(stack, saved.sp, sp, ctx)

\* The try body that a handler has been made for.
Place(h) == <<h.sp.cell + 1, Len(h.ctx)>>
Before(p, q) == p[1] < q[1] \/ (p[1] = q[1] /\ p[2] < q[2])

\* The handlers of a chain are those of the given try bodies, from inside out.
Describes(chain, tries) ==
    /\ {Place(chain[k]) : k \in 1 .. Len(chain)} = tries
    /\ \A k, l \in 1 .. Len(chain) : k < l => Before(Place(chain[l]), Place(chain[k]))

\* xp has a handler for every try body that is open, in their order, and no
\* other (run.h:85-88, 152-154).
XpDescribesOpenTries == Running => Describes(xp, Open(Here, {"try"}))

\* The frame pointer is the saved frame pointer nearest to the top.
FpIsTheTopFrame ==
    Running => \/ fp.cell = 1 /\ \A i \in 1 .. sp : stack[i].is # "fp"
               \/ PointsToFrame(fp) /\ \A i \in fp.cell + 1 .. sp : stack[i].is # "fp"

\* No handler an exception may go to has a pointer into a stack that moved.
NoStaleHandler == Running => \A i \in 1 .. Len(xp) : Good(xp[i])

\* The evaluation stack holds the counters of the open loops and no others.
EvalStackIsBalanced ==
    Running => ep = saved.ep + Cardinality(Open(Here, {"for"}))

\* However a destructor ends, the registers of the program it interrupted
\* are as they were.
DestructorIsTransparent ==
    [][in_gc /\ ~ in_gc' => /\ fp'.cell = saved.fp
                           /\ Len(stack') = saved.sp
                           /\ ep' = saved.ep]_vars

\* The program and the functions under way on the first n cells of the stack s,
\* the innermost in the context c.  A call puts three cells there: the return
\* address, the frame pointer and the variables.
Body(c) == IF c # << >> /\ Head(c) = "outer_try" THEN Tail(c) ELSE c
Bodies(s, n, c) ==
    [k \in 1 .. (n + 2) \div 3 |-> Body(IF 3 * k - 1 > n THEN c ELSE s[3 * k - 1].ctx)]

\* The interrupted program's view, and the program itself, follow the
\* control flow of the source text.
ProgramBodies ==
    IF in_gc THEN Bodies(stack, saved.sp, saved.ctx) ELSE Bodies(stack, sp, ctx)

Source == INSTANCE StructuredControl WITH
    bodies <- ProgramBodies, running <- Running
FollowsTheSource == Source!Spec
=============================================================================
