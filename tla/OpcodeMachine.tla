---------------------------- MODULE OpcodeMachine ----------------------------
(***************************************************************************)
(* One opcode, run step by step: the stacks, the heap and the collector    *)
(* around the functions of the Tcodes modules.                             *)
(*                                                                         *)
(* An opcode finds its operands on the evaluation stack, null or not; no   *)
(* reference in the cells above ep, where the opcodes before it left none; *)
(* and references to objects that are long gone in the cells above sp,     *)
(* which the opcodes that pop the call stack do not clear.  The collector  *)
(* runs before any allocation, raising an exception included, and frees    *)
(* what the cells from ep and from sp downwards do not lead to: what a C   *)
(* variable points to is not protected.                                    *)
(***************************************************************************)
EXTENDS Operations

CONSTANT Variants      \* the interpreters whose opcodes are run

Packed == INSTANCE Tcodes
Split  == INSTANCE TcodesSplit
Full   == INSTANCE TcodesFull
Tables == [packed |-> Packed!Table, split |-> Split!Table, full |-> Full!Table]

ASSUME OpcodeAssumption == Variants \subseteq DOMAIN Tables

VARIABLES
    variant, name,   \* the interpreter, and its opcode
    op,              \* what the opcode promises: its contract
    holds,           \* operand -> "null", "heap" or "static": what it points to
    nested,          \* do the objects of the operands have elements?
    todo,            \* the steps that are left
    cell,            \* the cells of the stacks, and the variable
    ep, sp,          \* relative to where they were
    live, refs,      \* the objects on the heap, and the references in each
    made,            \* the objects this opcode has allocated
    words,           \* operand words read
    jumped, raised,  \* has ip been set, by the opcode or by an exception?
    status,          \* "running", "returned" or "exited"; "null" or "freed"
                     \* when memory was used that is not there
    length           \* what the function returned

inputs == <<variant, name, op, holds, nested>>
stacks == <<cell, ep, sp>>
heap   == <<live, refs, made>>
flow   == <<words, jumped, raised, status, length>>
vars   == <<inputs, todo, stacks, heap, flow>>

Depth == Len(op.takes)
Kind(i) == op.takes[Depth - i]          \* of the operand in ep[i]
Operands == 0 .. Depth - 1

-----------------------------------------------------------------------------
(* Where an opcode starts.  Two cells below the operands are bystanders.   *)

Bystanders == Depth .. Depth + 1
Gone == [is |-> "gone", nr |-> 0]
NoRefs == {Null, Static}

ArgIndex == -2 .. 5
Objects == {Arg(i) : i \in ArgIndex} \cup {Elem(i) : i \in ArgIndex}
           \cup {New(k) : k \in 1 .. 3}
Cells == {E(i) : i \in -4 .. 6} \cup {S(i) : i \in -3 .. 3} \cup {V, Tmp}

\* Operands that refer to something, or to nothing.
References == {i \in Operands : Kind(i) # "n"} \cup {Variable}
Functions  == {i \in Operands : Kind(i) = "f"}
Holding(nulls, statics) ==
    [i \in ArgIndex |->
        CASE i \in nulls   -> "null"
          [] i \in statics -> "static"
          [] i \in References \cup Bystanders \cup {Pushed} -> "heap"
          [] OTHER -> "null"]

Pointee(i) == CASE holds[i] = "heap"   -> Arg(i)
                [] holds[i] = "static" -> Static
                [] OTHER               -> Null
\* The number in a cell: of a reference, the offset of its address.
Number(i) ==
    CASE i \in Operands /\ Kind(i) \in {"x", "y", "z"} -> Kind(i)
      [] i \in Operands /\ Kind(i) = "n"               -> "number"
      [] i \in Operands /\ Kind(i) = "a"               -> "offset"
      [] i \in Bystanders                              -> "below"
      [] OTHER                                         -> "zero"

Contents(num, ref) == [num |-> num, ref |-> ref]
Nothing == Contents("zero", Null)
Start(c) ==
    CASE c.in = "e" /\ c.at >= 0 /\ c.at <= Depth + 1 -> Contents(Number(c.at), Pointee(c.at))
      [] c.in = "e"               -> Contents("junk", Null)
      [] c.in = "s" /\ c.at < 0   -> Contents("junk", Gone)
      [] c.in = "s" /\ c.at = 0   -> Contents("zero", Pointee(Pushed))
      [] c.in = "v"               -> Contents("zero", Pointee(Variable))
      [] OTHER                    -> Nothing

Referred == {i \in ArgIndex : holds[i] = "heap"}

Init ==
    /\ variant \in Variants
    /\ name \in DOMAIN Tables[variant]
    /\ \E opcode \in {Tables[variant][name]} : op = opcode /\ todo = opcode.code
    /\ \E nulls \in SUBSET References, statics \in SUBSET Functions :
          holds = Holding(nulls, statics)
    /\ nested \in BOOLEAN
    /\ cell = [c \in Cells |-> Start(c)]
    /\ ep = 0 /\ sp = 0
    /\ live = {Arg(i) : i \in Referred} \cup (IF nested THEN {Elem(i) : i \in Referred} ELSE {})
    /\ refs = [x \in Objects |->
                  IF nested /\ x.is = "arg" /\ x \in live THEN {Elem(x.nr)} ELSE {}]
    /\ made = {}
    /\ words = 0
    /\ jumped = FALSE /\ raised = FALSE
    /\ status = "running" /\ length = 0

-----------------------------------------------------------------------------
(* The steps.                                                              *)

Doing(do) == status = "running" /\ todo # << >> /\ Head(todo).do = do
step == Head(todo)
rest == Tail(todo)
Goes(code) == todo' = code /\ UNCHANGED inputs
On == Goes(rest)

\* A cell of a stack is addressed from ep or sp.
At(c) == CASE c.in = "e" -> E(ep + c.at)
           [] c.in = "s" -> S(sp + c.at)
           [] OTHER      -> c
Target(x) ==
    CASE x.is = "arg"  -> Pointee(x.nr)
      [] x.is = "elem" -> IF nested /\ holds[x.nr] = "heap" THEN x ELSE Null
      [] x.is = "new"  -> IF x \in made THEN x ELSE Null
      [] OTHER         -> x

SetCell(c, value) == cell' = [cell EXCEPT ![At(c)] = value]

ReadWords ==
    /\ Doing("words") /\ On
    /\ words' = step.n
    /\ UNCHANGED <<stacks, heap, jumped, raised, status, length>>
MoveEp ==
    /\ Doing("ep") /\ On
    /\ ep' = ep + step.n
    /\ UNCHANGED <<cell, sp, heap, flow>>
MoveSp ==
    /\ Doing("sp") /\ On
    /\ sp' = sp + step.n
    /\ UNCHANGED <<cell, ep, heap, flow>>
CopyCell ==
    /\ Doing("copy") /\ On
    /\ SetCell(step.to, cell[At(step.from)])
    /\ UNCHANGED <<ep, sp, heap, flow>>
ZeroReference ==
    /\ Doing("zero") /\ On
    /\ SetCell(step.to, Contents(cell[At(step.to)].num, Null))
    /\ UNCHANGED <<ep, sp, heap, flow>>
ClearCell ==
    /\ Doing("clear") /\ On
    /\ SetCell(step.to, Nothing)
    /\ UNCHANGED <<ep, sp, heap, flow>>
WriteNumber ==
    /\ Doing("num") /\ On
    /\ SetCell(step.to, Contents("number", cell[At(step.to)].ref))
    /\ UNCHANGED <<ep, sp, heap, flow>>
LoadReference ==
    /\ Doing("load") /\ On
    /\ SetCell(step.to, Contents("zero", Target(step.obj)))
    /\ UNCHANGED <<ep, sp, heap, flow>>

\* The object a step reads or writes; the steps end when there is none.
Sound(x) == Target(x) \in live \cup {Static}
UsesBadAddress ==
    /\ status = "running" /\ todo # << >>
    /\ step.do \in {"use", "link", "store"} /\ ~Sound(step.obj)
    /\ status' = IF Target(step.obj) = Null THEN "null" ELSE "freed"
    /\ Goes(<< >>)
    /\ UNCHANGED <<stacks, heap, words, jumped, raised, length>>
UseObject ==
    /\ Doing("use") /\ Sound(step.obj) /\ On
    /\ UNCHANGED <<stacks, heap, flow>>
Puts(ref) ==
    /\ Sound(step.obj) /\ On
    /\ refs' = IF Target(step.obj) = Static THEN refs
               ELSE [refs EXCEPT ![Target(step.obj)] = @ \cup ({ref} \ NoRefs)]
    /\ UNCHANGED <<stacks, live, made, flow>>
LinkObject == Doing("link") /\ Puts(Target(step.ref))
StoreReference == Doing("store") /\ Puts(cell[At(step.from)].ref)

Choose ==
    /\ Doing("either")
    /\ \E k \in 1 .. 2 : Goes(step.alts[k] \o rest)
    /\ UNCHANGED <<stacks, heap, flow>>
TestNull ==
    /\ Doing("null")
    /\ Goes(step.alts[IF Target(step.obj) = Null THEN 1 ELSE 2] \o rest)
    /\ UNCHANGED <<stacks, heap, flow>>
TestHeap ==
    /\ Doing("heap")
    /\ Goes(step.alts[IF Target(step.obj) \in Objects THEN 1 ELSE 2] \o rest)
    /\ UNCHANGED <<stacks, heap, flow>>

-----------------------------------------------------------------------------
(* The collector.                                                          *)

Scanned == {E(i) : i \in {j \in -4 .. 6 : j >= ep}}
           \cup {S(i) : i \in {j \in -3 .. 3 : j >= sp}} \cup {V}
Roots == {cell[c].ref : c \in Scanned} \ NoRefs
Marked ==
    LET m[n \in 0 .. 4] == IF n = 0 THEN Roots \cap live
                           ELSE m[n - 1] \cup UNION {refs[x] \cap live : x \in m[n - 1]}
    IN  m[4]

\* bcalloc(): there is room, the collector makes room, or it does not.
Allocate ==
    /\ Doing("alloc")
    /\ Goes(step.alts[1] \o rest)
    /\ live' \in {x \cup {step.obj} : x \in {live, Marked}}
    /\ made' = made \cup {step.obj}
    /\ UNCHANGED <<stacks, refs, flow>>
AllocationFails ==
    /\ Doing("alloc")
    /\ Goes(step.alts[2] \o rest)
    /\ live' = Marked
    /\ UNCHANGED <<stacks, refs, made, flow>>
\* bcrealloc_blob(): the block moves, its contents with it, or it fails.
ResizeObject ==
    /\ Doing("resize")
    /\ LET old == Target(step.ref)
       IN  \/ /\ Goes(step.alts[1] \o rest)
              /\ live' = (live \ {old}) \cup {step.obj}
              /\ refs' = [refs EXCEPT ![step.obj] = refs[old]]
              /\ made' = made \cup {step.obj}
           \/ /\ Goes(step.alts[2] \o rest)
              /\ UNCHANGED heap
    /\ UNCHANGED <<stacks, flow>>
CollectGarbage ==
    /\ Doing("collect") /\ On
    /\ live' = Marked
    /\ UNCHANGED <<stacks, refs, made, flow>>

-----------------------------------------------------------------------------
(* Leaving the opcode.                                                     *)

\* interpret_raise_exception(), with a message from the heap: the operands
\* are cleared, ep and sp become those of the handler, and ip its address.
RaiseException ==
    /\ Doing("raise") /\ On
    /\ raised' = TRUE /\ jumped' = TRUE
    /\ live' \in {live, Marked}
    /\ cell' = [c \in Cells |-> IF c.in = "e" /\ c.at >= ep /\ c.at < Depth
                                THEN Nothing ELSE cell[c]]
    /\ ep' = Depth /\ sp' = 0
    /\ UNCHANGED <<refs, made, words, status, length>>
SetIp ==
    /\ Doing("goto") /\ On
    /\ jumped' = TRUE
    /\ UNCHANGED <<stacks, heap, words, raised, status, length>>
Return ==
    /\ Doing("return") /\ Goes(<< >>)
    /\ status' = "returned" /\ length' = step.n
    /\ UNCHANGED <<stacks, heap, words, jumped, raised>>
ExitProgram ==
    /\ Doing("exit") /\ Goes(<< >>)
    /\ status' = "exited"
    /\ UNCHANGED <<stacks, heap, words, jumped, raised, length>>

Next ==
    \/ ReadWords \/ MoveEp \/ MoveSp
    \/ CopyCell \/ ZeroReference \/ ClearCell \/ WriteNumber \/ LoadReference
    \/ UsesBadAddress \/ UseObject \/ LinkObject \/ StoreReference
    \/ Choose \/ TestNull \/ TestHeap
    \/ Allocate \/ AllocationFails \/ ResizeObject \/ CollectGarbage
    \/ RaiseException \/ SetIp \/ Return \/ ExitProgram

Spec == Init /\ [][Next]_vars

-----------------------------------------------------------------------------
(* Properties.                                                             *)

Done == status = "returned"
Finished == Done /\ ~raised

\* Opcodes that dereference an operand, or an element of one, that is null.
UsesNull ==
    LET all == {"CLDI", "DUMPVMT", "FCLOSE", "FILLMDARRAY", "FOPEN", "ILDXVAR",
                "INDEXVAR", "PLDXVAR2", "SSPRINTF", "STRPACK", "STRPACKARRAY",
                "STRPACKMDARRAY", "STRUNPACK", "STRUNPACKARRAY",
                "STRUNPACKMDARRAY", "VCALL", "APOP"}
    IN  [packed |-> all \cup {"GSTI", "HASHDUMP"},
         split  |-> all \cup {"GLDI", "GSTI", "ICOPY", "APUSH", "HASHVAL"},
         full   |-> all \cup {"APUSH"}]
\* After its exceptions it goes on, and the array is no longer on the stack.
UsesFreed == {"APOP"}
\* The function does not use memory it has no reference to: no null operand
\* and no object the collector freed meanwhile (the C functions of tcodes.c).
NoWildAccess ==
    /\ status = "freed" => name \in UsesFreed
    /\ status = "null" => name \in UsesNull[variant]

\* When the collector runs, and when the opcode is done, the cells it scans
\* refer to objects that exist: a cell that ep or sp has moved over holds no
\* leftover of an earlier use (thrcode_gc_mark_and_sweep, run.c).
Collects == todo # << >> /\ step.do \in {"alloc", "collect", "raise"}
NoDanglingReference == Collects \/ Done => Roots \subseteq live

RaisesAndGoesOn == {"APOP", "CHECKREF", "DEEPCLONE", "STDREAD", "STRUNPACKMDARRAY"}
\* An exception has moved ep, sp and ip to those of the handler, and the
\* function returns 0 at once: nothing is done to the stacks of the handler,
\* and ip is not moved on (run(), run.c).
RaiseEndsOpcode ==
    raised => \/ Done /\ length = 0
              \/ status = "running" /\ step = Ret(0)[1]
              \/ name \in RaisesAndGoesOn

ReturnsOdd == {"MEMCPY", "FILLARRAY", "FILLMDARRAY", "RERAISE", "STRUNPACK",
               "STRUNPACKARRAY", "STRUNPACKMDARRAY"}
\* The interpreter adds what the function returns to ip: it is 0 when ip has
\* been set, and otherwise the length of the opcode and its operand words,
\* which are the words it has read.
SkipsItsWords ==
    Finished => \/ length = (IF jumped THEN 0 ELSE 1 + op.words) /\ words <= op.words
                \/ name \in ReturnsOdd

Fits(kind, c) ==
    CASE kind = "n" -> c.ref = Null /\ c.num \in {"number", "zero"}
      [] kind = "r" -> c.ref \in live \cup {Static} \/ c = Nothing
      [] kind \in {"a", "f"} -> c.ref \in live \cup NoRefs
      [] kind = "v" -> c = Start(V)
      [] kind = "s" -> c = Start(S(0))
      [] OTHER -> \E i \in Operands : Kind(i) = kind /\ c = Start(E(i))
Leaves(cells) ==
    /\ ep = Depth - Len(cells)
    /\ \A j \in 1 .. Len(cells) : Fits(cells[j], cell[E(Depth - j)])
LeavesOdd ==
    LET all == {"ALLOCARGV", "ALLOCENV", "FILLARRAY", "FILLMDARRAY", "FREAD", "FWRITE",
                "HASHVAL", "STRUNPACK", "STRUNPACKARRAY", "STRUNPACKMDARRAY"}
    IN  [packed |-> all,
         split  |-> all \cup {"PEQBOOL", "PNEBOOL"},
         full   |-> all \cup {"PEQBOOL", "PNEBOOL"}]
\* The opcode leaves the stacks as its comment says: the results are of
\* their kinds (a number carries no reference, a null reference no offset),
\* and the cells below are as they were.
KeepsStackEffect ==
    Finished => \/ /\ \E cells \in IF jumped THEN op.jumps ELSE {op.gives} : Leaves(cells)
                   /\ sp = op.sp
                   /\ \A i \in Bystanders : cell[E(i)] = Start(E(i))
                \/ name \in LeavesOdd[variant]

LeavesStale == {"DEEPCLONE", "DUMPVMT", "PEQBOOL", "PNEBOOL", "RTOR", "STRPACK", "VCALL"}
\* Popped cells hold no reference to an object: an opcode that pushes a
\* number does not clear the reference of the cell it pushes it to ("must
\* zero ptr, since the stored stackcell could have been reference").
NothingStaleAbove ==
    Done => \/ \A i \in -4 .. ep - 1 : cell[E(i)].ref \in NoRefs
            \/ name \in LeavesStale
=============================================================================
