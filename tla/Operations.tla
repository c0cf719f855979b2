----------------------------- MODULE Operations -----------------------------
(***************************************************************************)
(* The words in which the opcodes of the interpreter are described: the    *)
(* documented contract of an opcode, and the steps its function takes.     *)
(*                                                                         *)
(* A step stands for one statement, or one macro of stackcell.h, that      *)
(* touches the stacks, the heap, the instruction pointer or the handlers.  *)
(* What is computed inside a number, or printed, is left out.              *)
(*                                                                         *)
(* A stack cell has a number and a reference.  Assigning a number leaves   *)
(* the reference of the cell as it is, and moving ep leaves the cells as   *)
(* they are: an opcode has to zero references it pops.                     *)
(***************************************************************************)
EXTENDS Integers, Sequences

\* The cells ep[i], sp[i], a variable of the frame or of the globals, and a
\* local stackcell_t of the C function.
E(i) == [in |-> "e", at |-> i]
S(i) == [in |-> "s", at |-> i]
V    == [in |-> "v", at |-> 0]
Tmp  == [in |-> "t", at |-> 0]

\* What a C pointer points to: the object the operand in ep[i] referred to
\* when the opcode began, an object found in that object, an object the
\* opcode allocated, and memory that is not on the heap.
Arg(i)  == [is |-> "arg", nr |-> i]
Elem(i) == [is |-> "elem", nr |-> i]
New(k)  == [is |-> "new", nr |-> k]
Static  == [is |-> "static", nr |-> 0]
Null    == [is |-> "null", nr |-> 0]
Variable == -1
Held    == Arg(Variable)    \* what the variable V referred to
Pushed  == -2               \* sp[0], as an operand of RFROMR

Blank == [do |-> "", to |-> Tmp, from |-> Tmp, obj |-> Null, ref |-> Null,
          n |-> 0, alts |-> << >>]
Step(do) == [Blank EXCEPT !.do = do]

Words(n)   == <<[Step("words") EXCEPT !.n = n]>>           \* read n operand words
Ep(n)      == <<[Step("ep") EXCEPT !.n = n]>>              \* ep += n
Sp(n)      == <<[Step("sp") EXCEPT !.n = n]>>
Copy(c, d) == <<[Step("copy") EXCEPT !.to = c, !.from = d]>>  \* c = d, both parts
Zero(c)    == <<[Step("zero") EXCEPT !.to = c]>>           \* STACKCELL_ZERO_PTR
Clear(c)   == <<[Step("clear") EXCEPT !.to = c]>>          \* memset
Num(c)     == <<[Step("num") EXCEPT !.to = c]>>            \* assign the number
Load(c, x) == <<[Step("load") EXCEPT !.to = c, !.obj = x]>>   \* STACKCELL_SET_ADDR
Use(x)     == <<[Step("use") EXCEPT !.obj = x]>>           \* dereference x
Link(x, y) == <<[Step("link") EXCEPT !.obj = x, !.ref = y]>>  \* store y in x
Store(x, c) == <<[Step("store") EXCEPT !.obj = x, !.from = c]>>  \* store what c has
Ret(n)     == <<[Step("return") EXCEPT !.n = n]>>
Goto       == <<Step("goto")>>                             \* set istate.ip
Exit       == <<Step("exit")>>
RaiseOnly  == <<Step("raise")>>
Either(a, b) == <<[Step("either") EXCEPT !.alts = <<a, b>>]>>
IfNull(x, a, b) == <<[Step("null") EXCEPT !.obj = x, !.alts = <<a, b>>]>>
IfHeap(x, a, b) == <<[Step("heap") EXCEPT !.obj = x, !.alts = <<a, b>>]>>

\* interpret_raise_exception_with_bcalloc_message(); return 0;
Raise == RaiseOnly \o Ret(0)
RaiseIfNull(x) == IfNull(x, Raise, << >>)
Maybe(a) == Either(a, << >>)
UpTo2(a) == Either(<< >>, Either(a, a \o a))

\* p = bcalloc(); then a when there is memory, and b when there is none.
\* bcrealloc_blob() never collects, and the address it is given is gone.
AllocElse(k, a, b) == <<[Step("alloc") EXCEPT !.obj = New(k), !.alts = <<a, b>>]>>
Resize(x, k) ==
    <<[Step("resize") EXCEPT !.obj = New(k), !.ref = x, !.alts = <<<< >>, Raise>>]>>
Collect == <<Step("collect")>>      \* thrcode_gc_mark_and_sweep()

\* BC_CHECK_PTR( p ) raises an exception, and leaves the C function it is
\* in: the opcode, or a helper whose result the opcode does not look at.
Alloc(k)       == AllocElse(k, << >>, Raise)
AllocIn(k, a)  == AllocElse(k, a, RaiseOnly)
AllocOrNull(k) == AllocElse(k, << >>, << >>)

-----------------------------------------------------------------------------
(* The contract of an opcode: the number of its operand words, the cells   *)
(* it takes from the evaluation stack and those it gives back, the topmost *)
(* last; what it may give when it jumps; and by how much it moves sp.      *)
(* Cells are                                                               *)
(*    "n"          a number                                                *)
(*    "r"          a reference, maybe null                                 *)
(*    "a"          either, and the reference may be an address inside an   *)
(*                 object                                                  *)
(*    "f"          the address of a function, or a closure on the heap     *)
(*    "x" "y" "z"  anything: one letter is one content                     *)
(*    "v" "s"      what the variable, or sp[0], holds.                     *)

Opcode(words, takes, gives, jumps, sp, code) ==
    [words |-> words, takes |-> takes, gives |-> gives, jumps |-> jumps,
     sp |-> sp, code |-> code]
Op(words, takes, gives, code) == Opcode(words, takes, gives, {gives}, 0, code)
Frames(words, takes, sp, code) == Opcode(words, takes, << >>, {<< >>}, sp, code)

\* Idioms of the opcodes: numbers are replaced in place, two are combined in
\* the lower cell, one is pushed; and something is printed.
Monadic     == Op(0, <<"n">>, <<"n">>, Num(E(0)) \o Ret(1))
PushesNumber(words) ==
    Op(words, << >>, <<"n">>, Words(words) \o Ep(-1) \o Num(E(0)) \o Ret(1 + words))
Silent      == Op(0, << >>, << >>, Ret(1))
=============================================================================
