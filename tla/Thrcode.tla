------------------------------- MODULE Thrcode -------------------------------
(***************************************************************************)
(* Code under construction: thrcode.c with the fixup lists of fixup.c.     *)
(*                                                                         *)
(* A thrcode is an array of words.  Of the words only the operands matter  *)
(* that hold an address or a number found later; such an operand is        *)
(* emitted as 0 and a fixup remembers where it is, until it is settled     *)
(* (which the program does not remember).  A label is the place            *)
(* that a construct of the source has in the code; there are none in the   *)
(* program, which only has the addresses it patches.  An operand knows the *)
(* label that the source means by it.                                      *)
(*                                                                         *)
(* Addresses count from 0.  A list is a sequence with its head first.      *)
(***************************************************************************)
EXTENDS Integers, Sequences, SequencesExt

\* new_thrcode()
new_thrcode ==
  [length |-> 0, operands |-> {}, labels |-> {}, fixups |-> << >>,
   forward_function_calls |-> << >>, forward_function_call_stack |-> << >>,
   op_continue_fixups |-> << >>, op_break_fixups |-> << >>]

new_fixup(name, address, is_absolute) ==
  [name |-> name, address |-> address, is_absolute |-> is_absolute]

\* What the operand says: a jump is relative to its opcode, one word before it
\* (run.c, tcodes.c); calls and numbers are what they are.
Says(o) == IF o.is = "jump" THEN o.at - 1 + o.value ELSE o.value

---------------------------------------------------------------------------
\* Emitting.

\* thrcode_emit(): a word is an opcode or a settled operand, [is |-> "plain"],
\* or an operand with the goal it is to have.
Emit(t, words) ==
  [t EXCEPT !.length = @ + Len(words),
            !.operands = @ \cup
               {[at |-> t.length + i - 1, is |-> words[i].is,
                 goal |-> words[i].goal, value |-> words[i].value,
                 settled |-> words[i].settled] :
                  i \in {j \in DOMAIN words : words[j].is # "plain"}}]

\* A construct of the source begins or ends here.
Place(t, goal) == [t EXCEPT !.labels = @ \cup {[goal |-> goal, at |-> t.length]}]

thrcode_push_fixup_here(t, is_absolute) ==
  [t EXCEPT !.fixups = <<new_fixup(<<"">>, t.length + 1, is_absolute)>> \o @]

thrcode_push_forward_function(t, name, address) ==
  [t EXCEPT !.forward_function_calls =
     <<new_fixup(<<name>>, address, TRUE)>> \o @]

thrcode_push_op_continue_fixup(t, name) ==
  [t EXCEPT !.op_continue_fixups =
     <<new_fixup(name, t.length + 1, FALSE)>> \o @]

thrcode_push_op_break_fixup(t, name) ==
  [t EXCEPT !.op_break_fixups =
     <<new_fixup(name, t.length + 1, FALSE)>> \o @]

---------------------------------------------------------------------------
\* Patching.

thrcode_patch(t, address, value) ==
  [t EXCEPT !.operands =
     {IF o.at = address THEN [o EXCEPT !.value = value, !.settled = TRUE]
      ELSE o : o \in @}]

thrcode_fixup(t, fixup, value) ==
  thrcode_patch(t, fixup.address,
     IF fixup.is_absolute THEN value ELSE value - fixup.address + 1)

\* The assertion of thrcode_patch(), and that of fixup_address() for an empty
\* list.
Patchable(t) == t.fixups # << >> /\ Head(t.fixups).address \in 0 .. t.length - 1

thrcode_internal_fixup(t, value) ==
  [thrcode_fixup(t, Head(t.fixups), value) EXCEPT !.fixups = Tail(@)]

thrcode_internal_fixup_here(t) == thrcode_internal_fixup(t, t.length)

\* fixup_swap(), which asserts that there is a second one.
fixup_swap(list) == <<list[2], list[1]>> \o SubSeq(list, 3, Len(list))

Named(list, name)  == SelectSeq(list, LAMBDA f : f.name = name)
\* Those not used are put on a new list one by one, which turns their order.
Unused(list, name) == Reverse(SelectSeq(list, LAMBDA f : f.name # name))
PatchAll(t, list, value) ==
  FoldLeft(LAMBDA u, f : thrcode_fixup(u, f, value), t, list)

thrcode_fixup_function_calls(t, name, address) ==
  [PatchAll(t, Named(t.forward_function_calls, <<name>>), address)
     EXCEPT !.forward_function_calls = Unused(@, <<name>>)]

thrcode_fixup_op_continue(t, name) ==
  [PatchAll(t, Named(t.op_continue_fixups, name), t.length)
     EXCEPT !.op_continue_fixups = Unused(@, name)]

\* Mutant: the fixups of other loops are not put back.
thrcode_fixup_op_break_forgets(t, name) ==
  [PatchAll(t, Named(t.op_break_fixups, name), t.length)
     EXCEPT !.op_break_fixups = << >>]

thrcode_fixup_op_break(t, name) ==
  [PatchAll(t, Named(t.op_break_fixups, name), t.length)
     EXCEPT !.op_break_fixups = Unused(@, name)]

---------------------------------------------------------------------------
\* The calls of a module are kept apart from those around it.

thrcode_push_function_call_fixups(t) ==
  [t EXCEPT !.forward_function_call_stack = <<t.forward_function_calls>> \o @,
            !.forward_function_calls = << >>]

\* Mutant: the calls from before the module are dropped with those of the module.
thrcode_pop_function_call_fixups_empty(t) ==
  [t EXCEPT !.forward_function_calls = << >>,
            !.forward_function_call_stack = Tail(@)]

thrcode_pop_function_call_fixups(t) ==
  [t EXCEPT !.forward_function_calls = Head(t.forward_function_call_stack),
            !.forward_function_call_stack = Tail(@)]

---------------------------------------------------------------------------
\* Code after code.

\* Mutant: fixups keep the addresses they had before the code was moved.
merge_fixup_lists_unmoved(dst_list, src_list, dst_end) ==
  Reverse(src_list) \o dst_list

\* Every fixup of src is pushed on dst in turn.
merge_fixup_lists(dst_list, src_list, dst_end) ==
  Reverse([i \in DOMAIN src_list |->
             [src_list[i] EXCEPT !.address = @ + dst_end]]) \o dst_list

MovedOperands(t, by) == {[o EXCEPT !.at = o.at + by] : o \in t.operands}
MovedLabels(t, by)   == {[l EXCEPT !.at = l.at + by] : l \in t.labels}

thrcode_merge(dst, src) ==
  [dst EXCEPT
     !.length = dst.length + src.length,
     !.operands = dst.operands \cup MovedOperands(src, dst.length),
     !.labels = dst.labels \cup MovedLabels(src, dst.length),
     !.fixups = merge_fixup_lists(@, src.fixups, dst.length),
     !.forward_function_calls =
        merge_fixup_lists(@, src.forward_function_calls, dst.length),
     !.op_continue_fixups =
        merge_fixup_lists(@, src.op_continue_fixups, dst.length),
     !.op_break_fixups = merge_fixup_lists(@, src.op_break_fixups, dst.length)]

---------------------------------------------------------------------------
\* What is right about a thrcode.

\* A patched operand of the given kind leads to the label it is meant to.
LeadsHome(t, kind, labels) ==
  \A o \in t.operands :
     (o.is = kind /\ o.settled) =>
        \E l \in labels : l.goal = o.goal /\ l.at = Says(o)

\* All the fixups that wait, those of enclosing modules included.
Waiting(t) == t.fixups \o t.op_break_fixups \o t.op_continue_fixups
              \o t.forward_function_calls
              \o FlattenSeq(t.forward_function_call_stack)

\* They are for exactly the operands that are not patched, one each.
Owed(t) ==
  LET addresses == [i \in DOMAIN Waiting(t) |-> Waiting(t)[i].address]
      open == {o \in t.operands : ~o.settled}
  IN  /\ ToSet(addresses) = {o.at : o \in open}
      /\ Len(addresses) = Cardinality(open)
=============================================================================
