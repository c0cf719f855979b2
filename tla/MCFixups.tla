------------------------------ MODULE MCFixups ------------------------------
(***************************************************************************)
(* Bounds of the programs in the runs of Fixups: every program within one  *)
(* of the bounds is one that the run compiles.                             *)
(***************************************************************************)
EXTENDS Fixups

Bound(constructs, jumps, fns, calls, modules) ==
  [constructs |-> constructs, jumps |-> jumps, functions |-> fns,
   calls |-> calls, modules |-> modules]

\* Deep nesting; jumps out of it; functions and modules; one in the other.
Programs == {Bound(3, 0, 0, 0, 0), Bound(2, 2, 0, 0, 0), Bound(0, 0, 2, 3, 1),
             Bound(1, 1, 1, 2, 0), Bound(1, 0, 1, 1, 1)}
=============================================================================
