--------------------------- MODULE MCSymbolTables ---------------------------
(***************************************************************************)
(* Bounds of the programs in the run of SymbolTables.                      *)
(***************************************************************************)
EXTENDS SymbolTables

Bound(declarations, blks, functions, modules, uses) ==
  [declarations |-> declarations, blocks |-> blks, functions |-> functions,
   modules |-> modules, uses |-> uses]

ModuleSymmetry == Permutations(ModuleNames)

\* Declarations in blocks and functions, and in functions nested twice; a module with
\* functions that is used; two modules, one in the other or one beside the other, that are
\* used; names that are declared again in a function of a module and after it.
Programs == {Bound(3, 1, 1, 0, 0), Bound(2, 1, 2, 0, 0), Bound(2, 1, 1, 1, 1),
             Bound(2, 0, 0, 2, 2), Bound(3, 0, 1, 1, 0)}
=============================================================================
