------------------------------- MODULE Vartab -------------------------------
(***************************************************************************)
(* The tables of names of the compiler: vartab.c, and typetab.c with the   *)
(* differences that types make.                                            *)
(*                                                                         *)
(* A table is a list of nodes, the newest first, and two counters: of the  *)
(* open scopes, which are functions, and of the open subscopes, which are  *)
(* blocks.  A node remembers both as they were when it was entered.  What  *)
(* is named (dnode) is a number; 0 is none.  An operator also has          *)
(* argument types, which tell it from others of its name.                  *)
(***************************************************************************)
EXTENDS Integers, Sequences, SequencesExt, FiniteSetsExt

new_vartab == [node |-> << >>, current_scope |-> 0, current_subscope |-> 0]

NoNode == [name |-> "", args |-> "", dnode |-> 0, scope |-> -1, subscope |-> -1,
           count |-> 0, imported |-> FALSE]

\* new_var_node(), at the head of the list.
PutNode(t, name, args, dnode, count, imported) ==
  [t EXCEPT !.node =
     <<[name |-> name, args |-> args, dnode |-> dnode,
        scope |-> t.current_scope, subscope |-> t.current_subscope,
        count |-> count, imported |-> imported]>> \o @]

---------------------------------------------------------------------------
\* Lookups find the first node there is; at is where in the list they would.
FirstOf(t, at) == IF at = {} THEN NoNode ELSE t.node[Min(at)]

vartab_lookup_varnode(t, name) ==
  FirstOf(t, {i \in DOMAIN t.node : t.node[i].name = name})
vartab_lookup_operator(t, name, args) ==
  FirstOf(t, {i \in DOMAIN t.node : t.node[i].name = name /\ t.node[i].args = args})

---------------------------------------------------------------------------
\* Entering names.  A name that is declared again is refused.

IsOwn(node) == node.dnode # 0 /\ ~node.imported

vartab_refuses(t, name) ==
  LET node == vartab_lookup_varnode(t, name)
  IN  IsOwn(node) /\ node.scope = t.current_scope

vartab_insert(t, name, dnode) ==
  IF vartab_refuses(t, name) THEN t
  ELSE PutNode(t, name, "", dnode, 1, FALSE)

\* The count goes on from that of any node of the name.
vartab_insert_module(t, name, dnode) ==
  IF vartab_refuses(t, name) THEN t
  ELSE PutNode(t, name, "", dnode, vartab_lookup_varnode(t, name).count + 1, FALSE)

vartab_insert_operator(t, name, args, dnode) ==
  PutNode(t, name, args, dnode, 1, FALSE)

\* A type may be declared again in a subscope.
typetab_refuses(t, name) ==
  LET node == vartab_lookup_varnode(t, name)
  IN  /\ IsOwn(node) /\ node.scope = t.current_scope
      /\ node.subscope = t.current_subscope

typetab_insert(t, name, dnode) ==
  IF typetab_refuses(t, name) THEN t
  ELSE PutNode(t, name, "", dnode, 1, FALSE)

\* Mutant: an imported name hides one that is declared here.
vartab_insert_modules_name_hides(t, name, args, dnode) ==
  PutNode(t, name, args, dnode, 1, TRUE)

\* A name of this scope stays; imported ones are counted.
vartab_insert_modules_name(t, name, args, dnode) ==
  LET node == vartab_lookup_varnode(t, name)
  IN  IF node.scope # t.current_scope THEN PutNode(t, name, args, dnode, 1, TRUE)
      ELSE IF node.imported THEN PutNode(t, name, args, dnode, node.count + 1, TRUE)
      ELSE t

\* A type stays, too, when it has no description yet (it is forward).
typetab_insert_imported(t, name, dnode, forward) ==
  LET node == vartab_lookup_varnode(t, name)
  IN  IF node.scope = t.current_scope /\ node.dnode \in forward THEN t
      ELSE vartab_insert_modules_name(t, name, "", dnode)

\* The newest node of the module is the first to be copied.
vartab_copy_table(dst, src) ==
  LET after[i \in 0 .. Len(src.node)] ==
        IF i = 0 THEN dst
        ELSE LET n == src.node[i]
             IN  vartab_insert_modules_name(after[i - 1], n.name, n.args, n.dnode)
  IN  after[Len(src.node)]
typetab_copy_table(dst, src, forward) ==
  LET after[i \in 0 .. Len(src.node)] ==
        IF i = 0 THEN dst
        ELSE LET n == src.node[i]
             IN  typetab_insert_imported(after[i - 1], n.name, n.dnode, forward)
  IN  after[Len(src.node)]

---------------------------------------------------------------------------
\* Scopes.

\* Nodes are dropped from the head of the list up to the first that is to stay.
DropTo(t, staying) ==
  [t EXCEPT !.node = IF staying = {} THEN << >> ELSE SubSeq(@, Min(staying), Len(@))]

vartab_begin_scope(t) == [t EXCEPT !.current_scope = @ + 1]

\* Mutant: the names of the scope stay.
vartab_end_scope_keeps(t) == [t EXCEPT !.current_scope = @ - 1]

vartab_end_scope(t) ==
  [DropTo(t, {i \in DOMAIN t.node : t.node[i].scope # t.current_scope})
     EXCEPT !.current_scope = @ - 1]

vartab_begin_subscope(t) == [t EXCEPT !.current_subscope = @ + 1]

vartab_end_subscope(t) ==
  [DropTo(t, {i \in DOMAIN t.node : t.node[i].subscope # t.current_subscope})
     EXCEPT !.current_subscope = @ - 1]
=============================================================================
