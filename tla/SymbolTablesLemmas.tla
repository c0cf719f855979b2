------------------------- MODULE SymbolTablesLemmas -------------------------
(***************************************************************************)
(* Theorems about the tables of names, and when a table says what the      *)
(* source means.                                                           *)
(*                                                                         *)
(* First, a scope that ends takes along just the names that were entered   *)
(* in it, and a name that is entered hides others of that name and nothing *)
(* else.  A scope drops the nodes from the head of the list to the first   *)
(* of another scope.  Two facts make that the place where it began: nodes  *)
(* are of scopes that are open (Settled), and those entered since are of   *)
(* this one (EnteredSince).                                                *)
(*                                                                         *)
(* Then, a table agrees with the blocks that are open when every name is   *)
(* found as they mean it (Agrees).  Entering a name in it and declaring it *)
(* in the innermost block keeps that; so does beginning a block, ending    *)
(* it, and taking over what a module shows.  For the end of a block it is  *)
(* not enough that the table agrees: the one that will be left has to      *)
(* agree with the blocks that will be left, and so on (AgreesToTheEnd).    *)
(* They hold for tables of any length, with any names.                     *)
(***************************************************************************)
EXTENDS SymbolTables, LeastNumber, FiniteSetTheorems

Nodes(Name, Args) ==
  [name : Name, args : Args, dnode : Int, scope : Int, subscope : Int, count : Int,
   imported : BOOLEAN]
Tables(Name, Args) ==
  [node : Seq(Nodes(Name, Args)), current_scope : Nat, current_subscope : Nat]

\* What is not an operator has no argument types.
NoArgs == ""

LEMMA MinIsLeast ==
  ASSUME NEW S \in SUBSET Nat, NEW m \in S, \A x \in S : m <= x
  PROVE  Min(S) = m
<1>1. Min(S) \in S /\ \A y \in S : Min(S) <= y
  BY DEF Min
<1>2. Min(S) <= m /\ m <= Min(S) /\ Min(S) \in Nat /\ m \in Nat
  BY <1>1
<1>. QED
  BY <1>2

LEMMA MinIsIn ==
  ASSUME NEW S \in SUBSET Nat, S # {}
  PROVE  Min(S) \in S /\ \A x \in S : Min(S) <= x
<1>1. PICK m \in S : \A x \in S : m <= x
  BY LeastNatural
<1>. QED
  BY <1>1, MinIsLeast

---------------------------------------------------------------------------
\* Entering names.

\* What PutNode() puts at the head of the list.
NewNode(t, name, args, dnode, count, imported) ==
  [name |-> name, args |-> args, dnode |-> dnode,
   scope |-> t.current_scope, subscope |-> t.current_subscope,
   count |-> count, imported |-> imported]

\* u is t with n before its nodes.
IsPut(t, u, n) ==
  /\ n.scope = t.current_scope /\ n.subscope = t.current_subscope
  /\ u.current_scope = t.current_scope
  /\ u.current_subscope = t.current_subscope
  /\ Len(u.node) = 1 + Len(t.node)
  /\ u.node[1] = n
  /\ \A i \in 1 .. Len(t.node) : u.node[1 + i] = t.node[i]

LEMMA Put ==
  ASSUME NEW Name, NEW Args, NEW t \in Tables(Name, Args), NEW name \in Name,
         NEW args \in Args, NEW dnode \in Int, NEW count \in Int, NEW imported \in BOOLEAN
  PROVE  /\ PutNode(t, name, args, dnode, count, imported) \in Tables(Name, Args)
         /\ IsPut(t, PutNode(t, name, args, dnode, count, imported),
                  NewNode(t, name, args, dnode, count, imported))
<1>. DEFINE u == PutNode(t, name, args, dnode, count, imported)
            n == NewNode(t, name, args, dnode, count, imported)
<1>1. /\ t.node \in Seq(Nodes(Name, Args))
      /\ t.current_scope \in Nat /\ t.current_subscope \in Nat
  BY DEF Tables
<1>2. /\ n \in Nodes(Name, Args)
      /\ n.name = name /\ n.args = args
      /\ n.scope = t.current_scope /\ n.subscope = t.current_subscope
  BY <1>1 DEF NewNode, Nodes
<1>3. u = [t EXCEPT !.node = <<n>> \o @]
  BY DEF PutNode, NewNode
<1>. HIDE DEF u, n
<1>4. u = [node |-> <<n>> \o t.node, current_scope |-> t.current_scope,
           current_subscope |-> t.current_subscope]
  BY <1>3 DEF Tables
<1>. DEFINE s == <<n>> \o t.node
<1>5. /\ s \in Seq(Nodes(Name, Args)) /\ Len(s) = 1 + Len(t.node)
      /\ s[1] = n /\ \A i \in 1 .. Len(t.node) : s[1 + i] = t.node[i]
  BY <1>1, <1>2
<1>. HIDE DEF s
<1>6. u = [node |-> s, current_scope |-> t.current_scope,
           current_subscope |-> t.current_subscope]
  BY <1>4 DEF s
<1>7. u \in Tables(Name, Args)
  BY <1>1, <1>5, <1>6 DEF Tables
<1>8. IsPut(t, u, n)
  BY <1>2, <1>5, <1>6 DEF IsPut
<1>. QED
  BY <1>7, <1>8 DEF u, n

---------------------------------------------------------------------------
\* t is base with k more names before its own, all of them entered in the
\* scope and the subscope that t is in now.
EnteredSince(t, base, k) ==
  /\ Len(t.node) = k + Len(base.node)
  /\ \A i \in 1 .. k : /\ t.node[i].scope = t.current_scope
                       /\ t.node[i].subscope = t.current_subscope
  /\ \A i \in 1 .. Len(base.node) : t.node[k + i] = base.node[i]

LEMMA PutSince ==
  ASSUME NEW Name, NEW Args, NEW base \in Tables(Name, Args), NEW t \in Tables(Name, Args),
         NEW k \in Nat, EnteredSince(t, base, k),
         NEW name \in Name, NEW args \in Args, NEW dnode \in Int, NEW count \in Int,
         NEW imported \in BOOLEAN
  PROVE  EnteredSince(PutNode(t, name, args, dnode, count, imported), base, k + 1)
<1>. DEFINE u == PutNode(t, name, args, dnode, count, imported)
            n == NewNode(t, name, args, dnode, count, imported)
<1>0. IsPut(t, u, n)
  BY Put
<1>. HIDE DEF u, n
<1>1. /\ n.scope = t.current_scope /\ n.subscope = t.current_subscope
      /\ u.current_scope = t.current_scope /\ u.current_subscope = t.current_subscope
      /\ Len(u.node) = 1 + Len(t.node)
      /\ u.node[1] = n
      /\ \A i \in 1 .. Len(t.node) : u.node[1 + i] = t.node[i]
  BY <1>0 DEF IsPut
<1>2. Len(t.node) \in Nat /\ Len(base.node) \in Nat
  BY DEF Tables
<1>3. \A i \in 1 .. k + 1 : /\ u.node[i].scope = u.current_scope
                            /\ u.node[i].subscope = u.current_subscope
  <2>. SUFFICES ASSUME NEW i \in 1 .. k + 1
                PROVE  /\ u.node[i].scope = u.current_scope
                       /\ u.node[i].subscope = u.current_subscope
    OBVIOUS
  <2>1. CASE i = 1
    BY <2>1, <1>1
  <2>2. CASE i # 1
    <3>1. i - 1 \in 1 .. k /\ i - 1 \in 1 .. Len(t.node) /\ 1 + (i - 1) = i
      BY <2>2, <1>2 DEF EnteredSince
    <3>2. /\ t.node[i - 1].scope = t.current_scope
          /\ t.node[i - 1].subscope = t.current_subscope
      BY <3>1 DEF EnteredSince
    <3>3. u.node[i] = t.node[i - 1]
      BY <3>1, <1>1
    <3>. QED
      BY <3>2, <3>3, <1>1
  <2>. QED
    BY <2>1, <2>2
<1>4. ASSUME NEW i \in 1 .. Len(base.node)
      PROVE  u.node[(k + 1) + i] = base.node[i]
  <2>1. k + i \in 1 .. Len(t.node) /\ 1 + (k + i) = (k + 1) + i
    BY <1>2 DEF EnteredSince
  <2>. QED
    BY <2>1, <1>1 DEF EnteredSince
<1>5. Len(u.node) = (k + 1) + Len(base.node)
  <2>1. Len(t.node) = k + Len(base.node)
    BY DEF EnteredSince
  <2>2. Len(u.node) = 1 + Len(t.node)
    BY <1>1
  <2>3. \A b \in Nat : 1 + (k + b) = (k + 1) + b
    OBVIOUS
  <2>. QED
    BY <2>1, <2>2, <2>3, <1>2
<1>6. EnteredSince(u, base, k + 1)
  BY <1>3, <1>4, <1>5 DEF EnteredSince
<1>. QED
  BY <1>6 DEF u

\* A table that no scope beyond the open ones has entered names in.
Settled(t) ==
  \A i \in 1 .. Len(t.node) : /\ t.node[i].scope <= t.current_scope
                              /\ t.node[i].subscope <= t.current_subscope

LEMMA LookupCounts ==
  ASSUME NEW Name, NEW Args, NEW t \in Tables(Name, Args), NEW name
  PROVE  vartab_lookup_varnode(t, name).count \in Int
<1>. DEFINE at == {i \in DOMAIN t.node : t.node[i].name = name}
<1>1. t.node \in Seq(Nodes(Name, Args)) /\ DOMAIN t.node = 1 .. Len(t.node)
  BY DEF Tables
<1>2. at \in SUBSET Nat /\ at \in SUBSET (DOMAIN t.node)
  BY <1>1
<1>. HIDE DEF at
<1>3. CASE at = {}
  BY <1>3 DEF vartab_lookup_varnode, FirstOf, NoNode, at
<1>4. CASE at # {}
  <2>1. Min(at) \in 1 .. Len(t.node)
    BY <1>1, <1>2, <1>4, MinIsIn
  <2>2. t.node[Min(at)] \in Nodes(Name, Args)
    BY <1>1, <2>1
  <2>3. vartab_lookup_varnode(t, name) = t.node[Min(at)]
    BY <1>4 DEF vartab_lookup_varnode, FirstOf, at
  <2>. QED
    BY <2>2, <2>3 DEF Nodes
<1>. QED
  BY <1>3, <1>4

\* A table that names are entered in stays one whose names are of the scopes
\* that are open.
LEMMA PutSettles ==
  ASSUME NEW Name, NEW Args, NEW t \in Tables(Name, Args), Settled(t),
         NEW name \in Name, NEW args \in Args, NEW dnode \in Int, NEW count \in Int,
         NEW imported \in BOOLEAN
  PROVE  Settled(PutNode(t, name, args, dnode, count, imported))
<1>. DEFINE u == PutNode(t, name, args, dnode, count, imported)
            n == NewNode(t, name, args, dnode, count, imported)
<1>0. IsPut(t, u, n)
  BY Put
<1>. HIDE DEF u, n
<1>1. /\ n.scope = t.current_scope /\ n.subscope = t.current_subscope
      /\ u.current_scope = t.current_scope /\ u.current_subscope = t.current_subscope
      /\ Len(u.node) = 1 + Len(t.node)
      /\ u.node[1] = n
      /\ \A i \in 1 .. Len(t.node) : u.node[1 + i] = t.node[i]
  BY <1>0 DEF IsPut
<1>2. /\ Len(t.node) \in Nat
      /\ t.current_scope \in Nat /\ t.current_subscope \in Nat
  BY DEF Tables
<1>3. ASSUME NEW i \in 1 .. Len(u.node)
      PROVE  u.node[i].scope <= u.current_scope /\ u.node[i].subscope <= u.current_subscope
  <2>1. CASE i = 1
    BY <2>1, <1>1, <1>2
  <2>2. CASE i # 1
    <3>1. i - 1 \in 1 .. Len(t.node) /\ 1 + (i - 1) = i
      BY <2>2, <1>1, <1>2
    <3>. QED
      BY <3>1, <1>1 DEF Settled
  <2>. QED
    BY <2>1, <2>2
<1>4. Settled(u)
  BY <1>3 DEF Settled
<1>. QED
  BY <1>4 DEF u

\* u is t, or t with one more node before its own.
EntersOne(t, u, Args, name, dnode) ==
  \/ u = t
  \/ \E a \in Args, count \in Int, imported \in BOOLEAN :
       u = PutNode(t, name, a, dnode, count, imported)

LEMMA EachEntersOne ==
  ASSUME NEW Name, NEW Args, NoArgs \in Args, NEW t \in Tables(Name, Args),
         NEW name \in Name, NEW args \in Args, NEW dnode \in Int, NEW fw
  PROVE  /\ EntersOne(t, vartab_insert(t, name, dnode), Args, name, dnode)
         /\ EntersOne(t, vartab_insert_module(t, name, dnode), Args, name, dnode)
         /\ EntersOne(t, vartab_insert_operator(t, name, args, dnode), Args, name, dnode)
         /\ EntersOne(t, vartab_insert_modules_name(t, name, args, dnode), Args, name, dnode)
         /\ EntersOne(t, typetab_insert(t, name, dnode), Args, name, dnode)
         /\ EntersOne(t, typetab_insert_imported(t, name, dnode, fw), Args, name, dnode)
<1>. DEFINE c == vartab_lookup_varnode(t, name).count
<1>1. c \in Int
  BY LookupCounts
<1>. HIDE DEF c
<1>2. EntersOne(t, t, Args, name, dnode)
  BY DEF EntersOne
<1>3. ASSUME NEW a \in Args
      PROVE  /\ EntersOne(t, PutNode(t, name, a, dnode, 1, FALSE), Args, name, dnode)
             /\ EntersOne(t, PutNode(t, name, a, dnode, 1, TRUE), Args, name, dnode)
             /\ EntersOne(t, PutNode(t, name, a, dnode, c + 1, FALSE), Args, name, dnode)
             /\ EntersOne(t, PutNode(t, name, a, dnode, c + 1, TRUE), Args, name, dnode)
  <2>1. \A n \in Int, b \in BOOLEAN :
           EntersOne(t, PutNode(t, name, a, dnode, n, b), Args, name, dnode)
    BY DEF EntersOne
  <2>2. 1 \in Int /\ \A x \in Int : x + 1 \in Int
    OBVIOUS
  <2>. QED
    BY <1>1, <2>1, <2>2, Zenon
<1>4. EntersOne(t, vartab_insert(t, name, dnode), Args, name, dnode)
  BY <1>2, <1>3 DEF NoArgs, vartab_insert
<1>5. EntersOne(t, vartab_insert_module(t, name, dnode), Args, name, dnode)
  BY <1>2, <1>3 DEF NoArgs, vartab_insert_module, c
<1>6. EntersOne(t, vartab_insert_operator(t, name, args, dnode), Args, name, dnode)
  BY <1>3 DEF vartab_insert_operator
<1>7. \A a \in Args :
         EntersOne(t, vartab_insert_modules_name(t, name, a, dnode), Args, name, dnode)
  BY <1>2, <1>3 DEF vartab_insert_modules_name, c
<1>8. EntersOne(t, typetab_insert(t, name, dnode), Args, name, dnode)
  BY <1>2, <1>3 DEF NoArgs, typetab_insert
<1>9. EntersOne(t, typetab_insert_imported(t, name, dnode, fw), Args, name, dnode)
  BY <1>2, <1>7 DEF NoArgs, typetab_insert_imported
<1>. QED
  BY <1>4, <1>5, <1>6, <1>7, <1>8, <1>9

\* Whatever the compiler enters a name with - a variable, a module, an operator,
\* a type, or a name taken over from a module - puts at most one name in the
\* table, and it is of the scope and subscope that are open; so what a scope
\* has entered since it began stays apart from what was there before.
THEOREM EnteringKeepsScopesApart ==
  ASSUME NEW Name, NEW Args, NoArgs \in Args,
         NEW base \in Tables(Name, Args), NEW t \in Tables(Name, Args), Settled(t),
         NEW k \in Nat, EnteredSince(t, base, k),
         NEW name \in Name, NEW args \in Args, NEW dnode \in Int, NEW fw,
         NEW u \in {vartab_insert(t, name, dnode),
                    vartab_insert_module(t, name, dnode),
                    vartab_insert_operator(t, name, args, dnode),
                    vartab_insert_modules_name(t, name, args, dnode),
                    typetab_insert(t, name, dnode),
                    typetab_insert_imported(t, name, dnode, fw)}
  PROVE  /\ u \in Tables(Name, Args) /\ Settled(u)
         /\ u.current_scope = t.current_scope
         /\ u.current_subscope = t.current_subscope
         /\ EnteredSince(u, base, k) \/ EnteredSince(u, base, k + 1)
<1>1. EntersOne(t, u, Args, name, dnode)
  BY EachEntersOne
<1>2. CASE u = t
  BY <1>2
<1>3. CASE u # t
  <2>1. PICK a \in Args, count \in Int, imported \in BOOLEAN :
          u = PutNode(t, name, a, dnode, count, imported)
    BY <1>1, <1>3 DEF EntersOne
  <2>. DEFINE v == PutNode(t, name, a, dnode, count, imported)
  <2>2. /\ v \in Tables(Name, Args)
        /\ v.current_scope = t.current_scope
        /\ v.current_subscope = t.current_subscope
    <3>1. v \in Tables(Name, Args) /\ IsPut(t, v, NewNode(t, name, a, dnode, count, imported))
      BY Put
    <3>. QED
      BY <3>1 DEF IsPut
  <2>3. EnteredSince(v, base, k + 1)
    BY PutSince
  <2>4. Settled(v)
    BY PutSettles
  <2>. QED
    BY <2>1, <2>2, <2>3, <2>4
<1>. QED
  BY <1>2, <1>3

---------------------------------------------------------------------------
\* The names of scopes that end.

\* What is left of a sequence without its first elements.
Extends(S, s, k, n) == s \in Seq(S) /\ k \in Nat /\ n \in Nat /\ n > 0 /\ Len(s) = k + n
LEMMA Rest ==
  ASSUME NEW S, NEW s, NEW k, NEW n, Extends(S, s, k, n)
  PROVE  /\ SubSeq(s, k + 1, Len(s)) \in Seq(S)
         /\ Len(SubSeq(s, k + 1, Len(s))) = n
         /\ \A i \in 1 .. n : SubSeq(s, k + 1, Len(s))[i] = s[k + i]
BY DEF Extends

\* DropTo() gives back base when the first node that stays is the first of base.
LEMMA DropsToBase ==
  ASSUME NEW Name, NEW Args, NEW base \in Tables(Name, Args), NEW t \in Tables(Name, Args),
         NEW k \in Nat, EnteredSince(t, base, k),
         NEW staying \in SUBSET (DOMAIN t.node),
         \A i \in 1 .. k : i \notin staying,
         Len(base.node) > 0 => k + 1 \in staying
  PROVE  DropTo(t, staying) = [t EXCEPT !.node = base.node]
<1>. DEFINE s == IF staying = {} THEN << >> ELSE SubSeq(t.node, Min(staying), Len(t.node))
<1>1. /\ t.node \in Seq(Nodes(Name, Args)) /\ base.node \in Seq(Nodes(Name, Args))
      /\ Len(t.node) \in Nat /\ Len(base.node) \in Nat
      /\ DOMAIN t.node = 1 .. Len(t.node)
  BY DEF Tables
<1>2. Len(t.node) = k + Len(base.node)
  BY DEF EnteredSince
<1>3. CASE Len(base.node) = 0
  <2>1. staying = {}
    BY <1>1, <1>2, <1>3
  <2>2. base.node = << >>
    BY <1>1, <1>3
  <2>. QED
    BY <2>1, <2>2 DEF DropTo
<1>4. CASE Len(base.node) > 0
  <2>1. k + 1 \in staying /\ \A x \in staying : k + 1 <= x
    BY <1>1, <1>4
  <2>2. staying \in SUBSET Nat
    BY <1>1
  <2>3. Min(staying) = k + 1
    BY <2>1, <2>2, MinIsLeast
  <2>. DEFINE r == SubSeq(t.node, k + 1, Len(t.node))
  <2>4. /\ r \in Seq(Nodes(Name, Args))
        /\ Len(r) = Len(base.node)
        /\ \A i \in 1 .. Len(base.node) : r[i] = t.node[k + i]
    <3>. DEFINE q == t.node
                n == Len(base.node)
                S == Nodes(Name, Args)
    <3>1. Extends(S, q, k, n)
      BY <1>1, <1>2, <1>4 DEF Extends
    <3>. HIDE DEF q, n, S
    <3>2. /\ SubSeq(q, k + 1, Len(q)) \in Seq(S) /\ Len(SubSeq(q, k + 1, Len(q))) = n
          /\ \A i \in 1 .. n : SubSeq(q, k + 1, Len(q))[i] = q[k + i]
      BY <3>1, Rest
    <3>. QED
      BY <3>2 DEF q, n, S
  <2>. HIDE DEF r
  <2>5. \A i \in 1 .. Len(base.node) : r[i] = base.node[i]
    BY <2>4 DEF EnteredSince
  <2>6. r = base.node
    BY <1>1, <2>4, <2>5
  <2>7. staying # {}
    BY <2>1
  <2>. QED
    BY <2>3, <2>6, <2>7 DEF DropTo, r
<1>. QED
  BY <1>1, <1>3, <1>4

\* When a function ends, the names that were entered in it are gone and those
\* from before are what they were (vartab_end_scope()).
THEOREM ScopeEnds ==
  ASSUME NEW Name, NEW Args, NEW base \in Tables(Name, Args), NEW t \in Tables(Name, Args),
         NEW k \in Nat, Settled(base),
         t.current_scope = vartab_begin_scope(base).current_scope,
         t.current_subscope = base.current_subscope,
         EnteredSince(t, base, k)
  PROVE  vartab_end_scope(t) = base
<1>. DEFINE staying == {i \in DOMAIN t.node : t.node[i].scope # t.current_scope}
<1>1. /\ Len(t.node) \in Nat /\ Len(base.node) \in Nat
      /\ DOMAIN t.node = 1 .. Len(t.node)
      /\ base.current_scope \in Nat
  BY DEF Tables
<1>2. t.current_scope = base.current_scope + 1
  BY DEF vartab_begin_scope, Tables
<1>3. \A i \in 1 .. k : i \notin staying
  BY DEF EnteredSince
<1>4. ASSUME Len(base.node) > 0 PROVE k + 1 \in staying
  <2>1. k + 1 \in DOMAIN t.node /\ t.node[k + 1] = base.node[1]
    BY <1>1, <1>4 DEF EnteredSince
  <2>2. base.node[1].scope <= base.current_scope /\ base.node[1].scope \in Int
    <3>1. 1 \in 1 .. Len(base.node)
      BY <1>1, <1>4
    <3>2. base.node[1] \in Nodes(Name, Args)
      BY <3>1 DEF Tables
    <3>. QED
      BY <3>1, <3>2 DEF Settled, Nodes
  <2>3. t.node[k + 1].scope # t.current_scope
    BY <1>1, <1>2, <2>1, <2>2
  <2>. QED
    BY <2>1, <2>3
<1>. HIDE DEF staying
<1>5. DropTo(t, staying) = [t EXCEPT !.node = base.node]
  BY <1>3, <1>4, DropsToBase DEF staying
<1>6. vartab_end_scope(t) = [[t EXCEPT !.node = base.node] EXCEPT !.current_scope = @ - 1]
  BY <1>5 DEF vartab_end_scope, staying
<1>7. t = [node |-> t.node, current_scope |-> t.current_scope,
           current_subscope |-> t.current_subscope]
  BY DEF Tables
<1>8. base = [node |-> base.node, current_scope |-> base.current_scope,
              current_subscope |-> base.current_subscope]
  BY DEF Tables
<1>9. vartab_end_scope(t) = [node |-> base.node, current_scope |-> t.current_scope - 1,
                             current_subscope |-> t.current_subscope]
  BY <1>6, <1>7
<1>10. t.current_scope - 1 = base.current_scope
  BY <1>1, <1>2
<1>. QED
  BY <1>8, <1>9, <1>10

\* When a block ends, so it is with the names that were entered in it
\* (vartab_end_subscope()).
THEOREM SubscopeEnds ==
  ASSUME NEW Name, NEW Args, NEW base \in Tables(Name, Args), NEW t \in Tables(Name, Args),
         NEW k \in Nat, Settled(base),
         t.current_subscope = vartab_begin_subscope(base).current_subscope,
         t.current_scope = base.current_scope,
         EnteredSince(t, base, k)
  PROVE  vartab_end_subscope(t) = base
<1>. DEFINE staying == {i \in DOMAIN t.node : t.node[i].subscope # t.current_subscope}
<1>1. /\ Len(t.node) \in Nat /\ Len(base.node) \in Nat
      /\ DOMAIN t.node = 1 .. Len(t.node)
      /\ base.current_subscope \in Nat
  BY DEF Tables
<1>2. t.current_subscope = base.current_subscope + 1
  BY DEF vartab_begin_subscope, Tables
<1>3. \A i \in 1 .. k : i \notin staying
  BY DEF EnteredSince
<1>4. ASSUME Len(base.node) > 0 PROVE k + 1 \in staying
  <2>1. k + 1 \in DOMAIN t.node /\ t.node[k + 1] = base.node[1]
    BY <1>1, <1>4 DEF EnteredSince
  <2>2. base.node[1].subscope <= base.current_subscope /\ base.node[1].subscope \in Int
    <3>1. 1 \in 1 .. Len(base.node)
      BY <1>1, <1>4
    <3>2. base.node[1] \in Nodes(Name, Args)
      BY <3>1 DEF Tables
    <3>. QED
      BY <3>1, <3>2 DEF Settled, Nodes
  <2>3. t.node[k + 1].subscope # t.current_subscope
    BY <1>1, <1>2, <2>1, <2>2
  <2>. QED
    BY <2>1, <2>3
<1>. HIDE DEF staying
<1>5. DropTo(t, staying) = [t EXCEPT !.node = base.node]
  BY <1>3, <1>4, DropsToBase DEF staying
<1>6. vartab_end_subscope(t) = [[t EXCEPT !.node = base.node] EXCEPT !.current_subscope = @ - 1]
  BY <1>5 DEF vartab_end_subscope, staying
<1>7. t = [node |-> t.node, current_scope |-> t.current_scope,
           current_subscope |-> t.current_subscope]
  BY DEF Tables
<1>8. base = [node |-> base.node, current_scope |-> base.current_scope,
              current_subscope |-> base.current_subscope]
  BY DEF Tables
<1>9. vartab_end_subscope(t) = [node |-> base.node, current_scope |-> t.current_scope,
                                current_subscope |-> t.current_subscope - 1]
  BY <1>6, <1>7
<1>10. t.current_subscope - 1 = base.current_subscope
  BY <1>1, <1>2
<1>. QED
  BY <1>8, <1>9, <1>10

---------------------------------------------------------------------------
\* What a name that is entered hides.

\* The name stands for what was entered last, and every other name for what it
\* stood for before (vartab_lookup_varnode()).
THEOREM EnteringHidesItsNameOnly ==
  ASSUME NEW Name, NEW Args, NEW t \in Tables(Name, Args),
         NEW name \in Name, NEW args \in Args, NEW dnode \in Int, NEW count \in Int,
         NEW imported \in BOOLEAN, NEW other \in Name
  PROVE  vartab_lookup_varnode(PutNode(t, name, args, dnode, count, imported), other)
         = IF other = name THEN NewNode(t, name, args, dnode, count, imported)
           ELSE vartab_lookup_varnode(t, other)
<1>. DEFINE u == PutNode(t, name, args, dnode, count, imported)
            n == NewNode(t, name, args, dnode, count, imported)
            before == {i \in DOMAIN t.node : t.node[i].name = other}
            after  == {i \in DOMAIN u.node : u.node[i].name = other}
<1>1. u \in Tables(Name, Args) /\ IsPut(t, u, n) /\ n.name = name
  BY Put DEF NewNode
<1>. HIDE DEF u, n
<1>2. /\ u.node[1] = n /\ n.name = name
      /\ \A i \in 1 .. Len(t.node) : u.node[1 + i] = t.node[i]
  BY <1>1 DEF IsPut
<1>3. /\ Len(u.node) = 1 + Len(t.node) /\ Len(t.node) \in Nat
      /\ DOMAIN u.node = 1 .. Len(u.node) /\ DOMAIN t.node = 1 .. Len(t.node)
  BY <1>1 DEF IsPut, Tables
<1>4. before \in SUBSET Nat /\ after \in SUBSET Nat
  BY <1>3
<1>5. /\ vartab_lookup_varnode(t, other) = IF before = {} THEN NoNode ELSE t.node[Min(before)]
      /\ vartab_lookup_varnode(u, other) = IF after = {} THEN NoNode ELSE u.node[Min(after)]
  BY DEF vartab_lookup_varnode, FirstOf
<1>6. CASE other = name
  <2>1. 1 \in after
    BY <1>2, <1>3, <1>6
  <2>2. \A x \in after : 1 <= x
    BY <1>3
  <2>3. Min(after) = 1 /\ after # {}
    BY <1>4, <2>1, <2>2, MinIsLeast
  <2>. QED
    BY <1>2, <1>5, <1>6, <2>3 DEF u, n
<1>7. CASE other # name
  <2>1. \A i \in after : i - 1 \in before
    <3>. TAKE i \in after
    <3>1. i # 1
      BY <1>2, <1>7
    <3>2. i - 1 \in 1 .. Len(t.node) /\ 1 + (i - 1) = i
      BY <1>3, <3>1
    <3>. QED
      BY <1>2, <1>3, <3>2
  <2>2. \A i \in before : 1 + i \in after
    <3>. TAKE i \in before
    <3>1. i \in 1 .. Len(t.node) /\ 1 + i \in 1 .. Len(u.node)
      BY <1>3
    <3>. QED
      BY <1>2, <1>3, <3>1
  <2>3. CASE before = {}
    <3>1. after = {}
      BY <2>1, <2>3
    <3>. QED
      BY <1>5, <1>7, <2>3, <3>1 DEF u
  <2>4. CASE before # {}
    <3>. DEFINE m == Min(before)
    <3>1. m \in before /\ \A x \in before : m <= x
      BY <1>4, <2>4, MinIsIn
    <3>. HIDE DEF m
    <3>2. m \in 1 .. Len(t.node)
      BY <1>3, <3>1
    <3>3. 1 + m \in after
      BY <2>2, <3>1
    <3>4. \A x \in after : 1 + m <= x
      <4>. TAKE x \in after
      <4>1. m <= x - 1 /\ x \in Nat
        BY <1>4, <2>1, <3>1
      <4>. QED
        BY <3>2, <4>1
    <3>. HIDE DEF before, after
    <3>5. Min(after) = 1 + m /\ after # {}
      BY <1>4, <3>3, <3>4, MinIsLeast
    <3>6. u.node[1 + m] = t.node[m]
      BY <1>2, <3>2
    <3>. QED
      BY <1>5, <1>7, <2>4, <3>5, <3>6 DEF u, m
  <2>. QED
    BY <2>3, <2>4
<1>. QED
  BY <1>6, <1>7

---------------------------------------------------------------------------
\* What the tables and the blocks of the source have to do with each other.

AllNames == Names \cup ModuleNames
AllArgs  == ArgTypes \cup {NoArgs}

Decls ==
  {d \in [kind : Kinds, name : AllNames, args : AllArgs, dnode : Nat \ {0}] :
     IF d.kind = "operators" THEN d.args \in ArgTypes ELSE d.args = NoArgs}
OpenBlocks ==
  [construct : {"program", "module", "block", "function"}, id : Nat,
   own : SUBSET Decls, imports : SUBSET Decls, uses : SUBSET Nat]

InFunction(open) == \E i \in DOMAIN open : open[i].construct = "function"

\* What the open blocks say of a name: the innermost one, those up to the innermost
\* function, what the name stands for if any block declares it, and what was imported.
InScope(open, kind, name, args) ==
  UNION {Own(open, i, kind, name, args) : i \in SameScope(open)}
View(open, kind, name, args) ==
  [own |-> Own(open, 1, kind, name, args), scope |-> InScope(open, kind, name, args),
   here |-> Innermost(open, kind, name, args), imports |-> Imported(open, kind, name, args)]

\* What looking up a name of this view finds.
Mentions(decls, dnode) == \E d \in decls : d.dnode = dnode
Finds(kind, t, node, v) ==
  /\ v.here # {} =>
       /\ IsOwn(node) /\ Mentions(v.here, node.dnode)
       /\ kind # "operators" => node.count = 1 /\ \A d, e \in v.here : d = e
       /\ kind \in {"vartab", "consts"} =>
            (node.scope = t.current_scope <=> v.scope # {})
       /\ kind = "typetab" =>
            (node.scope = t.current_scope /\ node.subscope = t.current_subscope
             <=> v.own # {})
  /\ v.here = {} /\ v.imports = {} => node = NoNode
  /\ v.here = {} /\ v.imports # {} =>
       /\ node.imported /\ Mentions(v.imports, node.dnode)
       /\ kind # "operators" => node.count = Cardinality(v.imports)
  /\ IsFiniteSet(v.imports)

\* A declared operator comes before those of its name that were imported.
OwnFirst(t, open, name) ==
  LET node == vartab_lookup_varnode(t, name)
  IN  /\ (\E args \in AllArgs : Innermost(open, "operators", name, args) # {})
           => IsOwn(node)
      /\ IsOwn(node) => Innermost(open, "operators", name, node.args) # {}

NodeFits(kind, t, n) ==
  /\ n.dnode \in Nat \ {0}
  /\ n.scope \in 0 .. t.current_scope /\ n.subscope \in 0 .. t.current_subscope
  /\ n.imported => n.scope = 0
  /\ kind # "operators" => n.args = NoArgs

\* The table says what the open blocks mean.
Agrees(kind, t, open) ==
  /\ t \in Tables(AllNames, AllArgs)
  /\ open \in Seq(OpenBlocks) /\ open # << >>
  /\ \A i \in DOMAIN t.node : NodeFits(kind, t, t.node[i])
  /\ t.current_scope = 0 <=> ~InFunction(open)
  /\ \A name \in AllNames, args \in AllArgs :
       Finds(kind, t, vartab_lookup_operator(t, name, args), View(open, kind, name, args))
  /\ kind = "operators" => \A name \in AllNames : OwnFirst(t, open, name)

\* The table that is left when the innermost block ends.
Ended(t, open) ==
  IF Head(open).construct = "function" THEN vartab_end_scope(t) ELSE vartab_end_subscope(t)

\* With each of the tables of Z, the one that is left is in Z, too.
EndsWithin(kind, Z) ==
  \A t, open : <<t, open>> \in Z =>
    /\ Agrees(kind, t, open)
    /\ Len(open) > 1 => <<Ended(t, open), Tail(open)>> \in Z
\* The table says what the blocks mean, and goes on to as they end.
AgreesToTheEnd(kind, t, open) == \E Z : EndsWithin(kind, Z) /\ <<t, open>> \in Z

\* The tables in a module's node hold just what it shows.
Shows(kind, t, decls) ==
  /\ t \in Tables(AllNames, AllArgs)
  /\ t.current_scope = 0 /\ t.current_subscope = 0
  /\ \A i \in DOMAIN t.node :
       LET n == t.node[i]
       IN  /\ Decl(kind, n.name, n.args, n.dnode) \in decls
           /\ ~n.imported /\ n.scope = 0 /\ n.subscope = 0
           /\ \A j \in DOMAIN t.node :
                n.dnode = t.node[j].dnode \/ (kind # "operators" /\ n.name = t.node[j].name)
                  => i = j
  /\ \A d \in decls : d.kind = kind =>
       \E i \in DOMAIN t.node :
         d = Decl(kind, t.node[i].name, t.node[i].args, t.node[i].dnode)

---------------------------------------------------------------------------
\* A block that is put before others.

\* A sequence with something before it.
LEMMA Before ==
  ASSUME NEW S, NEW b \in S, NEW ds \in Seq(S)
  PROVE  /\ <<b>> \o ds \in Seq(S) /\ <<b>> \o ds # << >>
         /\ Len(<<b>> \o ds) = 1 + Len(ds)
         /\ DOMAIN (<<b>> \o ds) = 1 .. 1 + Len(ds) /\ DOMAIN ds = 1 .. Len(ds)
         /\ (<<b>> \o ds)[1] = b /\ Head(<<b>> \o ds) = b /\ Tail(<<b>> \o ds) = ds
         /\ \A i \in 1 .. Len(ds) : (<<b>> \o ds)[1 + i] = ds[i]
         /\ \A i \in 2 .. 1 + Len(ds) : (<<b>> \o ds)[i] = ds[i - 1]
<1>. DEFINE s == <<b>> \o ds
<1>1. /\ s \in Seq(S) /\ Len(s) = 1 + Len(ds) /\ s[1] = b
      /\ \A i \in 1 .. Len(ds) : s[1 + i] = ds[i]
      /\ \A i \in 2 .. 1 + Len(ds) : s[i] = ds[i - 1]
  OBVIOUS
<1>2. DOMAIN s = 1 .. Len(s) /\ DOMAIN ds = 1 .. Len(ds) /\ Len(ds) \in Nat
  BY <1>1
<1>3. s # << >> /\ Head(s) = s[1] 
  BY <1>1, <1>2
<1>4. Tail(s) = ds
  <2>. HIDE DEF s
  <2>1. /\ Tail(s) \in Seq(S) /\ Len(Tail(s)) = Len(ds)
        /\ \A i \in 1 .. Len(ds) : Tail(s)[i] = s[1 + i]
    BY <1>1, <1>2, <1>3
  <2>. QED
    BY <1>1, <1>2, <2>1
<1>. HIDE DEF s
<1>5. /\ s \in Seq(S) /\ s # << >> /\ Len(s) = 1 + Len(ds)
      /\ DOMAIN s = 1 .. 1 + Len(ds) /\ DOMAIN ds = 1 .. Len(ds)
      /\ s[1] = b /\ Head(s) = b /\ Tail(s) = ds
  BY <1>1, <1>2, <1>3, <1>4
<1>. QED
  BY <1>1, <1>5 DEF s

\* What is not empty is a block before others.
LEMMA HeadAndTail ==
  ASSUME NEW S, NEW cs \in Seq(S), cs # << >>
  PROVE  /\ Head(cs) \in S /\ Tail(cs) \in Seq(S) /\ cs = <<Head(cs)>> \o Tail(cs)
         /\ Head(cs) = cs[1] /\ Len(cs) = 1 + Len(Tail(cs)) /\ Len(cs) \in Nat \ {0}
<1>1. Len(cs) \in Nat \ {0} /\ Head(cs) = cs[1] /\ Head(cs) \in S
  OBVIOUS
<1>2. /\ Tail(cs) \in Seq(S) /\ Len(cs) = 1 + Len(Tail(cs))
      /\ \A i \in 1 .. Len(cs) - 1 : Tail(cs)[i] = cs[i + 1]
  BY <1>1
<1>. DEFINE s == <<Head(cs)>> \o Tail(cs)
<1>3. /\ s \in Seq(S) /\ Len(s) = 1 + Len(Tail(cs)) /\ s[1] = Head(cs)
      /\ \A i \in 2 .. 1 + Len(Tail(cs)) : s[i] = Tail(cs)[i - 1]
  BY <1>1, <1>2, Before
<1>. HIDE DEF s
<1>4. \A i \in 1 .. Len(cs) : s[i] = cs[i]
  BY <1>1, <1>2, <1>3
<1>5. s = cs
  BY <1>2, <1>3, <1>4
<1>. QED
  BY <1>1, <1>2, <1>5 DEF s

\* cs is b, the innermost block, before the others.
Nests(cs, b, ts) ==
  b \in OpenBlocks /\ ts \in Seq(OpenBlocks) /\ cs = <<b>> \o ts

\* Blocks are the innermost one and those around it.
LEMMA NestsIs ==
  ASSUME NEW cs \in Seq(OpenBlocks), cs # << >>
  PROVE  /\ Nests(cs, Head(cs), Tail(cs))
         /\ Head(cs) \in OpenBlocks /\ Tail(cs) \in Seq(OpenBlocks) /\ Head(cs) = cs[1]
         /\ Len(cs) = 1 + Len(Tail(cs)) /\ Len(cs) \in Nat \ {0}
         /\ \A i \in 2 .. 1 + Len(Tail(cs)) : cs[i] = Tail(cs)[i - 1]
<1>1. Nests(cs, Head(cs), Tail(cs))
  BY HeadAndTail DEF Nests
<1>. QED
  BY <1>1, HeadAndTail

\* What is known of the sequence then.
LEMMA NestsSo ==
  ASSUME NEW cs, NEW b, NEW ts, Nests(cs, b, ts)
  PROVE  /\ b \in OpenBlocks /\ ts \in Seq(OpenBlocks)
         /\ cs \in Seq(OpenBlocks) /\ cs # << >> /\ Len(cs) = 1 + Len(ts)
         /\ cs[1] = b /\ Head(cs) = b /\ Tail(cs) = ts
         /\ \A i \in 2 .. 1 + Len(ts) : cs[i] = ts[i - 1]
         /\ \A i \in 1 .. Len(ts) : cs[1 + i] = ts[i]
<1>1. b \in OpenBlocks /\ ts \in Seq(OpenBlocks)
  BY DEF Nests
<1>2. cs = <<b>> \o ts
  BY DEF Nests
<1>. QED
  BY <1>1, <1>2, Before

\* What is declared, and whether a function is open, with a block more.
LEMMA ConsDeclared ==
  ASSUME NEW cs, NEW b, NEW ds, Nests(cs, b, ds), NEW kind, NEW name, NEW args
  PROVE  /\ DeclaredIn(cs, DOMAIN cs, kind, name, args)
            <=> \/ Of(b.own, kind, name, args) # {}
                \/ DeclaredIn(ds, DOMAIN ds, kind, name, args)
         /\ InFunction(cs) <=> b.construct = "function" \/ InFunction(ds)
<1>1. /\ DOMAIN cs = 1 .. 1 + Len(ds) /\ DOMAIN ds = 1 .. Len(ds) /\ Len(ds) \in Nat
      /\ cs[1] = b
      /\ \A i \in 1 .. Len(ds) : cs[1 + i] = ds[i]
      /\ \A i \in 2 .. 1 + Len(ds) : cs[i] = ds[i - 1]
  BY NestsSo
<1>2. /\ \A i \in 1 .. Len(ds) : 1 + i \in DOMAIN cs
      /\ \A i \in DOMAIN cs : i = 1 \/ (i - 1 \in DOMAIN ds /\ cs[i] = ds[i - 1])
      /\ 1 \in DOMAIN cs
  BY <1>1
<1>. DEFINE O(i) == Own(cs, i, kind, name, args)
            P(i) == Own(ds, i, kind, name, args)
<1>3. /\ O(1) = Of(b.own, kind, name, args)
      /\ \A i \in DOMAIN ds : O(1 + i) = P(i)
      /\ \A i \in DOMAIN cs : i = 1 \/ (i - 1 \in DOMAIN ds /\ O(i) = P(i - 1))
  BY <1>1, <1>2 DEF Own
<1>4. \A range : /\ DeclaredIn(cs, range, kind, name, args) <=> \E i \in range : O(i) # {}
                 /\ DeclaredIn(ds, range, kind, name, args) <=> \E i \in range : P(i) # {}
  BY DEF DeclaredIn
<1>. HIDE DEF O, P
<1>5. DeclaredIn(cs, DOMAIN cs, kind, name, args)
      <=> Of(b.own, kind, name, args) # {} \/ DeclaredIn(ds, DOMAIN ds, kind, name, args)
  <2>1. ASSUME NEW i \in DOMAIN ds, P(i) # {}  PROVE \E j \in DOMAIN cs : O(j) # {}
    BY <1>1, <1>2, <1>3, <2>1
  <2>2. ASSUME NEW i \in DOMAIN cs, O(i) # {}
        PROVE  Of(b.own, kind, name, args) # {} \/ \E j \in DOMAIN ds : P(j) # {}
    BY <1>3, <2>2
  <2>3. O(1) = Of(b.own, kind, name, args) /\ 1 \in DOMAIN cs
    BY <1>2, <1>3
  <2>. QED
    BY <1>4, <2>1, <2>2, <2>3
<1>6. InFunction(cs) <=> b.construct = "function" \/ InFunction(ds)
  BY <1>1, <1>2 DEF InFunction
<1>. QED
  BY <1>5, <1>6

\* What is imported, with a block more.
LEMMA ConsImported ==
  ASSUME NEW cs, NEW b, NEW ds, Nests(cs, b, ds), NEW kind, NEW name, NEW args
  PROVE  Imported(cs, kind, name, args)
         = Of(b.imports, kind, name, args) \cup Imported(ds, kind, name, args)
<1>1. /\ DOMAIN cs = 1 .. 1 + Len(ds) /\ DOMAIN ds = 1 .. Len(ds) /\ Len(ds) \in Nat
      /\ cs[1] = b
      /\ \A i \in 1 .. Len(ds) : cs[1 + i] = ds[i]
      /\ \A i \in 2 .. 1 + Len(ds) : cs[i] = ds[i - 1]
  BY NestsSo
<1>2. /\ \A i \in DOMAIN ds : 1 + i \in DOMAIN cs /\ cs[1 + i] = ds[i]
      /\ \A i \in DOMAIN cs : i = 1 \/ (i - 1 \in DOMAIN ds /\ cs[i] = ds[i - 1])
      /\ 1 \in DOMAIN cs
  BY <1>1
<1>3. \A d : d \in Imported(cs, kind, name, args)
             <=> \E i \in DOMAIN cs : d \in Of(cs[i].imports, kind, name, args)
  BY DEF Imported
<1>4. \A d : d \in Imported(ds, kind, name, args)
             <=> \E i \in DOMAIN ds : d \in Of(ds[i].imports, kind, name, args)
  BY DEF Imported
<1>5. \A d : d \in Imported(cs, kind, name, args)
             <=> \/ d \in Of(b.imports, kind, name, args)
                 \/ d \in Imported(ds, kind, name, args)
  <2>. TAKE d
  <2>1. ASSUME d \in Imported(cs, kind, name, args)
        PROVE  d \in Of(b.imports, kind, name, args) \/ d \in Imported(ds, kind, name, args)
    <3>1. PICK i \in DOMAIN cs : d \in Of(cs[i].imports, kind, name, args)
      BY <1>3, <2>1
    <3>. QED
      BY <1>1, <1>2, <1>4, <3>1
  <2>2. ASSUME d \in Imported(ds, kind, name, args)
        PROVE  d \in Imported(cs, kind, name, args)
    <3>1. PICK i \in DOMAIN ds : d \in Of(ds[i].imports, kind, name, args)
      BY <1>4, <2>2
    <3>. QED
      BY <1>2, <1>3, <3>1
  <2>3. ASSUME d \in Of(b.imports, kind, name, args)
        PROVE  d \in Imported(cs, kind, name, args)
    BY <1>1, <1>2, <1>3, <2>3
  <2>. QED
    BY <2>1, <2>2, <2>3
<1>6. Imported(cs, kind, name, args)
      = Of(b.imports, kind, name, args) \cup Imported(ds, kind, name, args)
  BY <1>5
<1>. QED
  BY <1>6

\* What the function or module declares, with a block more.
LEMMA ConsInScope ==
  ASSUME NEW cs, NEW b, NEW ds, Nests(cs, b, ds), NEW kind, NEW name, NEW args
  PROVE  InScope(cs, kind, name, args)
         = Of(b.own, kind, name, args)
           \cup IF b.construct = "function" THEN {} ELSE InScope(ds, kind, name, args)
<1>1. /\ DOMAIN cs = 1 .. 1 + Len(ds) /\ DOMAIN ds = 1 .. Len(ds) /\ Len(ds) \in Nat
      /\ cs[1] = b
      /\ \A i \in 1 .. Len(ds) : cs[1 + i] = ds[i]
      /\ \A i \in 2 .. 1 + Len(ds) : cs[i] = ds[i - 1]
  BY NestsSo
<1>2. /\ \A i \in 1 .. Len(ds) : 1 + i \in DOMAIN cs
      /\ \A i \in DOMAIN cs : i = 1 \/ (i - 1 \in DOMAIN ds /\ cs[i] = ds[i - 1])
      /\ 1 \in DOMAIN cs
  BY <1>1
<1>. DEFINE O(i) == Own(cs, i, kind, name, args)
            P(i) == Own(ds, i, kind, name, args)
            o == Of(b.own, kind, name, args)
<1>3. /\ O(1) = o
      /\ \A i \in DOMAIN ds : O(1 + i) = P(i)
      /\ \A i \in DOMAIN cs : i = 1 \/ (i - 1 \in DOMAIN ds /\ O(i) = P(i - 1))
  BY <1>1, <1>2 DEF Own
<1>4. \A d : d \in InScope(cs, kind, name, args) <=> \E i \in SameScope(cs) : d \in O(i)
  BY DEF InScope
<1>5. \A d : d \in InScope(ds, kind, name, args) <=> \E i \in SameScope(ds) : d \in P(i)
  BY DEF InScope
<1>6. SameScope(cs) \subseteq DOMAIN cs /\ SameScope(ds) \subseteq DOMAIN ds
  BY DEF SameScope
<1>. HIDE DEF O, P, o
<1>7. 1 \in SameScope(cs)
  BY <1>2 DEF SameScope
<1>8. ASSUME NEW i \in DOMAIN ds
      PROVE  1 + i \in SameScope(cs) <=> b.construct # "function" /\ i \in SameScope(ds)
  <2>1. 1 .. (1 + i) - 1 = 1 .. i /\ i \in 1 .. Len(ds)
    BY <1>1
  <2>2. ASSUME 1 + i \in SameScope(cs)  PROVE b.construct # "function" /\ i \in SameScope(ds)
    <3>1. \A j \in 1 .. i : cs[j].construct # "function"
      BY <2>1, <2>2 DEF SameScope
    <3>2. b.construct # "function"
      BY <1>1, <2>1, <3>1
    <3>3. \A j \in 1 .. i - 1 : 1 + j \in 1 .. i /\ cs[1 + j] = ds[j]
      BY <1>1, <2>1
    <3>. QED
      BY <3>1, <3>2, <3>3 DEF SameScope
  <2>3. ASSUME b.construct # "function", i \in SameScope(ds)  PROVE 1 + i \in SameScope(cs)
    <3>1. \A j \in 1 .. i : j = 1 \/ (j - 1 \in 1 .. i - 1 /\ cs[j] = ds[j - 1])
      BY <1>1, <2>1
    <3>2. \A j \in 1 .. i : cs[j].construct # "function"
      BY <1>1, <2>3, <3>1 DEF SameScope
    <3>3. \A j \in 1 .. (1 + i) - 1 : cs[j].construct # "function"
      BY <2>1, <3>2
    <3>. QED
      BY <1>2, <2>1, <3>3 DEF SameScope
  <2>. QED
    BY <2>2, <2>3
<1>9. ASSUME NEW d \in InScope(cs, kind, name, args)
      PROVE  d \in o \/ (b.construct # "function" /\ d \in InScope(ds, kind, name, args))
  <2>1. PICK i \in SameScope(cs) : d \in O(i)
    BY <1>4
  <2>2. CASE i = 1
    BY <1>3, <2>1, <2>2
  <2>3. CASE i # 1
    <3>1. i - 1 \in DOMAIN ds /\ d \in P(i - 1)
      BY <1>3, <1>6, <2>1, <2>3
    <3>2. 1 + (i - 1) = i
      BY <1>1, <1>6
    <3>3. b.construct # "function" /\ i - 1 \in SameScope(ds)
      BY <1>8, <2>1, <3>1, <3>2
    <3>. QED
      BY <1>5, <3>1, <3>3
  <2>. QED
    BY <2>2, <2>3
<1>10. ASSUME NEW d \in o  PROVE d \in InScope(cs, kind, name, args)
  BY <1>3, <1>4, <1>7
<1>11. ASSUME b.construct # "function", NEW d \in InScope(ds, kind, name, args)
       PROVE  d \in InScope(cs, kind, name, args)
  <2>1. PICK i \in SameScope(ds) : d \in P(i)
    BY <1>5
  <2>2. 1 + i \in SameScope(cs) /\ d \in O(1 + i)
    BY <1>3, <1>6, <1>8, <1>11, <2>1
  <2>. QED
    BY <1>4, <2>2
<1>12. CASE b.construct = "function"
  <2>1. InScope(cs, kind, name, args) = o \cup {}
    BY <1>9, <1>10, <1>12
  <2>. QED
    BY <1>12, <2>1 DEF o
<1>13. CASE b.construct # "function"
  <2>1. InScope(cs, kind, name, args) = o \cup InScope(ds, kind, name, args)
    BY <1>9, <1>10, <1>11, <1>13
  <2>. QED
    BY <1>13, <2>1 DEF o
<1>. QED
  BY <1>12, <1>13

\* What the innermost block that declares a name says, with a block more.
LEMMA ConsInnermost ==
  ASSUME NEW cs, NEW b, NEW ds, Nests(cs, b, ds), NEW kind, NEW name, NEW args
  PROVE  Innermost(cs, kind, name, args)
         = IF Of(b.own, kind, name, args) # {} THEN Of(b.own, kind, name, args)
           ELSE Innermost(ds, kind, name, args)
<1>1. /\ DOMAIN cs = 1 .. 1 + Len(ds) /\ DOMAIN ds = 1 .. Len(ds) /\ Len(ds) \in Nat
      /\ cs[1] = b
      /\ \A i \in 1 .. Len(ds) : cs[1 + i] = ds[i]
      /\ \A i \in 2 .. 1 + Len(ds) : cs[i] = ds[i - 1]
  BY NestsSo
<1>. DEFINE O(i) == Own(cs, i, kind, name, args)
            P(i) == Own(ds, i, kind, name, args)
            o == Of(b.own, kind, name, args)
<1>2. /\ O(1) = o
      /\ \A i \in 1 .. Len(ds) : O(1 + i) = P(i)
      /\ \A i \in 2 .. 1 + Len(ds) : O(i) = P(i - 1)
  BY <1>1 DEF Own
<1>3. \A d : d \in Innermost(cs, kind, name, args)
             <=> \E i \in DOMAIN cs : d \in O(i) /\ \A j \in 1 .. i - 1 : O(j) = {}
  BY DEF Innermost, DeclaredIn
<1>4. \A d : d \in Innermost(ds, kind, name, args)
             <=> \E i \in DOMAIN ds : d \in P(i) /\ \A j \in 1 .. i - 1 : P(j) = {}
  BY DEF Innermost, DeclaredIn
<1>. HIDE DEF O, P, o
<1>5. CASE o # {}
  <2>1. ASSUME NEW d \in o  PROVE d \in Innermost(cs, kind, name, args)
    BY <1>1, <1>2, <1>3
  <2>2. ASSUME NEW d \in Innermost(cs, kind, name, args)  PROVE d \in o
    <3>1. PICK i \in DOMAIN cs : d \in O(i) /\ \A j \in 1 .. i - 1 : O(j) = {}
      BY <1>3
    <3>2. i = 1
      <4>1. CASE i # 1
        <5>1. 1 \in 1 .. i - 1
          BY <1>1, <4>1
        <5>. QED
          BY <1>2, <1>5, <3>1, <5>1
      <4>. QED
        BY <4>1
    <3>. QED
      BY <1>2, <3>1, <3>2
  <2>3. Innermost(cs, kind, name, args) = o
    BY <2>1, <2>2
  <2>. QED
    BY <1>5, <2>3 DEF o
<1>6. CASE o = {}
  <2>1. ASSUME NEW d \in Innermost(ds, kind, name, args)
        PROVE  d \in Innermost(cs, kind, name, args)
    <3>1. PICK i \in DOMAIN ds : d \in P(i) /\ \A j \in 1 .. i - 1 : P(j) = {}
      BY <1>4
    <3>2. 1 + i \in DOMAIN cs /\ d \in O(1 + i)
      BY <1>1, <1>2, <3>1
    <3>3. ASSUME NEW j \in 1 .. (1 + i) - 1  PROVE O(j) = {}
      <4>1. CASE j = 1
        BY <1>2, <1>6, <4>1
      <4>2. CASE j # 1
        <5>1. j \in 2 .. 1 + Len(ds) /\ j - 1 \in 1 .. i - 1
          BY <1>1, <3>1, <4>2
        <5>. QED
          BY <1>2, <3>1, <5>1
      <4>. QED
        BY <4>1, <4>2
    <3>. QED
      BY <1>3, <3>2, <3>3
  <2>2. ASSUME NEW d \in Innermost(cs, kind, name, args)
        PROVE  d \in Innermost(ds, kind, name, args)
    <3>1. PICK i \in DOMAIN cs : d \in O(i) /\ \A j \in 1 .. i - 1 : O(j) = {}
      BY <1>3
    <3>2. i # 1
      BY <1>2, <1>6, <3>1
    <3>3. i \in 2 .. 1 + Len(ds) /\ i - 1 \in DOMAIN ds /\ d \in P(i - 1)
      BY <1>1, <1>2, <3>1, <3>2
    <3>4. ASSUME NEW j \in 1 .. (i - 1) - 1  PROVE P(j) = {}
      <4>1. j \in 1 .. Len(ds) /\ 1 + j \in 1 .. i - 1
        BY <1>1, <3>3
      <4>. QED
        BY <1>2, <3>1, <4>1
    <3>. QED
      BY <1>4, <3>3, <3>4
  <2>3. Innermost(cs, kind, name, args) = Innermost(ds, kind, name, args)
    BY <2>1, <2>2
  <2>. QED
    BY <1>6, <2>3 DEF o
<1>. QED
  BY <1>5, <1>6

\* Some block declares a name if and only if an innermost one does.
LEMMA InnermostIsDeclared ==
  ASSUME NEW cs \in Seq(OpenBlocks), NEW kind, NEW name, NEW args
  PROVE  DeclaredIn(cs, DOMAIN cs, kind, name, args)
         <=> Innermost(cs, kind, name, args) # {}
<1>. DEFINE O(i) == Own(cs, i, kind, name, args)
            T == {i \in DOMAIN cs : O(i) # {}}
<1>1. DOMAIN cs = 1 .. Len(cs)
  OBVIOUS
<1>2. \A d : d \in Innermost(cs, kind, name, args)
             <=> \E i \in DOMAIN cs : d \in O(i) /\ \A j \in 1 .. i - 1 : O(j) = {}
  BY DEF Innermost, DeclaredIn
<1>3. DeclaredIn(cs, DOMAIN cs, kind, name, args) <=> T # {}
  BY DEF DeclaredIn
<1>4. T \in SUBSET Nat /\ \A i \in T : i \in DOMAIN cs /\ O(i) # {}
  BY <1>1
<1>5. \A i \in DOMAIN cs : O(i) # {} => i \in T
  OBVIOUS
<1>. HIDE DEF O, T
<1>6. ASSUME T # {}  PROVE Innermost(cs, kind, name, args) # {}
  <2>1. PICK m \in T : \A i \in T : m <= i
    BY <1>4, <1>6, LeastNatural
  <2>2. PICK d : d \in O(m)
    BY <1>4, <2>1
  <2>3. \A j \in 1 .. m - 1 : j \in DOMAIN cs /\ ~ m <= j
    BY <1>1, <1>4, <2>1
  <2>4. \A j \in 1 .. m - 1 : O(j) = {}
    BY <1>5, <2>1, <2>3
  <2>5. m \in DOMAIN cs
    BY <1>4
  <2>. QED
    BY <1>2, <2>2, <2>4, <2>5
<1>7. ASSUME Innermost(cs, kind, name, args) # {}  PROVE T # {}
  BY <1>2, <1>5, <1>7
<1>. QED
  BY <1>3, <1>6, <1>7

---------------------------------------------------------------------------
\* Looking up.

\* The first node of some places is one of them, or there is none.
LEMMA FirstOfIs ==
  ASSUME NEW Name, NEW Args, NEW t \in Tables(Name, Args), NEW at \in SUBSET (DOMAIN t.node)
  PROVE  /\ at = {} => FirstOf(t, at) = NoNode
         /\ at # {} => \E i \in at : FirstOf(t, at) = t.node[i]
<1>1. at \in SUBSET Nat
  BY DEF Tables
<1>2. CASE at # {}
  <2>1. Min(at) \in at
    BY <1>1, <1>2, MinIsIn
  <2>. QED
    BY <1>2, <2>1 DEF FirstOf
<1>. QED
  BY <1>2 DEF FirstOf

\* A node of that name, if there is one.
LEMMA LookupIs ==
  ASSUME NEW Name, NEW Args, NEW t \in Tables(Name, Args), NEW name
  PROVE  /\ (\A i \in DOMAIN t.node : t.node[i].name # name)
              => vartab_lookup_varnode(t, name) = NoNode
         /\ (\E i \in DOMAIN t.node : t.node[i].name = name)
              => \E i \in DOMAIN t.node : /\ t.node[i].name = name
                                          /\ vartab_lookup_varnode(t, name) = t.node[i]
<1>. DEFINE at == {i \in DOMAIN t.node : t.node[i].name = name}
<1>1. vartab_lookup_varnode(t, name) = FirstOf(t, at)
  BY DEF vartab_lookup_varnode
<1>2. /\ at = {} => FirstOf(t, at) = NoNode
      /\ at # {} => \E i \in at : FirstOf(t, at) = t.node[i]
  BY FirstOfIs
<1>. QED
  BY <1>1, <1>2

\* Looking up an operator finds a node of its name and arguments, or there is none.
LEMMA LookupOperatorIs ==
  ASSUME NEW Name, NEW Args, NEW t \in Tables(Name, Args), NEW name, NEW args
  PROVE  /\ (\A i \in DOMAIN t.node : ~ (t.node[i].name = name /\ t.node[i].args = args))
              => vartab_lookup_operator(t, name, args) = NoNode
         /\ (\E i \in DOMAIN t.node : t.node[i].name = name /\ t.node[i].args = args)
              => \E i \in DOMAIN t.node :
                   /\ t.node[i].name = name /\ t.node[i].args = args
                   /\ vartab_lookup_operator(t, name, args) = t.node[i]
<1>. DEFINE at == {i \in DOMAIN t.node : t.node[i].name = name /\ t.node[i].args = args}
<1>1. vartab_lookup_operator(t, name, args) = FirstOf(t, at)
  BY DEF vartab_lookup_operator
<1>2. /\ at = {} => FirstOf(t, at) = NoNode
      /\ at # {} => \E i \in at : FirstOf(t, at) = t.node[i]
  BY FirstOfIs
<1>. QED
  BY <1>1, <1>2

\* A node that is put in front is the first where it fits, and changes nothing where
\* not.
LEMMA FirstOfPut ==
  ASSUME NEW Name, NEW Args, NEW t \in Tables(Name, Args), NEW u \in Tables(Name, Args),
         NEW n, IsPut(t, u, n),
         NEW before \in SUBSET (DOMAIN t.node), NEW after \in SUBSET (DOMAIN u.node),
         \A i \in 1 .. Len(t.node) : 1 + i \in after <=> i \in before
  PROVE  FirstOf(u, after) = IF 1 \in after THEN n ELSE FirstOf(t, before)
<1>1. /\ Len(u.node) = 1 + Len(t.node) /\ Len(t.node) \in Nat
      /\ DOMAIN u.node = 1 .. Len(u.node) /\ DOMAIN t.node = 1 .. Len(t.node)
      /\ u.node[1] = n
      /\ \A i \in 1 .. Len(t.node) : u.node[1 + i] = t.node[i]
  BY DEF IsPut, Tables
<1>2. before \in SUBSET Nat /\ after \in SUBSET Nat
  BY <1>1
<1>3. CASE 1 \in after
  <2>1. \A x \in after : 1 <= x
    BY <1>1
  <2>2. Min(after) = 1
    BY <1>2, <1>3, <2>1, MinIsLeast
  <2>. QED
    BY <1>1, <1>3, <2>2 DEF FirstOf
<1>4. CASE 1 \notin after
  <2>1. \A i \in after : i - 1 \in before
    <3>. TAKE i \in after
    <3>1. i # 1
      BY <1>4
    <3>2. i - 1 \in 1 .. Len(t.node) /\ 1 + (i - 1) = i
      BY <1>1, <3>1
    <3>. QED
      BY <3>2
  <2>2. \A i \in before : 1 + i \in after
    BY <1>1
  <2>3. CASE before = {}
    <3>1. after = {}
      BY <2>1, <2>3
    <3>. QED
      BY <1>4, <2>3, <3>1 DEF FirstOf
  <2>4. CASE before # {}
    <3>. DEFINE m == Min(before)
    <3>1. m \in before /\ \A x \in before : m <= x
      BY <1>2, <2>4, MinIsIn
    <3>. HIDE DEF m
    <3>2. 1 + m \in after /\ m \in 1 .. Len(t.node)
      BY <1>1, <2>2, <3>1
    <3>3. \A x \in after : 1 + m <= x
      <4>. TAKE x \in after
      <4>1. m <= x - 1 /\ x \in Nat /\ m \in Nat
        BY <1>2, <2>1, <3>1
      <4>. QED
        BY <4>1
    <3>4. Min(after) = 1 + m /\ after # {}
      BY <1>2, <3>2, <3>3, MinIsLeast
    <3>. QED
      BY <1>1, <1>4, <2>4, <3>2, <3>4 DEF FirstOf, m
  <2>. QED
    BY <2>3, <2>4
<1>. QED
  BY <1>3, <1>4

\* A node that is put in front is found under its name and arguments; the rest is found
\* as before.
LEMMA LookupOperatorOfPut ==
  ASSUME NEW t \in Tables(AllNames, AllArgs),
         NEW name \in AllNames, NEW args \in AllArgs, NEW dnode \in Int, NEW count \in Int,
         NEW imported \in BOOLEAN, NEW name2, NEW args2
  PROVE  /\ name2 = name /\ args2 = args =>
              vartab_lookup_operator(PutNode(t, name, args, dnode, count, imported),
                                     name2, args2)
              = NewNode(t, name, args, dnode, count, imported)
         /\ name2 # name \/ args2 # args =>
              vartab_lookup_operator(PutNode(t, name, args, dnode, count, imported),
                                     name2, args2)
              = vartab_lookup_operator(t, name2, args2)
<1>. DEFINE u == PutNode(t, name, args, dnode, count, imported)
            n == NewNode(t, name, args, dnode, count, imported)
            before == {i \in DOMAIN t.node : t.node[i].name = name2 /\ t.node[i].args = args2}
            after  == {i \in DOMAIN u.node : u.node[i].name = name2 /\ u.node[i].args = args2}
<1>1. u \in Tables(AllNames, AllArgs) /\ IsPut(t, u, n) /\ n.name = name /\ n.args = args
  BY Put DEF NewNode
<1>. HIDE DEF u, n
<1>2. /\ Len(u.node) = 1 + Len(t.node) /\ Len(t.node) \in Nat
      /\ DOMAIN u.node = 1 .. Len(u.node) /\ DOMAIN t.node = 1 .. Len(t.node)
      /\ u.node[1] = n
      /\ \A i \in 1 .. Len(t.node) : u.node[1 + i] = t.node[i]
  BY <1>1 DEF IsPut, Tables
<1>3. 1 \in after <=> name2 = name /\ args2 = args
  BY <1>1, <1>2
<1>4. \A i \in 1 .. Len(t.node) : 1 + i \in after <=> i \in before
  BY <1>2
<1>5. before \in SUBSET (DOMAIN t.node) /\ after \in SUBSET (DOMAIN u.node)
  OBVIOUS
<1>6. /\ vartab_lookup_operator(u, name2, args2) = FirstOf(u, after)
      /\ vartab_lookup_operator(t, name2, args2) = FirstOf(t, before)
  BY DEF vartab_lookup_operator
<1>. HIDE DEF before, after
<1>7. FirstOf(u, after) = IF 1 \in after THEN n ELSE FirstOf(t, before)
  BY <1>1, <1>4, <1>5, FirstOfPut
<1>. QED
  BY <1>3, <1>6, <1>7 DEF u, n

\* Where nothing has argument types, a name is enough.
LEMMA ByName ==
  ASSUME NEW t, \A i \in DOMAIN t.node : t.node[i].args = NoArgs, NEW name
  PROVE  vartab_lookup_varnode(t, name) = vartab_lookup_operator(t, name, NoArgs)
<1>1. {i \in DOMAIN t.node : t.node[i].name = name}
      = {i \in DOMAIN t.node : t.node[i].name = name /\ t.node[i].args = NoArgs}
  OBVIOUS
<1>. QED
  BY <1>1 DEF vartab_lookup_varnode, vartab_lookup_operator

---------------------------------------------------------------------------
\* Ends of scopes.

\* What is dropped includes a node that was put in front.
LEMMA DropOfPut ==
  ASSUME NEW Name, NEW Args, NEW t \in Tables(Name, Args), NEW u \in Tables(Name, Args),
         NEW n, IsPut(t, u, n),
         NEW before \in SUBSET (DOMAIN t.node), NEW after \in SUBSET (DOMAIN u.node),
         1 \notin after, \A i \in 1 .. Len(t.node) : 1 + i \in after <=> i \in before
  PROVE  DropTo(u, after) = DropTo(t, before)
<1>1. /\ Len(u.node) = 1 + Len(t.node) /\ Len(t.node) \in Nat
      /\ DOMAIN u.node = 1 .. Len(u.node) /\ DOMAIN t.node = 1 .. Len(t.node)
      /\ \A i \in 1 .. Len(t.node) : u.node[1 + i] = t.node[i]
      /\ t.node \in Seq(Nodes(Name, Args)) /\ u.node \in Seq(Nodes(Name, Args))
      /\ u.current_scope = t.current_scope /\ u.current_subscope = t.current_subscope
  BY DEF IsPut, Tables
<1>2. before \in SUBSET Nat /\ after \in SUBSET Nat
  BY <1>1
<1>3. \A s : [u EXCEPT !.node = s] = [t EXCEPT !.node = s]
  <2>1. /\ u = [node |-> u.node, current_scope |-> u.current_scope,
                current_subscope |-> u.current_subscope]
        /\ t = [node |-> t.node, current_scope |-> t.current_scope,
                current_subscope |-> t.current_subscope]
    BY DEF Tables
  <2>. QED
    BY <1>1, <2>1
<1>4. \A i \in after : i - 1 \in before
  <2>. TAKE i \in after
  <2>1. i # 1
    OBVIOUS
  <2>2. i - 1 \in 1 .. Len(t.node) /\ 1 + (i - 1) = i
    BY <1>1, <2>1
  <2>. QED
    BY <2>2
<1>5. \A i \in before : 1 + i \in after
  BY <1>1
<1>6. CASE before = {}
  <2>1. after = {}
    BY <1>4, <1>6
  <2>. QED
    BY <1>3, <1>6, <2>1 DEF DropTo
<1>7. CASE before # {}
  <2>. DEFINE m == Min(before)
  <2>1. m \in before /\ \A x \in before : m <= x
    BY <1>2, <1>7, MinIsIn
  <2>2. DropTo(t, before) = [t EXCEPT !.node = SubSeq(t.node, m, Len(t.node))]
    BY <1>7 DEF DropTo
  <2>. HIDE DEF m
  <2>3. 1 + m \in after /\ m \in 1 .. Len(t.node)
    BY <1>1, <1>5, <2>1
  <2>4. \A x \in after : 1 + m <= x
    <3>. TAKE x \in after
    <3>1. m <= x - 1 /\ x \in Nat /\ m \in Nat
      BY <1>2, <1>4, <2>1
    <3>. QED
      BY <3>1
  <2>5. Min(after) = 1 + m /\ after # {}
    BY <1>2, <2>3, <2>4, MinIsLeast
  <2>6. DropTo(u, after) = [u EXCEPT !.node = SubSeq(u.node, 1 + m, Len(u.node))]
    BY <2>5 DEF DropTo
  <2>. DEFINE r == SubSeq(t.node, m, Len(t.node))
              s == SubSeq(u.node, 1 + m, Len(u.node))
  <2>7. /\ r \in Seq(Nodes(Name, Args)) /\ s \in Seq(Nodes(Name, Args))
        /\ Len(r) = Len(t.node) - m + 1 /\ Len(s) = Len(t.node) - m + 1
        /\ \A i \in 1 .. Len(t.node) - m + 1 : /\ r[i] = t.node[m + i - 1]
                                               /\ s[i] = u.node[m + i]
    BY <1>1, <2>3
  <2>. HIDE DEF r, s
  <2>8. \A i \in 1 .. Len(r) : r[i] = s[i]
    <3>. TAKE i \in 1 .. Len(r)
    <3>1. m + i - 1 \in 1 .. Len(t.node) /\ 1 + (m + i - 1) = m + i
      BY <1>1, <2>3, <2>7
    <3>2. u.node[m + i] = t.node[m + i - 1]
      BY <1>1, <3>1
    <3>3. r[i] = t.node[m + i - 1] /\ s[i] = u.node[m + i]
      BY <2>7
    <3>. QED
      BY <3>2, <3>3
  <2>9. r = s
    BY <2>7, <2>8
  <2>. QED
    BY <1>3, <2>2, <2>6, <2>9 DEF r, s
<1>. QED
  BY <1>6, <1>7

\* A node goes with the scope it was entered in.
LEMMA EndOfPut ==
  ASSUME NEW Name, NEW Args, NEW t \in Tables(Name, Args),
         NEW name \in Name, NEW args \in Args, NEW dnode \in Int, NEW count \in Int,
         NEW imported \in BOOLEAN
  PROVE  /\ vartab_end_scope(PutNode(t, name, args, dnode, count, imported))
            = vartab_end_scope(t)
         /\ vartab_end_subscope(PutNode(t, name, args, dnode, count, imported))
            = vartab_end_subscope(t)
<1>. DEFINE u == PutNode(t, name, args, dnode, count, imported)
            n == NewNode(t, name, args, dnode, count, imported)
<1>1. u \in Tables(Name, Args) /\ IsPut(t, u, n)
  BY Put
<1>. HIDE DEF u, n
<1>2. /\ Len(u.node) = 1 + Len(t.node) /\ Len(t.node) \in Nat
      /\ DOMAIN u.node = 1 .. Len(u.node) /\ DOMAIN t.node = 1 .. Len(t.node)
      /\ u.node[1] = n /\ n.scope = t.current_scope /\ n.subscope = t.current_subscope
      /\ \A i \in 1 .. Len(t.node) : u.node[1 + i] = t.node[i]
      /\ u.current_scope = t.current_scope /\ u.current_subscope = t.current_subscope
  BY <1>1 DEF IsPut, Tables
<1>3. vartab_end_scope(u) = vartab_end_scope(t)
  <2>. DEFINE before == {i \in DOMAIN t.node : t.node[i].scope # t.current_scope}
              after  == {i \in DOMAIN u.node : u.node[i].scope # u.current_scope}
  <2>1. 1 \notin after /\ \A i \in 1 .. Len(t.node) : 1 + i \in after <=> i \in before
    BY <1>2
  <2>2. before \in SUBSET (DOMAIN t.node) /\ after \in SUBSET (DOMAIN u.node)
    OBVIOUS
  <2>3. /\ vartab_end_scope(t) = [DropTo(t, before) EXCEPT !.current_scope = @ - 1]
        /\ vartab_end_scope(u) = [DropTo(u, after) EXCEPT !.current_scope = @ - 1]
    BY DEF vartab_end_scope
  <2>. HIDE DEF before, after
  <2>4. DropTo(u, after) = DropTo(t, before)
    BY <1>1, <2>1, <2>2, DropOfPut
  <2>. QED
    BY <2>3, <2>4
<1>4. vartab_end_subscope(u) = vartab_end_subscope(t)
  <2>. DEFINE before == {i \in DOMAIN t.node : t.node[i].subscope # t.current_subscope}
              after  == {i \in DOMAIN u.node : u.node[i].subscope # u.current_subscope}
  <2>1. 1 \notin after /\ \A i \in 1 .. Len(t.node) : 1 + i \in after <=> i \in before
    BY <1>2
  <2>2. before \in SUBSET (DOMAIN t.node) /\ after \in SUBSET (DOMAIN u.node)
    OBVIOUS
  <2>3. /\ vartab_end_subscope(t) = [DropTo(t, before) EXCEPT !.current_subscope = @ - 1]
        /\ vartab_end_subscope(u) = [DropTo(u, after) EXCEPT !.current_subscope = @ - 1]
    BY DEF vartab_end_subscope
  <2>. HIDE DEF before, after
  <2>4. DropTo(u, after) = DropTo(t, before)
    BY <1>1, <2>1, <2>2, DropOfPut
  <2>. QED
    BY <2>3, <2>4
<1>. QED
  BY <1>3, <1>4 DEF u

\* A scope that ends as soon as it began leaves the table as it was.
LEMMA EndOfBegin ==
  ASSUME NEW Name, NEW Args, NEW t \in Tables(Name, Args), Settled(t)
  PROVE  /\ vartab_begin_scope(t) \in Tables(Name, Args)
         /\ vartab_begin_subscope(t) \in Tables(Name, Args)
         /\ vartab_end_scope(vartab_begin_scope(t)) = t
         /\ vartab_end_subscope(vartab_begin_subscope(t)) = t
<1>. DEFINE u == vartab_begin_scope(t)
            v == vartab_begin_subscope(t)
<1>1. t = [node |-> t.node, current_scope |-> t.current_scope,
           current_subscope |-> t.current_subscope]
      /\ t.node \in Seq(Nodes(Name, Args))
      /\ t.current_scope \in Nat /\ t.current_subscope \in Nat
  BY DEF Tables
<1>2. /\ u = [node |-> t.node, current_scope |-> t.current_scope + 1,
              current_subscope |-> t.current_subscope]
      /\ v = [node |-> t.node, current_scope |-> t.current_scope,
              current_subscope |-> t.current_subscope + 1]
  BY <1>1 DEF vartab_begin_scope, vartab_begin_subscope
<1>. HIDE DEF u, v
<1>3. u \in Tables(Name, Args) /\ v \in Tables(Name, Args)
  BY <1>1, <1>2 DEF Tables
<1>. DEFINE k == 0
<1>4. EnteredSince(u, t, k) /\ EnteredSince(v, t, k) /\ k \in Nat
  BY <1>1, <1>2 DEF EnteredSince
<1>. HIDE DEF k
<1>5. /\ u.current_scope = vartab_begin_scope(t).current_scope
      /\ u.current_subscope = t.current_subscope
      /\ v.current_scope = t.current_scope
      /\ v.current_subscope = vartab_begin_subscope(t).current_subscope
  BY <1>2 DEF u, v
<1>6. vartab_end_scope(u) = t
  BY <1>3, <1>4, <1>5, ScopeEnds
<1>7. vartab_end_subscope(v) = t
  BY <1>3, <1>4, <1>5, SubscopeEnds
<1>. QED
  BY <1>3, <1>6, <1>7 DEF u, v

---------------------------------------------------------------------------
\* What blocks say of a name, with another block or with more in the innermost.

Extended(v, own, imports) ==
  [own |-> v.own \cup own, scope |-> v.scope \cup own,
   here |-> IF own = {} THEN v.here ELSE v.own \cup own, imports |-> v.imports \cup imports]
Begun(v, construct) ==
  [own |-> {}, scope |-> IF construct = "function" THEN {} ELSE v.scope,
   here |-> v.here, imports |-> v.imports]

\* What blocks say of a name follows from the innermost one and those around it.
LEMMA NestedView ==
  ASSUME NEW cs, NEW b, NEW ts, Nests(cs, b, ts), NEW kind, NEW name, NEW args
  PROVE  /\ View(cs, kind, name, args).own = Of(b.own, kind, name, args)
         /\ View(cs, kind, name, args).scope
            = Of(b.own, kind, name, args)
              \cup IF b.construct = "function" THEN {} ELSE InScope(ts, kind, name, args)
         /\ View(cs, kind, name, args).own # {}
              => View(cs, kind, name, args).here = View(cs, kind, name, args).own
         /\ Of(b.own, kind, name, args) = {}
              => View(cs, kind, name, args).here = Innermost(ts, kind, name, args)
         /\ View(cs, kind, name, args).imports
            = Of(b.imports, kind, name, args) \cup Imported(ts, kind, name, args)
<1>. DEFINE v == View(cs, kind, name, args)
<1>1. v.own = Of(b.own, kind, name, args)
  <2>1. cs[1] = b
    BY NestsSo
  <2>. QED
    BY <2>1 DEF View, Own
<1>2. v.scope = InScope(cs, kind, name, args) /\ v.here = Innermost(cs, kind, name, args)
      /\ v.imports = Imported(cs, kind, name, args)
  BY DEF View
<1>. HIDE DEF v
<1>3. v.scope = Of(b.own, kind, name, args)
                \cup IF b.construct = "function" THEN {} ELSE InScope(ts, kind, name, args)
  BY <1>2, ConsInScope
<1>4. /\ v.own # {} => v.here = v.own
      /\ Of(b.own, kind, name, args) = {} => v.here = Innermost(ts, kind, name, args)
  BY <1>1, <1>2, ConsInnermost
<1>5. v.imports = Of(b.imports, kind, name, args) \cup Imported(ts, kind, name, args)
  BY <1>2, ConsImported
<1>. QED
  BY <1>1, <1>3, <1>4, <1>5 DEF v

\* What the innermost block declares is declared in its function, and is what is meant.
LEMMA ViewFits ==
  ASSUME NEW cs \in Seq(OpenBlocks), cs # << >>, NEW kind, NEW name, NEW args,
         NEW v, v = View(cs, kind, name, args)
  PROVE  /\ v.own # {} => v.here = v.own
         /\ v.own \subseteq v.scope
         /\ v.scope # {} => v.here # {}
         /\ ~InFunction(cs) => (v.here # {} => v.scope # {})
         /\ v.own = Own(cs, 1, kind, name, args)
         /\ v.here = Innermost(cs, kind, name, args)
         /\ v.imports = Imported(cs, kind, name, args)
         /\ v.scope # {} <=> DeclaredIn(cs, SameScope(cs), kind, name, args)
         /\ v.here # {} <=> DeclaredIn(cs, DOMAIN cs, kind, name, args)
<1>1. v.own = Own(cs, 1, kind, name, args) /\ v.scope = InScope(cs, kind, name, args)
      /\ v.here = Innermost(cs, kind, name, args) /\ v.imports = Imported(cs, kind, name, args)
  BY DEF View
<1>2. Nests(cs, Head(cs), Tail(cs))
  BY NestsIs
<1>3. v.own = Of(Head(cs).own, kind, name, args)
  BY <1>2, NestedView
<1>4. v.own # {} => v.here = v.own
  BY <1>2, NestedView
<1>5. v.here # {} <=> DeclaredIn(cs, DOMAIN cs, kind, name, args)
  BY <1>1, InnermostIsDeclared
<1>6. InScope(cs, kind, name, args) # {} <=> DeclaredIn(cs, SameScope(cs), kind, name, args)
  <2>1. \A d : d \in InScope(cs, kind, name, args)
               <=> \E i \in SameScope(cs) : d \in Own(cs, i, kind, name, args)
    BY DEF InScope
  <2>. QED
    BY <2>1 DEF DeclaredIn
<1>7. DeclaredIn(cs, SameScope(cs), kind, name, args) => DeclaredIn(cs, DOMAIN cs, kind, name, args)
  BY DEF DeclaredIn, SameScope
<1>8. ~InFunction(cs) => SameScope(cs) = DOMAIN cs
  <2>1. \A i \in DOMAIN cs : \A j \in 1 .. i - 1 : j \in DOMAIN cs
    <3>1. DOMAIN cs = 1 .. Len(cs) /\ Len(cs) \in Nat
      OBVIOUS
    <3>. QED
      BY <3>1
  <2>. QED
    BY <2>1 DEF InFunction, SameScope
<1>9. v.own \subseteq v.scope
  <2>1. 1 \in SameScope(cs)
    <3>1. DOMAIN cs = 1 .. Len(cs) /\ Len(cs) \in Nat \ {0}
      OBVIOUS
    <3>. QED
      BY <3>1 DEF SameScope
  <2>. QED
    BY <1>1, <2>1 DEF InScope
<1>10. v.scope # {} => v.here # {}
  BY <1>1, <1>5, <1>6, <1>7
<1>11. v.scope # {} <=> DeclaredIn(cs, SameScope(cs), kind, name, args)
  BY <1>1, <1>6
<1>12. ~InFunction(cs) => (v.here # {} => v.scope # {})
  BY <1>5, <1>8, <1>11
<1>. QED
  BY <1>1, <1>4, <1>5, <1>9, <1>10, <1>11, <1>12

\* ds has more in the innermost block than cs: own of this kind, and imports.
Grows(kind, cs, ds, own, imports) ==
  /\ ds \in Seq(OpenBlocks) /\ ds # << >> /\ Len(ds) = Len(cs) /\ Tail(ds) = Tail(cs)
  /\ Head(ds).construct = Head(cs).construct
  /\ InFunction(ds) <=> InFunction(cs)
  /\ \A name, args :
       View(ds, kind, name, args)
       = Extended(View(cs, kind, name, args), Of(own, kind, name, args),
                  Of(imports, kind, name, args))

\* A function is open when the innermost block or one around it is one.
LEMMA InFunctionNests ==
  ASSUME NEW cs, NEW b, NEW ts, Nests(cs, b, ts)
  PROVE  InFunction(cs) <=> b.construct = "function" \/ InFunction(ts)
<1>. DEFINE any == ""
<1>. HIDE DEF any
<1>1. InFunction(cs) <=> b.construct = "function" \/ InFunction(ts)
  BY ConsDeclared
<1>. QED
  BY <1>1

Additions(own, imports, modules) ==
  /\ own \in SUBSET Decls /\ imports \in SUBSET Decls /\ modules \in SUBSET Nat
\* More in a block.
More(b, own, imports, modules) ==
  [b EXCEPT !.own = @ \cup own, !.imports = @ \cup imports, !.uses = @ \cup modules]

\* More in the innermost block is more in what the blocks say.
LEMMA WithGrows ==
  ASSUME NEW cs \in Seq(OpenBlocks), cs # << >>, NEW own, NEW imports, NEW modules,
         Additions(own, imports, modules), NEW ds, ds = With(cs, own, imports, modules)
  PROVE  /\ \A kind : Grows(kind, cs, ds, own, imports)
         /\ ds \in Seq(OpenBlocks) /\ ds # << >> /\ Len(ds) = Len(cs)
         /\ ds[1] = More(cs[1], own, imports, modules)
         /\ \A i \in 2 .. Len(cs) : ds[i] = cs[i]
<1>. DEFINE b == Head(cs)
            ts == Tail(cs)
            c == [b EXCEPT !.own = @ \cup own, !.imports = @ \cup imports,
                           !.uses = @ \cup modules]
<1>1. /\ b \in OpenBlocks /\ ts \in Seq(OpenBlocks) /\ Nests(cs, b, ts) /\ b = cs[1]
      /\ Len(cs) = 1 + Len(ts) /\ Len(cs) \in Nat
  BY NestsIs
<1>2. ds = <<c>> \o ts
  BY DEF With
<1>. HIDE DEF b, ts
<1>0. own \in SUBSET Decls /\ imports \in SUBSET Decls /\ modules \in SUBSET Nat
  BY DEF Additions
<1>3. /\ c \in OpenBlocks /\ c.construct = b.construct
      /\ c.own = b.own \cup own /\ c.imports = b.imports \cup imports
  BY <1>0, <1>1 DEF OpenBlocks
<1>4. c = More(cs[1], own, imports, modules)
  BY <1>1 DEF More
<1>. HIDE DEF c
<1>5. Nests(ds, c, ts)
  BY <1>1, <1>2, <1>3 DEF Nests
<1>6. /\ ds \in Seq(OpenBlocks) /\ ds # << >> /\ Len(ds) = 1 + Len(ts)
      /\ ds[1] = c /\ Head(ds) = c /\ Tail(ds) = ts
      /\ \A i \in 2 .. 1 + Len(ts) : ds[i] = ts[i - 1]
  BY <1>5, NestsSo
<1>7. \A i \in 2 .. 1 + Len(ts) : cs[i] = ts[i - 1]
  BY <1>1, NestsSo
<1>8. InFunction(ds) <=> InFunction(cs)
  BY <1>1, <1>3, <1>5, InFunctionNests
<1>9. ASSUME NEW kind, NEW name, NEW args
      PROVE  View(ds, kind, name, args)
             = Extended(View(cs, kind, name, args), Of(own, kind, name, args),
                        Of(imports, kind, name, args))
  <2>. DEFINE v == View(cs, kind, name, args)
              w == View(ds, kind, name, args)
              o == Of(own, kind, name, args)
              m == Of(imports, kind, name, args)
              S == IF b.construct = "function" THEN {} ELSE InScope(ts, kind, name, args)
              H == Innermost(ts, kind, name, args)
  <2>1. /\ Of(c.own, kind, name, args) = Of(b.own, kind, name, args) \cup o
        /\ Of(c.imports, kind, name, args) = Of(b.imports, kind, name, args) \cup m
    BY <1>3 DEF Of
  <2>2. v.own = Of(b.own, kind, name, args) /\ w.own = Of(c.own, kind, name, args)
    BY <1>1, <1>5, NestedView
  <2>3. v.scope = Of(b.own, kind, name, args) \cup S
    BY <1>1, NestedView
  <2>4. w.scope = Of(c.own, kind, name, args) \cup S
    <3>1. w.scope = Of(c.own, kind, name, args)
            \cup IF c.construct = "function" THEN {} ELSE InScope(ts, kind, name, args)
      BY <1>5, NestedView
    <3>. QED
      BY <1>3, <3>1
  <2>5. v.own # {} => v.here = v.own
    BY <1>1, NestedView
  <2>15. Of(b.own, kind, name, args) = {} => v.here = H
    BY <1>1, NestedView
  <2>6. w.own # {} => w.here = w.own
    BY <1>5, NestedView
  <2>16. Of(c.own, kind, name, args) = {} => w.here = H
    BY <1>5, NestedView
  <2>7. v.imports = Of(b.imports, kind, name, args) \cup Imported(ts, kind, name, args)
    BY <1>1, NestedView
  <2>8. w.imports = Of(c.imports, kind, name, args) \cup Imported(ts, kind, name, args)
    BY <1>5, NestedView
  <2>9. w = [own |-> w.own, scope |-> w.scope, here |-> w.here, imports |-> w.imports]
    BY DEF View
  <2>. HIDE DEF v, w, o, m, S, H
  <2>10. w.own = v.own \cup o
    BY <2>1, <2>2
  <2>11. w.scope = v.scope \cup o
    BY <2>1, <2>3, <2>4
  <2>12. w.here = IF o = {} THEN v.here ELSE v.own \cup o
    <3>1. CASE o = {}
      BY <2>1, <2>2, <2>5, <2>6, <2>15, <2>16, <3>1
    <3>2. CASE o # {}
      <4>1. Of(c.own, kind, name, args) # {}
        BY <2>1, <3>2
      <4>. QED
        BY <2>2, <2>6, <2>10, <3>2, <4>1
    <3>. QED
      BY <3>1, <3>2
  <2>13. w.imports = v.imports \cup m
    BY <2>1, <2>7, <2>8
  <2>14. w = Extended(v, o, m)
    BY <2>9, <2>10, <2>11, <2>12, <2>13 DEF Extended
  <2>. QED
    BY <2>14 DEF v, w, o, m
<1>10. ASSUME NEW kind  PROVE Grows(kind, cs, ds, own, imports)
  <2>1. Tail(ds) = Tail(cs) /\ Head(ds).construct = Head(cs).construct /\ Len(ds) = Len(cs)
    BY <1>1, <1>3, <1>6 DEF b, ts
  <2>. QED
    BY <1>6, <1>8, <1>9, <2>1 DEF Grows
<1>11. \A i \in 2 .. Len(cs) : ds[i] = cs[i]
  BY <1>1, <1>6, <1>7
<1>. QED
  BY <1>1, <1>4, <1>6, <1>10, <1>11

\* A block that begins says what is said around it.
LEMMA BeginView ==
  ASSUME NEW cs \in Seq(OpenBlocks), cs # << >>, NEW construct \in {"block", "function"}
  PROVE  LET ds == <<Block(construct, NONE)>> \o cs
         IN  /\ ds \in Seq(OpenBlocks) /\ ds # << >> /\ Len(ds) = 1 + Len(cs)
             /\ Tail(ds) = cs /\ Head(ds) = Block(construct, NONE)
             /\ ds[1] = Block(construct, NONE) /\ \A i \in 1 .. Len(cs) : ds[1 + i] = cs[i]
             /\ InFunction(ds) <=> construct = "function" \/ InFunction(cs)
             /\ \A kind, name, args :
                  View(ds, kind, name, args) = Begun(View(cs, kind, name, args), construct)
<1>. DEFINE b == Block(construct, NONE)
            ds == <<b>> \o cs
<1>1. b \in OpenBlocks /\ b.own = {} /\ b.imports = {} /\ b.construct = construct
  BY DEF Block, OpenBlocks, NONE
<1>. HIDE DEF b
<1>2. Nests(ds, b, cs)
  BY <1>1 DEF Nests
<1>. HIDE DEF ds
<1>3. /\ ds \in Seq(OpenBlocks) /\ ds # << >> /\ Len(ds) = 1 + Len(cs)
      /\ Tail(ds) = cs /\ Head(ds) = b /\ ds[1] = b /\ \A i \in 1 .. Len(cs) : ds[1 + i] = cs[i]
  BY <1>2, NestsSo
<1>4. InFunction(ds) <=> construct = "function" \/ InFunction(cs)
  BY <1>1, <1>2, InFunctionNests
<1>5. ASSUME NEW kind, NEW name, NEW args
      PROVE  View(ds, kind, name, args) = Begun(View(cs, kind, name, args), construct)
  <2>. DEFINE v == View(cs, kind, name, args)
              w == View(ds, kind, name, args)
  <2>1. Of(b.own, kind, name, args) = {} /\ Of(b.imports, kind, name, args) = {}
    BY <1>1 DEF Of
  <2>2. w.own = Of(b.own, kind, name, args)
    BY <1>2, NestedView
  <2>3. w.scope = Of(b.own, kind, name, args)
                  \cup IF b.construct = "function" THEN {} ELSE InScope(cs, kind, name, args)
    BY <1>2, NestedView
  <2>4. Of(b.own, kind, name, args) = {} => w.here = Innermost(cs, kind, name, args)
    BY <1>2, NestedView
  <2>5. w.imports = Of(b.imports, kind, name, args) \cup Imported(cs, kind, name, args)
    BY <1>2, NestedView
  <2>6. /\ w = [own |-> w.own, scope |-> w.scope, here |-> w.here, imports |-> w.imports]
        /\ v.scope = InScope(cs, kind, name, args) /\ v.here = Innermost(cs, kind, name, args)
        /\ v.imports = Imported(cs, kind, name, args)
    BY DEF View
  <2>. HIDE DEF v, w
  <2>7. w.own = {} /\ w.here = v.here /\ w.imports = v.imports
    BY <2>1, <2>2, <2>4, <2>5, <2>6
  <2>8. w.scope = IF construct = "function" THEN {} ELSE v.scope
    BY <1>1, <2>1, <2>3, <2>6
  <2>9. w = Begun(v, construct)
    BY <2>6, <2>7, <2>8 DEF Begun
  <2>. QED
    BY <2>9 DEF v, w
<1>. QED
  BY <1>3, <1>4, <1>5 DEF ds, b

---------------------------------------------------------------------------
\* What a table agrees with.

\* To the names of a kind, the blocks are the same.
SameView(kind, cs, ds) ==
  /\ ds \in Seq(OpenBlocks) /\ ds # << >>
  /\ InFunction(ds) <=> InFunction(cs)
  /\ \A name, args : View(ds, kind, name, args) = View(cs, kind, name, args)

\* A table agrees with blocks that say the same.
LEMMA AgreesWithSame ==
  ASSUME NEW kind, NEW t, NEW cs, NEW ds, Agrees(kind, t, cs), SameView(kind, cs, ds)
  PROVE  Agrees(kind, t, ds)
<1>1. \A name, args : View(ds, kind, name, args) = View(cs, kind, name, args)
  BY DEF SameView
<1>2. ASSUME NEW name \in AllNames, NEW args \in AllArgs
      PROVE  Finds(kind, t, vartab_lookup_operator(t, name, args), View(ds, kind, name, args))
  <2>1. Finds(kind, t, vartab_lookup_operator(t, name, args), View(cs, kind, name, args))
    BY DEF Agrees
  <2>. QED
    BY <1>1, <2>1
<1>3. ASSUME kind = "operators", NEW name \in AllNames  PROVE OwnFirst(t, ds, name)
  <2>1. OwnFirst(t, cs, name)
    BY <1>3 DEF Agrees
  <2>2. \A args : Innermost(ds, "operators", name, args)
                  = Innermost(cs, "operators", name, args)
    <3>. TAKE args
    <3>1. View(ds, "operators", name, args) = View(cs, "operators", name, args)
      BY <1>1, <1>3
    <3>2. View(ds, "operators", name, args).here = Innermost(ds, "operators", name, args)
      BY DEF View
    <3>3. View(cs, "operators", name, args).here = Innermost(cs, "operators", name, args)
      BY DEF View
    <3>. QED
      BY <3>1, <3>2, <3>3
  <2>. QED
    BY <2>1, <2>2 DEF OwnFirst
<1>4. /\ t \in Tables(AllNames, AllArgs)
      /\ \A i \in DOMAIN t.node : NodeFits(kind, t, t.node[i])
      /\ t.current_scope = 0 <=> ~InFunction(ds)
      /\ ds \in Seq(OpenBlocks) /\ ds # << >>
  BY DEF Agrees, SameView
<1>. QED
  BY <1>2, <1>3, <1>4 DEF Agrees

\* Declarations of other kinds say nothing.
LEMMA GrowsOtherwise ==
  ASSUME NEW kind, NEW cs, NEW ds, NEW own, NEW imports, Grows(kind, cs, ds, own, imports),
         \A d \in own : d.kind # kind, \A d \in imports : d.kind # kind
  PROVE  SameView(kind, cs, ds)
<1>1. ASSUME NEW name, NEW args
      PROVE  View(ds, kind, name, args) = View(cs, kind, name, args)
  <2>. DEFINE v == View(cs, kind, name, args)
  <2>1. Of(own, kind, name, args) = {} /\ Of(imports, kind, name, args) = {}
    BY DEF Of
  <2>2. View(ds, kind, name, args) = Extended(v, {}, {})
    BY <2>1 DEF Grows
  <2>3. v = [own |-> v.own, scope |-> v.scope, here |-> v.here, imports |-> v.imports]
    BY DEF View
  <2>. HIDE DEF v
  <2>4. Extended(v, {}, {})
        = [own |-> v.own, scope |-> v.scope, here |-> v.here, imports |-> v.imports]
    BY DEF Extended
  <2>5. View(ds, kind, name, args) = v
    BY <2>2, <2>3, <2>4
  <2>. QED
    BY <2>5 DEF v
<1>. QED
  BY <1>1 DEF Grows, SameView

\* What lookups find fits.
LEMMA FoundFits ==
  ASSUME NEW kind, NEW t, NEW cs, Agrees(kind, t, cs), NEW name, NEW args
  PROVE  /\ vartab_lookup_operator(t, name, args) # NoNode
              => /\ NodeFits(kind, t, vartab_lookup_operator(t, name, args))
                 /\ vartab_lookup_operator(t, name, args).args = args
                 /\ vartab_lookup_operator(t, name, args) \in Nodes(AllNames, AllArgs)
         /\ vartab_lookup_varnode(t, name) # NoNode
              => /\ NodeFits(kind, t, vartab_lookup_varnode(t, name))
                 /\ vartab_lookup_varnode(t, name).name = name
                 /\ vartab_lookup_varnode(t, name) \in Nodes(AllNames, AllArgs)
         /\ kind # "operators"
              => vartab_lookup_varnode(t, name) = vartab_lookup_operator(t, name, NoArgs)
<1>1. /\ t \in Tables(AllNames, AllArgs)
      /\ \A i \in DOMAIN t.node : NodeFits(kind, t, t.node[i])
  BY DEF Agrees
<1>2. \A i \in DOMAIN t.node : t.node[i] \in Nodes(AllNames, AllArgs)
  BY <1>1 DEF Tables
<1>3. \/ vartab_lookup_varnode(t, name) = NoNode
      \/ \E i \in DOMAIN t.node : /\ t.node[i].name = name
                                  /\ vartab_lookup_varnode(t, name) = t.node[i]
  BY <1>1, LookupIs
<1>4. \/ vartab_lookup_operator(t, name, args) = NoNode
      \/ \E i \in DOMAIN t.node : /\ t.node[i].args = args
                                  /\ vartab_lookup_operator(t, name, args) = t.node[i]
  BY <1>1, LookupOperatorIs
<1>5. ASSUME kind # "operators"
      PROVE  vartab_lookup_varnode(t, name) = vartab_lookup_operator(t, name, NoArgs)
  <2>1. \A i \in DOMAIN t.node : t.node[i].args = NoArgs
    BY <1>1, <1>5 DEF NodeFits
  <2>. QED
    BY <2>1, ByName
<1>. QED
  BY <1>1, <1>2, <1>3, <1>4, <1>5

\* NoNode is not own, and of no scope.
LEMMA NothingFound ==
  /\ ~IsOwn(NoNode) /\ ~NoNode.imported /\ NoNode.dnode = 0
  /\ NoNode.scope = -1 /\ NoNode.count = 0
BY DEF IsOwn, NoNode

\* A table with a node more: it is well-formed, the node is found and hides its name
\* only, and it goes with the scope that it is of.
LEMMA PutFits ==
  ASSUME NEW kind, NEW t \in Tables(AllNames, AllArgs),
         \A i \in DOMAIN t.node : NodeFits(kind, t, t.node[i]),
         NEW name \in AllNames, NEW args \in AllArgs, kind # "operators" => args = NoArgs,
         NEW dnode \in Nat \ {0}, NEW count \in Int, NEW imported \in BOOLEAN,
         imported => t.current_scope = 0,
         NEW u, u = PutNode(t, name, args, dnode, count, imported),
         NEW n, n = NewNode(t, name, args, dnode, count, imported)
  PROVE  /\ u \in Tables(AllNames, AllArgs)
         /\ u.current_scope = t.current_scope /\ u.current_subscope = t.current_subscope
         /\ \A i \in DOMAIN u.node : NodeFits(kind, u, u.node[i])
         /\ vartab_lookup_operator(u, name, args) = n
         /\ vartab_lookup_varnode(u, name) = n
         /\ \A nm, ar : nm # name \/ ar # args =>
              vartab_lookup_operator(u, nm, ar) = vartab_lookup_operator(t, nm, ar)
         /\ \A nm \in AllNames \ {name} :
              vartab_lookup_varnode(u, nm) = vartab_lookup_varnode(t, nm)
         /\ vartab_end_scope(u) = vartab_end_scope(t)
         /\ vartab_end_subscope(u) = vartab_end_subscope(t)
<1>1. u \in Tables(AllNames, AllArgs) /\ IsPut(t, u, n)
  BY Put
<1>2. n.dnode = dnode /\ n.imported = imported /\ n.args = args
  BY DEF NewNode
<1>3. /\ Len(u.node) = 1 + Len(t.node) /\ Len(t.node) \in Nat
      /\ DOMAIN u.node = 1 .. Len(u.node) /\ DOMAIN t.node = 1 .. Len(t.node)
      /\ u.node[1] = n /\ n.scope = t.current_scope /\ n.subscope = t.current_subscope
      /\ \A i \in 1 .. Len(t.node) : u.node[1 + i] = t.node[i]
      /\ u.current_scope = t.current_scope /\ u.current_subscope = t.current_subscope
      /\ t.current_scope \in Nat /\ t.current_subscope \in Nat
  BY <1>1 DEF IsPut, Tables
<1>4. NodeFits(kind, u, n)
  BY <1>2, <1>3 DEF NodeFits
<1>5. \A m : NodeFits(kind, t, m) => NodeFits(kind, u, m)
  BY <1>3 DEF NodeFits
<1>6. ASSUME NEW i \in DOMAIN u.node  PROVE NodeFits(kind, u, u.node[i])
  <2>1. CASE i = 1
    BY <1>3, <1>4, <2>1
  <2>2. CASE i # 1
    <3>1. i - 1 \in DOMAIN t.node /\ 1 + (i - 1) = i
      BY <1>3, <2>2
    <3>. QED
      BY <1>3, <1>5, <3>1
  <2>. QED
    BY <2>1, <2>2
<1>7. ASSUME NEW nm, NEW ar
      PROVE  /\ nm = name /\ ar = args => vartab_lookup_operator(u, nm, ar) = n
             /\ nm # name \/ ar # args =>
                  vartab_lookup_operator(u, nm, ar) = vartab_lookup_operator(t, nm, ar)
  <2>1. dnode \in Int
    OBVIOUS
  <2>2. nm = name /\ ar = args => vartab_lookup_operator(u, nm, ar) = n
    BY <2>1, LookupOperatorOfPut
  <2>3. nm # name \/ ar # args =>
          vartab_lookup_operator(u, nm, ar) = vartab_lookup_operator(t, nm, ar)
    BY <2>1, LookupOperatorOfPut
  <2>. QED
    BY <2>2, <2>3
<1>8. \A nm \in AllNames : vartab_lookup_varnode(u, nm)
                           = IF nm = name THEN n ELSE vartab_lookup_varnode(t, nm)
  <2>. TAKE nm \in AllNames
  <2>. QED
    BY EnteringHidesItsNameOnly
<1>9. vartab_end_scope(u) = vartab_end_scope(t) /\ vartab_end_subscope(u) = vartab_end_subscope(t)
  BY EndOfPut
<1>. QED
  BY <1>1, <1>3, <1>6, <1>7, <1>8, <1>9

---------------------------------------------------------------------------
\* What is entered is found, in the table and in the source.

\* Only the counters of the table matter to what is found.
LEMMA FindsStill ==
  ASSUME NEW kind, NEW t, NEW u, NEW node, NEW v, Finds(kind, t, node, v),
         u.current_scope = t.current_scope, u.current_subscope = t.current_subscope
  PROVE  Finds(kind, u, node, v)
BY DEF Finds

\* It is enough to look at the name that was entered.
LEMMA AgreesFrom ==
  ASSUME NEW kind, NEW t, NEW cs, Agrees(kind, t, cs), NEW u, NEW ds, NEW name, NEW args,
         u \in Tables(AllNames, AllArgs), \A i \in DOMAIN u.node : NodeFits(kind, u, u.node[i]),
         u.current_scope = t.current_scope, u.current_subscope = t.current_subscope,
         ds \in Seq(OpenBlocks), ds # << >>, InFunction(ds) <=> InFunction(cs),
         \A nm, ar : nm # name \/ ar # args =>
           vartab_lookup_operator(u, nm, ar) = vartab_lookup_operator(t, nm, ar),
         \A nm, ar : nm # name \/ ar # args => View(ds, kind, nm, ar) = View(cs, kind, nm, ar),
         Finds(kind, u, vartab_lookup_operator(u, name, args), View(ds, kind, name, args)),
         kind = "operators" => /\ OwnFirst(u, ds, name)
                               /\ \A nm \in AllNames \ {name} :
                                    vartab_lookup_varnode(u, nm) = vartab_lookup_varnode(t, nm)
  PROVE  Agrees(kind, u, ds)
<1>1. ASSUME NEW nm \in AllNames, NEW ar \in AllArgs
      PROVE  Finds(kind, u, vartab_lookup_operator(u, nm, ar), View(ds, kind, nm, ar))
  <2>1. Finds(kind, t, vartab_lookup_operator(t, nm, ar), View(cs, kind, nm, ar))
    BY DEF Agrees
  <2>2. CASE nm = name /\ ar = args
    BY <2>2
  <2>3. CASE nm # name \/ ar # args
    <3>1. /\ vartab_lookup_operator(u, nm, ar) = vartab_lookup_operator(t, nm, ar)
          /\ View(ds, kind, nm, ar) = View(cs, kind, nm, ar)
      BY <2>3
    <3>. QED
      BY <2>1, <3>1, FindsStill
  <2>. QED
    BY <2>2, <2>3
<1>2. ASSUME kind = "operators", NEW nm \in AllNames  PROVE OwnFirst(u, ds, nm)
  <2>1. CASE nm = name
    BY <1>2, <2>1
  <2>2. CASE nm # name
    <3>1. OwnFirst(t, cs, nm)
      BY <1>2 DEF Agrees
    <3>2. vartab_lookup_varnode(u, nm) = vartab_lookup_varnode(t, nm)
      BY <1>2, <2>2
    <3>3. \A ar : Innermost(ds, "operators", nm, ar) = Innermost(cs, "operators", nm, ar)
      <4>. TAKE ar
      <4>1. View(ds, "operators", nm, ar) = View(cs, "operators", nm, ar)
        BY <1>2, <2>2
      <4>2. View(ds, "operators", nm, ar).here = Innermost(ds, "operators", nm, ar)
        BY DEF View
      <4>3. View(cs, "operators", nm, ar).here = Innermost(cs, "operators", nm, ar)
        BY DEF View
      <4>. QED
        BY <4>1, <4>2, <4>3
    <3>. QED
      BY <3>1, <3>2, <3>3 DEF OwnFirst
  <2>. QED
    BY <2>1, <2>2
<1>3. t.current_scope = 0 <=> ~InFunction(cs)
  BY DEF Agrees
<1>. QED
  BY <1>1, <1>2, <1>3 DEF Agrees

\* One declaration more, and its view.
LEMMA GrowsByOne ==
  ASSUME NEW kind, NEW cs, NEW ds, NEW own, NEW imports, Grows(kind, cs, ds, own, imports),
         NEW name, NEW args, NEW d, d.kind = kind, d.name = name, d.args = args,
         \A e \in own : e.kind = kind => e = d, \A e \in imports : e.kind = kind => e = d
  PROVE  /\ \A nm, ar : nm # name \/ ar # args => View(ds, kind, nm, ar) = View(cs, kind, nm, ar)
         /\ d \in own => Of(own, kind, name, args) = {d}
         /\ d \notin own => Of(own, kind, name, args) = {}
         /\ d \in imports => Of(imports, kind, name, args) = {d}
         /\ d \notin imports => Of(imports, kind, name, args) = {}
<1>1. ASSUME NEW nm, NEW ar, nm # name \/ ar # args
      PROVE  View(ds, kind, nm, ar) = View(cs, kind, nm, ar)
  <2>. DEFINE v == View(cs, kind, nm, ar)
  <2>1. Of(own, kind, nm, ar) = {} /\ Of(imports, kind, nm, ar) = {}
    BY <1>1 DEF Of
  <2>2. View(ds, kind, nm, ar) = Extended(v, {}, {})
    BY <2>1 DEF Grows
  <2>3. v = [own |-> v.own, scope |-> v.scope, here |-> v.here, imports |-> v.imports]
    BY DEF View
  <2>. HIDE DEF v
  <2>4. Extended(v, {}, {})
        = [own |-> v.own, scope |-> v.scope, here |-> v.here, imports |-> v.imports]
    BY DEF Extended
  <2>5. View(ds, kind, nm, ar) = v
    BY <2>2, <2>3, <2>4
  <2>. QED
    BY <2>5 DEF v
<1>2. /\ d \in own => Of(own, kind, name, args) = {d}
      /\ d \notin own => Of(own, kind, name, args) = {}
  BY DEF Of
<1>3. /\ d \in imports => Of(imports, kind, name, args) = {d}
      /\ d \notin imports => Of(imports, kind, name, args) = {}
  BY DEF Of
<1>. QED
  BY <1>1, <1>2, <1>3

\* Two tables that end alike.
EndsAlike(t, u) ==
  /\ u.current_scope = t.current_scope /\ u.current_subscope = t.current_subscope
  /\ vartab_end_scope(u) = vartab_end_scope(t)
  /\ vartab_end_subscope(u) = vartab_end_subscope(t)

\* What PutNode() makes of a declaration, and of what is imported.
Declared(t, name, args, dnode) == PutNode(t, name, args, dnode, 1, FALSE)
Counted(t, name, args, dnode, count) == PutNode(t, name, args, dnode, count, TRUE)

\* u is t with one node more, n.
Adds(kind, t, u, name, args, dnode, n) ==
  /\ u \in Tables(AllNames, AllArgs)
  /\ \A i \in DOMAIN u.node : NodeFits(kind, u, u.node[i])
  /\ vartab_lookup_operator(u, name, args) = n /\ vartab_lookup_varnode(u, name) = n
  /\ \A nm, ar : nm # name \/ ar # args =>
       vartab_lookup_operator(u, nm, ar) = vartab_lookup_operator(t, nm, ar)
  /\ \A nm \in AllNames \ {name} :
       vartab_lookup_varnode(u, nm) = vartab_lookup_varnode(t, nm)
  /\ EndsAlike(t, u)
  /\ n.dnode = dnode /\ n.args = args
  /\ n.scope = t.current_scope /\ n.subscope = t.current_subscope

\* Any node that is put in front is added.
LEMMA PutAdds ==
  ASSUME NEW kind, NEW t \in Tables(AllNames, AllArgs),
         \A i \in DOMAIN t.node : NodeFits(kind, t, t.node[i]),
         NEW name \in AllNames, NEW args \in AllArgs, kind # "operators" => args = NoArgs,
         NEW dnode \in Nat \ {0}, NEW count \in Int, NEW imported \in BOOLEAN,
         imported => t.current_scope = 0
  PROVE  \E n : /\ Adds(kind, t, PutNode(t, name, args, dnode, count, imported),
                         name, args, dnode, n)
                /\ n.count = count /\ n.imported = imported
<1>. DEFINE u == PutNode(t, name, args, dnode, count, imported)
            n == NewNode(t, name, args, dnode, count, imported)
<1>1. /\ n.dnode = dnode /\ n.imported = imported /\ n.count = count /\ n.args = args
      /\ n.scope = t.current_scope /\ n.subscope = t.current_subscope
  BY DEF NewNode
<1>. HIDE DEF u, n
<1>2. /\ u \in Tables(AllNames, AllArgs)
      /\ u.current_scope = t.current_scope /\ u.current_subscope = t.current_subscope
      /\ \A i \in DOMAIN u.node : NodeFits(kind, u, u.node[i])
      /\ vartab_lookup_operator(u, name, args) = n /\ vartab_lookup_varnode(u, name) = n
      /\ \A nm, ar : nm # name \/ ar # args =>
           vartab_lookup_operator(u, nm, ar) = vartab_lookup_operator(t, nm, ar)
      /\ \A nm \in AllNames \ {name} :
           vartab_lookup_varnode(u, nm) = vartab_lookup_varnode(t, nm)
      /\ vartab_end_scope(u) = vartab_end_scope(t)
      /\ vartab_end_subscope(u) = vartab_end_subscope(t)
  <2>1. u = PutNode(t, name, args, dnode, count, imported)
        /\ n = NewNode(t, name, args, dnode, count, imported)
    BY DEF u, n
  <2>. QED
    BY <2>1, PutFits
<1>3. Adds(kind, t, u, name, args, dnode, n)
  BY <1>1, <1>2 DEF Adds, EndsAlike
<1>4. \E m : Adds(kind, t, u, name, args, dnode, m) /\ m.count = count /\ m.imported = imported
  BY <1>1, <1>3
<1>. QED
  BY <1>4 DEF u

\* A declaration is added.
LEMMA DeclaredAdds ==
  ASSUME NEW kind, NEW t \in Tables(AllNames, AllArgs),
         \A i \in DOMAIN t.node : NodeFits(kind, t, t.node[i]),
         NEW name \in AllNames, NEW args \in AllArgs, kind # "operators" => args = NoArgs,
         NEW dnode \in Nat \ {0}
  PROVE  \E n : /\ Adds(kind, t, Declared(t, name, args, dnode), name, args, dnode, n)
                /\ n.count = 1 /\ IsOwn(n)
<1>. DEFINE one == 1
            no == FALSE
<1>1. Declared(t, name, args, dnode) = PutNode(t, name, args, dnode, one, no)
  BY Zenon DEF Declared
<1>2. one \in Int /\ one = 1 /\ no \in BOOLEAN /\ ~no
  OBVIOUS
<1>. HIDE DEF one, no
<1>3. PICK n : /\ Adds(kind, t, PutNode(t, name, args, dnode, one, no), name, args, dnode, n)
               /\ n.count = one /\ n.imported = no
  BY <1>2, PutAdds
<1>4. Adds(kind, t, Declared(t, name, args, dnode), name, args, dnode, n)
  BY <1>1, <1>3
<1>5. IsOwn(n)
  BY <1>2, <1>3 DEF IsOwn, Adds
<1>. QED
  BY <1>2, <1>3, <1>4, <1>5

\* A name of a module is added.
LEMMA CountedAdds ==
  ASSUME NEW kind, NEW t \in Tables(AllNames, AllArgs),
         \A i \in DOMAIN t.node : NodeFits(kind, t, t.node[i]), t.current_scope = 0,
         NEW name \in AllNames, NEW args \in AllArgs, kind # "operators" => args = NoArgs,
         NEW dnode \in Nat \ {0}, NEW count \in Int
  PROVE  \E n : /\ Adds(kind, t, Counted(t, name, args, dnode, count), name, args, dnode, n)
                /\ n.count = count /\ n.imported
<1>. DEFINE yes == TRUE
<1>1. Counted(t, name, args, dnode, count) = PutNode(t, name, args, dnode, count, yes)
  BY Zenon DEF Counted
<1>2. yes \in BOOLEAN
  OBVIOUS
<1>5. yes
  OBVIOUS
<1>. HIDE DEF yes
<1>3. PICK n : /\ Adds(kind, t, PutNode(t, name, args, dnode, count, yes), name, args, dnode, n)
               /\ n.count = count /\ n.imported = yes
  BY <1>2, PutAdds
<1>4. Adds(kind, t, Counted(t, name, args, dnode, count), name, args, dnode, n)
  BY <1>1, <1>3
<1>. QED
  BY <1>3, <1>4, <1>5

\* A declaration that is entered, here and in the source.
LEMMA DeclareAgrees ==
  ASSUME NEW kind \in Kinds, NEW t, NEW cs, NEW ds, Agrees(kind, t, cs),
         NEW name \in AllNames, NEW args \in AllArgs, kind # "operators" => args = NoArgs,
         NEW dnode \in Nat \ {0}, NEW d, d = Decl(kind, name, args, dnode), NEW imports,
         Grows(kind, cs, ds, {d}, imports), \A e \in imports : e.kind # kind,
         kind # "operators" => Own(cs, 1, kind, name, args) = {},
         NEW u, u = Declared(t, name, args, dnode)
  PROVE  Agrees(kind, u, ds) /\ EndsAlike(t, u)
<1>. DEFINE v == View(cs, kind, name, args)
            w == View(ds, kind, name, args)
<1>1. /\ t \in Tables(AllNames, AllArgs)
      /\ \A i \in DOMAIN t.node : NodeFits(kind, t, t.node[i])
      /\ Finds(kind, t, vartab_lookup_operator(t, name, args), v)
  BY DEF Agrees
<1>2. PICK n : Adds(kind, t, u, name, args, dnode, n) /\ n.count = 1 /\ IsOwn(n)
  BY <1>1, DeclaredAdds
<1>3. /\ n.dnode = dnode /\ n.args = args
      /\ n.scope = t.current_scope /\ n.subscope = t.current_subscope
  BY <1>2 DEF Adds
<1>4. v.own = Own(cs, 1, kind, name, args)
  BY DEF View
<1>. HIDE DEF v, w
<1>5. /\ u \in Tables(AllNames, AllArgs)
      /\ u.current_scope = t.current_scope /\ u.current_subscope = t.current_subscope
      /\ \A i \in DOMAIN u.node : NodeFits(kind, u, u.node[i])
      /\ vartab_lookup_operator(u, name, args) = n /\ vartab_lookup_varnode(u, name) = n
      /\ \A nm, ar : nm # name \/ ar # args =>
           vartab_lookup_operator(u, nm, ar) = vartab_lookup_operator(t, nm, ar)
      /\ \A nm \in AllNames \ {name} :
           vartab_lookup_varnode(u, nm) = vartab_lookup_varnode(t, nm)
      /\ EndsAlike(t, u)
  BY <1>2 DEF Adds, EndsAlike
<1>6. d.kind = kind /\ d.name = name /\ d.args = args /\ d.dnode = dnode
  BY DEF Decl
<1>7. /\ \A nm, ar : nm # name \/ ar # args => View(ds, kind, nm, ar) = View(cs, kind, nm, ar)
      /\ Of({d}, kind, name, args) = {d} /\ Of(imports, kind, name, args) = {}
  BY <1>6, GrowsByOne
<1>8. w = Extended(v, {d}, {})
  BY <1>7 DEF Grows, v, w
<1>9. w.own = v.own \cup {d} /\ w.scope = v.scope \cup {d} /\ w.here = v.own \cup {d}
      /\ w.imports = v.imports
  BY <1>8 DEF Extended
<1>10. Finds(kind, u, n, w)
  <2>1. w.here # {} /\ w.scope # {} /\ w.own # {}
    BY <1>9
  <2>2. Mentions(w.here, n.dnode)
    BY <1>3, <1>6, <1>9 DEF Mentions
  <2>3. kind # "operators" => \A e1, e2 \in w.here : e1 = e2
    BY <1>4, <1>9
  <2>4. IsFiniteSet(w.imports)
    BY <1>1, <1>9 DEF Finds
  <2>. QED
    BY <1>2, <1>3, <1>5, <2>1, <2>2, <2>3, <2>4 DEF Finds
<1>11. ASSUME kind = "operators"  PROVE OwnFirst(u, ds, name)
  <2>1. Innermost(ds, "operators", name, args) = w.here
    BY <1>11 DEF View, w
  <2>2. Innermost(ds, "operators", name, n.args) # {}
    BY <1>3, <1>9, <2>1
  <2>. QED
    BY <1>2, <1>5, <2>2 DEF OwnFirst
<1>12. /\ ds \in Seq(OpenBlocks) /\ ds # << >>
       /\ InFunction(ds) <=> InFunction(cs)
  BY DEF Grows
<1>13. Agrees(kind, u, ds)
  <2>1. Finds(kind, u, vartab_lookup_operator(u, name, args), View(ds, kind, name, args))
    BY <1>5, <1>10 DEF w
  <2>. QED
    BY <1>5, <1>7, <1>11, <1>12, <2>1, AgreesFrom
<1>. QED
  BY <1>5, <1>13

---------------------------------------------------------------------------
\* What is taken over from a module.

\* Outside of functions a node that is found is of the scope.
LEMMA FoundOutside ==
  ASSUME NEW kind, NEW t, NEW cs, Agrees(kind, t, cs), t.current_scope = 0, NEW name,
         NEW node, node = vartab_lookup_varnode(t, name)
  PROVE  /\ node = NoNode \/ node.scope = 0
         /\ node = NoNode => node.scope # 0
         /\ node # NoNode => /\ node.scope = t.current_scope /\ node.args \in AllArgs
                             /\ node.dnode \in Nat \ {0} /\ node.name = name
                             /\ node.count \in Int
                             /\ ~node.imported => IsOwn(node)
<1>1. node # NoNode => NodeFits(kind, t, node) /\ node \in Nodes(AllNames, AllArgs)
                       /\ node.name = name
  BY FoundFits
<1>2. node # NoNode => /\ node.scope = 0 /\ node.args \in AllArgs /\ node.dnode \in Nat \ {0}
                       /\ node.count \in Int
  BY <1>1 DEF NodeFits, Nodes
<1>3. node = NoNode => node.scope # 0
  BY NothingFound
<1>4. node # NoNode /\ ~node.imported => IsOwn(node)
  BY <1>2 DEF IsOwn
<1>. QED
  BY <1>1, <1>2, <1>3, <1>4

\* The three cases of vartab_insert_modules_name() there are outside of functions.
LEMMA ImportCases ==
  ASSUME NEW kind, NEW t, NEW cs, Agrees(kind, t, cs), t.current_scope = 0, NEW name,
         NEW args, NEW dnode, NEW node, node = vartab_lookup_varnode(t, name),
         NEW u, u = vartab_insert_modules_name(t, name, args, dnode)
  PROVE  /\ node = NoNode => u = Counted(t, name, args, dnode, 1)
         /\ node # NoNode /\ node.imported
              => u = Counted(t, name, args, dnode, node.count + 1)
         /\ node # NoNode /\ ~node.imported => u = t
<1>1. /\ node = NoNode => node.scope # t.current_scope
      /\ node # NoNode => node.scope = t.current_scope
  BY FoundOutside
<1>2. /\ node.scope # t.current_scope => u = Counted(t, name, args, dnode, 1)
      /\ node.scope = t.current_scope /\ node.imported
           => u = Counted(t, name, args, dnode, node.count + 1)
      /\ node.scope = t.current_scope /\ ~node.imported => u = t
  BY Zenon DEF vartab_insert_modules_name, Counted
<1>. QED
  BY <1>1, <1>2

\* A table that agrees takes a name over from a module, and goes on to agree; a name
\* that is declared stays.
LEMMA ImportAgrees ==
  ASSUME NEW kind \in Kinds, NEW t, NEW cs, NEW ds, Agrees(kind, t, cs), t.current_scope = 0,
         NEW name \in AllNames, NEW args \in AllArgs, kind # "operators" => args = NoArgs,
         NEW dnode \in Nat \ {0}, NEW d, d = Decl(kind, name, args, dnode),
         Grows(kind, cs, ds, {}, {d}), d \notin Imported(cs, kind, name, args),
         kind = "operators" => \A ar \in AllArgs : Innermost(cs, kind, name, ar) # {} => ar = args,
         NEW u, u = vartab_insert_modules_name(t, name, args, dnode)
  PROVE  Agrees(kind, u, ds) /\ EndsAlike(t, u)
<1>. DEFINE v == View(cs, kind, name, args)
            w == View(ds, kind, name, args)
            node == vartab_lookup_varnode(t, name)
            found == vartab_lookup_operator(t, name, args)
<1>1. /\ t \in Tables(AllNames, AllArgs)
      /\ \A i \in DOMAIN t.node : NodeFits(kind, t, t.node[i])
      /\ Finds(kind, t, found, v)
  BY DEF Agrees
<1>2. v.imports = Imported(cs, kind, name, args) /\ v.here = Innermost(cs, kind, name, args)
  BY DEF View
<1>3. /\ node = NoNode => u = Counted(t, name, args, dnode, 1)
      /\ node # NoNode /\ node.imported
           => u = Counted(t, name, args, dnode, node.count + 1)
      /\ node # NoNode /\ ~node.imported => u = t
  BY ImportCases
<1>4. node # NoNode => /\ node.args \in AllArgs /\ node.count \in Int
                       /\ ~node.imported => IsOwn(node)
  BY FoundOutside
<1>5. kind # "operators" => node = found
  BY FoundFits
<1>6. ASSUME kind = "operators"
      PROVE  /\ (\E ar \in AllArgs : Innermost(cs, "operators", name, ar) # {}) => IsOwn(node)
             /\ IsOwn(node) => Innermost(cs, "operators", name, node.args) # {}
  <2>1. OwnFirst(t, cs, name)
    BY <1>6 DEF Agrees
  <2>. QED
    BY <2>1 DEF OwnFirst
<1>. HIDE DEF v, w, node, found
<1>7. d.kind = kind /\ d.name = name /\ d.args = args /\ d.dnode = dnode
  BY DEF Decl
<1>8. /\ \A nm, ar : nm # name \/ ar # args => View(ds, kind, nm, ar) = View(cs, kind, nm, ar)
      /\ Of({}, kind, name, args) = {} /\ Of({d}, kind, name, args) = {d}
  <2>1. \A nm, ar : nm # name \/ ar # args => View(ds, kind, nm, ar) = View(cs, kind, nm, ar)
    BY <1>7, GrowsByOne
  <2>. QED
    BY <1>7, <2>1 DEF Of
<1>9. w = Extended(v, {}, {d})
  BY <1>8 DEF Grows, v, w
<1>10. w.own = v.own /\ w.scope = v.scope /\ w.here = v.here /\ w.imports = v.imports \cup {d}
  BY <1>9 DEF Extended
<1>11. /\ ds \in Seq(OpenBlocks) /\ ds # << >>
       /\ InFunction(ds) <=> InFunction(cs)
  BY DEF Grows
<1>12. IsFiniteSet(v.imports) /\ IsFiniteSet(w.imports)
       /\ Cardinality(w.imports) = Cardinality(v.imports) + 1
       /\ (v.imports = {} => Cardinality(w.imports) = 1)
  <2>1. IsFiniteSet(v.imports)
    BY <1>1 DEF Finds
  <2>2. d \notin v.imports
    BY <1>2
  <2>3. IsFiniteSet(w.imports) /\ Cardinality(w.imports) = Cardinality(v.imports) + 1
    <3>1. /\ IsFiniteSet(v.imports \cup {d})
          /\ Cardinality(v.imports \cup {d}) = IF d \in v.imports THEN Cardinality(v.imports)
                                               ELSE Cardinality(v.imports) + 1
      BY <2>1, FS_AddElement
    <3>. QED
      BY <1>10, <2>2, <3>1
  <2>4. v.imports = {} => Cardinality(v.imports) = 0
    BY FS_EmptySet
  <2>. QED
    BY <2>1, <2>3, <2>4
\* It is entered, with one more than there were.
<1>13. ASSUME NEW count \in Int, u = Counted(t, name, args, dnode, count),
              v.here = {}, ~IsOwn(node), kind # "operators" => count = Cardinality(w.imports)
       PROVE  Agrees(kind, u, ds) /\ EndsAlike(t, u)
  <2>1. PICK n : Adds(kind, t, u, name, args, dnode, n) /\ n.count = count /\ n.imported
    BY <1>1, <1>13, CountedAdds
  <2>2. /\ n.dnode = dnode /\ n.args = args
        /\ n.scope = t.current_scope /\ n.subscope = t.current_subscope
    BY <2>1 DEF Adds
  <2>3. /\ u \in Tables(AllNames, AllArgs)
        /\ u.current_scope = t.current_scope /\ u.current_subscope = t.current_subscope
        /\ \A i \in DOMAIN u.node : NodeFits(kind, u, u.node[i])
        /\ vartab_lookup_operator(u, name, args) = n /\ vartab_lookup_varnode(u, name) = n
        /\ \A nm, ar : nm # name \/ ar # args =>
             vartab_lookup_operator(u, nm, ar) = vartab_lookup_operator(t, nm, ar)
        /\ \A nm \in AllNames \ {name} :
             vartab_lookup_varnode(u, nm) = vartab_lookup_varnode(t, nm)
        /\ EndsAlike(t, u)
    BY <2>1 DEF Adds, EndsAlike
  <2>4. Finds(kind, u, n, w)
    <3>1. w.here = {} /\ w.imports # {}
      BY <1>10, <1>13
    <3>2. Mentions(w.imports, n.dnode)
      BY <1>7, <1>10, <2>2 DEF Mentions
    <3>. QED
      BY <1>12, <1>13, <2>1, <3>1, <3>2 DEF Finds
  <2>5. ASSUME kind = "operators"  PROVE OwnFirst(u, ds, name)
    <3>1. \A ar \in AllArgs : Innermost(cs, "operators", name, ar) = {}
      BY <1>6, <1>13, <2>5
    <3>2. \A ar \in AllArgs : Innermost(ds, "operators", name, ar) = {}
      <4>. TAKE ar \in AllArgs
      <4>1. View(ds, "operators", name, ar).here = Innermost(ds, "operators", name, ar)
        BY DEF View
      <4>2. View(cs, "operators", name, ar).here = Innermost(cs, "operators", name, ar)
        BY DEF View
      <4>3. CASE ar = args
        BY <1>10, <1>13, <2>5, <4>1, <4>3 DEF w
      <4>4. CASE ar # args
        BY <1>8, <2>5, <3>1, <4>1, <4>2, <4>4
      <4>. QED
        BY <4>3, <4>4
    <3>3. ~IsOwn(n)
      BY <2>1 DEF IsOwn
    <3>. QED
      BY <2>3, <3>2, <3>3 DEF OwnFirst
  <2>6. Finds(kind, u, vartab_lookup_operator(u, name, args), View(ds, kind, name, args))
    BY <2>3, <2>4 DEF w
  <2>7. Agrees(kind, u, ds)
    BY <1>8, <1>11, <2>3, <2>5, <2>6, AgreesFrom
  <2>. QED
    BY <2>3, <2>7
<1>14. CASE node = NoNode
  <2>1. ~IsOwn(node)
    BY <1>14, NothingFound
  <2>2. v.here = {} /\ (kind # "operators" => v.imports = {})
    <3>1. CASE kind = "operators"
      BY <1>2, <1>6, <2>1, <3>1
    <3>2. CASE kind # "operators"
      <4>1. ~IsOwn(found) /\ ~found.imported
        BY <1>5, <1>14, <3>2, NothingFound
      <4>. QED
        BY <1>1, <4>1 DEF Finds
    <3>. QED
      BY <3>1, <3>2
  <2>. DEFINE one == 1
  <2>3. one \in Int /\ u = Counted(t, name, args, dnode, one)
        /\ (kind # "operators" => one = Cardinality(w.imports))
    BY <1>3, <1>12, <1>14, <2>2
  <2>. HIDE DEF one
  <2>. QED
    BY <1>13, <2>1, <2>2, <2>3
<1>15. CASE node # NoNode /\ node.imported
  <2>1. ~IsOwn(node)
    BY <1>15 DEF IsOwn
  <2>2. v.here = {}
    <3>1. CASE kind = "operators"
      BY <1>2, <1>6, <2>1, <3>1
    <3>2. CASE kind # "operators"
      BY <1>1, <1>5, <2>1, <3>2 DEF Finds
    <3>. QED
      BY <3>1, <3>2
  <2>. DEFINE more == node.count + 1
  <2>3. more \in Int /\ u = Counted(t, name, args, dnode, more)
    BY <1>3, <1>4, <1>15
  <2>4. kind # "operators" => more = Cardinality(w.imports)
    <3>1. kind # "operators" => node.count = Cardinality(v.imports)
      BY <1>1, <1>5, <1>15, <2>2 DEF Finds
    <3>. QED
      BY <1>12, <3>1
  <2>. HIDE DEF more
  <2>. QED
    BY <1>13, <2>1, <2>2, <2>3, <2>4
<1>16. CASE node # NoNode /\ ~node.imported
  <2>1. u = t /\ IsOwn(node)
    BY <1>3, <1>4, <1>16
  <2>2. v.here # {}
    <3>1. CASE kind = "operators"
      <4>1. Innermost(cs, kind, name, node.args) # {} /\ node.args \in AllArgs
        BY <1>4, <1>6, <1>16, <2>1, <3>1
      <4>2. node.args = args
        BY <3>1, <4>1
      <4>. QED
        BY <1>2, <4>1, <4>2
    <3>2. CASE kind # "operators"
      BY <1>1, <1>5, <1>16, <3>2 DEF Finds
    <3>. QED
      BY <3>1, <3>2
  <2>3. Finds(kind, t, found, w)
    BY <1>1, <1>10, <1>12, <2>2 DEF Finds
  <2>4. ASSUME kind = "operators"  PROVE OwnFirst(t, ds, name)
    <3>1. \A ar : Innermost(ds, "operators", name, ar) = Innermost(cs, "operators", name, ar)
      <4>. TAKE ar
      <4>1. View(ds, "operators", name, ar).here = Innermost(ds, "operators", name, ar)
        BY DEF View
      <4>2. View(cs, "operators", name, ar).here = Innermost(cs, "operators", name, ar)
        BY DEF View
      <4>3. CASE ar = args
        BY <1>2, <1>10, <2>4, <4>1, <4>3 DEF w
      <4>4. CASE ar # args
        BY <1>8, <2>4, <4>1, <4>2, <4>4
      <4>. QED
        BY <4>3, <4>4
    <3>. QED
      BY <1>6, <2>4, <3>1 DEF OwnFirst, node
  <2>5. Finds(kind, t, vartab_lookup_operator(t, name, args), View(ds, kind, name, args))
    BY <2>3 DEF w, found
  <2>6. Agrees(kind, t, ds)
    BY <1>1, <1>8, <1>11, <2>4, <2>5, AgreesFrom
  <2>7. EndsAlike(t, t)
    BY DEF EndsAlike
  <2>. QED
    BY <2>1, <2>6, <2>7
<1>. QED
  BY <1>14, <1>15, <1>16

\* No type of the name that was imported is forward.
LEMMA TypeImport ==
  ASSUME NEW t, NEW cs, Agrees("typetab", t, cs), t.current_scope = 0,
         NEW name \in AllNames, NEW dnode, NEW fw,
         \A e \in Imported(cs, "typetab", name, NoArgs) : e.dnode \notin fw
  PROVE  typetab_insert_imported(t, name, dnode, fw)
         = vartab_insert_modules_name(t, name, NoArgs, dnode)
<1>. DEFINE node == vartab_lookup_varnode(t, name)
            v == View(cs, "typetab", name, NoArgs)
<1>1. node = vartab_lookup_operator(t, name, NoArgs)
  BY FoundFits
<1>2. Finds("typetab", t, node, v)
  <2>1. NoArgs \in AllArgs
    BY DEF AllArgs
  <2>. QED
    BY <1>1, <2>1 DEF Agrees
<1>3. v.imports = Imported(cs, "typetab", name, NoArgs)
  BY DEF View
<1>4. node = NoNode => node.scope # t.current_scope
  BY FoundOutside
<1>5. node # NoNode /\ ~node.imported => vartab_insert_modules_name(t, name, NoArgs, dnode) = t
  BY ImportCases
<1>6. /\ node.scope = t.current_scope /\ node.dnode \in fw
           => typetab_insert_imported(t, name, dnode, fw) = t
      /\ ~ (node.scope = t.current_scope /\ node.dnode \in fw)
           => typetab_insert_imported(t, name, dnode, fw)
              = vartab_insert_modules_name(t, name, NoArgs, dnode)
  BY DEF typetab_insert_imported, NoArgs
<1>. HIDE DEF node, v
<1>7. CASE node.scope = t.current_scope /\ node.dnode \in fw
  <2>1. ~node.imported
    <3>1. SUFFICES ASSUME node.imported  PROVE FALSE
      OBVIOUS
    <3>2. ~IsOwn(node) /\ node # NoNode
      BY <1>4, <1>7, <3>1 DEF IsOwn
    <3>3. Mentions(v.imports, node.dnode)
      BY <1>2, <3>2 DEF Finds
    <3>. QED
      BY <1>3, <1>7, <3>3 DEF Mentions
  <2>. QED
    BY <1>4, <1>5, <1>6, <1>7, <2>1
<1>8. CASE ~ (node.scope = t.current_scope /\ node.dnode \in fw)
  BY <1>6, <1>8
<1>. QED
  BY <1>7, <1>8

---------------------------------------------------------------------------
\* Blocks that begin.

Begins == {"block", "function"}
Within(construct, cs) == <<Block(construct, NONE)>> \o cs
\* The table in a function or block that begins.
Inside(t, construct) ==
  IF construct = "function" THEN vartab_begin_scope(t) ELSE vartab_begin_subscope(t)

\* As a block or function begins the table agrees, and will be the one before when it
\* ends.
LEMMA BeginAgrees ==
  ASSUME NEW kind, NEW t, NEW cs, Agrees(kind, t, cs), NEW construct \in Begins,
         NEW ds, ds = Within(construct, cs),
         NEW u, u = Inside(t, construct)
  PROVE  /\ Agrees(kind, u, ds) /\ Ended(u, ds) = t
         /\ ds \in Seq(OpenBlocks) /\ Len(ds) = 1 + Len(cs) /\ Tail(ds) = cs
<1>20. /\ construct = "function" => u = vartab_begin_scope(t)
       /\ construct # "function" => u = vartab_begin_subscope(t)
  BY DEF Inside
<1>1. /\ t \in Tables(AllNames, AllArgs) /\ cs \in Seq(OpenBlocks) /\ cs # << >>
      /\ \A i \in DOMAIN t.node : NodeFits(kind, t, t.node[i])
      /\ t.current_scope = 0 <=> ~InFunction(cs)
      /\ \A name \in AllNames, args \in AllArgs :
           Finds(kind, t, vartab_lookup_operator(t, name, args), View(cs, kind, name, args))
      /\ kind = "operators" => \A name \in AllNames : OwnFirst(t, cs, name)
  BY DEF Agrees
<1>21. ds = <<Block(construct, NONE)>> \o cs
  BY DEF Within
<1>2. /\ ds \in Seq(OpenBlocks) /\ ds # << >> /\ Len(ds) = 1 + Len(cs)
      /\ Tail(ds) = cs /\ Head(ds) = Block(construct, NONE)
      /\ InFunction(ds) <=> construct = "function" \/ InFunction(cs)
      /\ \A name, args :
           View(ds, kind, name, args) = Begun(View(cs, kind, name, args), construct)
  <2>1. construct \in {"block", "function"}
    BY DEF Begins
  <2>. QED
    BY <1>1, <1>21, <2>1, BeginView
<1>3. Head(ds).construct = construct
  BY <1>2 DEF Block
<1>4. Settled(t)
  BY <1>1 DEF Settled, NodeFits, Tables
<1>5. /\ u \in Tables(AllNames, AllArgs)
      /\ construct = "function" => vartab_end_scope(u) = t
      /\ construct # "function" => vartab_end_subscope(u) = t
  BY <1>1, <1>4, <1>20, EndOfBegin
<1>6. Ended(u, ds) = t
  BY <1>3, <1>5 DEF Ended
<1>7. /\ u.node = t.node /\ t.current_scope \in Nat /\ t.current_subscope \in Nat
      /\ construct = "function" => /\ u.current_scope = t.current_scope + 1
                                   /\ u.current_subscope = t.current_subscope
      /\ construct # "function" => /\ u.current_scope = t.current_scope
                                   /\ u.current_subscope = t.current_subscope + 1
  <2>1. /\ t = [node |-> t.node, current_scope |-> t.current_scope,
                current_subscope |-> t.current_subscope]
        /\ t.current_scope \in Nat /\ t.current_subscope \in Nat
    BY <1>1 DEF Tables
  <2>2. CASE construct = "function"
    BY <1>20, <2>1, <2>2 DEF vartab_begin_scope
  <2>3. CASE construct # "function"
    BY <1>20, <2>1, <2>3 DEF vartab_begin_subscope
  <2>. QED
    BY <2>1, <2>2, <2>3
<1>8. ASSUME NEW n, NodeFits(kind, t, n)
      PROVE  /\ NodeFits(kind, u, n)
             /\ construct = "function" => n.scope # u.current_scope
             /\ construct # "function" => n.subscope # u.current_subscope
  BY <1>7, <1>8 DEF NodeFits
<1>9. /\ \A name, args : vartab_lookup_operator(u, name, args) = vartab_lookup_operator(t, name, args)
      /\ \A name : vartab_lookup_varnode(u, name) = vartab_lookup_varnode(t, name)
  BY <1>7 DEF vartab_lookup_operator, vartab_lookup_varnode, FirstOf
<1>10. ASSUME NEW name \in AllNames, NEW args \in AllArgs
       PROVE  Finds(kind, u, vartab_lookup_operator(u, name, args), View(ds, kind, name, args))
  <2>. DEFINE node == vartab_lookup_operator(t, name, args)
              v == View(cs, kind, name, args)
              w == View(ds, kind, name, args)
  <2>1. w = Begun(v, construct)
    BY <1>2
  <2>2. Finds(kind, t, node, v)
    BY <1>1
  <2>3. node # NoNode => NodeFits(kind, t, node)
    BY FoundFits
  <2>. HIDE DEF node, v, w
  <2>4. /\ w.own = {} /\ w.here = v.here /\ w.imports = v.imports
        /\ construct = "function" => w.scope = {}
        /\ construct # "function" => w.scope = v.scope
    BY <2>1 DEF Begun
  <2>5. IsOwn(node) => node # NoNode
    BY NothingFound
  <2>6. IsOwn(node) => /\ construct = "function" => node.scope # u.current_scope
                       /\ construct # "function" => node.subscope # u.current_subscope
    BY <1>8, <2>3, <2>5
  <2>7. IsOwn(node) => node.scope # u.current_scope \/ node.subscope # u.current_subscope
    BY <2>6
  <2>8. Finds(kind, u, node, w)
    BY <1>7, <2>2, <2>4, <2>6, <2>7 DEF Finds
  <2>. QED
    BY <1>9, <2>8 DEF node, w
<1>11. ASSUME kind = "operators", NEW name \in AllNames  PROVE OwnFirst(u, ds, name)
  <2>1. OwnFirst(t, cs, name)
    BY <1>1, <1>11
  <2>2. \A args : Innermost(ds, "operators", name, args) = Innermost(cs, "operators", name, args)
    <3>. TAKE args
    <3>. DEFINE v == View(cs, kind, name, args)
    <3>1. View(ds, kind, name, args).here = v.here
      <4>1. View(ds, kind, name, args) = Begun(v, construct)
        BY <1>2
      <4>. HIDE DEF v
      <4>. QED
        BY <4>1 DEF Begun
    <3>. QED
      BY <1>11, <3>1 DEF View
  <2>. QED
    BY <1>9, <2>1, <2>2 DEF OwnFirst
<1>12. /\ \A i \in DOMAIN u.node : NodeFits(kind, u, u.node[i])
       /\ u.current_scope = 0 <=> ~InFunction(ds)
  BY <1>1, <1>2, <1>7, <1>8
<1>13. Agrees(kind, u, ds)
  BY <1>2, <1>5, <1>10, <1>11, <1>12 DEF Agrees
<1>. QED
  BY <1>2, <1>6, <1>13

---------------------------------------------------------------------------
\* What a table goes on to agree with as blocks end.

GoesOn(kind, t, cs) == AgreesToTheEnd(kind, Ended(t, cs), Tail(cs))

\* Such a table agrees now, and the one that is left as the innermost block ends is such
\* a table.
LEMMA HoldsNow ==
  ASSUME NEW kind, NEW t, NEW cs, AgreesToTheEnd(kind, t, cs)
  PROVE  /\ Agrees(kind, t, cs)
         /\ Len(cs) > 1 => AgreesToTheEnd(kind, Ended(t, cs), Tail(cs))
BY DEF AgreesToTheEnd, EndsWithin

\* With one block nothing ends.
LEMMA HoldsOne ==
  ASSUME NEW kind, NEW t, NEW cs, Agrees(kind, t, cs), ~ Len(cs) > 1
  PROVE  AgreesToTheEnd(kind, t, cs)
<1>. DEFINE Z == {<<t, cs>>}
<1>1. ASSUME NEW u, NEW ds, <<u, ds>> \in Z
      PROVE  Agrees(kind, u, ds) /\ (Len(ds) > 1 => <<Ended(u, ds), Tail(ds)>> \in Z)
  <2>1. u = t /\ ds = cs
    BY <1>1
  <2>2. Agrees(kind, u, ds)
    BY <2>1
  <2>3. ~ Len(ds) > 1
    BY <2>1
  <2>. QED
    BY <2>2, <2>3
<1>2. EndsWithin(kind, Z) /\ <<t, cs>> \in Z
  BY <1>1 DEF EndsWithin
<1>. QED
  BY <1>2 DEF AgreesToTheEnd

\* u goes on to what is left of it.
LEMMA HoldsBefore ==
  ASSUME NEW kind, NEW u, NEW ds, Agrees(kind, u, ds), GoesOn(kind, u, ds)
  PROVE  AgreesToTheEnd(kind, u, ds)
<1>. DEFINE t == Ended(u, ds)
            cs == Tail(ds)
<1>0. AgreesToTheEnd(kind, t, cs)
  BY DEF GoesOn
<1>5. t = Ended(u, ds) /\ cs = Tail(ds)
  OBVIOUS
<1>. HIDE DEF t, cs
<1>1. PICK Z : EndsWithin(kind, Z) /\ <<t, cs>> \in Z
  BY <1>0 DEF AgreesToTheEnd
<1>. DEFINE Y == Z \cup {<<u, ds>>}
<1>2. ASSUME NEW v, NEW es, <<v, es>> \in Y
      PROVE  Agrees(kind, v, es) /\ (Len(es) > 1 => <<Ended(v, es), Tail(es)>> \in Y)
  <2>1. CASE <<v, es>> \in Z
    BY <1>1, <2>1 DEF EndsWithin
  <2>2. CASE <<v, es>> \notin Z
    <3>1. v = u /\ es = ds
      BY <1>2, <2>2
    <3>2. <<Ended(v, es), Tail(es)>> = <<t, cs>>
      BY <1>5, <3>1, Zenon
    <3>. QED
      BY <1>1, <3>1, <3>2
  <2>. QED
    BY <2>1, <2>2
<1>3. EndsWithin(kind, Y) /\ <<u, ds>> \in Y
  BY <1>2 DEF EndsWithin
<1>. QED
  BY <1>3 DEF AgreesToTheEnd

\* More in the innermost block goes on to the same.
LEMMA HoldsAgain ==
  ASSUME NEW kind, NEW t, NEW cs, AgreesToTheEnd(kind, t, cs), NEW u, NEW ds,
         Agrees(kind, u, ds), EndsAlike(t, u),
         Len(ds) = Len(cs), Tail(ds) = Tail(cs), Head(ds).construct = Head(cs).construct
  PROVE  AgreesToTheEnd(kind, u, ds)
<1>1. Len(cs) > 1 => GoesOn(kind, t, cs)
  BY HoldsNow DEF GoesOn
<1>2. Ended(u, ds) = Ended(t, cs)
  BY DEF Ended, EndsAlike
<1>3. CASE Len(cs) > 1
  <2>1. GoesOn(kind, u, ds)
    BY <1>1, <1>2, <1>3, Zenon DEF GoesOn
  <2>. QED
    BY <2>1, HoldsBefore
<1>4. CASE ~ Len(cs) > 1
  <2>1. ~ Len(ds) > 1
    BY <1>4
  <2>. QED
    BY <2>1, HoldsOne
<1>. QED
  BY <1>3, <1>4

\* The same table, to which the blocks are the same.
LEMMA HoldsSame ==
  ASSUME NEW kind, NEW t, NEW cs, AgreesToTheEnd(kind, t, cs), NEW ds, NEW own, NEW imports,
         Grows(kind, cs, ds, own, imports),
         \A d \in own : d.kind # kind, \A d \in imports : d.kind # kind
  PROVE  AgreesToTheEnd(kind, t, ds)
<1>1. Agrees(kind, t, cs)
  BY HoldsNow
<1>2. Agrees(kind, t, ds)
  BY <1>1, GrowsOtherwise, AgreesWithSame
<1>3. EndsAlike(t, t)
  BY DEF EndsAlike
<1>4. Len(ds) = Len(cs) /\ Tail(ds) = Tail(cs) /\ Head(ds).construct = Head(cs).construct
  BY DEF Grows
<1>. QED
  BY <1>2, <1>3, <1>4, HoldsAgain

\* A declaration in the innermost block.
LEMMA HoldsDeclared ==
  ASSUME NEW kind \in Kinds, NEW t, NEW cs, AgreesToTheEnd(kind, t, cs), NEW ds,
         NEW name \in AllNames, NEW args \in AllArgs, kind # "operators" => args = NoArgs,
         NEW dnode \in Nat \ {0}, NEW d, d = Decl(kind, name, args, dnode), NEW imports,
         Grows(kind, cs, ds, {d}, imports), \A e \in imports : e.kind # kind,
         kind # "operators" => Own(cs, 1, kind, name, args) = {}
  PROVE  AgreesToTheEnd(kind, Declared(t, name, args, dnode), ds)
<1>. DEFINE u == Declared(t, name, args, dnode)
<1>1. Agrees(kind, t, cs)
  BY HoldsNow
<1>2. Agrees(kind, u, ds) /\ EndsAlike(t, u)
  BY <1>1, DeclareAgrees
<1>. HIDE DEF u
<1>3. Len(ds) = Len(cs) /\ Tail(ds) = Tail(cs) /\ Head(ds).construct = Head(cs).construct
  BY DEF Grows
<1>4. AgreesToTheEnd(kind, u, ds)
  BY <1>2, <1>3, HoldsAgain
<1>. QED
  BY <1>4 DEF u

\* A block or function begins.
LEMMA HoldsBegun ==
  ASSUME NEW kind, NEW t, NEW cs, AgreesToTheEnd(kind, t, cs), NEW construct \in Begins
  PROVE  AgreesToTheEnd(kind, Inside(t, construct), Within(construct, cs))
<1>. DEFINE u == Inside(t, construct)
            ds == Within(construct, cs)
<1>1. Agrees(kind, t, cs)
  BY HoldsNow
<1>5. u = Inside(t, construct) /\ ds = Within(construct, cs)
  OBVIOUS
<1>. HIDE DEF u, ds
<1>2. Agrees(kind, u, ds)
  BY <1>1, <1>5, BeginAgrees
<1>6. Ended(u, ds) = t
  BY <1>1, <1>5, BeginAgrees
<1>7. Tail(ds) = cs
  BY <1>1, <1>5, BeginAgrees
<1>3. GoesOn(kind, u, ds)
  BY <1>6, <1>7, Zenon DEF GoesOn
<1>4. AgreesToTheEnd(kind, u, ds)
  BY <1>2, <1>3, HoldsBefore
<1>. QED
  BY <1>4 DEF u, ds

---------------------------------------------------------------------------
\* Copying a table.

IsStep(T, n, g) == g \in [T \X (1 .. n) -> T]
Steps(T, base, n, g, f) ==
  /\ f \in [0 .. n -> T] /\ f[0] = base
  /\ \A i \in 1 .. n : f[i] = g[<<f[i - 1], i>>]

\* A function that is defined step by step exists.
LEMMA Recursion ==
  ASSUME NEW T, NEW base \in T, NEW n \in Nat, NEW g, IsStep(T, n, g)
  PROVE  \E f : Steps(T, base, n, g, f)
<1>0. g \in [T \X (1 .. n) -> T]
  BY DEF IsStep
<1>. DEFINE Goes(f, k) == /\ f \in [0 .. k -> T] /\ f[0] = base
                          /\ \A i \in 1 .. k : f[i] = g[<<f[i - 1], i>>]
            Bad == {k \in 0 .. n : ~ \E f : Goes(f, k)}
<1>1. Bad = {}
  <2>1. SUFFICES ASSUME Bad # {}  PROVE FALSE
    OBVIOUS
  <2>2. Bad \in SUBSET Nat
    OBVIOUS
  <2>3. PICK k \in Bad : \A y \in Bad : k <= y
    <3>. HIDE DEF Bad
    <3>. QED
      BY <2>1, <2>2, LeastNatural
  <2>4. k \in 0 .. n /\ ~ \E f : Goes(f, k)
    BY <2>3
  <2>5. k # 0
    <3>1. Goes([i \in 0 .. 0 |-> base], 0)
      OBVIOUS
    <3>. HIDE DEF Goes
    <3>. QED
      BY <2>4, <3>1
  <2>6. k - 1 \in 0 .. n /\ k - 1 \notin Bad
    <3>1. ~ k <= k - 1 /\ k - 1 \in 0 .. n
      BY <2>4, <2>5
    <3>. QED
      BY <2>3, <3>1
  <2>7. PICK f : Goes(f, k - 1)
    BY <2>6
  <2>. DEFINE h == [i \in 0 .. k |-> IF i = k THEN g[<<f[k - 1], k>>] ELSE f[i]]
  <2>8. f[k - 1] \in T /\ k \in 1 .. n
    BY <2>4, <2>5, <2>7
  <2>9. g[<<f[k - 1], k>>] \in T
    BY <1>0, <2>8
  <2>10. h \in [0 .. k -> T] /\ h[0] = base
    BY <2>4, <2>5, <2>7, <2>9
  <2>11. ASSUME NEW i \in 1 .. k  PROVE h[i] = g[<<h[i - 1], i>>]
    <3>1. i - 1 \in 0 .. k /\ i - 1 # k /\ i \in 0 .. k /\ (i # k => i \in 1 .. k - 1)
      BY <2>4, <2>11
    <3>2. h[i - 1] = f[i - 1]
      BY <3>1
    <3>3. CASE i = k
      BY <3>1, <3>2, <3>3
    <3>4. CASE i # k
      BY <2>7, <3>1, <3>2, <3>4
    <3>. QED
      BY <3>3, <3>4
  <2>12. Goes(h, k)
    BY <2>10, <2>11
  <2>. HIDE DEF Goes
  <2>. QED
    BY <2>4, <2>12
<1>2. \E f : Goes(f, n)
  <2>1. n \in 0 .. n
    OBVIOUS
  <2>. HIDE DEF Goes
  <2>. QED
    BY <1>1, <2>1
<1>. QED
  BY <1>2 DEF Steps

\* One node that is taken over.
Takes(kind, fw, t, n) ==
  IF kind = "typetab" THEN typetab_insert_imported(t, n.name, n.dnode, fw)
  ELSE vartab_insert_modules_name(t, n.name, n.args, n.dnode)
\* The tables there are on the way.
Copies(kind, fw, dst, src, f) ==
  /\ f[0] = dst
  /\ \A i \in 1 .. Len(src.node) : f[i] = Takes(kind, fw, f[i - 1], src.node[i])
\* The table there is in the end.
Copied(kind, fw, dst, src) ==
  IF kind = "typetab" THEN typetab_copy_table(dst, src, fw) ELSE vartab_copy_table(dst, src)

\* Taking over a node leaves a table.
LEMMA TakesFits ==
  ASSUME NEW kind, NEW fw, NEW t \in Tables(AllNames, AllArgs),
         NEW n \in Nodes(AllNames, AllArgs)
  PROVE  Takes(kind, fw, t, n) \in Tables(AllNames, AllArgs)
<1>1. n.name \in AllNames /\ n.args \in AllArgs /\ n.dnode \in Int
  BY DEF Nodes
<1>2. NoArgs \in AllArgs
  BY DEF AllArgs
<1>3. \A u : EntersOne(t, u, AllArgs, n.name, n.dnode) => u \in Tables(AllNames, AllArgs)
  <2>. TAKE u
  <2>. HAVE EntersOne(t, u, AllArgs, n.name, n.dnode)
  <2>1. CASE u = t
    BY <2>1
  <2>2. CASE u # t
    <3>1. PICK a \in AllArgs, count \in Int, imported \in BOOLEAN :
            u = PutNode(t, n.name, a, n.dnode, count, imported)
      BY <2>2 DEF EntersOne
    <3>. QED
      BY <1>1, <3>1, Put
  <2>. QED
    BY <2>1, <2>2
<1>4. EntersOne(t, vartab_insert_modules_name(t, n.name, n.args, n.dnode), AllArgs, n.name, n.dnode)
  BY <1>1, <1>2, EachEntersOne
<1>5. EntersOne(t, typetab_insert_imported(t, n.name, n.dnode, fw), AllArgs, n.name, n.dnode)
  BY <1>1, <1>2, EachEntersOne
<1>. QED
  BY <1>3, <1>4, <1>5, Zenon DEF Takes

Follows(kind, fw, dst, src, f) ==
  f = [i \in 0 .. Len(src.node) |->
         IF i = 0 THEN dst ELSE Takes(kind, fw, f[i - 1], src.node[i])]

\* There are the tables that copying goes through.
LEMMA CopyGoes ==
  ASSUME NEW kind, NEW fw, NEW dst \in Tables(AllNames, AllArgs),
         NEW src \in Tables(AllNames, AllArgs)
  PROVE  \E f : Follows(kind, fw, dst, src, f)
<1>. DEFINE T == Tables(AllNames, AllArgs)
            n == Len(src.node)
            g == [x \in T \X (1 .. n) |-> Takes(kind, fw, x[1], src.node[x[2]])]
<1>1. n \in Nat /\ dst \in T /\ \A i \in 1 .. n : src.node[i] \in Nodes(AllNames, AllArgs)
  BY DEF Tables
<1>2. \A t \in T, i \in 1 .. n : Takes(kind, fw, t, src.node[i]) \in T
  BY <1>1, TakesFits
<1>. HIDE DEF T, n
<1>3. g \in [T \X (1 .. n) -> T]
  BY <1>2
<1>4. \A t \in T, i \in 1 .. n : g[<<t, i>>] = Takes(kind, fw, t, src.node[i])
  OBVIOUS
<1>. HIDE DEF g
<1>10. PICK f : Steps(T, dst, n, g, f)
  BY <1>1, <1>3, Recursion DEF IsStep
<1>5. /\ f \in [0 .. n -> T] /\ f[0] = dst
      /\ \A i \in 1 .. n : f[i] = g[<<f[i - 1], i>>]
  BY <1>10 DEF Steps
<1>6. \A i \in 1 .. n : i - 1 \in 0 .. n
  BY <1>1
<1>7. \A i \in 1 .. n : f[i] = Takes(kind, fw, f[i - 1], src.node[i])
  BY <1>4, <1>5, <1>6
<1>8. \A i \in 0 .. n : i # 0 => i \in 1 .. n
  BY <1>1
<1>9. f = [i \in 0 .. n |-> IF i = 0 THEN dst ELSE Takes(kind, fw, f[i - 1], src.node[i])]
  BY <1>5, <1>7, <1>8
<1>. QED
  BY <1>9 DEF n, Follows

\* Copying ends with the last of them.
LEMMA CopyIs ==
  ASSUME NEW kind, NEW fw, NEW dst \in Tables(AllNames, AllArgs),
         NEW src \in Tables(AllNames, AllArgs)
  PROVE  \E f : Copies(kind, fw, dst, src, f) /\ Copied(kind, fw, dst, src) = f[Len(src.node)]
<1>. DEFINE n == Len(src.node)
<1>0. n \in Nat
  BY DEF Tables
<1>. DEFINE After(u) == Follows(kind, fw, dst, src, u)
<1>1. ASSUME NEW u, After(u)  PROVE Copies(kind, fw, dst, src, u)
  <2>. HIDE DEF n
  <2>1. 0 \in 0 .. n /\ \A i \in 1 .. n : i \in 0 .. n /\ i # 0
    BY <1>0
  <2>2. u[0] = dst
    BY <1>1, <2>1 DEF Follows, n
  <2>3. \A i \in 1 .. n : u[i] = Takes(kind, fw, u[i - 1], src.node[i])
    BY <1>1, <2>1 DEF Follows, n
  <2>. QED
    BY <2>2, <2>3 DEF Copies, n
<1>2. \E u : After(u)
  BY CopyGoes
<1>3. CASE kind = "typetab"
  <2>. DEFINE Goes(u) == u = [i \in 0 .. Len(src.node) |->
                IF i = 0 THEN dst
                ELSE LET m == src.node[i]
                     IN  typetab_insert_imported(u[i - 1], m.name, m.dnode, fw)]
              end == CHOOSE u : Goes(u)
  <2>1. \A u : Goes(u) <=> After(u)
    BY <1>3 DEF Takes, Follows
  <2>2. Copied(kind, fw, dst, src) = end[n]
    BY <1>3, Zenon DEF Copied, typetab_copy_table
  <2>. HIDE DEF Goes, After, n
  <2>3. Goes(end)
    BY <1>2, <2>1, Zenon
  <2>. HIDE DEF end
  <2>4. Copies(kind, fw, dst, src, end)
    BY <1>1, <2>1, <2>3
  <2>. QED
    BY <2>2, <2>4 DEF n
<1>4. CASE kind # "typetab"
  <2>. DEFINE Goes(u) == u = [i \in 0 .. Len(src.node) |->
                IF i = 0 THEN dst
                ELSE LET m == src.node[i]
                     IN  vartab_insert_modules_name(u[i - 1], m.name, m.args, m.dnode)]
              end == CHOOSE u : Goes(u)
  <2>1. \A u : Goes(u) <=> After(u)
    BY <1>4 DEF Takes, Follows
  <2>2. Copied(kind, fw, dst, src) = end[n]
    BY <1>4, Zenon DEF Copied, vartab_copy_table
  <2>. HIDE DEF Goes, After, n
  <2>3. Goes(end)
    BY <1>2, <2>1, Zenon
  <2>. HIDE DEF end
  <2>4. Copies(kind, fw, dst, src, end)
    BY <1>1, <2>1, <2>3
  <2>. QED
    BY <2>2, <2>4 DEF n
<1>. QED
  BY <1>3, <1>4

---------------------------------------------------------------------------
\* Tables that are copied agree with what they say.

\* From some imports to all of them it is the rest.
LEMMA GrowsBetween ==
  ASSUME NEW kind, NEW cs, NEW ds, NEW es, NEW own, NEW some, NEW all, NEW more,
         Grows(kind, cs, ds, own, some), Grows(kind, cs, es, own, all),
         \A name, args : Of(all, kind, name, args)
                         = Of(some, kind, name, args) \cup Of(more, kind, name, args)
  PROVE  Grows(kind, ds, es, {}, more)
<1>1. ASSUME NEW name, NEW args
      PROVE  View(es, kind, name, args)
             = Extended(View(ds, kind, name, args), Of({}, kind, name, args),
                        Of(more, kind, name, args))
  <2>. DEFINE v == View(cs, kind, name, args)
              w == View(ds, kind, name, args)
              x == View(es, kind, name, args)
              o == Of(own, kind, name, args)
              m == Of(some, kind, name, args)
              a == Of(all, kind, name, args)
              r == Of(more, kind, name, args)
  <2>1. w = Extended(v, o, m) /\ x = Extended(v, o, a) /\ a = m \cup r
    BY DEF Grows
  <2>2. Of({}, kind, name, args) = {}
    BY DEF Of
  <2>. HIDE DEF v, w, x, o, m, a, r
  <2>3. /\ w.own = v.own \cup o /\ w.scope = v.scope \cup o
        /\ w.here = IF o = {} THEN v.here ELSE v.own \cup o
        /\ w.imports = v.imports \cup m
    BY <2>1 DEF Extended
  <2>4. Extended(w, {}, r) = [own |-> w.own, scope |-> w.scope, here |-> w.here,
                              imports |-> w.imports \cup r]
    BY DEF Extended
  <2>5. w.imports \cup r = v.imports \cup a
    BY <2>1, <2>3
  <2>6. x = [own |-> v.own \cup o, scope |-> v.scope \cup o,
             here |-> IF o = {} THEN v.here ELSE v.own \cup o, imports |-> v.imports \cup a]
    BY <2>1 DEF Extended
  <2>7. x = Extended(w, {}, r)
    BY <2>3, <2>4, <2>5, <2>6
  <2>. QED
    BY <2>2, <2>7 DEF w, x, r
<1>. QED
  BY <1>1 DEF Grows

\* Of the imports only what they say matters.
LEMMA GrowsAlike ==
  ASSUME NEW kind, NEW cs, NEW ds, NEW own, NEW imports, NEW others,
         Grows(kind, cs, ds, own, imports),
         \A name, args : Of(others, kind, name, args) = Of(imports, kind, name, args)
  PROVE  Grows(kind, cs, ds, own, others)
BY DEF Grows

\* Two steps that the end of the scope undoes are undone together.
LEMMA EndsAlikeToo ==
  ASSUME NEW t, NEW u, NEW v, EndsAlike(t, u), EndsAlike(u, v)
  PROVE  EndsAlike(t, v)
BY DEF EndsAlike

\* What the first i nodes of a table say.
SaidBy(kind, n) == Decl(kind, n.name, n.args, n.dnode)
Taken(kind, src, i) == {SaidBy(kind, src.node[j]) : j \in 1 .. i}

\* The declarations are new here; no operator of their name has other arguments, and
\* no type of their name was imported and is forward.
MayTake(kind, cs, decls, fw) ==
  \A d \in decls : d.kind = kind =>
    /\ d \notin Imported(cs, kind, d.name, d.args)
    /\ kind = "operators" =>
         \A ar \in AllArgs : Innermost(cs, kind, d.name, ar) # {} => ar = d.args
    /\ kind = "typetab" => \A e \in Imported(cs, kind, d.name, NoArgs) : e.dnode \notin fw

\* One node is copied.
LEMMA CopyStep ==
  ASSUME NEW kind \in Kinds, NEW cs, NEW fw, NEW src, NEW decls \in SUBSET Decls,
         Shows(kind, src, decls), MayTake(kind, cs, decls, fw),
         NEW i \in 1 .. Len(src.node),
         NEW es, Grows(kind, cs, es, {}, Taken(kind, src, i - 1)),
         NEW ds, Grows(kind, cs, ds, {}, Taken(kind, src, i)),
         NEW t, Agrees(kind, t, es), t.current_scope = 0,
         NEW u, u = Takes(kind, fw, t, src.node[i])
  PROVE  Agrees(kind, u, ds) /\ EndsAlike(t, u)
<1>. DEFINE n == src.node[i]
            d == SaidBy(kind, n)
            some == Taken(kind, src, i - 1)
<1>1. Len(src.node) \in Nat /\ DOMAIN src.node = 1 .. Len(src.node)
      /\ src.node \in Seq(Nodes(AllNames, AllArgs))
  BY DEF Shows, Tables
<1>2. i \in DOMAIN src.node /\ \A j \in 1 .. i - 1 : j \in DOMAIN src.node /\ j # i
  BY <1>1
<1>3. d \in decls /\ n \in Nodes(AllNames, AllArgs)
      /\ \A j \in DOMAIN src.node :
           n.dnode = src.node[j].dnode \/ (kind # "operators" /\ n.name = src.node[j].name)
             => i = j
  BY <1>1, <1>2 DEF Shows, SaidBy
<1>4. /\ d = Decl(kind, n.name, n.args, n.dnode)
      /\ d.kind = kind /\ d.name = n.name /\ d.args = n.args /\ d.dnode = n.dnode
  BY DEF Decl, SaidBy
<1>5. /\ n.name \in AllNames /\ n.args \in AllArgs /\ n.dnode \in Nat \ {0}
      /\ kind # "operators" => n.args = NoArgs
  <2>1. d \in Decls
    BY <1>3
  <2>. HIDE DEF d, n
  <2>. QED
    BY <1>4, <2>1 DEF Decls
<1>6. Taken(kind, src, i) = some \cup {d}
  <2>1. \A j : j \in 1 .. i <=> j \in 1 .. i - 1 \/ j = i
    OBVIOUS
  <2>. QED
    BY <2>1 DEF Taken
<1>7. \A e \in some : \E j \in 1 .. i - 1 : e = SaidBy(kind, src.node[j])
  BY DEF Taken
<1>8. \A e \in some : e.dnode # n.dnode /\ (kind # "operators" => e.name # n.name)
  <2>. TAKE e \in some
  <2>1. PICK j \in 1 .. i - 1 : e = SaidBy(kind, src.node[j])
    BY <1>7
  <2>2. e.dnode = src.node[j].dnode /\ e.name = src.node[j].name
    BY <2>1 DEF SaidBy, Decl
  <2>. QED
    BY <1>2, <1>3, <2>2
<1>. HIDE DEF n, d, some
<1>9. Grows(kind, es, ds, {}, {d})
  <2>1. \A name, args : Of(some \cup {d}, kind, name, args)
                        = Of(some, kind, name, args) \cup Of({d}, kind, name, args)
    BY DEF Of
  <2>2. Grows(kind, cs, es, {}, some) /\ Grows(kind, cs, ds, {}, some \cup {d})
    BY <1>6 DEF some
  <2>. QED
    BY <2>1, <2>2, GrowsBetween
<1>10. ASSUME NEW name, NEW args
       PROVE  /\ Imported(es, kind, name, args)
                 = Imported(cs, kind, name, args) \cup Of(some, kind, name, args)
              /\ Innermost(es, kind, name, args) = Innermost(cs, kind, name, args)
  <2>. DEFINE v == View(cs, kind, name, args)
              w == View(es, kind, name, args)
  <2>1. w = Extended(v, Of({}, kind, name, args), Of(some, kind, name, args))
    BY DEF Grows, some
  <2>2. Of({}, kind, name, args) = {}
    BY DEF Of
  <2>3. /\ w.imports = Imported(es, kind, name, args) /\ w.here = Innermost(es, kind, name, args)
        /\ v.imports = Imported(cs, kind, name, args) /\ v.here = Innermost(cs, kind, name, args)
    BY DEF View
  <2>. HIDE DEF v, w
  <2>4. w.imports = v.imports \cup Of(some, kind, name, args) /\ w.here = v.here
    BY <2>1, <2>2 DEF Extended
  <2>. QED
    BY <2>3, <2>4
<1>11. /\ d \notin Imported(cs, kind, n.name, n.args)
       /\ kind = "operators" =>
            \A ar \in AllArgs : Innermost(cs, kind, n.name, ar) # {} => ar = n.args
       /\ kind = "typetab" => \A e \in Imported(cs, kind, n.name, NoArgs) : e.dnode \notin fw
  BY <1>3, <1>4 DEF MayTake
<1>12. d \notin Imported(es, kind, n.name, n.args)
  <2>1. d \notin Of(some, kind, n.name, n.args)
    BY <1>4, <1>8 DEF Of
  <2>. QED
    BY <1>10, <1>11, <2>1
<1>13. kind = "operators" =>
         \A ar \in AllArgs : Innermost(es, kind, n.name, ar) # {} => ar = n.args
  BY <1>10, <1>11
<1>14. kind = "typetab" => \A e \in Imported(es, kind, n.name, NoArgs) : e.dnode \notin fw
  <2>1. kind = "typetab" => Of(some, kind, n.name, NoArgs) = {}
    BY <1>8 DEF Of
  <2>. QED
    BY <1>10, <1>11, <2>1
<1>15. u = vartab_insert_modules_name(t, n.name, n.args, n.dnode)
  <2>1. CASE kind = "typetab"
    <3>1. u = typetab_insert_imported(t, n.name, n.dnode, fw)
      BY <2>1 DEF Takes, n
    <3>2. typetab_insert_imported(t, n.name, n.dnode, fw)
          = vartab_insert_modules_name(t, n.name, NoArgs, n.dnode)
      BY <1>5, <1>14, <2>1, TypeImport
    <3>. QED
      BY <1>5, <2>1, <3>1, <3>2
  <2>2. CASE kind # "typetab"
    BY <2>2 DEF Takes, n
  <2>. QED
    BY <2>1, <2>2
<1>. DEFINE name == n.name
            args == n.args
            dnode == n.dnode
<1>16. /\ name \in AllNames /\ args \in AllArgs /\ dnode \in Nat \ {0}
       /\ kind # "operators" => args = NoArgs
       /\ d = Decl(kind, name, args, dnode)
       /\ d \notin Imported(es, kind, name, args)
       /\ kind = "operators" =>
            \A ar \in AllArgs : Innermost(es, kind, name, ar) # {} => ar = args
       /\ u = vartab_insert_modules_name(t, name, args, dnode)
  BY <1>4, <1>5, <1>12, <1>13, <1>15
<1>. HIDE DEF name, args, dnode
<1>. QED
  BY <1>9, <1>16, ImportAgrees

\* All of what a module shows is copied to a table, which agrees again.
LEMMA CopyAgrees ==
  ASSUME NEW kind \in Kinds, NEW t, NEW cs, Agrees(kind, t, cs), t.current_scope = 0,
         NEW fw, NEW src, NEW decls \in SUBSET Decls,
         Shows(kind, src, decls), MayTake(kind, cs, decls, fw),
         NEW ds, Grows(kind, cs, ds, {}, decls),
         NEW u, u = Copied(kind, fw, t, src)
  PROVE  Agrees(kind, u, ds) /\ EndsAlike(t, u)
<1>. DEFINE n == Len(src.node)
<1>1. /\ src \in Tables(AllNames, AllArgs) /\ t \in Tables(AllNames, AllArgs)
      /\ n \in Nat /\ DOMAIN src.node = 1 .. n
      /\ cs \in Seq(OpenBlocks) /\ cs # << >>
  BY DEF Shows, Agrees, Tables
<1>2. PICK f : Copies(kind, fw, t, src, f) /\ u = f[n]
  BY <1>1, CopyIs
<1>3. f[0] = t /\ \A i \in 1 .. n : f[i] = Takes(kind, fw, f[i - 1], src.node[i])
  BY <1>2 DEF Copies
<1>. DEFINE P(i) == \A es : Grows(kind, cs, es, {}, Taken(kind, src, i))
                      => Agrees(kind, f[i], es) /\ EndsAlike(t, f[i])
            Bad == {i \in 0 .. n : ~P(i)}
<1>4. P(0)
  <2>. SUFFICES ASSUME NEW es, Grows(kind, cs, es, {}, Taken(kind, src, 0))
                PROVE  Agrees(kind, t, es) /\ EndsAlike(t, t)
    BY <1>3
  <2>1. Taken(kind, src, 0) = {}
    BY DEF Taken
  <2>2. SameView(kind, cs, es)
    BY <2>1, GrowsOtherwise
  <2>. QED
    BY <2>2, AgreesWithSame DEF EndsAlike
<1>5. ASSUME NEW i \in 1 .. n, P(i - 1)  PROVE P(i)
  <2>. SUFFICES ASSUME NEW es, Grows(kind, cs, es, {}, Taken(kind, src, i))
                PROVE  Agrees(kind, f[i], es) /\ EndsAlike(t, f[i])
    OBVIOUS
  <2>1. Taken(kind, src, i - 1) \in SUBSET Decls
    <3>1. \A j \in 1 .. i - 1 : j \in DOMAIN src.node
      BY <1>1
    <3>. QED
      BY <3>1 DEF Taken, Shows, SaidBy
  <2>. DEFINE before == With(cs, {}, Taken(kind, src, i - 1), {})
  <2>2. Grows(kind, cs, before, {}, Taken(kind, src, i - 1))
    <3>. DEFINE none == {}
    <3>1. Additions(none, Taken(kind, src, i - 1), none)
      BY <2>1 DEF Additions
    <3>2. none = {} /\ before = With(cs, none, Taken(kind, src, i - 1), none)
      OBVIOUS
    <3>. HIDE DEF none, before
    <3>3. Grows(kind, cs, before, none, Taken(kind, src, i - 1))
      BY <1>1, <3>1, <3>2, WithGrows
    <3>. QED
      BY <3>2, <3>3
  <2>. HIDE DEF before
  <2>3. Agrees(kind, f[i - 1], before) /\ EndsAlike(t, f[i - 1])
    BY <1>5, <2>2
  <2>4. f[i - 1].current_scope = 0
    BY <2>3 DEF EndsAlike
  <2>5. f[i] = Takes(kind, fw, f[i - 1], src.node[i])
    BY <1>3
  <2>6. Agrees(kind, f[i], es) /\ EndsAlike(f[i - 1], f[i])
    BY <2>2, <2>3, <2>4, <2>5, CopyStep
  <2>. QED
    BY <2>3, <2>6, EndsAlikeToo
<1>. HIDE DEF P, n
<1>6. Bad = {}
  <2>1. SUFFICES ASSUME Bad # {}  PROVE FALSE
    OBVIOUS
  <2>2. Bad \in SUBSET Nat
    BY <1>1
  <2>3. PICK k \in Bad : \A y \in Bad : k <= y
    <3>. HIDE DEF Bad
    <3>. QED
      BY <2>1, <2>2, LeastNatural
  <2>4. k # 0 /\ k \in 1 .. n
    BY <1>1, <1>4, <2>3
  <2>5. k - 1 \in 0 .. n /\ ~ k <= k - 1
    BY <1>1, <2>4
  <2>6. P(k - 1)
    BY <2>3, <2>5
  <2>. QED
    BY <1>5, <2>3, <2>4, <2>6
<1>7. P(n)
  <2>1. n \in 0 .. n
    BY <1>1
  <2>. QED
    BY <1>6, <2>1
<1>8. Grows(kind, cs, ds, {}, Taken(kind, src, n))
  <2>1. ASSUME NEW name, NEW args
        PROVE  Of(Taken(kind, src, n), kind, name, args) = Of(decls, kind, name, args)
    <3>1. Taken(kind, src, n) \subseteq decls
      BY <1>1 DEF Taken, Shows, SaidBy
    <3>2. \A d \in decls : d.kind = kind => d \in Taken(kind, src, n)
      BY <1>1 DEF Taken, Shows, SaidBy
    <3>. QED
      BY <3>1, <3>2 DEF Of
  <2>. QED
    BY <2>1, GrowsAlike
<1>. QED
  BY <1>2, <1>7, <1>8 DEF P

---------------------------------------------------------------------------
\* What is refused, and what is entered.

\* What the ways to enter a name do when it is refused, and when not.
LEMMA InsertIs ==
  ASSUME NEW t, NEW name, NEW dnode
  PROVE  /\ vartab_refuses(t, name) => vartab_insert(t, name, dnode) = t
         /\ ~vartab_refuses(t, name)
              => vartab_insert(t, name, dnode) = Declared(t, name, NoArgs, dnode)
         /\ typetab_refuses(t, name) => typetab_insert(t, name, dnode) = t
         /\ ~typetab_refuses(t, name)
              => typetab_insert(t, name, dnode) = Declared(t, name, NoArgs, dnode)
         /\ vartab_refuses(t, name) => vartab_insert_module(t, name, dnode) = t
         /\ ~vartab_refuses(t, name) /\ vartab_lookup_varnode(t, name) = NoNode
              => vartab_insert_module(t, name, dnode) = Declared(t, name, NoArgs, dnode)
         /\ \A args : vartab_insert_operator(t, name, args, dnode)
                      = Declared(t, name, args, dnode)
<1>1. /\ vartab_refuses(t, name) => vartab_insert(t, name, dnode) = t
      /\ ~vartab_refuses(t, name)
           => vartab_insert(t, name, dnode) = Declared(t, name, NoArgs, dnode)
  BY Zenon DEF vartab_insert, Declared, NoArgs
<1>2. /\ typetab_refuses(t, name) => typetab_insert(t, name, dnode) = t
      /\ ~typetab_refuses(t, name)
           => typetab_insert(t, name, dnode) = Declared(t, name, NoArgs, dnode)
  BY Zenon DEF typetab_insert, Declared, NoArgs
<1>3. vartab_refuses(t, name) => vartab_insert_module(t, name, dnode) = t
  BY Zenon DEF vartab_insert_module
<1>4. ASSUME ~vartab_refuses(t, name), vartab_lookup_varnode(t, name) = NoNode
      PROVE  vartab_insert_module(t, name, dnode) = Declared(t, name, NoArgs, dnode)
  <2>1. vartab_lookup_varnode(t, name).count + 1 = 1
    <3>1. NoNode.count = 0
      BY NothingFound
    <3>2. vartab_lookup_varnode(t, name).count = 0
      BY <1>4, <3>1, Zenon
    <3>. QED
      BY <3>2
  <2>. QED
    BY <1>4, <2>1, Zenon DEF vartab_insert_module, Declared, NoArgs
<1>5. \A args : vartab_insert_operator(t, name, args, dnode) = Declared(t, name, args, dnode)
  BY Zenon DEF vartab_insert_operator, Declared
<1>. QED
  BY <1>1, <1>2, <1>3, <1>4, <1>5

\* What a name that is not of an operator finds.
LEMMA FindsName ==
  ASSUME NEW kind \in Kinds \ {"operators"}, NEW t, NEW cs, Agrees(kind, t, cs),
         NEW name \in AllNames
  PROVE  /\ Finds(kind, t, vartab_lookup_varnode(t, name), View(cs, kind, name, NoArgs))
         /\ cs \in Seq(OpenBlocks) /\ cs # << >>
<1>1. vartab_lookup_varnode(t, name) = vartab_lookup_operator(t, name, NoArgs)
  BY FoundFits
<1>2. NoArgs \in AllArgs
  BY DEF AllArgs
<1>. QED
  BY <1>1, <1>2 DEF Agrees

\* A name is refused just when the function or module has declared it.
LEMMA VartabRefuses ==
  ASSUME NEW kind \in {"vartab", "consts"}, NEW t, NEW cs, Agrees(kind, t, cs),
         NEW name \in AllNames
  PROVE  vartab_refuses(t, name) <=> DeclaredIn(cs, SameScope(cs), kind, name, NoArgs)
<1>. DEFINE node == vartab_lookup_varnode(t, name)
            v == View(cs, kind, name, NoArgs)
<1>1. kind \in Kinds \ {"operators"}
  BY DEF Kinds
<1>2. Finds(kind, t, node, v) /\ cs \in Seq(OpenBlocks) /\ cs # << >>
  BY <1>1, FindsName
<1>3. /\ v.scope # {} <=> DeclaredIn(cs, SameScope(cs), kind, name, NoArgs)
      /\ v.scope # {} => v.here # {}
  BY <1>2, ViewFits
<1>4. vartab_refuses(t, name) <=> IsOwn(node) /\ node.scope = t.current_scope
  BY DEF vartab_refuses
<1>. HIDE DEF node, v
<1>5. CASE v.here # {}
  BY <1>2, <1>3, <1>4, <1>5 DEF Finds
<1>6. CASE v.here = {}
  <2>1. ~IsOwn(node)
    BY <1>2, <1>6, NothingFound DEF Finds, IsOwn
  <2>. QED
    BY <1>3, <1>4, <1>6, <2>1
<1>. QED
  BY <1>5, <1>6

\* A type is refused just when its block has declared it, and is found then.
LEMMA TypetabRefuses ==
  ASSUME NEW t, NEW cs, Agrees("typetab", t, cs), NEW name \in AllNames
  PROVE  /\ typetab_refuses(t, name) <=> Own(cs, 1, "typetab", name, NoArgs) # {}
         /\ Own(cs, 1, "typetab", name, NoArgs) # {}
              => \A d \in Own(cs, 1, "typetab", name, NoArgs) :
                   vartab_lookup_varnode(t, name).dnode = d.dnode
<1>. DEFINE node == vartab_lookup_varnode(t, name)
            kind == "typetab"
            v == View(cs, kind, name, NoArgs)
<1>1. kind \in Kinds \ {"operators"} /\ kind = "typetab"
  BY DEF Kinds
<1>. HIDE DEF kind
<1>2. Finds(kind, t, node, v) /\ cs \in Seq(OpenBlocks) /\ cs # << >>
  BY <1>1, FindsName
<1>3. /\ v.own = Own(cs, 1, kind, name, NoArgs)
      /\ v.own # {} => v.here = v.own
  BY <1>2, ViewFits
<1>4. typetab_refuses(t, name) <=> /\ IsOwn(node) /\ node.scope = t.current_scope
                                   /\ node.subscope = t.current_subscope
  BY DEF typetab_refuses
<1>. HIDE DEF node, v
<1>5. CASE v.here # {}
  <2>1. typetab_refuses(t, name) <=> v.own # {}
    BY <1>1, <1>2, <1>4, <1>5 DEF Finds
  <2>2. Mentions(v.here, node.dnode) /\ \A d, e \in v.here : d = e
    BY <1>1, <1>2, <1>5 DEF Finds
  <2>3. v.own # {} => \A d \in v.own : node.dnode = d.dnode
    BY <1>3, <2>2 DEF Mentions
  <2>. QED
    BY <1>1, <1>3, <2>1, <2>3 DEF node
<1>6. CASE v.here = {}
  <2>1. ~IsOwn(node)
    BY <1>2, <1>6, NothingFound DEF Finds, IsOwn
  <2>2. v.own = {}
    BY <1>3, <1>6
  <2>. QED
    BY <1>1, <1>3, <1>4, <2>1, <2>2
<1>. QED
  BY <1>5, <1>6

---------------------------------------------------------------------------
\* What a module shows.

\* The table in a module's node finds what the module shows.
LEMMA ShownIs ==
  ASSUME NEW kind, NEW t, NEW decls \in SUBSET Decls, Shows(kind, t, decls), NEW name,
         NEW args
  PROVE  /\ Of(decls, kind, name, args) = {}
              => vartab_lookup_operator(t, name, args) = NoNode
         /\ Of(decls, kind, name, args) # {} =>
              LET node == vartab_lookup_operator(t, name, args)
              IN  /\ node.scope = t.current_scope /\ node.subscope = t.current_subscope
                  /\ IsOwn(node) /\ Mentions(Of(decls, kind, name, args), node.dnode)
                  /\ Decl(kind, name, args, node.dnode) \in decls
<1>1. t \in Tables(AllNames, AllArgs) /\ t.current_scope = 0 /\ t.current_subscope = 0
  BY DEF Shows
<1>2. CASE Of(decls, kind, name, args) = {}
  <2>1. ASSUME NEW i \in DOMAIN t.node, t.node[i].name = name /\ t.node[i].args = args
        PROVE  FALSE
    <3>1. Decl(kind, name, args, t.node[i].dnode) \in decls
      BY <2>1 DEF Shows
    <3>. QED
      BY <1>2, <3>1 DEF Of, Decl
  <2>2. vartab_lookup_operator(t, name, args) = NoNode
    BY <1>1, <2>1, LookupOperatorIs
  <2>. QED
    BY <1>2, <2>2
<1>3. CASE Of(decls, kind, name, args) # {}
  <2>1. PICK d \in decls : d.kind = kind /\ d.name = name /\ d.args = args
    BY <1>3 DEF Of
  <2>2. \E j \in DOMAIN t.node :
          d = Decl(kind, t.node[j].name, t.node[j].args, t.node[j].dnode)
    BY <2>1 DEF Shows
  <2>3. \E j \in DOMAIN t.node : t.node[j].name = name /\ t.node[j].args = args
    BY <2>1, <2>2 DEF Decl
  <2>4. PICK i \in DOMAIN t.node : /\ t.node[i].name = name /\ t.node[i].args = args
                                   /\ vartab_lookup_operator(t, name, args) = t.node[i]
    BY <1>1, <2>3, LookupOperatorIs
  <2>. DEFINE n == t.node[i]
  <2>5. /\ Decl(kind, name, args, n.dnode) \in decls
        /\ ~n.imported /\ n.scope = 0 /\ n.subscope = 0
    BY <2>4 DEF Shows
  <2>. HIDE DEF n
  <2>6. n.dnode # 0
    <3>1. Decl(kind, name, args, n.dnode) \in Decls
      BY <2>5
    <3>. QED
      BY <3>1 DEF Decls, Decl
  <2>7. Mentions(Of(decls, kind, name, args), n.dnode)
    BY <2>5 DEF Mentions, Of, Decl
  <2>8. IsOwn(n)
    BY <2>5, <2>6 DEF IsOwn
  <2>. QED
    BY <1>1, <1>3, <2>4, <2>5, <2>7, <2>8 DEF n
<1>. QED
  BY <1>2, <1>3

\* It does so by name, and refuses a name that is shown.
LEMMA ShownByName ==
  ASSUME NEW kind \in Kinds \ {"operators"}, NEW t, NEW decls \in SUBSET Decls,
         Shows(kind, t, decls), NEW name
  PROVE  /\ vartab_lookup_varnode(t, name) = vartab_lookup_operator(t, name, NoArgs)
         /\ vartab_refuses(t, name) <=> Of(decls, kind, name, NoArgs) # {}
         /\ typetab_refuses(t, name) <=> Of(decls, kind, name, NoArgs) # {}
<1>. DEFINE node == vartab_lookup_varnode(t, name)
<1>1. ASSUME NEW i \in DOMAIN t.node  PROVE t.node[i].args = NoArgs
  <2>1. Decl(kind, t.node[i].name, t.node[i].args, t.node[i].dnode) \in Decls
    BY DEF Shows
  <2>. QED
    BY <2>1 DEF Decls, Decl
<1>2. node = vartab_lookup_operator(t, name, NoArgs)
  BY <1>1, ByName
<1>3. /\ Of(decls, kind, name, NoArgs) = {} => node = NoNode
      /\ Of(decls, kind, name, NoArgs) # {} =>
           /\ node.scope = t.current_scope /\ node.subscope = t.current_subscope
           /\ IsOwn(node)
  BY <1>2, ShownIs
<1>4. /\ vartab_refuses(t, name) <=> IsOwn(node) /\ node.scope = t.current_scope
      /\ typetab_refuses(t, name) <=> /\ IsOwn(node) /\ node.scope = t.current_scope
                                      /\ node.subscope = t.current_subscope
  BY DEF vartab_refuses, typetab_refuses
<1>. HIDE DEF node
<1>5. node = NoNode => ~IsOwn(node)
  BY NothingFound
<1>. QED
  BY <1>2, <1>3, <1>4, <1>5 DEF node

\* A declaration more is shown by a node more.
LEMMA ShowsMore ==
  ASSUME NEW kind \in Kinds, NEW t, NEW decls \in SUBSET Decls, Shows(kind, t, decls),
         NEW name \in AllNames, NEW args \in AllArgs, NEW dnode \in Nat \ {0},
         \A d \in decls : d.dnode # dnode,
         kind # "operators" => Of(decls, kind, name, NoArgs) = {},
         kind # "operators" => args = NoArgs
  PROVE  Shows(kind, Declared(t, name, args, dnode), decls \cup {Decl(kind, name, args, dnode)})
<1>. DEFINE u == Declared(t, name, args, dnode)
            d == Decl(kind, name, args, dnode)
            one == 1
            no == FALSE
            n == NewNode(t, name, args, dnode, one, no)
<1>1. t \in Tables(AllNames, AllArgs) /\ t.current_scope = 0 /\ t.current_subscope = 0
  BY DEF Shows
<1>2. u = PutNode(t, name, args, dnode, one, no)
  BY Zenon DEF Declared
<1>3. one \in Int /\ no \in BOOLEAN /\ ~no /\ dnode \in Int
  OBVIOUS
<1>4. /\ n.name = name /\ n.args = args /\ n.dnode = dnode /\ n.imported = no
      /\ n.scope = t.current_scope /\ n.subscope = t.current_subscope
  BY DEF NewNode
<1>5. n = NewNode(t, name, args, dnode, one, no)
  OBVIOUS
<1>. HIDE DEF one, no, n, u
<1>6. u \in Tables(AllNames, AllArgs) /\ IsPut(t, u, n)
  BY <1>1, <1>2, <1>3, <1>5, Put
<1>7. /\ u.current_scope = 0 /\ u.current_subscope = 0
      /\ Len(t.node) \in Nat /\ DOMAIN t.node = 1 .. Len(t.node)
      /\ DOMAIN u.node = 1 .. 1 + Len(t.node)
      /\ u.node[1] = n
      /\ \A i \in 1 .. Len(t.node) : u.node[1 + i] = t.node[i]
  BY <1>1, <1>6 DEF IsPut, Tables
<1>8. \A i \in DOMAIN u.node : i = 1 \/ (i - 1 \in DOMAIN t.node /\ u.node[i] = t.node[i - 1])
  <2>. TAKE i \in DOMAIN u.node
  <2>1. CASE i # 1
    <3>1. i - 1 \in 1 .. Len(t.node) /\ 1 + (i - 1) = i
      BY <1>7, <2>1
    <3>. QED
      BY <1>7, <3>1
  <2>. QED
    BY <2>1
<1>9. \A i \in DOMAIN t.node : 1 + i \in DOMAIN u.node /\ u.node[1 + i] = t.node[i]
  BY <1>7
<1>10. \A i \in DOMAIN t.node :
         /\ Decl(kind, t.node[i].name, t.node[i].args, t.node[i].dnode) \in decls
         /\ ~t.node[i].imported /\ t.node[i].scope = 0 /\ t.node[i].subscope = 0
         /\ \A j \in DOMAIN t.node :
              t.node[i].dnode = t.node[j].dnode
                \/ (kind # "operators" /\ t.node[i].name = t.node[j].name) => i = j
  BY DEF Shows
<1>11. \A i \in DOMAIN t.node :
         /\ t.node[i].dnode # dnode
         /\ kind # "operators" => t.node[i].name # name
  <2>. TAKE i \in DOMAIN t.node
  <2>. DEFINE e == Decl(kind, t.node[i].name, t.node[i].args, t.node[i].dnode)
  <2>1. /\ e \in decls /\ e.dnode = t.node[i].dnode /\ e.name = t.node[i].name
        /\ e.args = t.node[i].args /\ e.kind = kind
    BY <1>10 DEF Decl
  <2>. HIDE DEF e
  <2>2. e.dnode # dnode
    BY <2>1
  <2>3. kind # "operators" => e.name # name
    <3>1. e \in Decls
      BY <2>1
    <3>2. kind # "operators" => e.args = NoArgs
      BY <2>1, <3>1 DEF Decls
    <3>. QED
      BY <2>1, <3>2 DEF Of
  <2>. QED
    BY <2>1, <2>2, <2>3
<1>12. \A i \in DOMAIN u.node :
         /\ Decl(kind, u.node[i].name, u.node[i].args, u.node[i].dnode) \in decls \cup {d}
         /\ ~u.node[i].imported /\ u.node[i].scope = 0 /\ u.node[i].subscope = 0
  <2>. TAKE i \in DOMAIN u.node
  <2>1. CASE i = 1
    BY <1>1, <1>3, <1>4, <1>7, <2>1
  <2>2. CASE i # 1
    BY <1>8, <1>10, <2>2
  <2>. QED
    BY <2>1, <2>2
<1>13. ASSUME NEW i \in DOMAIN u.node, NEW j \in DOMAIN u.node,
              u.node[i].dnode = u.node[j].dnode
                \/ (kind # "operators" /\ u.node[i].name = u.node[j].name)
       PROVE  i = j
  <2>1. CASE i = 1 /\ j = 1
    BY <2>1
  <2>2. CASE i = 1 /\ j # 1
    <3>1. /\ u.node[j].dnode # dnode
          /\ kind # "operators" => u.node[j].name # name
      <4>1. j - 1 \in DOMAIN t.node /\ u.node[j] = t.node[j - 1]
        BY <1>8, <2>2
      <4>. QED
        BY <1>11, <4>1
    <3>2. u.node[i].dnode = dnode /\ u.node[i].name = name
      BY <1>4, <1>7, <2>2
    <3>. QED
      BY <1>13, <3>1, <3>2
  <2>3. CASE i # 1 /\ j = 1
    <3>1. /\ u.node[i].dnode # dnode
          /\ kind # "operators" => u.node[i].name # name
      <4>1. i - 1 \in DOMAIN t.node /\ u.node[i] = t.node[i - 1]
        BY <1>8, <2>3
      <4>. QED
        BY <1>11, <4>1
    <3>2. u.node[j].dnode = dnode /\ u.node[j].name = name
      BY <1>4, <1>7, <2>3
    <3>. QED
      BY <1>13, <3>1, <3>2
  <2>4. CASE i # 1 /\ j # 1
    <3>1. i - 1 = j - 1
      BY <1>8, <1>10, <1>13, <2>4
    <3>2. i \in Int /\ j \in Int
      BY <1>7
    <3>. QED
      BY <3>1, <3>2
  <2>. QED
    BY <2>1, <2>2, <2>3, <2>4
<1>14. ASSUME NEW e \in decls \cup {d}, e.kind = kind
       PROVE  \E i \in DOMAIN u.node :
                e = Decl(kind, u.node[i].name, u.node[i].args, u.node[i].dnode)
  <2>1. CASE e \in decls
    <3>1. \E i \in DOMAIN t.node :
            e = Decl(kind, t.node[i].name, t.node[i].args, t.node[i].dnode)
      BY <1>14, <2>1 DEF Shows
    <3>. QED
      BY <1>9, <3>1
  <2>2. CASE e = d
    <3>1. 1 \in DOMAIN u.node
      BY <1>7
    <3>. QED
      BY <1>4, <1>7, <2>2, <3>1
  <2>. QED
    BY <2>1, <2>2
<1>. HIDE DEF d
<1>15. Shows(kind, u, decls \cup {d})
  BY <1>6, <1>7, <1>12, <1>13, <1>14 DEF Shows
<1>. QED
  BY <1>15 DEF u, d

\* One of another kind is shown by another table.
LEMMA ShowsSame ==
  ASSUME NEW kind, NEW t, NEW decls, Shows(kind, t, decls), NEW d, d.kind # kind
  PROVE  Shows(kind, t, decls \cup {d})
BY DEF Shows
=============================================================================
