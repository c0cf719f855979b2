------------------------- MODULE SymbolTablesProof --------------------------
(***************************************************************************)
(* Names mean what they should: theorems about SymbolTables, for any       *)
(* names, any number of modules in any nesting, and any order of grammar   *)
(* actions, of programs that do none of what the grammar leaves out of the *)
(* tables (Uses).                                                          *)
(*                                                                         *)
(* The inductive invariant (Ind) says of every table of the compiler that  *)
(* it agrees with the blocks of the source, and goes on to as they end;    *)
(* of the tables that were put aside, the same with the blocks around the  *)
(* modules; of every module that was compiled, that the tables in its node *)
(* show the declarations at its top level and that no two modules show the *)
(* same one; and of the files that are being read, that the blocks they    *)
(* were opened in are open.  Each grammar action has a lemma.              *)
(***************************************************************************)
EXTENDS SymbolTablesLemmas

---------------------------------------------------------------------------
\* The inductive invariant, part by part, of: the compiled modules, what modules
\* show and the tables in their nodes, the blocks and their tables.

Compiled(comp, name) == vartab_lookup_varnode(comp, name).dnode

DeclFits(comp, d) ==
  /\ d \in Decls
  /\ d.name \in ModuleNames => d.kind = "vartab" /\ Compiled(comp, d.name) = d.dnode
BlockFits(comp, pub, b) ==
  /\ b \in OpenBlocks
  /\ \A d \in b.own : DeclFits(comp, d)
  /\ \A d \in b.imports : \E m \in b.uses : d \in pub[m]
  /\ b.uses \subseteq DOMAIN pub
\* The block of a module or program.
TopFits(comp, pub, b) ==
  /\ BlockFits(comp, pub, b)
  /\ b.construct \in {"program", "module"}
  /\ b.construct = "program" <=> b.id = NONE
  /\ b.construct = "module" =>
       /\ b.id \in DOMAIN pub
       /\ \A kind \in Kinds \ {"operators"}, name \in AllNames :
            Of(pub[b.id], kind, name, NoArgs) # {} => Of(b.own, kind, name, NoArgs) # {}
       /\ \A name \in AllNames :
            Of(b.own, "typetab", name, NoArgs) # {}
              => Of(pub[b.id], "typetab", name, NoArgs) # {}

BlocksFit(comp, pub, bs) ==
  /\ bs \in Seq(OpenBlocks) /\ bs # << >>
  /\ \A i \in DOMAIN bs :
       /\ BlockFits(comp, pub, bs[i])
       /\ bs[i].construct \in {"program", "module"} <=> i = Len(bs)
  /\ TopFits(comp, pub, bs[Len(bs)])

TablesFit(ts, bs) ==
  /\ ts \in [Kinds -> Tables(AllNames, AllArgs)]
  /\ \A kind \in Kinds : AgreesToTheEnd(kind, ts[kind], bs)

EnclosingFits(comp, pub, stack, enc) ==
  /\ enc \in Seq(OpenBlocks)
  /\ stack \in Seq([Kinds -> Tables(AllNames, AllArgs)])
  /\ Len(stack) = Len(enc)
  /\ \A i \in DOMAIN enc :
       /\ TopFits(comp, pub, enc[i])
       /\ \A kind \in Kinds : Agrees(kind, stack[i][kind], <<enc[i]>>)

\* The modules that are open, the innermost first; the program is the last.
ModulesFit(mods, top, enc, n) ==
  /\ mods \in Seq(Nat) /\ Len(mods) = Len(enc) + 1
  /\ mods[1] = top /\ \A i \in DOMAIN enc : mods[i + 1] = enc[i].id
  /\ mods[Len(mods)] = NONE
  /\ \A i \in DOMAIN mods :
       /\ mods[i] <= n
       /\ \A j \in DOMAIN mods : mods[i] = mods[j] => i = j

CompiledFit(comp, pub) ==
  /\ comp \in Tables(AllNames, AllArgs)
  /\ \A i \in DOMAIN comp.node : comp.node[i].dnode \in DOMAIN pub

PublishedFits(comp, pub, exp, n) ==
  /\ n \in Nat
  /\ DOMAIN pub \subseteq 1 .. n
  /\ pub \in [DOMAIN pub -> SUBSET Decls]
  /\ exp \in [DOMAIN pub -> [Kinds -> Tables(AllNames, AllArgs)]]
  /\ \A m \in DOMAIN pub :
       /\ \A d \in pub[m] : DeclFits(comp, d) /\ d.dnode <= n
       /\ \A m2 \in DOMAIN pub : pub[m] \cap pub[m2] # {} => m = m2
       /\ \A kind \in Kinds : Shows(kind, exp[m][kind], pub[m])

\* A file that is being read was opened outside of functions, and the blocks that
\* were open then still are.
FilesFit(fs, bs, depth) ==
  /\ fs \in Seq([name : ModuleNames, is_use : BOOLEAN, depth : Nat])
  /\ \A i \in DOMAIN fs :
       /\ fs[i].depth <= depth
       /\ \A j \in DOMAIN bs :
            depth + 1 - j <= fs[i].depth => bs[j].construct # "function"
       /\ \A j \in DOMAIN fs : i <= j => fs[j].depth <= fs[i].depth

Consistent(ts, stack, mods, comp, exp, fs, bs, enc, pub, n) ==
  /\ BlocksFit(comp, pub, bs)
  /\ TablesFit(ts, bs)
  /\ EnclosingFits(comp, pub, stack, enc)
  /\ ModulesFit(mods, bs[Len(bs)].id, enc, n)
  /\ PublishedFits(comp, pub, exp, n)
  /\ FilesFit(fs, bs, Len(enc) + Len(bs))
Fit(ts, stack, mods, comp, exp, fs, bs, enc, pub, n) ==
  /\ Consistent(ts, stack, mods, comp, exp, fs, bs, enc, pub, n)
  /\ CompiledFit(comp, pub)

Ind ==
  /\ Fit(tables, symtab_stack, current_module, compiled_modules, exported, files,
         blocks, enclosing, published, nodes)
  /\ RefusesOnlyClashes

---------------------------------------------------------------------------
\* The parts of the invariant as blocks, tables and modules change.

Keeps(comp, pub, comp2, pub2) ==
  /\ \A d : DeclFits(comp, d) => DeclFits(comp2, d)
  /\ DOMAIN pub \subseteq DOMAIN pub2
  /\ \A m \in DOMAIN pub : pub[m] \subseteq pub2[m]

\* A block fits as modules are added and show more.
LEMMA BlockKeeps ==
  ASSUME NEW comp, NEW pub, NEW comp2, NEW pub2, Keeps(comp, pub, comp2, pub2),
         NEW b, BlockFits(comp, pub, b)
  PROVE  BlockFits(comp2, pub2, b)
BY DEF Keeps, BlockFits

\* So does the block of a module, when another one shows more.
LEMMA TopKeeps ==
  ASSUME NEW comp, NEW pub, NEW comp2, NEW pub2, Keeps(comp, pub, comp2, pub2),
         NEW b, TopFits(comp, pub, b), b.construct = "module" => pub2[b.id] = pub[b.id]
  PROVE  TopFits(comp2, pub2, b)
<1>1. BlockFits(comp2, pub2, b)
  BY BlockKeeps DEF TopFits
<1>. QED
  BY <1>1 DEF TopFits, Keeps

\* So do all the blocks.
LEMMA BlocksKeep ==
  ASSUME NEW comp, NEW pub, NEW comp2, NEW pub2, Keeps(comp, pub, comp2, pub2),
         NEW bs, BlocksFit(comp, pub, bs),
         bs[Len(bs)].construct = "module" => pub2[bs[Len(bs)].id] = pub[bs[Len(bs)].id]
  PROVE  BlocksFit(comp2, pub2, bs)
<1>1. TopFits(comp2, pub2, bs[Len(bs)])
  BY TopKeeps DEF BlocksFit
<1>2. \A i \in DOMAIN bs : BlockFits(comp2, pub2, bs[i])
  BY BlockKeeps DEF BlocksFit
<1>. QED
  BY <1>1, <1>2 DEF BlocksFit

\* c is b with that much more.
HasMore(b, c, own, imports, modules) ==
  /\ c \in OpenBlocks /\ c.construct = b.construct /\ c.id = b.id
  /\ c.own = b.own \cup own /\ c.imports = b.imports \cup imports
  /\ c.uses = b.uses \cup modules

\* A block with more in it.
LEMMA MoreIs ==
  ASSUME NEW b \in OpenBlocks, NEW own, NEW imports, NEW modules,
         Additions(own, imports, modules)
  PROVE  HasMore(b, More(b, own, imports, modules), own, imports, modules)
BY DEF More, OpenBlocks, HasMore, Additions

\* What is added to a block is known.
AdditionsFit(comp, pub, pub2, own, imports, modules) ==
  /\ Additions(own, imports, modules)
  /\ \A d \in own : DeclFits(comp, d)
  /\ modules \subseteq DOMAIN pub
  /\ \A d \in imports : \E m \in modules : d \in pub2[m]

\* A block with more in it fits when what is added does.
LEMMA BlockGrows ==
  ASSUME NEW comp, NEW pub, NEW b, BlockFits(comp, pub, b), NEW own, NEW imports,
         NEW modules, AdditionsFit(comp, pub, pub, own, imports, modules)
  PROVE  BlockFits(comp, pub, More(b, own, imports, modules))
<1>. DEFINE c == More(b, own, imports, modules)
<1>0. c = More(b, own, imports, modules)
  OBVIOUS
<1>. HIDE DEF c
<1>1. /\ c \in OpenBlocks
      /\ c.own = b.own \cup own /\ c.imports = b.imports \cup imports
      /\ c.uses = b.uses \cup modules
  BY <1>0, MoreIs DEF BlockFits, HasMore, AdditionsFit
<1>2. \A d \in c.own : DeclFits(comp, d)
  BY <1>1 DEF BlockFits, AdditionsFit
<1>3. \A d \in c.imports : \E m \in c.uses : d \in pub[m]
  BY <1>1 DEF BlockFits, AdditionsFit
<1>4. c.uses \subseteq DOMAIN pub
  BY <1>1 DEF BlockFits, AdditionsFit
<1>5. BlockFits(comp, pub, c)
  BY <1>1, <1>2, <1>3, <1>4 DEF BlockFits
<1>. QED
  BY <1>5 DEF c

\* pub2 is pub, or pub and what the module of block b shows in addition.
ShowsIn(b, pub, pub2, shown) ==
  /\ DOMAIN pub2 = DOMAIN pub
  /\ \A m \in DOMAIN pub :
       \/ pub2[m] = pub[m]
       \/ b.construct = "module" /\ m = b.id /\ pub2[m] = pub[m] \cup shown

\* What is shown is declared, and types that are declared are shown.
ShowsRight(b, own, pub2, shown) ==
  /\ \A d \in shown : d.kind # "operators" => Of(b.own \cup own, d.kind, d.name, NoArgs) # {}
  /\ \A d \in own : d.kind = "typetab" /\ b.construct = "module" => d \in pub2[b.id]

\* To show more keeps what was said.
LEMMA ShowingKeeps ==
  ASSUME NEW comp, NEW pub, NEW b, NEW pub2, NEW shown, ShowsIn(b, pub, pub2, shown)
  PROVE  Keeps(comp, pub, comp, pub2)
BY DEF Keeps, ShowsIn

\* The block of a module with more in it fits when the module shows the right part of
\* that.
LEMMA TopGrows ==
  ASSUME NEW comp, NEW pub, NEW b, TopFits(comp, pub, b), NEW own, NEW imports,
         NEW modules, NEW pub2, AdditionsFit(comp, pub, pub2, own, imports, modules),
         NEW shown, ShowsIn(b, pub, pub2, shown), ShowsRight(b, own, pub2, shown)
  PROVE  TopFits(comp, pub2, More(b, own, imports, modules))
<1>. DEFINE c == More(b, own, imports, modules)
<1>0. c = More(b, own, imports, modules)
  OBVIOUS
<1>. HIDE DEF c
<1>1. /\ c \in OpenBlocks /\ c.construct = b.construct /\ c.id = b.id
      /\ c.own = b.own \cup own
  BY <1>0, MoreIs DEF TopFits, BlockFits, HasMore, AdditionsFit
<1>2. BlockFits(comp, pub2, b)
  BY ShowingKeeps, BlockKeeps DEF TopFits
<1>3. DOMAIN pub2 = DOMAIN pub
  BY DEF ShowsIn
<1>4. BlockFits(comp, pub2, c)
  <2>1. AdditionsFit(comp, pub2, pub2, own, imports, modules)
    BY <1>3 DEF AdditionsFit
  <2>. QED
    BY <1>0, <1>2, <2>1, BlockGrows
<1>5. /\ b.construct \in {"program", "module"}
      /\ b.construct = "program" <=> b.id = NONE
      /\ b.construct = "module" => b.id \in DOMAIN pub
  BY DEF TopFits
<1>6. ASSUME b.construct = "module", NEW kind \in Kinds \ {"operators"}, NEW name \in AllNames,
             Of(pub2[b.id], kind, name, NoArgs) # {}
      PROVE  Of(c.own, kind, name, NoArgs) # {}
  <2>1. CASE pub2[b.id] = pub[b.id]
    <3>1. Of(b.own, kind, name, NoArgs) # {}
      BY <1>6, <2>1 DEF TopFits
    <3>. QED
      BY <1>1, <3>1 DEF Of
  <2>2. CASE pub2[b.id] = pub[b.id] \cup shown
    <3>1. PICK d \in pub[b.id] \cup shown : d.kind = kind /\ d.name = name /\ d.args = NoArgs
      BY <1>6, <2>2 DEF Of
    <3>2. CASE d \in pub[b.id]
      <4>1. Of(pub[b.id], kind, name, NoArgs) # {}
        BY <3>1, <3>2 DEF Of
      <4>2. Of(b.own, kind, name, NoArgs) # {}
        BY <1>6, <4>1 DEF TopFits
      <4>. QED
        BY <1>1, <4>2 DEF Of
    <3>3. CASE d \in shown
      <4>1. Of(b.own \cup own, kind, name, NoArgs) # {}
        BY <3>1, <3>3 DEF ShowsRight
      <4>. QED
        BY <1>1, <4>1
    <3>. QED
      BY <3>1, <3>2, <3>3
  <2>. QED
    BY <1>5, <1>6, <2>1, <2>2 DEF ShowsIn
<1>7. ASSUME b.construct = "module", NEW name \in AllNames,
             Of(c.own, "typetab", name, NoArgs) # {}
      PROVE  Of(pub2[b.id], "typetab", name, NoArgs) # {}
  <2>1. PICK d \in b.own \cup own : d.kind = "typetab" /\ d.name = name /\ d.args = NoArgs
    BY <1>1, <1>7 DEF Of
  <2>2. CASE d \in b.own
    <3>1. Of(b.own, "typetab", name, NoArgs) # {}
      BY <2>1, <2>2 DEF Of
    <3>2. Of(pub[b.id], "typetab", name, NoArgs) # {}
      BY <1>7, <3>1 DEF TopFits
    <3>3. pub[b.id] \subseteq pub2[b.id]
      BY <1>5, <1>7 DEF ShowsIn
    <3>. QED
      BY <3>2, <3>3 DEF Of
  <2>3. CASE d \in own
    <3>1. d \in pub2[b.id]
      BY <1>7, <2>1, <2>3 DEF ShowsRight
    <3>. QED
      BY <2>1, <3>1 DEF Of
  <2>. QED
    BY <2>1, <2>2, <2>3
<1>8. TopFits(comp, pub2, c)
  <2>1. b.construct = "module" => b.id \in DOMAIN pub2
    BY <1>3, <1>5
  <2>. QED
    BY <1>1, <1>4, <1>5, <1>6, <1>7, <2>1 DEF TopFits
<1>. QED
  BY <1>8 DEF c

\* The same blocks, whatever is in them.
Alike(bs, cs) ==
  /\ Len(cs) = Len(bs) /\ cs[Len(cs)].id = bs[Len(bs)].id
  /\ \A i \in DOMAIN cs : cs[i].construct = bs[i].construct

\* So do the blocks.
LEMMA BlocksGrow ==
  ASSUME NEW comp, NEW pub, NEW bs, BlocksFit(comp, pub, bs), NEW own, NEW imports,
         NEW modules, NEW pub2, AdditionsFit(comp, pub, pub2, own, imports, modules),
         NEW b, b = Head(bs), NEW shown, ShowsIn(b, pub, pub2, shown),
         ShowsRight(b, own, pub2, shown),
         NEW cs, cs = With(bs, own, imports, modules)
  PROVE  /\ BlocksFit(comp, pub2, cs)
         /\ Alike(bs, cs)
<1>. DEFINE c == More(b, own, imports, modules)
            n == Len(bs)
<1>14. Additions(own, imports, modules)
  BY DEF AdditionsFit
<1>1. /\ bs \in Seq(OpenBlocks) /\ bs # << >> /\ b = bs[1] /\ n \in Nat \ {0}
      /\ DOMAIN bs = 1 .. n
  BY DEF BlocksFit
<1>2. /\ cs \in Seq(OpenBlocks) /\ cs # << >> /\ Len(cs) = n
      /\ cs[1] = c
      /\ \A i \in 2 .. n : cs[i] = bs[i]
  BY <1>14, <1>1, WithGrows
<1>3. DOMAIN cs = 1 .. n
  BY <1>2
<1>4. BlockFits(comp, pub, b) /\ b \in OpenBlocks
  BY <1>1 DEF BlocksFit, BlockFits
<1>0. c = More(b, own, imports, modules)
  OBVIOUS
<1>. HIDE DEF c
<1>5. /\ c.construct = b.construct /\ c.id = b.id
  BY <1>14, <1>0, <1>4, MoreIs DEF HasMore
<1>6. Keeps(comp, pub, comp, pub2) /\ DOMAIN pub2 = DOMAIN pub
  BY <1>0, ShowingKeeps DEF ShowsIn
<1>7. BlockFits(comp, pub2, b)
  BY <1>4, <1>6, BlockKeeps
<1>8. BlockFits(comp, pub2, c)
  <2>1. AdditionsFit(comp, pub2, pub2, own, imports, modules)
    BY <1>6 DEF AdditionsFit
  <2>. QED
    BY <1>0, <1>7, <2>1, BlockGrows
<1>9. TopFits(comp, pub, bs[n])
  BY DEF BlocksFit
<1>. HIDE DEF n
<1>10. \A i \in DOMAIN cs : /\ BlockFits(comp, pub2, cs[i])
                            /\ cs[i].construct = bs[i].construct
                            /\ cs[i].id = bs[i].id
  <2>. TAKE i \in DOMAIN cs
  <2>1. CASE i = 1
    BY <1>1, <1>2, <1>5, <1>8, <2>1
  <2>2. CASE i # 1
    <3>1. i \in 2 .. n /\ i \in DOMAIN bs
      BY <1>1, <1>3, <2>2
    <3>2. BlockFits(comp, pub, bs[i])
      BY <3>1 DEF BlocksFit
    <3>3. BlockFits(comp, pub2, bs[i])
      BY <1>6, <3>2, BlockKeeps
    <3>. QED
      BY <1>2, <3>1, <3>3
  <2>. QED
    BY <2>1, <2>2
<1>11. \A i \in DOMAIN bs : bs[i].construct \in {"program", "module"} <=> i = n
  BY DEF BlocksFit, n
<1>12. TopFits(comp, pub2, cs[n])
  <2>1. CASE n = 1
    <3>1. TopFits(comp, pub, b)
      BY <1>1, <1>9, <2>1
    <3>2. TopFits(comp, pub2, c)
      BY <3>1, TopGrows DEF c
    <3>. QED
      BY <1>2, <2>1, <3>2
  <2>2. CASE n # 1
    <3>1. n \in 2 .. n /\ 1 \in DOMAIN bs
      BY <1>1, <2>2
    <3>2. b.construct # "module"
      BY <1>1, <1>11, <2>2, <3>1
    <3>3. \A m \in DOMAIN pub : pub2[m] = pub[m]
      BY <3>2 DEF ShowsIn
    <3>4. bs[n].construct = "module" => bs[n].id \in DOMAIN pub
      BY <1>9 DEF TopFits
    <3>5. TopFits(comp, pub2, bs[n])
      BY <1>6, <1>9, <3>3, <3>4, TopKeeps
    <3>. QED
      BY <1>2, <3>1, <3>5
  <2>. QED
    BY <2>1, <2>2
<1>13. n \in DOMAIN cs
  BY <1>1, <1>3
<1>15. BlocksFit(comp, pub2, cs)
  BY <1>1, <1>2, <1>3, <1>10, <1>11, <1>12 DEF BlocksFit
<1>. QED
  BY <1>2, <1>10, <1>13, <1>15 DEF n, Alike

\* The blocks with nothing more.
LEMMA WithNothing ==
  ASSUME NEW cs \in Seq(OpenBlocks), cs # << >>
  PROVE  With(cs, {}, {}, {}) = cs
<1>. DEFINE b == Head(cs)
<1>1. b \in OpenBlocks /\ cs = <<b>> \o Tail(cs)
  BY HeadAndTail
<1>2. [b EXCEPT !.own = @ \cup {}, !.imports = @ \cup {}, !.uses = @ \cup {}] = b
  BY <1>1 DEF OpenBlocks
<1>. QED
  BY <1>1, <1>2, Zenon DEF With

\* The table of one kind, of those that fit.
LEMMA TablesOf ==
  ASSUME NEW ts, NEW bs, TablesFit(ts, bs), NEW kind \in Kinds
  PROVE  /\ AgreesToTheEnd(kind, ts[kind], bs) /\ Agrees(kind, ts[kind], bs)
         /\ ts[kind] \in Tables(AllNames, AllArgs)
         /\ ts[kind].current_scope = 0 <=> ~InFunction(bs)
<1>1. AgreesToTheEnd(kind, ts[kind], bs)
  BY DEF TablesFit
<1>2. Agrees(kind, ts[kind], bs)
  BY <1>1, HoldsNow
<1>. QED
  BY <1>1, <1>2 DEF Agrees

\* Tables fit when each one agrees.
LEMMA TablesFitSo ==
  ASSUME NEW us, us = [kind \in Kinds |-> us[kind]], NEW cs,
         \A kind \in Kinds : AgreesToTheEnd(kind, us[kind], cs)
  PROVE  TablesFit(us, cs)
<1>1. \A kind \in Kinds : us[kind] \in Tables(AllNames, AllArgs)
  <2>. TAKE kind \in Kinds
  <2>1. Agrees(kind, us[kind], cs)
    BY HoldsNow
  <2>. QED
    BY <2>1 DEF Agrees
<1>2. us \in [Kinds -> Tables(AllNames, AllArgs)]
  BY <1>1
<1>. QED
  BY <1>2 DEF TablesFit

\* us is ts but for one table, which is u.
Sets(ts, kind, u, us) == us = [ts EXCEPT ![kind] = u]

\* One table is set, the others stay.
LEMMA SetsIs ==
  ASSUME NEW ts, NEW bs, TablesFit(ts, bs), NEW kind \in Kinds, NEW u, NEW us,
         Sets(ts, kind, u, us)
  PROVE  /\ us = [k \in Kinds |-> us[k]] /\ us[kind] = u
         /\ \A k \in Kinds \ {kind} : us[k] = ts[k]
         /\ u = ts[kind] => us = ts
<1>1. ts = [k \in Kinds |-> ts[k]]
  BY DEF TablesFit
<1>. QED
  BY <1>1 DEF Sets

\* The tables fit after a declaration.
LEMMA TablesDeclare ==
  ASSUME NEW ts, NEW bs, TablesFit(ts, bs), bs \in Seq(OpenBlocks), bs # << >>,
         NEW kind \in Kinds, NEW name \in AllNames, NEW args \in AllArgs,
         kind # "operators" => args = NoArgs,
         NEW dnode \in Nat \ {0}, NEW d, d = Decl(kind, name, args, dnode), d \in Decls,
         kind # "operators" => Own(bs, 1, kind, name, args) = {},
         NEW cs, cs = With(bs, {d}, {}, {}),
         NEW us, Sets(ts, kind, Declared(ts[kind], name, args, dnode), us)
  PROVE  TablesFit(us, cs)
<1>. DEFINE nothing == {}
            one == {d}
<1>0. nothing = {} /\ one = {d} /\ cs = With(bs, one, nothing, nothing)
  OBVIOUS
<1>. HIDE DEF nothing, one
<1>1. Additions(one, nothing, nothing)
  BY <1>0 DEF Additions
<1>2. \A k : Grows(k, bs, cs, one, nothing)
  BY <1>0, <1>1, WithGrows
<1>3. d.kind = kind
  BY DEF Decl
<1>4. /\ us = [k \in Kinds |-> us[k]] /\ us[kind] = Declared(ts[kind], name, args, dnode)
      /\ \A k \in Kinds \ {kind} : us[k] = ts[k]
  BY SetsIs
<1>5. AgreesToTheEnd(kind, us[kind], cs)
  <2>1. AgreesToTheEnd(kind, ts[kind], bs)
    BY TablesOf
  <2>2. Grows(kind, bs, cs, {d}, nothing) /\ \A e \in nothing : e.kind # kind
    BY <1>0, <1>2
  <2>3. AgreesToTheEnd(kind, Declared(ts[kind], name, args, dnode), cs)
    BY <2>1, <2>2, HoldsDeclared
  <2>. QED
    BY <1>4, <2>3
<1>6. ASSUME NEW k \in Kinds \ {kind}
      PROVE  AgreesToTheEnd(k, us[k], cs)
  <2>1. AgreesToTheEnd(k, ts[k], bs)
    BY TablesOf
  <2>2. (\A e \in one : e.kind # k) /\ (\A e \in nothing : e.kind # k)
    BY <1>0, <1>3
  <2>3. AgreesToTheEnd(k, ts[k], cs)
    BY <1>2, <2>1, <2>2, HoldsSame
  <2>. QED
    BY <1>4, <2>3
<1>7. \A k \in Kinds : AgreesToTheEnd(k, us[k], cs)
  BY <1>5, <1>6
<1>. QED
  BY <1>4, <1>7, TablesFitSo

\* The tables fit after a block or function began.
LEMMA TablesBegin ==
  ASSUME NEW ts, NEW bs, TablesFit(ts, bs), NEW construct \in Begins,
         NEW us, us = [kind \in Kinds |-> Inside(ts[kind], construct)]
  PROVE  TablesFit(us, Within(construct, bs))
<1>1. ASSUME NEW kind \in Kinds
      PROVE  AgreesToTheEnd(kind, us[kind], Within(construct, bs))
  <2>1. AgreesToTheEnd(kind, ts[kind], bs)
    BY TablesOf
  <2>2. AgreesToTheEnd(kind, Inside(ts[kind], construct), Within(construct, bs))
    BY <2>1, HoldsBegun
  <2>3. us[kind] = Inside(ts[kind], construct)
    OBVIOUS
  <2>. QED
    BY <2>2, <2>3
<1>2. us = [kind \in Kinds |-> us[kind]]
  OBVIOUS
<1>. QED
  BY <1>1, <1>2, TablesFitSo

\* The tables fit after one ended.
LEMMA TablesEnd ==
  ASSUME NEW ts, NEW bs, TablesFit(ts, bs), Len(bs) > 1,
         NEW us, us = [kind \in Kinds |-> Ended(ts[kind], bs)]
  PROVE  TablesFit(us, Tail(bs))
<1>1. ASSUME NEW kind \in Kinds
      PROVE  AgreesToTheEnd(kind, us[kind], Tail(bs))
  <2>1. AgreesToTheEnd(kind, ts[kind], bs)
    BY TablesOf
  <2>2. AgreesToTheEnd(kind, Ended(ts[kind], bs), Tail(bs))
    BY <2>1, HoldsNow
  <2>3. us[kind] = Ended(ts[kind], bs)
    OBVIOUS
  <2>. QED
    BY <2>2, <2>3
<1>2. us = [kind \in Kinds |-> us[kind]]
  OBVIOUS
<1>. QED
  BY <1>1, <1>2, TablesFitSo

\* The tables may take over what a module shows, and what is left when they did.
MayTakeAll(bs, decls, fw, src) ==
  \A kind \in Kinds : Shows(kind, src[kind], decls) /\ MayTake(kind, bs, decls, fw)
Took(ts, fw, src) == [kind \in Kinds |-> Copied(kind, fw, ts[kind], src[kind])]

\* The tables fit after names were taken over from a module.
LEMMA TablesTake ==
  ASSUME NEW ts, NEW bs, TablesFit(ts, bs), bs \in Seq(OpenBlocks), bs # << >>,
         ~InFunction(bs), NEW fw, NEW src, NEW decls \in SUBSET Decls,
         MayTakeAll(bs, decls, fw, src),
         NEW modules \in SUBSET Nat, NEW cs, cs = With(bs, {}, decls, modules),
         NEW us, us = Took(ts, fw, src)
  PROVE  TablesFit(us, cs)
<1>. DEFINE nothing == {}
<1>0. nothing = {} /\ cs = With(bs, nothing, decls, modules)
  OBVIOUS
<1>. HIDE DEF nothing
<1>1. Additions(nothing, decls, modules)
  BY <1>0 DEF Additions
<1>2. \A k : Grows(k, bs, cs, nothing, decls)
  BY <1>0, <1>1, WithGrows
<1>3. ASSUME NEW kind \in Kinds
      PROVE  AgreesToTheEnd(kind, us[kind], cs)
  <2>1. /\ AgreesToTheEnd(kind, ts[kind], bs) /\ Agrees(kind, ts[kind], bs)
        /\ ts[kind].current_scope = 0
    BY TablesOf
  <2>2. us[kind] = Copied(kind, fw, ts[kind], src[kind])
    BY DEF Took
  <2>3. Grows(kind, bs, cs, {}, decls)
    BY <1>0, <1>2
  <2>4. Shows(kind, src[kind], decls) /\ MayTake(kind, bs, decls, fw)
    BY DEF MayTakeAll
  <2>5. Agrees(kind, us[kind], cs) /\ EndsAlike(ts[kind], us[kind])
    BY <2>1, <2>2, <2>3, <2>4, CopyAgrees
  <2>6. Len(cs) = Len(bs) /\ Tail(cs) = Tail(bs) /\ Head(cs).construct = Head(bs).construct
    BY <2>3 DEF Grows
  <2>. QED
    BY <2>1, <2>5, <2>6, HoldsAgain
<1>4. us = [kind \in Kinds |-> us[kind]]
  BY DEF Took
<1>. QED
  BY <1>3, <1>4, TablesFitSo

---------------------------------------------------------------------------
\* Blocks begin and end.

\* What can be used of blocks that fit.
LEMMA BlocksAre ==
  ASSUME NEW comp, NEW pub, NEW bs, BlocksFit(comp, pub, bs)
  PROVE  /\ bs \in Seq(OpenBlocks) /\ bs # << >> /\ Len(bs) \in Nat \ {0}
         /\ Len(bs) = 1 + Len(Tail(bs))
         /\ DOMAIN bs = 1 .. Len(bs) /\ Head(bs) = bs[1] /\ 1 \in DOMAIN bs
         /\ Len(bs) \in DOMAIN bs
         /\ Head(bs) \in OpenBlocks /\ Tail(bs) \in Seq(OpenBlocks)
         /\ Head(bs).construct \in {"program", "module"} <=> Len(bs) = 1
         /\ BlockFits(comp, pub, Head(bs)) /\ TopFits(comp, pub, bs[Len(bs)])
         /\ \A i \in 2 .. Len(bs) : bs[i] = Tail(bs)[i - 1]
<1>1. /\ bs \in Seq(OpenBlocks) /\ bs # << >>
      /\ \A i \in DOMAIN bs :
           /\ BlockFits(comp, pub, bs[i])
           /\ bs[i].construct \in {"program", "module"} <=> i = Len(bs)
      /\ TopFits(comp, pub, bs[Len(bs)])
  BY DEF BlocksFit
<1>2. /\ Head(bs) \in OpenBlocks /\ Tail(bs) \in Seq(OpenBlocks) /\ Head(bs) = bs[1]
      /\ Len(bs) = 1 + Len(Tail(bs)) /\ Len(bs) \in Nat \ {0}
      /\ \A i \in 2 .. 1 + Len(Tail(bs)) : bs[i] = Tail(bs)[i - 1]
  BY <1>1, NestsIs
<1>3. DOMAIN bs = 1 .. Len(bs)
  BY <1>1
<1>4. 1 \in DOMAIN bs /\ Len(bs) \in DOMAIN bs
  BY <1>2, <1>3
<1>5. Head(bs).construct \in {"program", "module"} <=> 1 = Len(bs)
  BY <1>1, <1>2, <1>4
<1>6. BlockFits(comp, pub, Head(bs))
  BY <1>1, <1>2, <1>4
<1>. QED
  BY <1>1, <1>2, <1>3, <1>4, <1>5, <1>6

\* A block or function begins.
LEMMA BlocksBegin ==
  ASSUME NEW comp, NEW pub, NEW bs, BlocksFit(comp, pub, bs), NEW construct \in Begins,
         NEW cs, cs = Within(construct, bs)
  PROVE  /\ BlocksFit(comp, pub, cs)
         /\ Len(cs) = 1 + Len(bs) /\ cs[Len(cs)] = bs[Len(bs)]
         /\ cs[1].construct = construct
         /\ \A i \in DOMAIN bs : cs[1 + i] = bs[i]
<1>. DEFINE b == Block(construct, NONE)
<1>0. b = Block(construct, NONE) /\ cs = <<b>> \o bs
  BY DEF Within
<1>1. construct \in {"block", "function"}
  BY DEF Begins
<1>2. /\ bs \in Seq(OpenBlocks) /\ bs # << >> /\ Len(bs) \in Nat \ {0}
      /\ DOMAIN bs = 1 .. Len(bs)
      /\ TopFits(comp, pub, bs[Len(bs)])
  BY BlocksAre
<1>3. /\ cs \in Seq(OpenBlocks) /\ cs # << >> /\ Len(cs) = 1 + Len(bs)
      /\ cs[1] = b /\ \A i \in 1 .. Len(bs) : cs[1 + i] = bs[i]
  BY <1>0, <1>1, <1>2, BeginView
<1>4. DOMAIN cs = 1 .. 1 + Len(bs)
  BY <1>3
<1>5. cs[1 + Len(bs)] = bs[Len(bs)]
  BY <1>2, <1>3
<1>6. BlockFits(comp, pub, b) /\ b.construct = construct
  <2>1. b \in OpenBlocks
    BY <1>1 DEF OpenBlocks, Block, NONE
  <2>2. b.own = {} /\ b.imports = {} /\ b.uses = {} /\ b.construct = construct
    BY DEF Block
  <2>. QED
    BY <2>1, <2>2 DEF BlockFits
<1>. HIDE DEF b
<1>7. ASSUME NEW i \in DOMAIN cs
      PROVE  /\ BlockFits(comp, pub, cs[i])
             /\ cs[i].construct \in {"program", "module"} <=> i = Len(cs)
  <2>1. CASE i = 1
    BY <1>1, <1>2, <1>3, <1>6, <2>1
  <2>2. CASE i # 1
    <3>1. i - 1 \in 1 .. Len(bs) /\ i = 1 + (i - 1)
      BY <1>4, <2>2
    <3>2. i - 1 \in DOMAIN bs /\ cs[i] = bs[i - 1]
      BY <1>2, <1>3, <3>1
    <3>3. i = Len(cs) <=> i - 1 = Len(bs)
      BY <1>2, <1>3, <3>1
    <3>. QED
      BY <3>2, <3>3 DEF BlocksFit
  <2>. QED
    BY <2>1, <2>2
<1>8. BlocksFit(comp, pub, cs)
  BY <1>2, <1>3, <1>5, <1>7 DEF BlocksFit
<1>. QED
  BY <1>2, <1>3, <1>5, <1>6, <1>8

\* The innermost block ends.
Leaves(bs, cs) == Head(bs).construct \notin {"program", "module"} /\ cs = Tail(bs)

\* One ends.
LEMMA BlocksEnd ==
  ASSUME NEW comp, NEW pub, NEW bs, BlocksFit(comp, pub, bs),
         NEW cs, Leaves(bs, cs)
  PROVE  /\ BlocksFit(comp, pub, cs) /\ Len(bs) > 1
         /\ Len(bs) = 1 + Len(cs) /\ cs[Len(cs)] = bs[Len(bs)]
         /\ \A i \in DOMAIN cs : cs[i] = bs[i + 1] /\ i + 1 \in DOMAIN bs
<1>1. /\ Len(bs) \in Nat \ {0} /\ Len(bs) = 1 + Len(cs) /\ DOMAIN bs = 1 .. Len(bs)
      /\ cs \in Seq(OpenBlocks) /\ Len(bs) # 1
      /\ TopFits(comp, pub, bs[Len(bs)])
      /\ \A i \in 2 .. Len(bs) : bs[i] = cs[i - 1]
  BY BlocksAre DEF Leaves
<1>2. Len(cs) \in Nat /\ DOMAIN cs = 1 .. Len(cs)
  BY <1>1
<1>3. Len(bs) > 1 /\ Len(cs) # 0 /\ cs # << >>
  <2>1. Len(bs) > 1 /\ Len(cs) # 0
    BY <1>1, <1>2
  <2>2. cs # << >>
    BY <2>1
  <2>. QED
    BY <2>1, <2>2
<1>4. \A i \in DOMAIN cs : cs[i] = bs[i + 1] /\ i + 1 \in DOMAIN bs
  <2>. TAKE i \in DOMAIN cs
  <2>1. i + 1 \in 2 .. Len(bs) /\ i + 1 \in DOMAIN bs /\ (i + 1) - 1 = i
    BY <1>1, <1>2
  <2>. QED
    BY <1>1, <2>1
<1>5. cs[Len(cs)] = bs[Len(bs)]
  <2>1. Len(cs) \in DOMAIN cs /\ Len(cs) + 1 = Len(bs)
    BY <1>1, <1>2, <1>3
  <2>. QED
    BY <1>4, <2>1
<1>6. ASSUME NEW i \in DOMAIN cs
      PROVE  /\ BlockFits(comp, pub, cs[i])
             /\ cs[i].construct \in {"program", "module"} <=> i = Len(cs)
  <2>1. i + 1 = Len(bs) <=> i = Len(cs)
    BY <1>1, <1>2
  <2>. QED
    BY <1>4, <2>1 DEF BlocksFit
<1>7. BlocksFit(comp, pub, cs)
  BY <1>1, <1>3, <1>5, <1>6 DEF BlocksFit
<1>. QED
  BY <1>1, <1>3, <1>4, <1>5, <1>7

---------------------------------------------------------------------------
\* The files that are being read.

\* The depths of files are numbers.
LEMMA DepthsAre ==
  ASSUME NEW fs \in Seq([name : ModuleNames, is_use : BOOLEAN, depth : Nat])
  PROVE  /\ \A i \in DOMAIN fs : fs[i].depth \in Nat /\ i \in 1 .. Len(fs)
         /\ fs # << >> => Head(fs) = fs[1]
         /\ \A i \in DOMAIN fs : 1 \in DOMAIN fs /\ 1 <= i /\ fs # << >>
<1>. DEFINE File == [name : ModuleNames, is_use : BOOLEAN, depth : Nat]
<1>1. \A f \in File : f.depth \in Nat
  OBVIOUS
<1>2. fs \in Seq(File)
  OBVIOUS
<1>. HIDE DEF File
<1>3. \A i \in DOMAIN fs : fs[i] \in File /\ i \in 1 .. Len(fs)
  BY <1>2
<1>4. fs # << >> => Head(fs) = fs[1]
  BY <1>2
<1>5. \A i \in DOMAIN fs : 1 \in DOMAIN fs /\ 1 <= i /\ fs # << >>
  BY <1>2
<1>. QED
  BY <1>1, <1>3, <1>4, <1>5

\* Files fit when a function that is open inside of a file was so before.
LEMMA FilesStay ==
  ASSUME NEW fs, NEW bs, NEW depth \in Nat, FilesFit(fs, bs, depth),
         NEW cs, NEW deep \in Nat, \A j \in DOMAIN cs : j \in Nat,
         \A i \in DOMAIN fs : fs[i].depth <= deep,
         \A j \in DOMAIN cs : cs[j].construct = "function" =>
           \/ deep - j >= depth
           \/ \E k \in DOMAIN bs : k \in Nat /\ bs[k].construct = "function" /\ deep - j = depth - k
  PROVE  FilesFit(fs, cs, deep)
<1>1. /\ fs \in Seq([name : ModuleNames, is_use : BOOLEAN, depth : Nat])
      /\ \A i \in DOMAIN fs :
           /\ fs[i].depth <= depth
           /\ \A j \in DOMAIN bs :
                depth + 1 - j <= fs[i].depth => bs[j].construct # "function"
           /\ \A j \in DOMAIN fs : i <= j => fs[j].depth <= fs[i].depth
  BY DEF FilesFit
<1>2. \A i \in DOMAIN fs : fs[i].depth \in Nat
  BY <1>1, DepthsAre
<1>3. ASSUME NEW i \in DOMAIN fs, NEW j \in DOMAIN cs, deep + 1 - j <= fs[i].depth,
             cs[j].construct = "function"
      PROVE  FALSE
  <2>0. j \in Nat /\ fs[i].depth \in Nat /\ fs[i].depth <= depth
    BY <1>1, <1>2
  <2>1. CASE deep - j >= depth
    BY <1>3, <2>0, <2>1
  <2>2. CASE \E k \in DOMAIN bs : k \in Nat /\ bs[k].construct = "function" /\ deep - j = depth - k
    <3>1. PICK k \in DOMAIN bs : k \in Nat /\ bs[k].construct = "function" /\ deep - j = depth - k
      BY <2>2
    <3>2. depth + 1 - k <= fs[i].depth
      BY <1>3, <2>0, <3>1
    <3>. QED
      BY <1>1, <3>1, <3>2
  <2>. QED
    BY <1>3, <2>1, <2>2
<1>. QED
  BY <1>1, <1>3 DEF FilesFit

\* Nothing begins or ends.
LEMMA FilesSame ==
  ASSUME NEW fs, NEW bs \in Seq(OpenBlocks), NEW depth \in Nat, FilesFit(fs, bs, depth),
         NEW cs \in Seq(OpenBlocks), Len(cs) = Len(bs),
         \A i \in DOMAIN cs : cs[i].construct = bs[i].construct
  PROVE  FilesFit(fs, cs, depth)
<1>1. DOMAIN cs = DOMAIN bs /\ \A j \in DOMAIN cs : j \in Nat
  OBVIOUS
<1>2. \A i \in DOMAIN fs : fs[i].depth <= depth
  BY DEF FilesFit
<1>3. \A j \in DOMAIN cs : cs[j].construct = "function" =>
        \E k \in DOMAIN bs : k \in Nat /\ bs[k].construct = "function" /\ depth - j = depth - k
  BY <1>1
<1>. QED
  BY <1>1, <1>2, <1>3, FilesStay

\* The innermost file was begun in no block that ends.
LEMMA FilesAround ==
  ASSUME NEW fs, NEW bs, NEW depth \in Nat, FilesFit(fs, bs, depth + 1),
         ~ (fs # << >> /\ Head(fs).depth = depth + 1)
  PROVE  \A i \in DOMAIN fs : fs[i].depth <= depth
<1>1. /\ fs \in Seq([name : ModuleNames, is_use : BOOLEAN, depth : Nat])
      /\ \A i \in DOMAIN fs :
           /\ fs[i].depth <= depth + 1
           /\ \A j \in DOMAIN fs : i <= j => fs[j].depth <= fs[i].depth
  BY DEF FilesFit
<1>. TAKE i \in DOMAIN fs
<1>2. 1 \in DOMAIN fs /\ 1 <= i /\ fs # << >>
  BY <1>1, DepthsAre
<1>3. Head(fs) = fs[1] /\ fs[1].depth \in Nat /\ fs[i].depth \in Nat
  BY <1>1, <1>2, DepthsAre
<1>4. fs[1].depth <= depth + 1 /\ fs[i].depth <= fs[1].depth
  BY <1>1, <1>2
<1>. QED
  BY <1>2, <1>3, <1>4

---------------------------------------------------------------------------
\* What modules show.

\* A number that nothing got changes nothing.
LEMMA PublishedStay ==
  ASSUME NEW comp, NEW pub, NEW exp, NEW n, PublishedFits(comp, pub, exp, n)
  PROVE  PublishedFits(comp, pub, exp, n + 1)
<1>1. n \in Nat /\ n + 1 \in Nat /\ DOMAIN pub \subseteq 1 .. n + 1
  BY DEF PublishedFits
<1>2. \A m \in DOMAIN pub : \A d \in pub[m] : d.dnode <= n + 1
  <2>. TAKE m \in DOMAIN pub
  <2>. TAKE d \in pub[m]
  <2>1. d.dnode <= n /\ d \in Decls
    BY DEF PublishedFits, DeclFits
  <2>2. d.dnode \in Nat
    BY <2>1 DEF Decls
  <2>. QED
    BY <1>1, <2>1, <2>2
<1>. QED
  BY <1>1, <1>2 DEF PublishedFits

\* Module m shows one thing more.
Shown(pub, m, d, pub2) == pub2 = [pub EXCEPT ![m] = @ \cup {d}]
Exports(exp, m, kind, u, exp2) == exp2 = [exp EXCEPT ![m][kind] = u]

\* A module shows a declaration more.
LEMMA ShownMore ==
  ASSUME NEW comp, NEW pub, NEW exp, NEW n, PublishedFits(comp, pub, exp, n),
         NEW m \in DOMAIN pub, NEW d \in Decls, NEW pub2, Shown(pub, m, d, pub2)
  PROVE  /\ pub2 \in [DOMAIN pub -> SUBSET Decls] /\ DOMAIN pub2 = DOMAIN pub
         /\ pub2[m] = pub[m] \cup {d}
         /\ \A m2 \in DOMAIN pub : m2 # m => pub2[m2] = pub[m2]
BY DEF Shown, PublishedFits

\* One of a module's tables is set.
LEMMA ExportsMore ==
  ASSUME NEW comp, NEW pub, NEW exp, NEW n, PublishedFits(comp, pub, exp, n),
         NEW m \in DOMAIN pub, NEW kind \in Kinds, NEW u \in Tables(AllNames, AllArgs),
         NEW exp2, Exports(exp, m, kind, u, exp2)
  PROVE  /\ exp2 \in [DOMAIN pub -> [Kinds -> Tables(AllNames, AllArgs)]]
         /\ exp2[m][kind] = u
         /\ \A k \in Kinds : k # kind => exp2[m][k] = exp[m][k]
         /\ \A m2 \in DOMAIN pub : m2 # m => exp2[m2] = exp[m2]
         /\ u = exp[m][kind] => exp2 = exp
<1>. DEFINE T == Tables(AllNames, AllArgs)
<1>1. exp \in [DOMAIN pub -> [Kinds -> T]] /\ u \in T
  BY DEF PublishedFits
<1>2. exp2 = [exp EXCEPT ![m][kind] = u]
  BY DEF Exports
<1>. HIDE DEF T
<1>3. exp[m] \in [Kinds -> T]
  BY <1>1
<1>4. /\ exp2 \in [DOMAIN pub -> [Kinds -> T]]
      /\ exp2[m][kind] = u
      /\ \A k \in Kinds : k # kind => exp2[m][k] = exp[m][k]
      /\ \A m2 \in DOMAIN pub : m2 # m => exp2[m2] = exp[m2]
  BY <1>1, <1>2, <1>3
<1>5. ASSUME u = exp[m][kind]  PROVE exp2 = exp
  <2>1. [exp[m] EXCEPT ![kind] = u] = exp[m]
    BY <1>3, <1>5
  <2>2. exp2 = [exp EXCEPT ![m] = [exp[m] EXCEPT ![kind] = u]]
    BY <1>1, <1>2
  <2>. QED
    BY <1>1, <2>1, <2>2
<1>. QED
  BY <1>4, <1>5 DEF T

\* A module that shows a declaration more, in its table too, fits.
LEMMA PublishMore ==
  ASSUME NEW comp, NEW pub, NEW exp, NEW n, PublishedFits(comp, pub, exp, n),
         NEW m \in DOMAIN pub, NEW kind \in Kinds, NEW name \in AllNames,
         NEW args \in AllArgs, kind # "operators" => args = NoArgs,
         kind # "operators" => Of(pub[m], kind, name, NoArgs) = {},
         NEW d, d = Decl(kind, name, args, n + 1), DeclFits(comp, d),
         NEW pub2, Shown(pub, m, d, pub2),
         NEW exp2, Exports(exp, m, kind, Declared(exp[m][kind], name, args, n + 1), exp2)
  PROVE  PublishedFits(comp, pub2, exp2, n + 1) /\ DOMAIN pub2 = DOMAIN pub
<1>. DEFINE u == Declared(exp[m][kind], name, args, n + 1)
            N1 == n + 1
<1>0. u = Declared(exp[m][kind], name, args, N1) /\ N1 = n + 1
  OBVIOUS
<1>1. n \in Nat /\ DOMAIN pub \subseteq 1 .. n
      /\ pub \in [DOMAIN pub -> SUBSET Decls]
      /\ exp \in [DOMAIN pub -> [Kinds -> Tables(AllNames, AllArgs)]]
  BY DEF PublishedFits
<1>2. \A m1 \in DOMAIN pub :
         /\ \A e \in pub[m1] : DeclFits(comp, e) /\ e.dnode <= n
         /\ \A m2 \in DOMAIN pub : pub[m1] \cap pub[m2] # {} => m1 = m2
         /\ \A k \in Kinds : Shows(k, exp[m1][k], pub[m1])
  BY DEF PublishedFits
<1>3. d \in Decls /\ d.kind = kind /\ d.dnode = N1 /\ N1 \in Nat \ {0}
  BY <1>1 DEF DeclFits, Decl
<1>. HIDE DEF N1, u
<1>4. \A m1 \in DOMAIN pub : \A e \in pub[m1] : e.dnode \in Nat /\ e.dnode # N1 /\ e.dnode <= N1
  <2>. TAKE m1 \in DOMAIN pub
  <2>. TAKE e \in pub[m1]
  <2>1. e \in Decls /\ e.dnode <= n
    BY <1>1, <1>2
  <2>2. e.dnode \in Nat
    BY <2>1 DEF Decls
  <2>. QED
    BY <1>0, <1>1, <2>1, <2>2
<1>5. Shows(kind, u, pub[m] \cup {d})
  <2>1. Shows(kind, exp[m][kind], pub[m]) /\ pub[m] \in SUBSET Decls
    BY <1>1, <1>2
  <2>2. \A e \in pub[m] : e.dnode # N1
    BY <1>4
  <2>. DEFINE t == exp[m][kind]
              decls == pub[m]
  <2>3. t = exp[m][kind] /\ decls = pub[m]
    OBVIOUS
  <2>. HIDE DEF t, decls
  <2>4. Shows(kind, Declared(t, name, args, N1), decls \cup {Decl(kind, name, args, N1)})
    BY <1>3, <2>1, <2>2, <2>3, ShowsMore
  <2>. QED
    BY <1>0, <2>3, <2>4
<1>6. u \in Tables(AllNames, AllArgs)
  BY <1>5 DEF Shows
<1>7. /\ pub2 \in [DOMAIN pub -> SUBSET Decls] /\ DOMAIN pub2 = DOMAIN pub
      /\ pub2[m] = pub[m] \cup {d}
      /\ \A m2 \in DOMAIN pub : m2 # m => pub2[m2] = pub[m2]
  BY <1>3, ShownMore
<1>8. /\ exp2 \in [DOMAIN pub -> [Kinds -> Tables(AllNames, AllArgs)]]
      /\ exp2[m][kind] = u
      /\ \A k \in Kinds : k # kind => exp2[m][k] = exp[m][k]
      /\ \A m2 \in DOMAIN pub : m2 # m => exp2[m2] = exp[m2]
  BY <1>0, <1>6, ExportsMore
<1>9. ASSUME NEW m1 \in DOMAIN pub, NEW e \in pub2[m1]
      PROVE  DeclFits(comp, e) /\ e.dnode <= N1
  <2>1. e \in pub[m1] \/ e = d
    BY <1>7, <1>9
  <2>2. CASE e \in pub[m1]
    BY <1>2, <1>4, <2>2
  <2>3. CASE e = d
    BY <1>3, <2>3
  <2>. QED
    BY <2>1, <2>2, <2>3
<1>10. ASSUME NEW m1 \in DOMAIN pub, NEW m2 \in DOMAIN pub, pub2[m1] \cap pub2[m2] # {}
       PROVE  m1 = m2
  <2>1. d \notin pub[m1] /\ d \notin pub[m2]
    BY <1>3, <1>4
  <2>2. CASE m1 # m /\ m2 # m
    BY <1>2, <1>7, <1>10, <2>2
  <2>3. CASE m1 = m /\ m2 # m
    BY <1>2, <1>7, <1>10, <2>1, <2>3
  <2>4. CASE m1 # m /\ m2 = m
    BY <1>2, <1>7, <1>10, <2>1, <2>4
  <2>. QED
    BY <2>2, <2>3, <2>4
<1>11. ASSUME NEW m1 \in DOMAIN pub, NEW k \in Kinds
       PROVE  Shows(k, exp2[m1][k], pub2[m1])
  <2>1. Shows(k, exp[m1][k], pub[m1])
    BY <1>2
  <2>2. CASE m1 # m
    BY <1>7, <1>8, <2>1, <2>2
  <2>3. CASE m1 = m /\ k = kind
    BY <1>5, <1>7, <1>8, <2>3
  <2>4. CASE m1 = m /\ k # kind
    <3>1. Shows(k, exp[m1][k], pub[m1] \cup {d})
      BY <1>3, <2>1, <2>4, ShowsSame
    <3>. QED
      BY <1>7, <1>8, <2>4, <3>1
  <2>. QED
    BY <2>2, <2>3, <2>4
<1>12. DOMAIN pub \subseteq 1 .. N1
  BY <1>0, <1>1
<1>13. PublishedFits(comp, pub2, exp2, N1)
  <2>1. N1 \in Nat
    BY <1>3
  <2>2. \A m1 \in DOMAIN pub2 :
          /\ \A e \in pub2[m1] : DeclFits(comp, e) /\ e.dnode <= N1
          /\ \A m2 \in DOMAIN pub2 : pub2[m1] \cap pub2[m2] # {} => m1 = m2
          /\ \A k \in Kinds : Shows(k, exp2[m1][k], pub2[m1])
    BY <1>7, <1>9, <1>10, <1>11
  <2>. QED
    BY <1>7, <1>8, <1>12, <2>1, <2>2 DEF PublishedFits
<1>. QED
  BY <1>0, <1>7, <1>13

---------------------------------------------------------------------------
\* What the rest of the program has to do with it.

\* Only the module that is open in the innermost block shows more.
ShowsInside(b, pub, pub2) ==
  /\ DOMAIN pub2 = DOMAIN pub
  /\ \A m \in DOMAIN pub :
       /\ pub[m] \subseteq pub2[m]
       /\ pub2[m] = pub[m] \/ (b.construct = "module" /\ m = b.id)

\* The modules around it do not see what a module shows.
LEMMA EnclosingStay ==
  ASSUME NEW comp, NEW pub, NEW stack, NEW enc, EnclosingFits(comp, pub, stack, enc),
         NEW mods, NEW top, NEW n \in Nat, ModulesFit(mods, top, enc, n),
         NEW pub2, NEW b, b.id = top, ShowsInside(b, pub, pub2)
  PROVE  EnclosingFits(comp, pub2, stack, enc)
<1>1. Keeps(comp, pub, comp, pub2)
  BY DEF Keeps, ShowsInside
<1>2. ASSUME NEW i \in DOMAIN enc
      PROVE  TopFits(comp, pub2, enc[i])
  <2>1. TopFits(comp, pub, enc[i])
    BY DEF EnclosingFits
  <2>2. enc \in Seq(OpenBlocks) /\ i \in 1 .. Len(enc) /\ Len(enc) \in Nat
    BY DEF EnclosingFits
  <2>3. mods[1] = top /\ mods[i + 1] = enc[i].id
        /\ mods \in Seq(Nat) /\ Len(mods) = Len(enc) + 1
    BY DEF ModulesFit
  <2>4. 1 \in DOMAIN mods /\ i + 1 \in DOMAIN mods /\ i + 1 # 1
    BY <2>2, <2>3
  <2>5. mods[1] # mods[i + 1]
    BY <2>4 DEF ModulesFit
  <2>6. enc[i].construct = "module" => enc[i].id \in DOMAIN pub
    BY <2>1 DEF TopFits
  <2>7. enc[i].construct = "module" => pub2[enc[i].id] = pub[enc[i].id]
    BY <2>3, <2>5, <2>6 DEF ShowsInside
  <2>. QED
    BY <1>1, <2>1, <2>7, TopKeeps
<1>. QED
  BY <1>2 DEF EnclosingFits

\* Those that are open stay.
LEMMA ModulesStay ==
  ASSUME NEW mods, NEW top, NEW enc, NEW n \in Nat, ModulesFit(mods, top, enc, n)
  PROVE  ModulesFit(mods, top, enc, n + 1)
<1>1. \A i \in DOMAIN mods : mods[i] \in Nat /\ mods[i] <= n
  BY DEF ModulesFit
<1>2. \A i \in DOMAIN mods : mods[i] <= n + 1
  BY <1>1
<1>. QED
  BY <1>2 DEF ModulesFit

---------------------------------------------------------------------------
\* Declarations.

\* What the parts are, of a consistent state.
LEMMA SomeTyping ==
  ASSUME NEW ts, NEW stack, NEW mods, NEW comp, NEW exp, NEW fs, NEW bs, NEW enc, NEW pub,
         NEW n, Consistent(ts, stack, mods, comp, exp, fs, bs, enc, pub, n)
  PROVE  /\ n \in Nat /\ Len(enc) \in Nat /\ Len(enc) + Len(bs) \in Nat
         /\ bs \in Seq(OpenBlocks) /\ bs # << >>
         /\ DOMAIN pub \subseteq 1 .. n /\ \A m \in DOMAIN pub : pub[m] \in SUBSET Decls
<1>1. bs \in Seq(OpenBlocks) /\ bs # << >> /\ Len(bs) \in Nat
  BY BlocksAre DEF Consistent
<1>2. enc \in Seq(OpenBlocks)
  BY DEF Consistent, EnclosingFits
<1>3. /\ n \in Nat /\ DOMAIN pub \subseteq 1 .. n
      /\ \A m \in DOMAIN pub : pub[m] \in SUBSET Decls
  BY DEF Consistent, PublishedFits
<1>4. Len(enc) \in Nat
  BY <1>2
<1>. QED
  BY <1>1, <1>3, <1>4

\* The block of the module or program, and whether it is the innermost.
LEMMA AtTop ==
  ASSUME NEW ts, NEW stack, NEW mods, NEW comp, NEW exp, NEW fs, NEW bs, NEW enc, NEW pub,
         NEW n, Consistent(ts, stack, mods, comp, exp, fs, bs, enc, pub, n)
  PROVE  /\ Head(bs).construct \in {"program", "module"} =>
              /\ Len(bs) = 1 /\ ~InFunction(bs) /\ TopFits(comp, pub, Head(bs))
              /\ Head(mods) = Head(bs).id /\ bs[Len(bs)] = Head(bs)
         /\ Head(bs).construct = "module" => Head(mods) \in DOMAIN pub /\ Head(mods) # NONE
         /\ Head(bs).construct = "program" => Head(mods) = NONE
         /\ Head(bs).construct \notin {"program", "module"} => Len(bs) > 1
<1>1. /\ bs \in Seq(OpenBlocks) /\ bs # << >> /\ Len(bs) \in Nat \ {0}
      /\ DOMAIN bs = 1 .. Len(bs) /\ Head(bs) = bs[1]
      /\ Head(bs).construct \in {"program", "module"} <=> Len(bs) = 1
      /\ TopFits(comp, pub, bs[Len(bs)])
  BY BlocksAre DEF Consistent
<1>2. mods \in Seq(Nat) /\ mods[1] = bs[Len(bs)].id /\ Len(mods) = Len(enc) + 1
      /\ enc \in Seq(OpenBlocks)
  BY DEF Consistent, ModulesFit, EnclosingFits
<1>3. Head(mods) = mods[1]
  BY <1>2
<1>4. CASE Head(bs).construct \in {"program", "module"}
  <2>1. ~InFunction(bs)
    BY <1>1, <1>4 DEF InFunction
  <2>2. TopFits(comp, pub, Head(bs)) /\ Head(mods) = Head(bs).id
    BY <1>1, <1>2, <1>3, <1>4
  <2>3. /\ Head(bs).construct = "module" => Head(mods) \in DOMAIN pub /\ Head(mods) # NONE
        /\ Head(bs).construct = "program" => Head(mods) = NONE
    BY <2>2 DEF TopFits
  <2>. QED
    BY <1>1, <1>4, <2>1, <2>2, <2>3
<1>5. CASE Head(bs).construct \notin {"program", "module"}
  BY <1>1, <1>5
<1>. QED
  BY <1>4, <1>5

\* What module or program shows, if it is in the innermost block, when d is declared.
ShowsToo(b, pub, d, pub2) ==
  IF b.construct = "module" THEN Shown(pub, b.id, d, pub2) ELSE pub2 = pub
ExportsToo(b, exp, kind, name, args, dnode, exp2) ==
  IF b.construct = "module"
  THEN Exports(exp, b.id, kind, Declared(exp[b.id][kind], name, args, dnode), exp2)
  ELSE exp2 = exp

\* The rest of the program stays.
LEMMA RestStays ==
  ASSUME NEW ts, NEW stack, NEW mods, NEW comp, NEW exp, NEW fs, NEW bs, NEW enc, NEW pub,
         NEW n, Consistent(ts, stack, mods, comp, exp, fs, bs, enc, pub, n),
         NEW pub2, ShowsInside(Head(bs), pub, pub2)
  PROVE  /\ EnclosingFits(comp, pub2, stack, enc)
         /\ ModulesFit(mods, bs[Len(bs)].id, enc, n + 1)
<1>1. n \in Nat
  BY SomeTyping
<1>2. EnclosingFits(comp, pub, stack, enc) /\ ModulesFit(mods, bs[Len(bs)].id, enc, n)
  BY DEF Consistent
<1>3. EnclosingFits(comp, pub2, stack, enc)
  <2>1. CASE Head(bs).construct = "module"
    <3>1. Head(bs).id = bs[Len(bs)].id
      BY <2>1, AtTop
    <3>. QED
      BY <1>1, <1>2, <3>1, EnclosingStay
  <2>2. CASE Head(bs).construct # "module"
    <3>1. Keeps(comp, pub, comp, pub2) /\ \A m \in DOMAIN pub : pub2[m] = pub[m]
      BY <2>2 DEF ShowsInside, Keeps
    <3>2. \A i \in DOMAIN enc : TopFits(comp, pub2, enc[i])
      <4>. TAKE i \in DOMAIN enc
      <4>1. TopFits(comp, pub, enc[i])
        BY <1>2 DEF EnclosingFits
      <4>2. enc[i].construct = "module" => pub2[enc[i].id] = pub[enc[i].id]
        BY <3>1, <4>1 DEF TopFits
      <4>. QED
        BY <3>1, <4>1, <4>2, TopKeeps
    <3>. QED
      BY <1>2, <3>2 DEF EnclosingFits
  <2>. QED
    BY <2>1, <2>2
<1>5. ModulesFit(mods, bs[Len(bs)].id, enc, n + 1)
  BY <1>1, <1>2, ModulesStay
<1>. QED
  BY <1>3, <1>5

\* What a module shows after a declaration in it fits.
LEMMA ShowsTooIs ==
  ASSUME NEW ts, NEW stack, NEW mods, NEW comp, NEW exp, NEW fs, NEW bs, NEW enc, NEW pub,
         NEW n, Consistent(ts, stack, mods, comp, exp, fs, bs, enc, pub, n),
         NEW kind \in Kinds, NEW name \in AllNames, NEW args \in AllArgs,
         kind # "operators" => args = NoArgs,
         NEW d, d = Decl(kind, name, args, n + 1), DeclFits(comp, d),
         Head(bs).construct = "module" /\ kind # "operators"
           => Of(pub[Head(bs).id], kind, name, NoArgs) = {},
         NEW pub2, ShowsToo(Head(bs), pub, d, pub2),
         NEW exp2, ExportsToo(Head(bs), exp, kind, name, args, n + 1, exp2)
  PROVE  /\ PublishedFits(comp, pub2, exp2, n + 1)
         /\ ShowsInside(Head(bs), pub, pub2)
         /\ ShowsIn(Head(bs), pub, pub2, {d})
         /\ Head(bs).construct = "module" => d \in pub2[Head(bs).id]
<1>. DEFINE b == Head(bs)
<1>0. b = Head(bs)
  OBVIOUS
<1>1. PublishedFits(comp, pub, exp, n)
  BY DEF Consistent
<1>. HIDE DEF b
<1>2. CASE b.construct = "module"
  <2>1. b.id \in DOMAIN pub
    BY <1>0, <1>2, AtTop
  <2>2. Shown(pub, b.id, d, pub2)
        /\ Exports(exp, b.id, kind, Declared(exp[b.id][kind], name, args, n + 1), exp2)
    BY <1>0, <1>2 DEF ShowsToo, ExportsToo
  <2>3. kind # "operators" => Of(pub[b.id], kind, name, NoArgs) = {}
    BY <1>0, <1>2
  <2>4. PublishedFits(comp, pub2, exp2, n + 1)
    BY <1>1, <2>1, <2>2, <2>3, PublishMore
  <2>5. /\ DOMAIN pub2 = DOMAIN pub /\ pub2[b.id] = pub[b.id] \cup {d}
        /\ \A m2 \in DOMAIN pub : m2 # b.id => pub2[m2] = pub[m2]
    BY <1>1, <2>1, <2>2, ShownMore DEF DeclFits
  <2>6. ShowsInside(b, pub, pub2)
    <3>1. pub[b.id] \subseteq pub2[b.id]
      BY <2>5
    <3>. QED
      BY <1>2, <2>5, <3>1, Zenon DEF ShowsInside
  <2>7. ShowsIn(b, pub, pub2, {d})
    BY <1>2, <2>5, Zenon DEF ShowsIn
  <2>8. d \in pub2[b.id]
    BY <2>5
  <2>. QED
    BY <1>0, <2>4, <2>6, <2>7, <2>8
<1>3. CASE b.construct # "module"
  <2>1. pub2 = pub /\ exp2 = exp
    BY <1>0, <1>3 DEF ShowsToo, ExportsToo
  <2>2. PublishedFits(comp, pub2, exp2, n + 1)
    BY <1>1, <2>1, PublishedStay
  <2>3. ShowsInside(b, pub, pub2)
    BY <2>1, Zenon DEF ShowsInside
  <2>4. ShowsIn(b, pub, pub2, {d})
    BY <2>1, Zenon DEF ShowsIn
  <2>. QED
    BY <1>0, <1>3, <2>2, <2>3, <2>4
<1>. QED
  BY <1>2, <1>3

\* A name is declared that is new.
LEMMA DeclareFits ==
  ASSUME NEW ts, NEW stack, NEW mods, NEW comp, NEW exp, NEW fs, NEW bs, NEW enc, NEW pub,
         NEW n, Consistent(ts, stack, mods, comp, exp, fs, bs, enc, pub, n),
         NEW kind \in Kinds, NEW name \in AllNames, NEW args \in AllArgs,
         kind # "operators" => args = NoArgs,
         NEW d, d = Decl(kind, name, args, n + 1), DeclFits(comp, d),
         kind # "operators" => Own(bs, 1, kind, name, args) = {},
         NEW ts2, Sets(ts, kind, Declared(ts[kind], name, args, n + 1), ts2),
         NEW bs2, bs2 = With(bs, {d}, {}, {}),
         NEW pub2, ShowsToo(Head(bs), pub, d, pub2),
         NEW exp2, ExportsToo(Head(bs), exp, kind, name, args, n + 1, exp2)
  PROVE  DOMAIN pub2 = DOMAIN pub /\ Consistent(ts2, stack, mods, comp, exp2, fs, bs2, enc, pub2, n + 1)
<1>. DEFINE nothing == {}
            one == {d}
<1>0. nothing = {} /\ one = {d} /\ bs2 = With(bs, one, nothing, nothing)
  OBVIOUS
<1>1. /\ n + 1 \in Nat \ {0} /\ Len(enc) + Len(bs) \in Nat
      /\ bs \in Seq(OpenBlocks) /\ bs # << >>
  BY SomeTyping
<1>2. BlocksFit(comp, pub, bs) /\ TablesFit(ts, bs) /\ FilesFit(fs, bs, Len(enc) + Len(bs))
  BY DEF Consistent
<1>3. Head(bs) = bs[1]
  BY <1>1
<1>4. Head(bs).construct = "module" /\ kind # "operators"
        => Of(pub[Head(bs).id], kind, name, NoArgs) = {}
  <2>. SUFFICES ASSUME Head(bs).construct = "module", kind # "operators"
                PROVE  Of(pub[Head(bs).id], kind, name, NoArgs) = {}
    OBVIOUS
  <2>1. TopFits(comp, pub, Head(bs))
    BY AtTop
  <2>2. Of(Head(bs).own, kind, name, NoArgs) = {}
    BY <1>3 DEF Own
  <2>. QED
    BY <2>1, <2>2 DEF TopFits
<1>5. /\ PublishedFits(comp, pub2, exp2, n + 1)
      /\ ShowsInside(Head(bs), pub, pub2)
      /\ ShowsIn(Head(bs), pub, pub2, one)
      /\ Head(bs).construct = "module" => d \in pub2[Head(bs).id]
  BY <1>0, <1>4, ShowsTooIs
<1>6. EnclosingFits(comp, pub2, stack, enc)
      /\ ModulesFit(mods, bs[Len(bs)].id, enc, n + 1)
  BY <1>5, RestStays
<1>7. d \in Decls /\ d.kind = kind /\ d.name = name /\ d.args = args
  BY DEF DeclFits, Decl
<1>. HIDE DEF nothing, one
<1>9. ShowsRight(Head(bs), one, pub2, one)
  <2>1. \A e \in one : e.kind # "operators"
          => Of(Head(bs).own \cup one, e.kind, e.name, NoArgs) # {}
    BY <1>0, <1>7 DEF Of
  <2>. QED
    BY <1>0, <1>5, <2>1 DEF ShowsRight
<1>8. AdditionsFit(comp, pub, pub2, one, nothing, nothing)
  BY <1>0, <1>7 DEF AdditionsFit, Additions
<1>11. BlocksFit(comp, pub2, bs2) /\ Alike(bs, bs2)
  <2>. DEFINE b == Head(bs)
  <2>1. b = Head(bs)
    OBVIOUS
  <2>2. ShowsIn(b, pub, pub2, one) /\ ShowsRight(b, one, pub2, one)
    BY <1>5, <1>9
  <2>. HIDE DEF b
  <2>. QED
    BY <1>0, <1>2, <1>8, <2>1, <2>2, BlocksGrow
<1>12. TablesFit(ts2, bs2)
  BY <1>1, <1>2, <1>7, TablesDeclare
<1>13. FilesFit(fs, bs2, Len(enc) + Len(bs2))
  <2>1. bs2 \in Seq(OpenBlocks)
    BY <1>11 DEF BlocksFit
  <2>2. FilesFit(fs, bs2, Len(enc) + Len(bs))
    BY <1>1, <1>2, <1>11, <2>1, FilesSame DEF Alike
  <2>. QED
    BY <1>11, <2>2 DEF Alike
<1>. QED
  BY <1>5, <1>6, <1>11, <1>12, <1>13 DEF Consistent, Alike, ShowsInside

\* It is refused, but shown all the same.
LEMMA ShowFits ==
  ASSUME NEW ts, NEW stack, NEW mods, NEW comp, NEW exp, NEW fs, NEW bs, NEW enc, NEW pub,
         NEW n, Fit(ts, stack, mods, comp, exp, fs, bs, enc, pub, n),
         NEW kind \in Kinds \ {"operators"}, NEW name \in AllNames,
         NEW d, d = Decl(kind, name, NoArgs, n + 1), DeclFits(comp, d),
         Head(bs).construct = "module"
           => /\ Own(bs, 1, kind, name, NoArgs) # {}
              /\ Of(pub[Head(bs).id], kind, name, NoArgs) = {},
         NEW pub2, ShowsToo(Head(bs), pub, d, pub2),
         NEW exp2, ExportsToo(Head(bs), exp, kind, name, NoArgs, n + 1, exp2)
  PROVE  Fit(ts, stack, mods, comp, exp2, fs, bs, enc, pub2, n + 1)
<1>. DEFINE nothing == {}
            one == {d}
<1>0. nothing = {} /\ one = {d}
  OBVIOUS
<1>1. /\ bs \in Seq(OpenBlocks) /\ bs # << >>
  BY SomeTyping DEF Fit
<1>2. BlocksFit(comp, pub, bs) /\ TablesFit(ts, bs) /\ FilesFit(fs, bs, Len(enc) + Len(bs))
  BY DEF Fit, Consistent
<1>3. Head(bs) = bs[1]
  BY <1>1
<1>4. NoArgs \in AllArgs /\ kind \in Kinds
  BY DEF AllArgs
<1>5. /\ PublishedFits(comp, pub2, exp2, n + 1)
      /\ ShowsInside(Head(bs), pub, pub2)
      /\ ShowsIn(Head(bs), pub, pub2, one)
  BY <1>0, <1>4, ShowsTooIs DEF Fit
<1>6. EnclosingFits(comp, pub2, stack, enc) /\ CompiledFit(comp, pub2)
      /\ ModulesFit(mods, bs[Len(bs)].id, enc, n + 1)
  BY <1>5, RestStays DEF Fit, CompiledFit, ShowsInside
<1>7. d \in Decls /\ d.kind = kind /\ d.name = name /\ d.args = NoArgs
  BY DEF DeclFits, Decl
<1>. HIDE DEF nothing, one
<1>8. BlocksFit(comp, pub2, bs)
  <2>1. CASE Head(bs).construct = "module"
    <3>1. Of(Head(bs).own, kind, name, NoArgs) # {}
      BY <1>3, <2>1 DEF Own
    <3>2. ShowsRight(Head(bs), nothing, pub2, one)
      <4>1. \A e \in one : Of(Head(bs).own \cup nothing, e.kind, e.name, NoArgs) # {}
        BY <1>0, <1>7, <3>1
      <4>. QED
        BY <1>0, <4>1 DEF ShowsRight
    <3>3. AdditionsFit(comp, pub, pub2, nothing, nothing, nothing)
      BY <1>0 DEF AdditionsFit, Additions
    <3>4. bs = With(bs, nothing, nothing, nothing)
      BY <1>0, <1>1, WithNothing
    <3>. DEFINE b == Head(bs)
    <3>5. b = Head(bs)
      OBVIOUS
    <3>6. ShowsIn(b, pub, pub2, one) /\ ShowsRight(b, nothing, pub2, one)
      BY <1>5, <3>2
    <3>. HIDE DEF b
    <3>. QED
      BY <1>2, <3>3, <3>4, <3>5, <3>6, BlocksGrow
  <2>2. CASE Head(bs).construct # "module"
    BY <1>2, <2>2 DEF ShowsToo
  <2>. QED
    BY <2>1, <2>2
<1>. QED
  BY <1>2, <1>5, <1>6, <1>8 DEF Fit, Consistent

\* Nothing happens but that a number is used up.
LEMMA NothingFits ==
  ASSUME NEW ts, NEW stack, NEW mods, NEW comp, NEW exp, NEW fs, NEW bs, NEW enc, NEW pub,
         NEW n, Fit(ts, stack, mods, comp, exp, fs, bs, enc, pub, n)
  PROVE  Fit(ts, stack, mods, comp, exp, fs, bs, enc, pub, n + 1)
<1>1. n \in Nat
  BY SomeTyping DEF Fit
<1>2. ModulesFit(mods, bs[Len(bs)].id, enc, n + 1)
  BY <1>1, ModulesStay DEF Fit, Consistent
<1>3. PublishedFits(comp, pub, exp, n + 1)
  BY PublishedStay DEF Fit, Consistent
<1>. QED
  BY <1>2, <1>3 DEF Fit, Consistent

---------------------------------------------------------------------------
\* Blocks and functions.

\* A block or function begins.
LEMMA BeginFits ==
  ASSUME NEW ts, NEW stack, NEW mods, NEW comp, NEW exp, NEW fs, NEW bs, NEW enc, NEW pub,
         NEW n, Fit(ts, stack, mods, comp, exp, fs, bs, enc, pub, n),
         NEW construct \in Begins, NEW bs2, bs2 = Within(construct, bs),
         NEW ts2, ts2 = [kind \in Kinds |-> Inside(ts[kind], construct)]
  PROVE  Fit(ts2, stack, mods, comp, exp, fs, bs2, enc, pub, n)
<1>1. /\ Len(enc) + Len(bs) \in Nat /\ Len(enc) \in Nat
      /\ bs \in Seq(OpenBlocks) /\ bs # << >>
  BY SomeTyping DEF Fit
<1>2. BlocksFit(comp, pub, bs) /\ TablesFit(ts, bs) /\ FilesFit(fs, bs, Len(enc) + Len(bs))
  BY DEF Fit, Consistent
<1>3. /\ BlocksFit(comp, pub, bs2)
      /\ Len(bs2) = 1 + Len(bs) /\ bs2[Len(bs2)] = bs[Len(bs)]
      /\ bs2[1].construct = construct
      /\ \A i \in DOMAIN bs : bs2[1 + i] = bs[i]
  BY <1>2, BlocksBegin
<1>4. TablesFit(ts2, bs2)
  BY <1>2, TablesBegin
<1>5. FilesFit(fs, bs2, Len(enc) + Len(bs2))
  <2>. DEFINE depth == Len(enc) + Len(bs)
              deep == Len(enc) + Len(bs2)
  <2>1. /\ DOMAIN bs = 1 .. Len(bs) /\ Len(bs) \in Nat
        /\ bs2 \in Seq(OpenBlocks)
    BY <1>1, <1>3 DEF BlocksFit
  <2>2. DOMAIN bs2 = 1 .. 1 + Len(bs)
    BY <1>3, <2>1
  <2>3. deep = depth + 1 /\ depth \in Nat /\ deep \in Nat
    BY <1>1, <1>3, <2>1
  <2>4. \A i \in DOMAIN fs : fs[i].depth <= depth /\ fs[i].depth \in Nat
    BY <1>2, DepthsAre DEF FilesFit
  <2>5. FilesFit(fs, bs, depth)
    BY <1>2
  <2>. HIDE DEF deep, depth
  <2>6. \A i \in DOMAIN fs : fs[i].depth <= deep
    BY <2>3, <2>4
  <2>7. \A j \in DOMAIN bs2 : j \in Nat
    BY <2>2
  <2>8. ASSUME NEW j \in DOMAIN bs2, bs2[j].construct = "function"
        PROVE  \/ deep - j >= depth
               \/ \E k \in DOMAIN bs : /\ k \in Nat /\ bs[k].construct = "function"
                                       /\ deep - j = depth - k
    <3>1. CASE j = 1
      BY <2>3, <3>1
    <3>2. CASE j # 1
      <4>1. j - 1 \in DOMAIN bs /\ j - 1 \in Nat /\ 1 + (j - 1) = j
        BY <2>1, <2>2, <3>2
      <4>2. bs[j - 1].construct = "function"
        BY <1>3, <2>8, <4>1
      <4>3. deep - j = depth - (j - 1)
        BY <2>3, <4>1
      <4>. QED
        BY <4>1, <4>2, <4>3
    <3>. QED
      BY <3>1, <3>2
  <2>9. FilesFit(fs, bs2, deep)
    BY <2>3, <2>5, <2>6, <2>7, <2>8, FilesStay
  <2>. QED
    BY <2>9 DEF deep
<1>. QED
  BY <1>3, <1>4, <1>5 DEF Fit, Consistent

\* A block or function ends; it is not the one a file was opened in.
LEMMA EndFits ==
  ASSUME NEW ts, NEW stack, NEW mods, NEW comp, NEW exp, NEW fs, NEW bs, NEW enc, NEW pub,
         NEW n, Fit(ts, stack, mods, comp, exp, fs, bs, enc, pub, n),
         ~ (fs # << >> /\ Head(fs).depth = Len(enc) + Len(bs)),
         NEW bs2, Leaves(bs, bs2),
         NEW ts2, ts2 = [kind \in Kinds |-> Ended(ts[kind], bs)]
  PROVE  Fit(ts2, stack, mods, comp, exp, fs, bs2, enc, pub, n)
<1>1. /\ Len(enc) + Len(bs) \in Nat /\ Len(enc) \in Nat
      /\ bs \in Seq(OpenBlocks) /\ bs # << >>
  BY SomeTyping DEF Fit
<1>2. BlocksFit(comp, pub, bs) /\ TablesFit(ts, bs) /\ FilesFit(fs, bs, Len(enc) + Len(bs))
  BY DEF Fit, Consistent
<1>3. /\ BlocksFit(comp, pub, bs2) /\ Len(bs) > 1
      /\ Len(bs) = 1 + Len(bs2) /\ bs2[Len(bs2)] = bs[Len(bs)]
      /\ \A i \in DOMAIN bs2 : bs2[i] = bs[i + 1] /\ i + 1 \in DOMAIN bs
  BY <1>2, BlocksEnd
<1>4. TablesFit(ts2, bs2)
  BY <1>2, <1>3, TablesEnd DEF Leaves
<1>5. FilesFit(fs, bs2, Len(enc) + Len(bs2))
  <2>. DEFINE depth == Len(enc) + Len(bs)
              deep == Len(enc) + Len(bs2)
  <2>1. /\ bs2 \in Seq(OpenBlocks) /\ Len(bs2) \in Nat
    BY <1>3 DEF BlocksFit
  <2>3. depth = deep + 1 /\ depth \in Nat /\ deep \in Nat
    BY <1>1, <1>3, <2>1
  <2>5. FilesFit(fs, bs, depth) /\ ~ (fs # << >> /\ Head(fs).depth = depth)
    BY <1>2
  <2>. HIDE DEF deep, depth
  <2>6. \A i \in DOMAIN fs : fs[i].depth <= deep
    BY <2>3, <2>5, FilesAround
  <2>7. \A j \in DOMAIN bs2 : j \in Nat
    BY <2>1
  <2>8. ASSUME NEW j \in DOMAIN bs2, bs2[j].construct = "function"
        PROVE  \E k \in DOMAIN bs : /\ k \in Nat /\ bs[k].construct = "function"
                                    /\ deep - j = depth - k
    <3>1. /\ j + 1 \in DOMAIN bs /\ j + 1 \in Nat /\ bs[j + 1].construct = "function"
          /\ deep - j = depth - (j + 1)
      BY <1>3, <2>3, <2>7, <2>8
    <3>. QED
      BY <3>1
  <2>9. FilesFit(fs, bs2, deep)
    BY <2>3, <2>5, <2>6, <2>7, <2>8, FilesStay
  <2>. QED
    BY <2>9 DEF deep
<1>. QED
  BY <1>3, <1>4, <1>5 DEF Fit, Consistent

---------------------------------------------------------------------------
\* Names are taken over from modules.

\* One name, as if it was declared here.
LEMMA HereFits ==
  ASSUME NEW ts, NEW stack, NEW mods, NEW comp, NEW exp, NEW fs, NEW bs, NEW enc, NEW pub,
         NEW n, Fit(ts, stack, mods, comp, exp, fs, bs, enc, pub, n),
         NEW kind \in {"vartab", "consts"}, NEW name \in AllNames, NEW dnode \in Nat \ {0},
         NEW d, d = Decl(kind, name, NoArgs, dnode), DeclFits(comp, d),
         Own(bs, 1, kind, name, NoArgs) = {},
         NEW ts2, Sets(ts, kind, Declared(ts[kind], name, NoArgs, dnode), ts2),
         NEW bs2, bs2 = With(bs, {d}, {}, {})
  PROVE  Fit(ts2, stack, mods, comp, exp, fs, bs2, enc, pub, n)
<1>. DEFINE nothing == {}
            one == {d}
            b == Head(bs)
            any == NoArgs
<1>0. nothing = {} /\ one = {d} /\ bs2 = With(bs, one, nothing, nothing) /\ b = Head(bs)
      /\ any = NoArgs
  OBVIOUS
<1>1. /\ Len(enc) + Len(bs) \in Nat
      /\ bs \in Seq(OpenBlocks) /\ bs # << >>
  BY SomeTyping DEF Fit
<1>2. BlocksFit(comp, pub, bs) /\ TablesFit(ts, bs) /\ FilesFit(fs, bs, Len(enc) + Len(bs))
  BY DEF Fit, Consistent
<1>3. kind \in Kinds /\ kind # "operators" /\ any \in AllArgs
  BY DEF Kinds, AllArgs
<1>7. d \in Decls /\ d.kind = kind /\ d.name = name /\ d.args = any
  BY DEF DeclFits, Decl
<1>. HIDE DEF nothing, one, b, any
<1>8. AdditionsFit(comp, pub, pub, one, nothing, nothing)
  BY <1>0, <1>7 DEF AdditionsFit, Additions
<1>9. ShowsRight(b, one, pub, nothing) /\ ShowsIn(b, pub, pub, nothing)
  BY <1>0, <1>7 DEF ShowsRight, ShowsIn
<1>10. BlocksFit(comp, pub, bs2) /\ Alike(bs, bs2)
  BY <1>0, <1>2, <1>8, <1>9, BlocksGrow
<1>11. TablesFit(ts2, bs2)
  <2>1. d = Decl(kind, name, any, dnode) /\ Own(bs, 1, kind, name, any) = {}
        /\ Sets(ts, kind, Declared(ts[kind], name, any, dnode), ts2)
    BY <1>0
  <2>. QED
    BY <1>0, <1>1, <1>2, <1>3, <1>7, <2>1, TablesDeclare
<1>12. FilesFit(fs, bs2, Len(enc) + Len(bs2))
  <2>1. bs2 \in Seq(OpenBlocks)
    BY <1>10 DEF BlocksFit
  <2>2. FilesFit(fs, bs2, Len(enc) + Len(bs))
    BY <1>1, <1>2, <1>10, <2>1, FilesSame DEF Alike
  <2>. QED
    BY <1>10, <2>2 DEF Alike
<1>. QED
  BY <1>10, <1>11, <1>12 DEF Fit, Consistent, Alike

\* All that a module shows.
LEMMA TakeFits ==
  ASSUME NEW ts, NEW stack, NEW mods, NEW comp, NEW exp, NEW fs, NEW bs, NEW enc, NEW pub,
         NEW n, Fit(ts, stack, mods, comp, exp, fs, bs, enc, pub, n),
         NEW m \in DOMAIN pub, ~InFunction(bs), NEW fw,
         \A kind \in Kinds : MayTake(kind, bs, pub[m], fw),
         NEW ts2, ts2 = Took(ts, fw, exp[m]),
         NEW bs2, bs2 = With(bs, {}, pub[m], {m})
  PROVE  Fit(ts2, stack, mods, comp, exp, fs, bs2, enc, pub, n)
<1>. DEFINE nothing == {}
            decls == pub[m]
            modules == {m}
            b == Head(bs)
            src == exp[m]
<1>0. /\ nothing = {} /\ decls = pub[m] /\ modules = {m} /\ b = Head(bs) /\ src = exp[m]
      /\ bs2 = With(bs, nothing, decls, modules)
  OBVIOUS
<1>1. /\ Len(enc) + Len(bs) \in Nat
      /\ bs \in Seq(OpenBlocks) /\ bs # << >>
      /\ decls \in SUBSET Decls /\ m \in Nat
  BY SomeTyping DEF Fit
<1>2. /\ BlocksFit(comp, pub, bs) /\ TablesFit(ts, bs) /\ FilesFit(fs, bs, Len(enc) + Len(bs))
      /\ PublishedFits(comp, pub, exp, n)
  BY DEF Fit, Consistent
<1>3. ts2 = Took(ts, fw, src)
  BY <1>0
<1>4. MayTakeAll(bs, decls, fw, src)
  BY <1>0, <1>2 DEF PublishedFits, MayTakeAll
<1>. HIDE DEF nothing, modules, decls, b, src
<1>5. modules \in SUBSET Nat
  BY <1>0, <1>1
<1>8. AdditionsFit(comp, pub, pub, nothing, decls, modules)
  <2>1. Additions(nothing, decls, modules)
    BY <1>0, <1>1, <1>5 DEF Additions
  <2>2. \A d \in decls : \E m2 \in modules : d \in pub[m2]
    BY <1>0
  <2>3. modules \subseteq DOMAIN pub /\ \A d \in nothing : DeclFits(comp, d)
    BY <1>0
  <2>. QED
    BY <2>1, <2>2, <2>3 DEF AdditionsFit
<1>9. ShowsRight(b, nothing, pub, nothing) /\ ShowsIn(b, pub, pub, nothing)
  BY <1>0 DEF ShowsRight, ShowsIn
<1>10. BlocksFit(comp, pub, bs2) /\ Alike(bs, bs2)
  BY <1>0, <1>2, <1>8, <1>9, BlocksGrow
<1>11. TablesFit(ts2, bs2)
  <2>1. bs2 = With(bs, {}, decls, modules)
    BY <1>0
  <2>. QED
    BY <1>1, <1>2, <1>3, <1>4, <1>5, <2>1, TablesTake
<1>12. FilesFit(fs, bs2, Len(enc) + Len(bs2))
  <2>1. bs2 \in Seq(OpenBlocks)
    BY <1>10 DEF BlocksFit
  <2>2. FilesFit(fs, bs2, Len(enc) + Len(bs))
    BY <1>1, <1>2, <1>10, <2>1, FilesSame DEF Alike
  <2>. QED
    BY <1>10, <2>2 DEF Alike
<1>. QED
  BY <1>10, <1>11, <1>12 DEF Fit, Consistent, Alike

---------------------------------------------------------------------------
\* A program or module that begins.

\* An empty block says nothing.
LEMMA NothingSaid ==
  ASSUME NEW b \in OpenBlocks, b.own = {}, b.imports = {}, NEW cs, cs = <<b>>,
         NEW kind, NEW name, NEW args
  PROVE  /\ View(cs, kind, name, args).own = {} /\ View(cs, kind, name, args).scope = {}
         /\ View(cs, kind, name, args).here = {} /\ View(cs, kind, name, args).imports = {}
<1>. DEFINE nothing == << >>
<1>0. nothing = << >> /\ nothing \in Seq(OpenBlocks) /\ DOMAIN nothing = {}
  OBVIOUS
<1>1. cs \in Seq(OpenBlocks) /\ cs # << >> /\ cs = <<b>> \o nothing
  OBVIOUS
<1>. HIDE DEF nothing
<1>2. Nests(cs, b, nothing)
  BY <1>0, <1>1 DEF Nests
<1>3. Of(b.own, kind, name, args) = {} /\ Of(b.imports, kind, name, args) = {}
  BY DEF Of
<1>4. InScope(nothing, kind, name, args) = {}
  BY <1>0 DEF InScope, SameScope
<1>5. Innermost(nothing, kind, name, args) = {}
  BY <1>0 DEF Innermost
<1>6. Imported(nothing, kind, name, args) = {}
  BY <1>0 DEF Imported
<1>7. Own(cs, 1, kind, name, args) = {}
  BY <1>3 DEF Own
<1>8. InScope(cs, kind, name, args) = {}
  BY <1>2, <1>3, <1>4, ConsInScope
<1>9. Innermost(cs, kind, name, args) = {}
  BY <1>2, <1>3, <1>5, ConsInnermost
<1>10. Imported(cs, kind, name, args) = {}
  BY <1>2, <1>3, <1>6, ConsImported
<1>. QED
  BY <1>7, <1>8, <1>9, <1>10 DEF View

\* Nothing is found in a new table.
LEMMA NewTable ==
  /\ new_vartab \in Tables(AllNames, AllArgs) /\ DOMAIN new_vartab.node = {}
  /\ new_vartab.current_scope = 0 /\ new_vartab.current_subscope = 0
  /\ \A name : vartab_lookup_varnode(new_vartab, name) = NoNode
  /\ \A name, args : vartab_lookup_operator(new_vartab, name, args) = NoNode
<1>. DEFINE N == Nodes(AllNames, AllArgs)
<1>1. << >> \in Seq(N)
  OBVIOUS
<1>2. /\ new_vartab \in Tables(AllNames, AllArgs) /\ DOMAIN new_vartab.node = {}
      /\ new_vartab.current_scope = 0 /\ new_vartab.current_subscope = 0
  BY <1>1 DEF new_vartab, Tables
<1>3. \A name : vartab_lookup_varnode(new_vartab, name) = NoNode
  BY <1>2, LookupIs
<1>4. \A name, args : vartab_lookup_operator(new_vartab, name, args) = NoNode
  BY <1>2, LookupOperatorIs
<1>. QED
  BY <1>2, <1>3, <1>4

\* A new table agrees with an empty block.
LEMMA NewFits ==
  ASSUME NEW kind, NEW b \in OpenBlocks, b.own = {}, b.imports = {},
         b.construct \in {"program", "module"}, NEW cs, cs = <<b>>
  PROVE  Agrees(kind, new_vartab, cs) /\ AgreesToTheEnd(kind, new_vartab, cs)
<1>1. cs \in Seq(OpenBlocks) /\ cs # << >> /\ Len(cs) = 1 /\ cs[1] = b /\ DOMAIN cs = 1 .. 1
  OBVIOUS
<1>2. ~InFunction(cs)
  BY <1>1 DEF InFunction
<1>. DEFINE t == new_vartab
<1>3. t \in Tables(AllNames, AllArgs) /\ DOMAIN t.node = {} /\ t.current_scope = 0
      /\ (\A name : vartab_lookup_varnode(t, name) = NoNode)
      /\ (\A name, args : vartab_lookup_operator(t, name, args) = NoNode)
  BY NewTable
<1>. HIDE DEF t
<1>4. ASSUME NEW name, NEW args
      PROVE  Finds(kind, t, vartab_lookup_operator(t, name, args), View(cs, kind, name, args))
  <2>. DEFINE v == View(cs, kind, name, args)
  <2>1. v.own = {} /\ v.scope = {} /\ v.here = {} /\ v.imports = {}
    BY NothingSaid
  <2>. HIDE DEF v
  <2>2. IsFiniteSet(v.imports)
    BY <2>1, FS_EmptySet
  <2>3. Finds(kind, t, NoNode, v)
    BY <2>1, <2>2 DEF Finds
  <2>. QED
    BY <1>3, <2>3 DEF v
<1>5. ASSUME NEW name
      PROVE  OwnFirst(t, cs, name)
  <2>1. ~IsOwn(vartab_lookup_varnode(t, name))
    BY <1>3, NothingFound
  <2>2. \A args : Innermost(cs, "operators", name, args) = {}
    <3>. TAKE args
    <3>. DEFINE v == View(cs, "operators", name, args)
    <3>1. v.here = {}
      BY NothingSaid
    <3>2. v.here = Innermost(cs, "operators", name, args)
      BY DEF View
    <3>. QED
      BY <3>1, <3>2
  <2>. QED
    BY <2>1, <2>2 DEF OwnFirst
<1>6. Agrees(kind, t, cs)
  BY <1>1, <1>2, <1>3, <1>4, <1>5 DEF Agrees
<1>7. AgreesToTheEnd(kind, t, cs)
  <2>1. ~ Len(cs) > 1
    BY <1>1
  <2>. QED
    BY <1>6, <2>1, HoldsOne
<1>. QED
  BY <1>6, <1>7 DEF t

\* New tables fit an empty block.
LEMMA FreshFits ==
  ASSUME NEW b \in OpenBlocks, b.own = {}, b.imports = {},
         b.construct \in {"program", "module"}, NEW cs, cs = <<b>>
  PROVE  TablesFit(Fresh, cs)
<1>1. Fresh = [kind \in Kinds |-> Fresh[kind]] /\ \A kind \in Kinds : Fresh[kind] = new_vartab
  BY DEF Fresh
<1>2. \A kind \in Kinds : AgreesToTheEnd(kind, Fresh[kind], cs)
  <2>. TAKE kind \in Kinds
  <2>1. AgreesToTheEnd(kind, new_vartab, cs)
    BY NewFits
  <2>. QED
    BY <1>1, <2>1
<1>. QED
  BY <1>1, <1>2, TablesFitSo

\* New tables show nothing.
LEMMA FreshShows ==
  ASSUME NEW kind \in Kinds
  PROVE  Shows(kind, Fresh[kind], {})
<1>1. Fresh[kind] = new_vartab
  BY DEF Fresh
<1>. QED
  BY <1>1, NewTable DEF Shows

---------------------------------------------------------------------------
\* A module is compiled.

\* A module that is entered among the compiled ones leaves the others there.
LEMMA CompileKeeps ==
  ASSUME NEW comp, comp \in Tables(AllNames, AllArgs), NEW name \in ModuleNames,
         vartab_lookup_varnode(comp, name) = NoNode, NEW id \in Nat \ {0}, NEW pub,
         NEW comp2, comp2 = Declared(comp, name, NoArgs, id)
  PROVE  /\ Keeps(comp, pub, comp2, pub)
         /\ \A d : DeclFits(comp, d) => d.name # name
         /\ comp2 \in Tables(AllNames, AllArgs)
         /\ Compiled(comp2, name) = id
         /\ \A i \in DOMAIN comp2.node :
              comp2.node[i].dnode = id
                \/ \E j \in DOMAIN comp.node : comp2.node[i].dnode = comp.node[j].dnode
<1>. DEFINE one == 1
            no == FALSE
            any == NoArgs
            n == NewNode(comp, name, any, id, one, no)
<1>1. one \in Int /\ no \in BOOLEAN /\ any \in AllArgs /\ name \in AllNames /\ id \in Int
  BY DEF AllArgs, AllNames
<1>2. comp2 = PutNode(comp, name, any, id, one, no)
  BY Zenon DEF Declared
<1>3. n.dnode = id
  BY DEF NewNode
<1>4. n = NewNode(comp, name, any, id, one, no)
  OBVIOUS
<1>. HIDE DEF one, no, any, n
<1>5. comp2 \in Tables(AllNames, AllArgs) /\ IsPut(comp, comp2, n)
  BY <1>1, <1>2, <1>4, Put
<1>6. \A other \in AllNames :
        vartab_lookup_varnode(comp2, other)
        = IF other = name THEN n ELSE vartab_lookup_varnode(comp, other)
  BY <1>1, <1>2, <1>4, EnteringHidesItsNameOnly
<1>7. Compiled(comp2, name) = id
  BY <1>1, <1>3, <1>6 DEF Compiled
<1>8. Compiled(comp, name) = 0
  BY NothingFound DEF Compiled
<1>9. ASSUME NEW d, DeclFits(comp, d)
      PROVE  d.name # name /\ DeclFits(comp2, d)
  <2>1. d \in Decls
    BY <1>9 DEF DeclFits
  <2>2. d.dnode # 0 /\ d.name \in AllNames
    BY <2>1 DEF Decls
  <2>3. d.name # name
    BY <1>8, <1>9, <2>2 DEF DeclFits
  <2>4. d.name \in ModuleNames => Compiled(comp2, d.name) = Compiled(comp, d.name)
    BY <1>6, <2>2, <2>3 DEF Compiled
  <2>. QED
    BY <1>9, <2>1, <2>3, <2>4 DEF DeclFits
<1>10. Keeps(comp, pub, comp2, pub)
  BY <1>9 DEF Keeps
<1>11. ASSUME NEW i \in DOMAIN comp2.node
       PROVE  comp2.node[i].dnode = id
                \/ \E j \in DOMAIN comp.node : comp2.node[i].dnode = comp.node[j].dnode
  <2>1. /\ Len(comp.node) \in Nat /\ DOMAIN comp.node = 1 .. Len(comp.node)
        /\ DOMAIN comp2.node = 1 .. 1 + Len(comp.node)
        /\ comp2.node[1] = n
        /\ \A j \in 1 .. Len(comp.node) : comp2.node[1 + j] = comp.node[j]
    BY <1>5 DEF IsPut, Tables
  <2>2. CASE i = 1
    BY <1>3, <2>1, <2>2
  <2>3. CASE i # 1
    <3>1. i - 1 \in DOMAIN comp.node /\ 1 + (i - 1) = i
      BY <2>1, <2>3
    <3>2. comp2.node[i] = comp.node[i - 1]
      BY <2>1, <3>1
    <3>. QED
      BY <3>1, <3>2
  <2>. QED
    BY <2>2, <2>3
<1>. QED
  BY <1>5, <1>7, <1>9, <1>10, <1>11

\* With it the state is as consistent as before.
LEMMA ConsistentKeeps ==
  ASSUME NEW ts, NEW stack, NEW mods, NEW comp, NEW exp, NEW fs, NEW bs, NEW enc, NEW pub,
         NEW n, Consistent(ts, stack, mods, comp, exp, fs, bs, enc, pub, n),
         NEW comp2, Keeps(comp, pub, comp2, pub)
  PROVE  Consistent(ts, stack, mods, comp2, exp, fs, bs, enc, pub, n)
<1>1. BlocksFit(comp2, pub, bs)
  BY BlocksKeep DEF Consistent
<1>2. EnclosingFits(comp2, pub, stack, enc)
  <2>1. EnclosingFits(comp, pub, stack, enc)
    BY DEF Consistent
  <2>2. \A i \in DOMAIN enc : TopFits(comp2, pub, enc[i])
    BY <2>1, TopKeeps DEF EnclosingFits
  <2>. QED
    BY <2>1, <2>2 DEF EnclosingFits
<1>3. PublishedFits(comp2, pub, exp, n)
  BY DEF Consistent, PublishedFits, Keeps
<1>. QED
  BY <1>1, <1>2, <1>3 DEF Consistent

---------------------------------------------------------------------------
\* Modules begin and end.

\* Something before what there is.
Puts(x, s, s2) == s2 = <<x>> \o s
OnTop(id, x, f, f2) == f2 = WithModule(f, id, x)

HasBefore(S, x, s, s2) ==
  /\ s2 \in Seq(S) /\ Len(s2) = 1 + Len(s) /\ Len(s) \in Nat
  /\ s2[1] = x /\ Head(s2) = x /\ Tail(s2) = s
  /\ DOMAIN s2 = 1 .. 1 + Len(s) /\ DOMAIN s = 1 .. Len(s)
  /\ \A i \in DOMAIN s : s2[1 + i] = s[i]
  /\ \A i \in DOMAIN s2 : i = 1 \/ (i - 1 \in DOMAIN s /\ 1 + (i - 1) = i
                                    /\ s2[i] = s[i - 1])

\* A sequence with one more in front.
LEMMA PutsIs ==
  ASSUME NEW S, NEW x \in S, NEW s \in Seq(S), NEW s2, Puts(x, s, s2)
  PROVE  HasBefore(S, x, s, s2)
<1>1. /\ s2 \in Seq(S) /\ Len(s2) = 1 + Len(s) /\ s2[1] = x /\ Head(s2) = x /\ Tail(s2) = s
      /\ DOMAIN s2 = 1 .. 1 + Len(s) /\ DOMAIN s = 1 .. Len(s)
      /\ \A i \in 1 .. Len(s) : s2[1 + i] = s[i]
      /\ \A i \in 2 .. 1 + Len(s) : s2[i] = s[i - 1]
  BY Before DEF Puts
<1>2. Len(s) \in Nat
  OBVIOUS
<1>3. ASSUME NEW i \in DOMAIN s2, i # 1
      PROVE  i - 1 \in DOMAIN s /\ 1 + (i - 1) = i /\ s2[i] = s[i - 1]
  <2>1. i \in 2 .. 1 + Len(s) /\ i - 1 \in 1 .. Len(s) /\ 1 + (i - 1) = i
    BY <1>1, <1>2, <1>3
  <2>. QED
    BY <1>1, <2>1
<1>. QED
  BY <1>1, <1>2, <1>3 DEF HasBefore

HasAlso(id, x, f, f2) ==
  /\ DOMAIN f2 = {id} \cup DOMAIN f /\ f2[id] = x
  /\ \A k \in DOMAIN f : k # id => f2[k] = f[k]
  /\ f2 = [k \in DOMAIN f2 |-> f2[k]]

\* A function with one more value.
LEMMA OnTopIs ==
  ASSUME NEW id, NEW x, NEW f, NEW f2, OnTop(id, x, f, f2)
  PROVE  HasAlso(id, x, f, f2)
BY DEF OnTop, WithModule, HasAlso

\* Another module is open than before.
LEMMA EnterPublished ==
  ASSUME NEW comp, NEW pub, NEW exp, NEW n, PublishedFits(comp, pub, exp, n),
         NEW id \in Nat \ {0}, id <= n, id \notin DOMAIN pub,
         NEW pub2, OnTop(id, {}, pub, pub2), NEW exp2, OnTop(id, Fresh, exp, exp2)
  PROVE  PublishedFits(comp, pub2, exp2, n) /\ Keeps(comp, pub, comp, pub2)
<1>. DEFINE nothing == {}
            T == [Kinds -> Tables(AllNames, AllArgs)]
<1>0. nothing = {} /\ OnTop(id, nothing, pub, pub2)
  OBVIOUS
<1>. HIDE DEF nothing
<1>1. /\ n \in Nat /\ DOMAIN pub \subseteq 1 .. n
      /\ pub \in [DOMAIN pub -> SUBSET Decls]
      /\ exp \in [DOMAIN pub -> T]
      /\ \A m \in DOMAIN pub :
           /\ \A d \in pub[m] : DeclFits(comp, d) /\ d.dnode <= n
           /\ \A m2 \in DOMAIN pub : pub[m] \cap pub[m2] # {} => m = m2
           /\ \A kind \in Kinds : Shows(kind, exp[m][kind], pub[m])
  BY DEF PublishedFits
<1>2. Fresh \in T
  BY NewTable DEF Fresh
<1>. HIDE DEF T
<1>3. /\ pub2 = [m \in DOMAIN pub2 |-> pub2[m]]
      /\ DOMAIN pub2 = {id} \cup DOMAIN pub /\ pub2[id] = nothing
      /\ \A m \in DOMAIN pub : m # id => pub2[m] = pub[m]
  <2>1. HasAlso(id, nothing, pub, pub2)
    BY <1>0, OnTopIs
  <2>. QED
    BY <2>1 DEF HasAlso
<1>4. DOMAIN exp = DOMAIN pub
  BY <1>1
<1>5. /\ exp2 = [m \in DOMAIN exp2 |-> exp2[m]]
      /\ DOMAIN exp2 = {id} \cup DOMAIN pub /\ exp2[id] = Fresh
      /\ \A m \in DOMAIN pub : m # id => exp2[m] = exp[m]
  <2>. DEFINE fresh == Fresh
  <2>1. fresh = Fresh
    OBVIOUS
  <2>. HIDE DEF fresh
  <2>2. HasAlso(id, fresh, exp, exp2)
    BY <2>1, OnTopIs
  <2>. QED
    BY <1>4, <2>1, <2>2 DEF HasAlso
<1>6. \A m \in DOMAIN pub : pub2[m] = pub[m] /\ exp2[m] = exp[m] /\ pub[m] \in SUBSET Decls
                            /\ exp[m] \in T
  BY <1>1, <1>3, <1>5
<1>7. pub2 \in [DOMAIN pub2 -> SUBSET Decls]
  <2>1. \A m \in DOMAIN pub2 : pub2[m] \in SUBSET Decls
    BY <1>0, <1>3, <1>6
  <2>. QED
    BY <1>3, <2>1
<1>8. exp2 \in [DOMAIN pub2 -> T]
  <2>1. \A m \in DOMAIN pub2 : exp2[m] \in T
    BY <1>2, <1>3, <1>5, <1>6
  <2>. QED
    BY <1>3, <1>5, <2>1
<1>9. DOMAIN pub2 \subseteq 1 .. n
  BY <1>1, <1>3
<1>10. ASSUME NEW m \in DOMAIN pub2
       PROVE  /\ \A d \in pub2[m] : DeclFits(comp, d) /\ d.dnode <= n
              /\ \A m2 \in DOMAIN pub2 : pub2[m] \cap pub2[m2] # {} => m = m2
              /\ \A kind \in Kinds : Shows(kind, exp2[m][kind], pub2[m])
  <2>1. CASE m = id
    <3>1. \A kind \in Kinds : Shows(kind, exp2[m][kind], pub2[m])
      BY <1>0, <1>3, <1>5, <2>1, FreshShows
    <3>. QED
      BY <1>0, <1>3, <2>1, <3>1
  <2>2. CASE m # id
    <3>1. m \in DOMAIN pub
      BY <1>3, <2>2
    <3>2. \A m2 \in DOMAIN pub2 : pub2[m] \cap pub2[m2] # {} => m2 \in DOMAIN pub
      BY <1>0, <1>3
    <3>. QED
      BY <1>1, <1>6, <3>1, <3>2
  <2>. QED
    BY <2>1, <2>2
<1>11. PublishedFits(comp, pub2, exp2, n)
  BY <1>1, <1>7, <1>8, <1>9, <1>10 DEF PublishedFits, T
<1>12. Keeps(comp, pub, comp, pub2)
  BY <1>3, <1>6 DEF Keeps
<1>. QED
  BY <1>11, <1>12

\* A module is opened.
LEMMA EnterModules ==
  ASSUME NEW mods, NEW top, NEW b, NEW enc \in Seq(OpenBlocks), b \in OpenBlocks, NEW n \in Nat,
         ModulesFit(mods, top, enc, n), b.id = top,
         NEW id \in Nat, id <= n, \A i \in DOMAIN mods : mods[i] # id,
         NEW mods2, Puts(id, mods, mods2), NEW enc2, Puts(b, enc, enc2)
  PROVE  ModulesFit(mods2, id, enc2, n)
<1>1. /\ mods \in Seq(Nat) /\ Len(mods) = Len(enc) + 1
      /\ mods[1] = top /\ \A i \in DOMAIN enc : mods[i + 1] = enc[i].id
      /\ mods[Len(mods)] = NONE
      /\ \A i \in DOMAIN mods :
           /\ mods[i] <= n
           /\ \A j \in DOMAIN mods : mods[i] = mods[j] => i = j
  BY DEF ModulesFit
<1>2. /\ mods2 \in Seq(Nat) /\ Len(mods2) = 1 + Len(mods) /\ Len(mods) \in Nat
      /\ mods2[1] = id
      /\ DOMAIN mods2 = 1 .. 1 + Len(mods) /\ DOMAIN mods = 1 .. Len(mods)
      /\ \A i \in DOMAIN mods : mods2[1 + i] = mods[i]
      /\ \A i \in DOMAIN mods2 : i = 1 \/ (i - 1 \in DOMAIN mods /\ 1 + (i - 1) = i
                                           /\ mods2[i] = mods[i - 1])
  <2>. DEFINE S == Nat
  <2>1. mods \in Seq(S) /\ id \in S /\ S = Nat
    BY <1>1
  <2>. HIDE DEF S
  <2>2. HasBefore(S, id, mods, mods2)
    BY <2>1, PutsIs
  <2>. QED
    BY <2>1, <2>2 DEF HasBefore
<1>3. /\ enc2 \in Seq(OpenBlocks) /\ Len(enc2) = 1 + Len(enc) /\ Len(enc) \in Nat
      /\ enc2[1] = b /\ DOMAIN enc2 = 1 .. 1 + Len(enc) /\ DOMAIN enc = 1 .. Len(enc)
      /\ \A i \in DOMAIN enc2 : i = 1 \/ (i - 1 \in DOMAIN enc /\ 1 + (i - 1) = i
                                           /\ enc2[i] = enc[i - 1])
  BY PutsIs DEF HasBefore
<1>4. ASSUME NEW i \in DOMAIN enc2
      PROVE  mods2[i + 1] = enc2[i].id
  <2>1. i \in DOMAIN mods /\ i + 1 = 1 + i
    BY <1>1, <1>2, <1>3
  <2>2. mods2[i + 1] = mods[i]
    BY <1>2, <2>1
  <2>3. CASE i = 1
    BY <1>1, <1>3, <2>2, <2>3
  <2>4. CASE i # 1
    <3>1. i - 1 \in DOMAIN enc /\ (i - 1) + 1 = i /\ enc2[i] = enc[i - 1]
      BY <1>3, <2>4
    <3>2. mods[(i - 1) + 1] = enc[i - 1].id
      BY <1>1, <3>1
    <3>. QED
      BY <2>2, <3>1, <3>2
  <2>. QED
    BY <2>3, <2>4
<1>5. mods2[Len(mods2)] = NONE
  <2>1. Len(mods) \in DOMAIN mods
    BY <1>1, <1>2, <1>3
  <2>. QED
    BY <1>1, <1>2, <2>1
<1>6. \A i \in DOMAIN mods2 : mods2[i] <= n
  BY <1>1, <1>2
<1>7. ASSUME NEW i \in DOMAIN mods2, NEW j \in DOMAIN mods2, mods2[i] = mods2[j]
      PROVE  i = j
  <2>1. CASE i = 1 /\ j = 1
    BY <2>1
  <2>2. CASE i = 1 /\ j # 1
    BY <1>2, <1>7, <2>2
  <2>3. CASE i # 1 /\ j = 1
    BY <1>2, <1>7, <2>3
  <2>4. CASE i # 1 /\ j # 1
    <3>1. i - 1 = j - 1
      BY <1>1, <1>2, <1>7, <2>4
    <3>2. i \in Int /\ j \in Int
      BY <1>2
    <3>. QED
      BY <3>1, <3>2
  <2>. QED
    BY <2>1, <2>2, <2>3, <2>4
<1>8. Len(mods2) = Len(enc2) + 1
  BY <1>1, <1>2, <1>3
<1>. QED
  BY <1>2, <1>4, <1>5, <1>6, <1>7, <1>8 DEF ModulesFit

\* Its surroundings are put aside.
LEMMA EnterEnclosing ==
  ASSUME NEW comp, NEW pub, NEW stack, NEW enc, EnclosingFits(comp, pub, stack, enc),
         NEW ts, NEW b, TopFits(comp, pub, b), NEW bs, bs = <<b>>, TablesFit(ts, bs),
         NEW pub2, Keeps(comp, pub, comp, pub2), \A m \in DOMAIN pub : pub2[m] = pub[m],
         NEW stack2, Puts(ts, stack, stack2), NEW enc2, Puts(b, enc, enc2)
  PROVE  EnclosingFits(comp, pub2, stack2, enc2)
<1>. DEFINE T == [Kinds -> Tables(AllNames, AllArgs)]
<1>0. T = [Kinds -> Tables(AllNames, AllArgs)]
  OBVIOUS
<1>1. /\ enc \in Seq(OpenBlocks) /\ stack \in Seq(T) /\ Len(stack) = Len(enc)
      /\ \A i \in DOMAIN enc :
           /\ TopFits(comp, pub, enc[i])
           /\ \A kind \in Kinds : Agrees(kind, stack[i][kind], <<enc[i]>>)
  BY DEF EnclosingFits
<1>2. b \in OpenBlocks /\ ts \in T
  BY DEF TopFits, BlockFits, TablesFit
<1>. HIDE DEF T
<1>3. /\ enc2 \in Seq(OpenBlocks) /\ Len(enc2) = 1 + Len(enc) /\ Len(enc) \in Nat
      /\ enc2[1] = b /\ DOMAIN enc2 = 1 .. 1 + Len(enc) /\ DOMAIN enc = 1 .. Len(enc)
      /\ \A i \in DOMAIN enc2 : i = 1 \/ (i - 1 \in DOMAIN enc /\ 1 + (i - 1) = i
                                           /\ enc2[i] = enc[i - 1])
  BY <1>1, <1>2, PutsIs DEF HasBefore
<1>4. /\ stack2 \in Seq(T) /\ Len(stack2) = 1 + Len(stack)
      /\ stack2[1] = ts /\ DOMAIN stack = 1 .. Len(stack)
      /\ \A i \in DOMAIN stack : stack2[1 + i] = stack[i]
  BY <1>1, <1>2, PutsIs DEF HasBefore
<1>5. \A c : TopFits(comp, pub, c) => TopFits(comp, pub2, c)
  <2>. TAKE c
  <2>. HAVE TopFits(comp, pub, c)
  <2>1. c.construct = "module" => pub2[c.id] = pub[c.id]
    BY DEF TopFits
  <2>. QED
    BY <2>1, TopKeeps
<1>6. ASSUME NEW i \in DOMAIN enc2
      PROVE  /\ TopFits(comp, pub2, enc2[i])
             /\ \A kind \in Kinds : Agrees(kind, stack2[i][kind], <<enc2[i]>>)
  <2>1. CASE i = 1
    <3>1. \A kind \in Kinds : Agrees(kind, ts[kind], <<b>>)
      BY TablesOf
    <3>. QED
      BY <1>3, <1>4, <1>5, <2>1, <3>1
  <2>2. CASE i # 1
    <3>1. i - 1 \in DOMAIN enc /\ enc2[i] = enc[i - 1] /\ stack2[i] = stack[i - 1]
      BY <1>1, <1>3, <1>4, <2>2
    <3>. QED
      BY <1>1, <1>5, <3>1
  <2>. QED
    BY <2>1, <2>2
<1>. QED
  BY <1>0, <1>1, <1>3, <1>4, <1>6 DEF EnclosingFits

\* A module whose block is opened with its name.
LEMMA ModuleBlockFits ==
  ASSUME NEW comp, NEW pub, NEW id \in Nat \ {0}, id \in DOMAIN pub,
         NEW none, none = {}, pub[id] = none, NEW b, b = Block("module", id), NEW bs, bs = <<b>>
  PROVE  /\ BlocksFit(comp, pub, bs) /\ b \in OpenBlocks /\ b.own = none /\ b.imports = none
         /\ b.construct = "module" /\ b.id = id
         /\ bs \in Seq(OpenBlocks) /\ bs # << >> /\ Len(bs) = 1 /\ Head(bs) = b
<1>1. /\ b.construct = "module" /\ b.id = id /\ b.own = none /\ b.imports = none
      /\ b.uses = none
  BY DEF Block
<1>2. b \in OpenBlocks
  BY DEF Block, OpenBlocks
<1>3. BlockFits(comp, pub, b)
  BY <1>1, <1>2 DEF BlockFits
<1>4. \A kind, name, args : Of(none, kind, name, args) = none
  BY DEF Of
<1>5. TopFits(comp, pub, b)
  BY <1>1, <1>3, <1>4 DEF TopFits, NONE
<1>6. bs \in Seq(OpenBlocks) /\ bs # << >> /\ Len(bs) = 1 /\ Head(bs) = b /\ bs[1] = b
      /\ DOMAIN bs = {1}
  BY <1>2
<1>7. BlocksFit(comp, pub, bs)
  BY <1>1, <1>3, <1>5, <1>6 DEF BlocksFit
<1>. QED
  BY <1>1, <1>2, <1>6, <1>7

Opened(comp, pub, d, id, ts2, bs2) ==
  /\ BlocksFit(comp, pub, bs2) /\ TablesFit(ts2, bs2)
  /\ Len(bs2) = 1 /\ bs2[Len(bs2)].id = id /\ bs2[1].construct = "module"

\* The tables and the block of a new module, with its name, fit.
LEMMA OpenedFits ==
  ASSUME NEW comp, NEW pub, NEW id \in Nat \ {0}, id \in DOMAIN pub, pub[id] = {},
         NEW name \in AllNames, NEW d, d = Decl("vartab", name, NoArgs, id), DeclFits(comp, d),
         NEW ts2, Sets(Fresh, "vartab", Declared(Fresh["vartab"], name, NoArgs, id), ts2),
         NEW bs2, bs2 = With(<<Block("module", id)>>, {d}, {}, {})
  PROVE  Opened(comp, pub, d, id, ts2, bs2)
<1>. DEFINE none == {}
            one == {d}
            b == Block("module", id)
            bs == <<b>>
            kind == "vartab"
<1>1. /\ none = {} /\ one = {d} /\ b = Block("module", id) /\ bs = <<b>> /\ kind = "vartab"
      /\ bs2 = With(bs, one, none, none) /\ pub[id] = none
  OBVIOUS
<1>2. /\ kind \in Kinds /\ d.kind = kind /\ kind # "operators" /\ NoArgs \in AllArgs
      /\ d = Decl(kind, name, NoArgs, id) /\ kind # "typetab"
      /\ Sets(Fresh, kind, Declared(Fresh[kind], name, NoArgs, id), ts2)
  BY DEF Kinds, Decl, AllArgs
<1>. HIDE DEF none, one, b, bs, kind
<1>3. /\ BlocksFit(comp, pub, bs) /\ b \in OpenBlocks /\ b.own = none /\ b.imports = none
      /\ b.construct = "module" /\ b.id = id
      /\ bs \in Seq(OpenBlocks) /\ bs # << >> /\ Len(bs) = 1 /\ Head(bs) = b
  BY <1>1, ModuleBlockFits
<1>4. TablesFit(Fresh, bs)
  BY <1>1, <1>3, FreshFits
<1>5. Own(bs, 1, kind, name, NoArgs) = {}
  <2>1. bs[1].own = {}
    BY <1>1, <1>3
  <2>. QED
    BY <2>1 DEF Own, Of
<1>6. d \in Decls
  BY DEF DeclFits
<1>7. TablesFit(ts2, bs2)
  <2>1. bs2 = With(bs, {d}, {}, {})
    BY <1>1
  <2>. QED
    BY <1>2, <1>3, <1>4, <1>5, <1>6, <2>1, TablesDeclare
<1>8. AdditionsFit(comp, pub, pub, one, none, none)
  BY <1>1, <1>6 DEF AdditionsFit, Additions
<1>9. ShowsIn(b, pub, pub, none)
  BY DEF ShowsIn
<1>10. ShowsRight(b, one, pub, none)
  BY <1>1, <1>2 DEF ShowsRight
<1>11. BlocksFit(comp, pub, bs2) /\ Alike(bs, bs2)
  BY <1>1, <1>3, <1>8, <1>9, <1>10, BlocksGrow
<1>12. Len(bs2) = 1 /\ bs2[Len(bs2)].id = id /\ bs2[1].construct = "module"
  <2>1. bs[1] = b /\ DOMAIN bs = {1}
    BY <1>1
  <2>2. Len(bs2) = 1 /\ 1 \in DOMAIN bs2
    BY <1>3, <1>11, BlocksAre DEF Alike
  <2>3. bs2[Len(bs2)].id = bs[Len(bs)].id /\ \A i \in DOMAIN bs2 : bs2[i].construct = bs[i].construct
    BY <1>11 DEF Alike
  <2>4. bs2[1].construct = bs[1].construct
    BY <2>2, <2>3
  <2>5. bs[1].construct = "module" /\ bs[Len(bs)].id = id
    BY <1>3, <2>1
  <2>. QED
    BY <2>2, <2>3, <2>4, <2>5
<1>. QED
  BY <1>7, <1>11, <1>12 DEF Opened

NotAmong(id, mods) == \A i \in DOMAIN mods : mods[i] # id
OpensModule(id, d, bs) == bs = With(<<Block("module", id)>>, {d}, {}, {})
Outside(cs) == \A j \in DOMAIN cs : j \in Nat /\ cs[j].construct # "function"

\* No file minds a block that is no function.
LEMMA FilesOutside ==
  ASSUME NEW fs, NEW bs, NEW depth \in Nat, FilesFit(fs, bs, depth), NEW cs, Outside(cs)
  PROVE  FilesFit(fs, cs, depth + 1)
<1>1. /\ fs \in Seq([name : ModuleNames, is_use : BOOLEAN, depth : Nat])
      /\ \A i \in DOMAIN fs : fs[i].depth <= depth
  BY DEF FilesFit
<1>2. \A i \in DOMAIN fs : fs[i].depth <= depth + 1
  <2>1. \A i \in DOMAIN fs : fs[i].depth \in Nat
    BY <1>1, DepthsAre
  <2>. QED
    BY <1>1, <2>1
<1>3. \A j \in DOMAIN cs : j \in Nat
  BY DEF Outside
<1>4. ASSUME NEW j \in DOMAIN cs, cs[j].construct = "function"
      PROVE  FALSE
  BY <1>4 DEF Outside
<1>5. depth + 1 \in Nat
  OBVIOUS
<1>. QED
  BY <1>2, <1>3, <1>4, <1>5, FilesStay

\* A module begins, with its name among what is around it.
LEMMA OpenFits ==
  ASSUME NEW ts, NEW stack, NEW mods, NEW comp, NEW exp, NEW fs, NEW bs, NEW enc, NEW pub,
         NEW n, Consistent(ts, stack, mods, comp, exp, fs, bs, enc, pub, n),
         NEW b, b = Head(bs), b.construct \in {"program", "module"},
         NEW id \in Nat \ {0}, id = n, id \notin DOMAIN pub, NotAmong(id, mods),
         NEW name \in ModuleNames, NEW d, d = Decl("vartab", name, NoArgs, id),
         DeclFits(comp, d),
         NEW ts2, Sets(Fresh, "vartab", Declared(Fresh["vartab"], name, NoArgs, id), ts2),
         NEW stack2, Puts(ts, stack, stack2), NEW mods2, Puts(id, mods, mods2),
         NEW exp2, OnTop(id, Fresh, exp, exp2),
         NEW bs2, OpensModule(id, d, bs2),
         NEW enc2, Puts(b, enc, enc2), NEW pub2, OnTop(id, {}, pub, pub2)
  PROVE  /\ Consistent(ts2, stack2, mods2, comp, exp2, fs, bs2, enc2, pub2, n)
         /\ DOMAIN pub2 = {id} \cup DOMAIN pub
<1>0. /\ BlocksFit(comp, pub, bs) /\ TablesFit(ts, bs) /\ EnclosingFits(comp, pub, stack, enc)
      /\ ModulesFit(mods, bs[Len(bs)].id, enc, n) /\ PublishedFits(comp, pub, exp, n)
      /\ FilesFit(fs, bs, Len(enc) + Len(bs))
  BY DEF Consistent
<1>1. /\ Len(bs) = 1 /\ TopFits(comp, pub, b) /\ bs[Len(bs)] = b
      /\ bs \in Seq(OpenBlocks) /\ bs # << >> /\ n \in Nat /\ Len(enc) \in Nat
  BY AtTop, SomeTyping
<1>2. bs = <<b>> /\ bs[Len(bs)].id = b.id
  BY <1>1
<1>3. PublishedFits(comp, pub2, exp2, n) /\ Keeps(comp, pub, comp, pub2)
  BY <1>0, <1>1, EnterPublished
<1>4. /\ DOMAIN pub2 = {id} \cup DOMAIN pub /\ pub2[id] = {}
      /\ \A m \in DOMAIN pub : pub2[m] = pub[m]
  <2>. DEFINE none == {}
  <2>1. none = {} /\ OnTop(id, none, pub, pub2)
    OBVIOUS
  <2>. HIDE DEF none
  <2>2. HasAlso(id, none, pub, pub2)
    BY <2>1, OnTopIs
  <2>. QED
    BY <2>1, <2>2 DEF HasAlso
<1>5. EnclosingFits(comp, pub2, stack2, enc2)
  BY <1>0, <1>1, <1>2, <1>3, <1>4, EnterEnclosing
<1>6. enc \in Seq(OpenBlocks) /\ b \in OpenBlocks
  BY <1>0, <1>1 DEF EnclosingFits, TopFits, BlockFits
<1>7. ModulesFit(mods2, id, enc2, n)
  BY <1>0, <1>1, <1>2, <1>6, EnterModules DEF NotAmong
<1>8. name \in AllNames
  BY DEF AllNames
<1>9. Opened(comp, pub2, d, id, ts2, bs2)
  <2>1. bs2 = With(<<Block("module", id)>>, {d}, {}, {})
    BY DEF OpensModule
  <2>. QED
    BY <1>4, <1>8, <2>1, OpenedFits
<1>10. /\ BlocksFit(comp, pub2, bs2) /\ TablesFit(ts2, bs2)
       /\ Len(bs2) = 1 /\ bs2[Len(bs2)].id = id /\ bs2[1].construct = "module"
  BY <1>9 DEF Opened
<1>11. Len(enc2) = 1 + Len(enc)
  <2>. DEFINE S == OpenBlocks
  <2>1. S = OpenBlocks
    OBVIOUS
  <2>. HIDE DEF S
  <2>2. HasBefore(S, b, enc, enc2)
    BY <1>6, <2>1, PutsIs
  <2>. QED
    BY <2>2 DEF HasBefore
<1>12. FilesFit(fs, bs2, Len(enc2) + Len(bs2))
  <2>1. Outside(bs2)
    BY <1>10, BlocksAre DEF Outside
  <2>. DEFINE depth == Len(enc) + Len(bs)
  <2>2. depth \in Nat /\ Len(enc2) + Len(bs2) = depth + 1 /\ depth = Len(enc) + Len(bs)
    BY <1>1, <1>10, <1>11
  <2>. HIDE DEF depth
  <2>3. FilesFit(fs, bs, depth)
    BY <1>0, <2>2
  <2>4. FilesFit(fs, bs2, depth + 1)
    BY <2>1, <2>2, <2>3, FilesOutside
  <2>. QED
    BY <2>2, <2>4
<1>13. Consistent(ts2, stack2, mods2, comp, exp2, fs, bs2, enc2, pub2, n)
  BY <1>3, <1>5, <1>7, <1>10, <1>12 DEF Consistent
<1>. QED
  BY <1>4, <1>13

\* The first of what there is, and the rest.
Pops(s, x, s2) == x = Head(s) /\ s2 = Tail(s)

HasAfter(S, s, x, s2) ==
  /\ s2 \in Seq(S) /\ x \in S /\ Len(s) = 1 + Len(s2) /\ x = s[1] /\ Len(s2) \in Nat
  /\ DOMAIN s = 1 .. Len(s) /\ DOMAIN s2 = 1 .. Len(s2) /\ 1 \in DOMAIN s
  /\ \A i \in DOMAIN s2 : i \in Nat /\ i + 1 \in DOMAIN s /\ s2[i] = s[i + 1]

\* What is left of a sequence, and where.
LEMMA PopsIs ==
  ASSUME NEW S, NEW s \in Seq(S), s # << >>, NEW x, NEW s2, Pops(s, x, s2)
  PROVE  HasAfter(S, s, x, s2)
<1>1. x = Head(s) /\ s2 = Tail(s)
  BY DEF Pops
<1>2. s2 \in Seq(S) /\ x \in S /\ Len(s) = 1 + Len(s2) /\ x = s[1] /\ Len(s2) \in Nat
  BY <1>1
<1>3. DOMAIN s = 1 .. Len(s) /\ DOMAIN s2 = 1 .. Len(s2) /\ 1 \in DOMAIN s
  BY <1>1, <1>2
<1>4. \A i \in DOMAIN s2 : i \in Nat /\ i + 1 \in DOMAIN s /\ s2[i] = s[i + 1]
  BY <1>1, <1>2, <1>3
<1>. QED
  BY <1>2, <1>3, <1>4 DEF HasAfter

\* Numbers with one added.
LEMMA OneMore ==
  ASSUME NEW a \in Nat, NEW b \in Nat
  PROVE  /\ 1 + a = 1 + b => a = b
         /\ 1 + a = (1 + b) + 1 => a = b + 1
OBVIOUS

\* A module is closed.
LEMMA LeaveModules ==
  ASSUME NEW mods, NEW top, NEW enc \in Seq(OpenBlocks), NEW n, ModulesFit(mods, top, enc, n),
         NEW b, NEW enc2, Pops(enc, b, enc2), NEW m, NEW mods2, Pops(mods, m, mods2),
         top # NONE
  PROVE  enc # << >> /\ ModulesFit(mods2, b.id, enc2, n)
<1>1. /\ mods \in Seq(Nat) /\ Len(mods) = Len(enc) + 1
      /\ mods[1] = top /\ \A i \in DOMAIN enc : mods[i + 1] = enc[i].id
      /\ mods[Len(mods)] = NONE
      /\ \A i \in DOMAIN mods :
           /\ mods[i] <= n
           /\ \A j \in DOMAIN mods : mods[i] = mods[j] => i = j
  BY DEF ModulesFit
<1>2. enc # << >>
  BY <1>1
<1>. DEFINE S == Nat
<1>3. S = Nat /\ mods \in Seq(S) /\ mods # << >>
  BY <1>1
<1>. HIDE DEF S
<1>4. HasAfter(S, mods, m, mods2)
  BY <1>3, PopsIs
<1>5. HasAfter(OpenBlocks, enc, b, enc2)
  BY <1>2, PopsIs
<1>6. /\ mods2 \in Seq(S) /\ Len(mods) = 1 + Len(mods2) /\ Len(mods2) \in Nat
      /\ DOMAIN mods2 = 1 .. Len(mods2)
      /\ \A i \in DOMAIN mods2 : i \in Nat /\ i + 1 \in DOMAIN mods /\ mods2[i] = mods[i + 1]
  BY <1>4 DEF HasAfter
<1>7. /\ enc2 \in Seq(OpenBlocks) /\ Len(enc) = 1 + Len(enc2) /\ b = enc[1] /\ Len(enc2) \in Nat
      /\ 1 \in DOMAIN enc /\ DOMAIN enc2 = 1 .. Len(enc2)
      /\ \A i \in DOMAIN enc2 : i \in Nat /\ i + 1 \in DOMAIN enc /\ enc2[i] = enc[i + 1]
  BY <1>5 DEF HasAfter
<1>8. Len(mods2) = Len(enc2) + 1
  <2>1. 1 + Len(mods2) = (1 + Len(enc2)) + 1
    BY <1>1, <1>6, <1>7
  <2>2. Len(mods2) \in Nat /\ Len(enc2) \in Nat
    BY <1>6, <1>7
  <2>. QED
    BY <2>1, <2>2, OneMore
<1>9. 1 \in DOMAIN mods2 /\ Len(mods2) \in DOMAIN mods2
  BY <1>6, <1>7, <1>8
<1>10. mods2[1] = b.id
  <2>1. mods2[1] = mods[1 + 1]
    BY <1>6, <1>9
  <2>. QED
    BY <1>1, <1>7, <2>1
<1>11. ASSUME NEW i \in DOMAIN enc2
       PROVE  mods2[i + 1] = enc2[i].id
  <2>1. i + 1 \in DOMAIN mods2
    BY <1>6, <1>7, <1>8
  <2>2. mods2[i + 1] = mods[(i + 1) + 1]
    BY <1>6, <2>1
  <2>3. mods[(i + 1) + 1] = enc[i + 1].id
    BY <1>1, <1>7
  <2>. QED
    BY <1>7, <2>2, <2>3
<1>12. mods2[Len(mods2)] = NONE
  <2>1. mods2[Len(mods2)] = mods[Len(mods2) + 1]
    BY <1>6, <1>9
  <2>2. Len(mods2) + 1 = Len(mods)
    BY <1>6
  <2>. QED
    BY <1>1, <2>1, <2>2
<1>13. ASSUME NEW i \in DOMAIN mods2
       PROVE  /\ mods2[i] <= n
              /\ \A j \in DOMAIN mods2 : mods2[i] = mods2[j] => i = j
  <2>1. mods2[i] <= n
    BY <1>1, <1>6
  <2>2. ASSUME NEW j \in DOMAIN mods2, mods2[i] = mods2[j]
        PROVE  i = j
    <3>1. i + 1 = j + 1
      BY <1>1, <1>6, <2>2
    <3>. QED
      BY <1>6, <3>1
  <2>. QED
    BY <2>1, <2>2
<1>. QED
  BY <1>2, <1>3, <1>6, <1>8, <1>10, <1>11, <1>12, <1>13 DEF ModulesFit

\* Its surroundings are back.
LEMMA LeaveEnclosing ==
  ASSUME NEW comp, NEW pub, NEW stack, NEW enc, EnclosingFits(comp, pub, stack, enc),
         enc # << >>, NEW b, NEW enc2, Pops(enc, b, enc2), NEW ts, NEW stack2,
         Pops(stack, ts, stack2), NEW bs, bs = <<b>>
  PROVE  /\ EnclosingFits(comp, pub, stack2, enc2) /\ TopFits(comp, pub, b)
         /\ TablesFit(ts, bs) /\ Len(enc) = 1 + Len(enc2) /\ Len(enc2) \in Nat
<1>. DEFINE T == [Kinds -> Tables(AllNames, AllArgs)]
<1>0. T = [Kinds -> Tables(AllNames, AllArgs)]
  OBVIOUS
<1>1. /\ enc \in Seq(OpenBlocks) /\ stack \in Seq(T) /\ Len(stack) = Len(enc)
      /\ \A i \in DOMAIN enc :
           /\ TopFits(comp, pub, enc[i])
           /\ \A kind \in Kinds : Agrees(kind, stack[i][kind], <<enc[i]>>)
  BY DEF EnclosingFits
<1>2. stack # << >>
  BY <1>1
<1>. HIDE DEF T
<1>3. HasAfter(OpenBlocks, enc, b, enc2)
  BY <1>1, PopsIs
<1>4. HasAfter(T, stack, ts, stack2)
  BY <1>1, <1>2, PopsIs
<1>5. /\ enc2 \in Seq(OpenBlocks) /\ Len(enc) = 1 + Len(enc2) /\ b = enc[1] /\ Len(enc2) \in Nat
      /\ 1 \in DOMAIN enc /\ DOMAIN enc2 = 1 .. Len(enc2)
      /\ \A i \in DOMAIN enc2 : i \in Nat /\ i + 1 \in DOMAIN enc /\ enc2[i] = enc[i + 1]
  BY <1>3 DEF HasAfter
<1>6. /\ stack2 \in Seq(T) /\ ts \in T /\ Len(stack) = 1 + Len(stack2) /\ ts = stack[1]
      /\ Len(stack2) \in Nat /\ DOMAIN stack2 = 1 .. Len(stack2)
      /\ \A i \in DOMAIN stack2 : stack2[i] = stack[i + 1]
  BY <1>4 DEF HasAfter
<1>7. Len(stack2) = Len(enc2) /\ DOMAIN stack2 = DOMAIN enc2
  <2>1. 1 + Len(stack2) = 1 + Len(enc2)
    BY <1>1, <1>5, <1>6
  <2>3. Len(stack2) \in Nat /\ Len(enc2) \in Nat
    BY <1>5, <1>6
  <2>2. Len(stack2) = Len(enc2)
    BY <2>1, <2>3, OneMore
  <2>. QED
    BY <1>5, <1>6, <2>2
<1>8. ASSUME NEW i \in DOMAIN enc2
      PROVE  /\ TopFits(comp, pub, enc2[i])
             /\ \A kind \in Kinds : Agrees(kind, stack2[i][kind], <<enc2[i]>>)
  BY <1>1, <1>5, <1>6, <1>7
<1>9. EnclosingFits(comp, pub, stack2, enc2)
  BY <1>0, <1>5, <1>6, <1>7, <1>8 DEF EnclosingFits
<1>10. TopFits(comp, pub, b)
  BY <1>1, <1>5
<1>11. TablesFit(ts, bs)
  <2>1. \A kind \in Kinds : Agrees(kind, ts[kind], bs)
    BY <1>1, <1>5, <1>6
  <2>2. ~ Len(bs) > 1
    OBVIOUS
  <2>3. \A kind \in Kinds : AgreesToTheEnd(kind, ts[kind], bs)
    BY <2>1, <2>2, HoldsOne
  <2>. QED
    BY <1>0, <1>6, <2>3 DEF TablesFit
<1>. QED
  BY <1>5, <1>9, <1>10, <1>11

\* Files were opened in the module or around it.
LEMMA FilesInside ==
  ASSUME NEW fs, NEW bs, NEW depth \in Nat, FilesFit(fs, bs, depth + 1),
         \A i \in DOMAIN fs : fs[i].depth <= depth, NEW cs, Outside(cs)
  PROVE  FilesFit(fs, cs, depth)
<1>1. \A j \in DOMAIN cs : j \in Nat
  BY DEF Outside
<1>2. ASSUME NEW j \in DOMAIN cs, cs[j].construct = "function"
      PROVE  FALSE
  BY <1>2 DEF Outside
<1>3. depth + 1 \in Nat
  OBVIOUS
<1>. QED
  BY <1>1, <1>2, <1>3, FilesStay

\* A module ends; no file that is being read was opened in it.
LEMMA CloseFits ==
  ASSUME NEW ts, NEW stack, NEW mods, NEW comp, NEW exp, NEW fs, NEW bs, NEW enc, NEW pub,
         NEW n, Fit(ts, stack, mods, comp, exp, fs, bs, enc, pub, n),
         Head(bs).construct = "module", ~ (fs # << >> /\ Head(fs).depth = Len(enc) + Len(bs)),
         NEW ts2, NEW stack2, Pops(stack, ts2, stack2), NEW m, NEW mods2, Pops(mods, m, mods2),
         NEW b, NEW enc2, Pops(enc, b, enc2), NEW bs2, bs2 = <<b>>
  PROVE  Fit(ts2, stack2, mods2, comp, exp, fs, bs2, enc2, pub, n)
<1>0. /\ BlocksFit(comp, pub, bs) /\ TablesFit(ts, bs) /\ EnclosingFits(comp, pub, stack, enc)
      /\ ModulesFit(mods, bs[Len(bs)].id, enc, n) /\ PublishedFits(comp, pub, exp, n)
      /\ FilesFit(fs, bs, Len(enc) + Len(bs)) /\ CompiledFit(comp, pub)
      /\ Consistent(ts, stack, mods, comp, exp, fs, bs, enc, pub, n)
  BY DEF Consistent, Fit
<1>1. /\ Len(bs) = 1 /\ TopFits(comp, pub, Head(bs)) /\ bs[Len(bs)] = Head(bs)
      /\ n \in Nat /\ Len(enc) \in Nat /\ Head(mods) # NONE /\ Head(mods) = Head(bs).id
  BY <1>0, AtTop, SomeTyping
<1>2. enc \in Seq(OpenBlocks)
  BY <1>0 DEF EnclosingFits
<1>3. enc # << >> /\ ModulesFit(mods2, b.id, enc2, n)
  <2>1. bs[Len(bs)].id # NONE
    BY <1>1
  <2>. QED
    BY <1>0, <1>2, <2>1, LeaveModules
<1>4. /\ EnclosingFits(comp, pub, stack2, enc2) /\ TopFits(comp, pub, b)
      /\ TablesFit(ts2, bs2) /\ Len(enc) = 1 + Len(enc2) /\ Len(enc2) \in Nat
  BY <1>0, <1>3, LeaveEnclosing
<1>5. b \in OpenBlocks /\ BlockFits(comp, pub, b) /\ b.construct \in {"program", "module"}
  BY <1>4 DEF TopFits, BlockFits
<1>6. bs2 \in Seq(OpenBlocks) /\ bs2 # << >> /\ Len(bs2) = 1 /\ bs2[1] = b /\ DOMAIN bs2 = {1}
  BY <1>5
<1>7. BlocksFit(comp, pub, bs2)
  BY <1>4, <1>5, <1>6 DEF BlocksFit
<1>8. bs2[Len(bs2)].id = b.id
  BY <1>6
<1>9. FilesFit(fs, bs2, Len(enc2) + Len(bs2))
  <2>. DEFINE depth == Len(enc2) + Len(bs2)
  <2>1. depth \in Nat /\ Len(enc) + Len(bs) = depth + 1 /\ depth = Len(enc2) + Len(bs2)
    BY <1>1, <1>4, <1>6
  <2>. HIDE DEF depth
  <2>2. FilesFit(fs, bs, depth + 1) /\ ~ (fs # << >> /\ Head(fs).depth = depth + 1)
    BY <1>0, <2>1
  <2>3. \A i \in DOMAIN fs : fs[i].depth <= depth
    BY <2>1, <2>2, FilesAround
  <2>4. Outside(bs2)
    BY <1>5, <1>6 DEF Outside
  <2>5. FilesFit(fs, bs2, depth)
    BY <2>1, <2>2, <2>3, <2>4, FilesInside
  <2>. QED
    BY <2>1, <2>5
<1>10. Consistent(ts2, stack2, mods2, comp, exp, fs, bs2, enc2, pub, n)
  BY <1>0, <1>3, <1>4, <1>7, <1>8, <1>9 DEF Consistent
<1>. QED
  BY <1>0, <1>10 DEF Fit

---------------------------------------------------------------------------
\* Files; the state as a whole.

\* A file is opened outside of functions.
LEMMA FilesOpen ==
  ASSUME NEW fs, NEW bs \in Seq(OpenBlocks), NEW depth \in Nat, FilesFit(fs, bs, depth),
         ~InFunction(bs), NEW f, f \in [name : ModuleNames, is_use : BOOLEAN, depth : Nat],
         f.depth = depth, NEW fs2, Puts(f, fs, fs2)
  PROVE  FilesFit(fs2, bs, depth)
<1>. DEFINE F == [name : ModuleNames, is_use : BOOLEAN, depth : Nat]
<1>0. F = [name : ModuleNames, is_use : BOOLEAN, depth : Nat] /\ f.depth \in Nat
  OBVIOUS
<1>1. /\ fs \in Seq(F) /\ f \in F
      /\ \A i \in DOMAIN fs :
           /\ fs[i].depth <= depth
           /\ \A j \in DOMAIN fs : i <= j => fs[j].depth <= fs[i].depth
  BY DEF FilesFit
<1>. HIDE DEF F
<1>2. HasBefore(F, f, fs, fs2)
  BY <1>1, PutsIs
<1>3. /\ fs2 \in Seq(F) /\ fs2[1] = f
      /\ DOMAIN fs2 = 1 .. 1 + Len(fs) /\ DOMAIN fs = 1 .. Len(fs)
      /\ \A i \in DOMAIN fs2 : i = 1 \/ (i - 1 \in DOMAIN fs /\ 1 + (i - 1) = i
                                         /\ fs2[i] = fs[i - 1])
  BY <1>2 DEF HasBefore
<1>4. \A j \in DOMAIN bs : bs[j].construct # "function"
  BY DEF InFunction
<1>5. \A i \in DOMAIN fs2 : fs2[i].depth <= depth
  BY <1>1, <1>3
<1>6. ASSUME NEW i \in DOMAIN fs2, NEW j \in DOMAIN fs2, i <= j
      PROVE  fs2[j].depth <= fs2[i].depth
  <2>1. CASE i = 1
    BY <1>3, <1>5, <2>1
  <2>2. CASE i # 1
    <3>1. j # 1 /\ i - 1 <= j - 1
      BY <1>3, <1>6, <2>2
    <3>. QED
      BY <1>1, <1>3, <2>2, <3>1
  <2>. QED
    BY <2>1, <2>2
<1>. QED
  BY <1>0, <1>3, <1>4, <1>5, <1>6 DEF FilesFit

\* The innermost file ends.
LEMMA FilesClose ==
  ASSUME NEW fs, NEW bs, NEW depth, FilesFit(fs, bs, depth), fs # << >>,
         NEW f, NEW fs2, Pops(fs, f, fs2)
  PROVE  FilesFit(fs2, bs, depth)
<1>. DEFINE F == [name : ModuleNames, is_use : BOOLEAN, depth : Nat]
<1>0. F = [name : ModuleNames, is_use : BOOLEAN, depth : Nat]
  OBVIOUS
<1>1. /\ fs \in Seq(F)
      /\ \A i \in DOMAIN fs :
           /\ fs[i].depth <= depth
           /\ \A j \in DOMAIN bs :
                depth + 1 - j <= fs[i].depth => bs[j].construct # "function"
           /\ \A j \in DOMAIN fs : i <= j => fs[j].depth <= fs[i].depth
  BY DEF FilesFit
<1>. HIDE DEF F
<1>2. HasAfter(F, fs, f, fs2)
  BY <1>1, PopsIs
<1>3. /\ fs2 \in Seq(F)
      /\ \A i \in DOMAIN fs2 : i \in Nat /\ i + 1 \in DOMAIN fs /\ fs2[i] = fs[i + 1]
  BY <1>2 DEF HasAfter
<1>4. \A i \in DOMAIN fs2, j \in DOMAIN fs2 : i <= j => fs2[j].depth <= fs2[i].depth
  <2>1. \A i \in DOMAIN fs2, j \in DOMAIN fs2 : i <= j => i + 1 <= j + 1
    BY <1>3
  <2>. QED
    BY <1>1, <1>3, <2>1
<1>. QED
  BY <1>0, <1>1, <1>3, <1>4 DEF FilesFit

---------------------------------------------------------------------------
\* A file is opened, or the innermost is closed.
LEMMA FileOpens ==
  ASSUME NEW ts, NEW stack, NEW mods, NEW comp, NEW exp, NEW fs, NEW bs, NEW enc, NEW pub,
         NEW n, Fit(ts, stack, mods, comp, exp, fs, bs, enc, pub, n), ~InFunction(bs),
         NEW name \in ModuleNames, NEW is_use \in BOOLEAN,
         NEW f, f = [name |-> name, is_use |-> is_use, depth |-> Len(enc) + Len(bs)],
         NEW fs2, Puts(f, fs, fs2)
  PROVE  Fit(ts, stack, mods, comp, exp, fs2, bs, enc, pub, n)
<1>0. /\ Consistent(ts, stack, mods, comp, exp, fs, bs, enc, pub, n)
      /\ FilesFit(fs, bs, Len(enc) + Len(bs))
  BY DEF Consistent, Fit
<1>. DEFINE depth == Len(enc) + Len(bs)
<1>1. depth = Len(enc) + Len(bs) /\ depth \in Nat /\ bs \in Seq(OpenBlocks)
  BY <1>0, SomeTyping
<1>. HIDE DEF depth
<1>2. f \in [name : ModuleNames, is_use : BOOLEAN, depth : Nat] /\ f.depth = depth
  BY <1>1
<1>3. FilesFit(fs2, bs, depth)
  BY <1>0, <1>1, <1>2, FilesOpen
<1>. QED
  BY <1>1, <1>3 DEF Fit, Consistent

\* So the state fits as it ends.
LEMMA FileCloses ==
  ASSUME NEW ts, NEW stack, NEW mods, NEW comp, NEW exp, NEW fs, NEW bs, NEW enc, NEW pub,
         NEW n, Fit(ts, stack, mods, comp, exp, fs, bs, enc, pub, n),
         fs # << >>, NEW f, NEW fs2, Pops(fs, f, fs2)
  PROVE  Fit(ts, stack, mods, comp, exp, fs2, bs, enc, pub, n)
<1>1. FilesFit(fs2, bs, Len(enc) + Len(bs))
  BY FilesClose DEF Fit, Consistent
<1>. QED
  BY <1>1 DEF Fit, Consistent

\* A declaration that is not refused.
LEMMA DeclareFit ==
  ASSUME NEW ts, NEW stack, NEW mods, NEW comp, NEW exp, NEW fs, NEW bs, NEW enc, NEW pub,
         NEW n, Fit(ts, stack, mods, comp, exp, fs, bs, enc, pub, n),
         NEW kind \in Kinds, NEW name \in AllNames, NEW args \in AllArgs,
         kind # "operators" => args = NoArgs,
         NEW d, d = Decl(kind, name, args, n + 1), DeclFits(comp, d),
         kind # "operators" => Own(bs, 1, kind, name, args) = {},
         NEW ts2, Sets(ts, kind, Declared(ts[kind], name, args, n + 1), ts2),
         NEW bs2, bs2 = With(bs, {d}, {}, {}),
         NEW pub2, ShowsToo(Head(bs), pub, d, pub2),
         NEW exp2, ExportsToo(Head(bs), exp, kind, name, args, n + 1, exp2)
  PROVE  Fit(ts2, stack, mods, comp, exp2, fs, bs2, enc, pub2, n + 1)
<1>1. Consistent(ts, stack, mods, comp, exp, fs, bs, enc, pub, n)
  BY DEF Fit
<1>2. DOMAIN pub2 = DOMAIN pub /\ Consistent(ts2, stack, mods, comp, exp2, fs, bs2, enc, pub2, n + 1)
  BY <1>1, DeclareFits
<1>. QED
  BY <1>2 DEF Fit, CompiledFit

\* The compiler begins.
LEMMA StartFits ==
  Fit(Fresh, << >>, <<NONE>>, new_vartab, << >>, << >>, <<Block("program", NONE)>>,
      << >>, << >>, 0)
<1>. DEFINE b == Block("program", NONE)
            bs == <<b>>
            none == << >>
            mods == <<NONE>>
            zero == 0
<1>1. b \in OpenBlocks /\ b.construct = "program" /\ b.id = NONE /\ b.own = {}
      /\ b.imports = {} /\ b.uses = {}
  BY DEF Block, OpenBlocks, NONE
<1>2. /\ bs \in Seq(OpenBlocks) /\ bs # << >> /\ Len(bs) = 1 /\ bs[1] = b /\ DOMAIN bs = {1}
      /\ bs = <<b>>
  BY <1>1
<1>3. none = << >> /\ DOMAIN none = {} /\ Len(none) = 0 /\ zero = 0
      /\ \A S : none \in Seq(S)
  OBVIOUS
<1>4. mods \in Seq(Nat) /\ Len(mods) = 1 /\ mods[1] = NONE /\ DOMAIN mods = {1}
  BY DEF NONE
<1>. HIDE DEF b, bs, none, mods, zero
<1>5. TablesFit(Fresh, bs)
  BY <1>1, <1>2, FreshFits
<1>6. BlocksFit(new_vartab, none, bs)
  <2>1. BlockFits(new_vartab, none, b)
    BY <1>1 DEF BlockFits
  <2>2. TopFits(new_vartab, none, b)
    BY <1>1, <2>1 DEF TopFits
  <2>. QED
    BY <1>1, <1>2, <2>1, <2>2 DEF BlocksFit
<1>7. EnclosingFits(new_vartab, none, none, none)
  BY <1>3 DEF EnclosingFits
<1>8. ModulesFit(mods, bs[Len(bs)].id, none, zero)
  BY <1>1, <1>2, <1>3, <1>4 DEF ModulesFit, NONE
<1>9. PublishedFits(new_vartab, none, none, zero)
  <2>1. none = [m \in DOMAIN none |-> none[m]]
    BY DEF none
  <2>2. none \in [DOMAIN none -> SUBSET Decls]
    BY <1>3, <2>1
  <2>3. none \in [DOMAIN none -> [Kinds -> Tables(AllNames, AllArgs)]]
    BY <1>3, <2>1
  <2>4. zero \in Nat /\ DOMAIN none \subseteq 1 .. zero
    BY <1>3
  <2>. QED
    BY <1>3, <2>2, <2>3, <2>4 DEF PublishedFits
<1>10. FilesFit(none, bs, Len(none) + Len(bs))
  BY <1>3 DEF FilesFit
<1>11. CompiledFit(new_vartab, none)
  BY NewTable DEF CompiledFit
<1>12. Fit(Fresh, none, mods, new_vartab, none, none, bs, none, none, zero)
  BY <1>5, <1>6, <1>7, <1>8, <1>9, <1>10, <1>11 DEF Fit, Consistent
<1>. QED
  BY <1>12 DEF b, bs, none, mods, zero

\* What can be used of tables and blocks that fit.
LEMMA FitSo ==
  ASSUME NEW ts, NEW stack, NEW mods, NEW comp, NEW exp, NEW fs, NEW bs, NEW enc, NEW pub,
         NEW n, Fit(ts, stack, mods, comp, exp, fs, bs, enc, pub, n)
  PROVE  /\ Consistent(ts, stack, mods, comp, exp, fs, bs, enc, pub, n)
         /\ TablesFit(ts, bs) /\ BlocksFit(comp, pub, bs) /\ PublishedFits(comp, pub, exp, n)
         /\ CompiledFit(comp, pub)
         /\ bs \in Seq(OpenBlocks) /\ bs # << >> /\ n \in Nat
         /\ \A kind \in Kinds :
              /\ Agrees(kind, ts[kind], bs) /\ ts[kind] \in Tables(AllNames, AllArgs)
              /\ ts[kind].current_scope = 0 <=> ~InFunction(bs)
         /\ \A m \in DOMAIN pub : /\ pub[m] \in SUBSET Decls
                                  /\ \A kind \in Kinds : Shows(kind, exp[m][kind], pub[m])
<1>1. /\ Consistent(ts, stack, mods, comp, exp, fs, bs, enc, pub, n)
      /\ TablesFit(ts, bs) /\ BlocksFit(comp, pub, bs) /\ PublishedFits(comp, pub, exp, n)
      /\ CompiledFit(comp, pub)
  BY DEF Fit, Consistent
<1>2. /\ bs \in Seq(OpenBlocks) /\ bs # << >> /\ n \in Nat
      /\ \A m \in DOMAIN pub : pub[m] \in SUBSET Decls
  BY <1>1, SomeTyping
<1>3. \A m \in DOMAIN pub, kind \in Kinds : Shows(kind, exp[m][kind], pub[m])
  BY <1>1 DEF PublishedFits
<1>. QED
  BY <1>1, <1>2, <1>3, TablesOf

\* A module's block declares whatever of a name the module shows.
LEMMA ModuleShows ==
  ASSUME NEW ts, NEW stack, NEW mods, NEW comp, NEW exp, NEW fs, NEW bs, NEW enc, NEW pub,
         NEW n, Fit(ts, stack, mods, comp, exp, fs, bs, enc, pub, n),
         NEW b, b = Head(bs), b.construct = "module"
  PROVE  /\ b.id \in DOMAIN pub /\ Head(mods) = b.id /\ b.id # NONE /\ ~InFunction(bs)
         /\ pub[b.id] \in SUBSET Decls
         /\ \A kind \in Kinds : Shows(kind, exp[b.id][kind], pub[b.id])
         /\ \A kind \in Kinds \ {"operators"}, name \in AllNames :
              Of(pub[b.id], kind, name, NoArgs) # {} => Own(bs, 1, kind, name, NoArgs) # {}
         /\ \A name \in AllNames :
              Own(bs, 1, "typetab", name, NoArgs) # {}
                => Of(pub[b.id], "typetab", name, NoArgs) # {}
         /\ \A kind, name, args : DeclaredIn(bs, SameScope(bs), kind, name, args)
                                  <=> Own(bs, 1, kind, name, args) # {}
<1>1. Consistent(ts, stack, mods, comp, exp, fs, bs, enc, pub, n)
  BY FitSo
<1>2. /\ Len(bs) = 1 /\ ~InFunction(bs) /\ TopFits(comp, pub, b) /\ Head(mods) = b.id
      /\ Head(mods) \in DOMAIN pub /\ Head(mods) # NONE
  BY <1>1, AtTop
<1>3. /\ bs \in Seq(OpenBlocks) /\ bs # << >>
      /\ \A m \in DOMAIN pub : /\ pub[m] \in SUBSET Decls
                               /\ \A kind \in Kinds : Shows(kind, exp[m][kind], pub[m])
  BY FitSo
<1>4. bs[1] = b /\ DOMAIN bs = {1}
  BY <1>2, <1>3
<1>5. \A kind, name, args : Own(bs, 1, kind, name, args) = Of(b.own, kind, name, args)
  BY <1>4 DEF Own
<1>6. \A kind, name, args : DeclaredIn(bs, SameScope(bs), kind, name, args)
                            <=> Own(bs, 1, kind, name, args) # {}
  <2>1. SameScope(bs) = {1}
    <3>1. \A j \in 1 .. 1 - 1 : FALSE
      OBVIOUS
    <3>. QED
      BY <1>4, <3>1 DEF SameScope
  <2>. QED
    BY <2>1 DEF DeclaredIn
<1>. QED
  BY <1>2, <1>3, <1>5, <1>6 DEF TopFits

\* What the function or module does not declare its innermost block does not.
LEMMA OwnIsInScope ==
  ASSUME NEW cs \in Seq(OpenBlocks), cs # << >>, NEW kind, NEW name, NEW args,
         ~DeclaredIn(cs, SameScope(cs), kind, name, args)
  PROVE  Own(cs, 1, kind, name, args) = {}
<1>. DEFINE v == View(cs, kind, name, args)
<1>1. v = View(cs, kind, name, args)
  OBVIOUS
<1>. HIDE DEF v
<1>2. /\ v.own \subseteq v.scope /\ v.own = Own(cs, 1, kind, name, args)
      /\ v.scope # {} <=> DeclaredIn(cs, SameScope(cs), kind, name, args)
  BY <1>1, ViewFits
<1>. QED
  BY <1>2

\* A new declaration of a name.
LEMMA NewDecl ==
  ASSUME NEW kind \in Kinds, NEW name \in Names, NEW args,
         IF kind = "operators" THEN args \in ArgTypes ELSE args = NoArgs,
         NEW dnode \in Nat \ {0}, NEW d, d = Decl(kind, name, args, dnode)
  PROVE  /\ d \in Decls /\ \A comp : DeclFits(comp, d)
         /\ d.kind = kind /\ d.name = name /\ d.args = args /\ d.dnode = dnode
         /\ name \in AllNames /\ args \in AllArgs
<1>1. name \in AllNames /\ args \in AllArgs /\ name \notin ModuleNames
  BY NamesAssumption DEF AllNames, AllArgs
<1>2. d.kind = kind /\ d.name = name /\ d.args = args /\ d.dnode = dnode
  BY DEF Decl
<1>3. d \in Decls
  BY <1>1 DEF Decls, Decl
<1>. QED
  BY <1>1, <1>2, <1>3 DEF DeclFits

---------------------------------------------------------------------------
\* Variables and constants: entered and exported, or refused.
InsertsToo(b, exp, kind, name, dnode, exp2) ==
  IF b.construct = "module"
  THEN Exports(exp, b.id, kind, vartab_insert(exp[b.id][kind], name, dnode), exp2)
  ELSE exp2 = exp
RefusedIn(b, pub, kind, name, d, pub2) ==
  \/ b.construct = "module" /\ Of(pub[b.id], kind, name, NoArgs) # {} /\ pub2 = pub
  \/ /\ b.construct = "module" => Of(pub[b.id], kind, name, NoArgs) = {}
     /\ ShowsToo(b, pub, d, pub2)
SaysOrNot(clashes, b, bs, pub, kind, name, d, bs2, pub2) ==
  IF clashes THEN bs2 = bs /\ RefusedIn(b, pub, kind, name, d, pub2)
  ELSE bs2 = With(bs, {d}, {}, {}) /\ ShowsToo(b, pub, d, pub2)

\* Variables and constants are refused just when they clash; what the module has the
\* function or module declares, too.
LEMMA InsertComplains ==
  ASSUME NEW ts, NEW stack, NEW mods, NEW comp, NEW exp, NEW fs, NEW bs, NEW enc, NEW pub,
         NEW n, Fit(ts, stack, mods, comp, exp, fs, bs, enc, pub, n),
         NEW kind \in {"vartab", "consts"}, NEW name \in AllNames,
         NEW b, b = Head(bs)
  PROVE  /\ vartab_refuses(ts[kind], name) <=> DeclaredIn(bs, SameScope(bs), kind, name, NoArgs)
         /\ b.construct = "module" =>
              /\ vartab_refuses(exp[b.id][kind], name)
                 <=> Of(pub[b.id], kind, name, NoArgs) # {}
              /\ vartab_refuses(exp[b.id][kind], name)
                 => DeclaredIn(bs, SameScope(bs), kind, name, NoArgs)
<1>1. kind \in Kinds \ {"operators"}
  BY DEF Kinds
<1>2. Agrees(kind, ts[kind], bs)
  BY <1>1, FitSo
<1>3. vartab_refuses(ts[kind], name) <=> DeclaredIn(bs, SameScope(bs), kind, name, NoArgs)
  BY <1>2, VartabRefuses
<1>4. ASSUME b.construct = "module"
      PROVE  /\ vartab_refuses(exp[b.id][kind], name)
                <=> Of(pub[b.id], kind, name, NoArgs) # {}
             /\ vartab_refuses(exp[b.id][kind], name)
                => DeclaredIn(bs, SameScope(bs), kind, name, NoArgs)
  <2>. DEFINE decls == pub[b.id]
              t == exp[b.id][kind]
  <2>1. /\ decls \in SUBSET Decls /\ Shows(kind, t, decls) /\ decls = pub[b.id]
        /\ t = exp[b.id][kind]
        /\ Of(decls, kind, name, NoArgs) # {} => Own(bs, 1, kind, name, NoArgs) # {}
        /\ DeclaredIn(bs, SameScope(bs), kind, name, NoArgs)
           <=> Own(bs, 1, kind, name, NoArgs) # {}
    BY <1>1, <1>4, ModuleShows
  <2>. HIDE DEF decls, t
  <2>2. vartab_refuses(t, name) <=> Of(decls, kind, name, NoArgs) # {}
    BY <1>1, <2>1, ShownByName
  <2>. QED
    BY <2>1, <2>2
<1>. QED
  BY <1>3, <1>4

\* A variable or constant is entered, or refused.
LEMMA InsertFits ==
  ASSUME NEW ts, NEW stack, NEW mods, NEW comp, NEW exp, NEW fs, NEW bs, NEW enc, NEW pub,
         NEW n, Fit(ts, stack, mods, comp, exp, fs, bs, enc, pub, n),
         NEW kind \in {"vartab", "consts"}, NEW name \in Names,
         NEW d, d = Decl(kind, name, NoArgs, n + 1), NEW b, b = Head(bs),
         NEW clashes, clashes <=> DeclaredIn(bs, SameScope(bs), kind, name, NoArgs),
         NEW ts2, Sets(ts, kind, vartab_insert(ts[kind], name, n + 1), ts2),
         NEW exp2, InsertsToo(b, exp, kind, name, n + 1, exp2),
         NEW bs2, NEW pub2, SaysOrNot(clashes, b, bs, pub, kind, name, d, bs2, pub2)
  PROVE  Fit(ts2, stack, mods, comp, exp2, fs, bs2, enc, pub2, n + 1)
<1>1. kind \in Kinds /\ kind \in Kinds \ {"operators"} /\ kind # "operators"
  BY DEF Kinds
<1>2. bs \in Seq(OpenBlocks) /\ bs # << >> /\ n \in Nat /\ n + 1 \in Nat \ {0} /\ TablesFit(ts, bs)
      /\ PublishedFits(comp, pub, exp, n)
      /\ ts[kind] \in Tables(AllNames, AllArgs)
  BY <1>1, FitSo
<1>3. /\ DeclFits(comp, d) /\ name \in AllNames /\ NoArgs \in AllArgs
  BY <1>1, <1>2, NewDecl
<1>4. /\ vartab_refuses(ts[kind], name) <=> clashes
      /\ b.construct = "module" =>
           /\ vartab_refuses(exp[b.id][kind], name)
              <=> Of(pub[b.id], kind, name, NoArgs) # {}
           /\ vartab_refuses(exp[b.id][kind], name) => clashes
  BY <1>3, InsertComplains
<1>5. CASE clashes
  <2>1. ts2 = ts
    <3>1. vartab_insert(ts[kind], name, n + 1) = ts[kind]
      BY <1>4, <1>5, InsertIs
    <3>. QED
      BY <1>1, <1>2, <3>1, SetsIs
  <2>2. bs2 = bs /\ RefusedIn(b, pub, kind, name, d, pub2)
    BY <1>5 DEF SaysOrNot
  <2>3. CASE b.construct = "module" /\ Of(pub[b.id], kind, name, NoArgs) # {} /\ pub2 = pub
    <3>. DEFINE m == b.id
    <3>1. m \in DOMAIN pub /\ Shows(kind, exp[m][kind], pub[m]) /\ m = b.id
      BY <1>1, <2>3, ModuleShows
    <3>2. exp[m][kind] \in Tables(AllNames, AllArgs)
      BY <3>1 DEF Shows
    <3>3. vartab_insert(exp[m][kind], name, n + 1) = exp[m][kind]
      BY <1>4, <2>3, InsertIs
    <3>4. Exports(exp, m, kind, exp[m][kind], exp2)
      BY <2>3, <3>3 DEF InsertsToo
    <3>. HIDE DEF m
    <3>5. exp2 = exp
      BY <1>1, <1>2, <3>1, <3>2, <3>4, ExportsMore
    <3>6. Fit(ts, stack, mods, comp, exp, fs, bs, enc, pub, n + 1)
      BY NothingFits
    <3>. QED
      BY <2>1, <2>2, <2>3, <3>5, <3>6
  <2>4. CASE /\ b.construct = "module" => Of(pub[b.id], kind, name, NoArgs) = {}
             /\ ShowsToo(b, pub, d, pub2)
    <3>1. b.construct = "module" => Own(bs, 1, kind, name, NoArgs) # {}
      BY <1>5, ModuleShows
    <3>2. ExportsToo(b, exp, kind, name, NoArgs, n + 1, exp2)
      <4>1. b.construct = "module"
              => vartab_insert(exp[b.id][kind], name, n + 1)
                 = Declared(exp[b.id][kind], name, NoArgs, n + 1)
        BY <1>4, <2>4, InsertIs
      <4>. QED
        BY <4>1 DEF ExportsToo, InsertsToo
    <3>3. Fit(ts, stack, mods, comp, exp2, fs, bs, enc, pub2, n + 1)
      BY <1>1, <1>3, <2>4, <3>1, <3>2, ShowFits
    <3>. QED
      BY <2>1, <2>2, <3>3
  <2>. QED
    BY <2>2, <2>3, <2>4 DEF RefusedIn
<1>6. CASE ~clashes
  <2>1. bs2 = With(bs, {d}, {}, {}) /\ ShowsToo(b, pub, d, pub2)
    BY <1>6 DEF SaysOrNot
  <2>2. Sets(ts, kind, Declared(ts[kind], name, NoArgs, n + 1), ts2)
    BY <1>4, <1>6, InsertIs
  <2>3. ExportsToo(b, exp, kind, name, NoArgs, n + 1, exp2)
    <3>1. b.construct = "module"
            => vartab_insert(exp[b.id][kind], name, n + 1)
               = Declared(exp[b.id][kind], name, NoArgs, n + 1)
      BY <1>4, <1>6, InsertIs
    <3>. QED
      BY <3>1 DEF ExportsToo, InsertsToo
  <2>4. Own(bs, 1, kind, name, NoArgs) = {}
    BY <1>2, <1>6, OwnIsInScope
  <2>. QED
    BY <1>1, <1>3, <2>1, <2>2, <2>3, <2>4, DeclareFit
<1>. QED
  BY <1>5, <1>6

---------------------------------------------------------------------------
\* The grammar actions: declarations,

\* Only modules' tables get what is declared at the top level, and they do.
LEMMA DeclaresWhere ==
  ASSUME Ind
  PROVE  /\ Uses = {} /\ MayDeclare => (IsExported <=> Top.construct = "module")
         /\ Top.construct = "module" => Module = Top.id /\ Module # NONE
         /\ Top.construct = "program" => Module = NONE
<1>1. Fit(tables, symtab_stack, current_module, compiled_modules, exported, files,
          blocks, enclosing, published, nodes)
  BY DEF Ind
<1>2. /\ tables["vartab"].current_scope = 0 <=> ~InFunction(blocks)
      /\ Consistent(tables, symtab_stack, current_module, compiled_modules, exported, files,
                    blocks, enclosing, published, nodes)
  BY <1>1, FitSo DEF Kinds
<1>3. /\ Top.construct = "module" => /\ ~InFunction(blocks) /\ Module # NONE
                                     /\ Module = Top.id
      /\ Top.construct = "program" => Module = NONE
  BY <1>2, AtTop DEF Top, Module
<1>4. Uses = {} /\ MayDeclare => (IsExported <=> Top.construct = "module")
  BY <1>2, <1>3 DEF MayDeclare, InBlockOfModule, IsExported, ExportsAt,
                        compiler_current_scope
<1>. QED
  BY <1>3, <1>4

\* What the source says after a declaration of the grammar.
LEMMA SaysIs ==
  ASSUME NEW kind, NEW name, NEW dnode, NEW decl, decl = Decl(kind, name, NoArgs, dnode),
         NEW clashes, IF clashes THEN Refused(decl) ELSE Says(decl)
  PROVE  SaysOrNot(clashes, Top, blocks, published, kind, name, decl, blocks', published')
<1>1. decl.kind = kind /\ decl.name = name /\ decl.args = NoArgs
  BY DEF Decl
<1>2. Publish(decl) => ShowsToo(Top, published, decl, published')
  BY DEF Publish, ShowsToo, Shown
<1>3. CASE clashes
  <2>1. Refused(decl)
    BY <1>3
  <2>2. blocks' = blocks /\ RefusedIn(Top, published, kind, name, decl, published')
    BY <1>1, <1>2, <2>1 DEF Refused, RefusedIn
  <2>. QED
    BY <1>3, <2>2 DEF SaysOrNot
<1>4. CASE ~clashes
  BY <1>2, <1>4 DEF Says, SaysOrNot
<1>. QED
  BY <1>3, <1>4

\* Dnodes are entered that have the scope of the table, or that have none and are
\* not refused in a function of a module.
LEMMA NamedVarsStep ==
  ASSUME Uses = {}, Ind, NEW name \in Names, NEW scope,
         compiler_vartab_insert_named_vars(name, scope),
         \/ scope = compiler_current_scope
         \/ /\ scope = 0
            /\ ~(Module # NONE /\ compiler_current_scope # 0 /\ Clashes("vartab", name))
  PROVE  Ind'
<1>. DEFINE d == Decl("vartab", name, "", NewId)
            kind == "vartab"
            b == Top
            exports == ExportsAt(dnode_scope(scope, name))
<1>0. /\ kind = "vartab" /\ d = Decl(kind, name, NoArgs, nodes + 1) /\ b = Head(blocks)
      /\ kind \in {"vartab", "consts"} /\ b = Top
  BY DEF NoArgs, NewId, Top
<1>1. /\ Fit(tables, symtab_stack, current_module, compiled_modules, exported, files,
             blocks, enclosing, published, nodes)
      /\ name \in AllNames
  BY DEF Ind, AllNames
<1>2. /\ MayDeclare
      /\ tables' = [tables EXCEPT !.vartab = vartab_insert(@, name, NewId)]
      /\ exported' = IF exports
                     THEN [exported EXCEPT ![Module].vartab
                             = vartab_insert(exported[Module].vartab, name, NewId)]
                     ELSE exported
      /\ complains' = \/ vartab_refuses(tables.vartab, name)
                      \/ exports /\ vartab_refuses(exported[Module].vartab, name)
      /\ clash' = DeclaredIn(blocks, SameScope(blocks), "vartab", name, "")
      /\ IF clash' THEN Refused(d) ELSE Says(d)
      /\ nodes' = nodes + 1
      /\ UNCHANGED <<symtab_stack, current_module, compiled_modules, files, enclosing>>
  BY DEF compiler_vartab_insert_named_vars, Clashes, NewId
<1>4. clash' <=> DeclaredIn(blocks, SameScope(blocks), kind, name, NoArgs)
  BY <1>0, <1>2 DEF NoArgs
<1>3. /\ exports <=> b.construct = "module"
      /\ b.construct = "module" => Module = b.id
  <2>1. /\ IsExported <=> b.construct = "module"
        /\ b.construct = "module" => Module = b.id
    BY <1>0, <1>2, DeclaresWhere
  <2>2. vartab_refuses(tables.vartab, name) => Clashes("vartab", name)
    <3>. HIDE DEF d, b, kind
    <3>1. vartab_refuses(tables[kind], name) <=> clash'
      BY <1>0, <1>1, <1>4, InsertComplains
    <3>. QED
      BY <1>0, <1>2, <3>1 DEF Clashes
  <2>3. exports <=> IsExported
    BY <2>2 DEF dnode_scope, IsExported, ExportsAt
  <2>. QED
    BY <2>1, <2>3
<1>5. Sets(tables, kind, vartab_insert(tables[kind], name, nodes + 1), tables')
  BY <1>0, <1>2 DEF Sets, NewId
<1>6. InsertsToo(b, exported, kind, name, nodes + 1, exported')
  <2>1. CASE b.construct = "module"
    <3>1. exported' = [exported EXCEPT ![b.id].vartab
                         = vartab_insert(exported[b.id].vartab, name, nodes + 1)]
      BY <1>2, <1>3, <2>1 DEF NewId
    <3>2. Exports(exported, b.id, kind, vartab_insert(exported[b.id][kind], name, nodes + 1),
                  exported')
      BY <1>0, <3>1 DEF Exports
    <3>. QED
      BY <2>1, <3>2 DEF InsertsToo
  <2>2. CASE b.construct # "module"
    BY <1>2, <1>3, <2>2 DEF InsertsToo
  <2>. QED
    BY <2>1, <2>2
<1>. HIDE DEF d, kind, b, exports
<1>7. SaysOrNot(clash', b, blocks, published, kind, name, d, blocks', published')
  BY <1>0, <1>2, SaysIs
<1>8. Fit(tables', symtab_stack, current_module, compiled_modules, exported', files,
          blocks', enclosing, published', nodes + 1)
  BY <1>0, <1>1, <1>4, <1>5, <1>6, <1>7, InsertFits
<1>9. complains' <=> clash'
  <2>1. /\ vartab_refuses(tables[kind], name) <=> clash'
        /\ b.construct = "module" =>
             (vartab_refuses(exported[b.id][kind], name) => clash')
    BY <1>0, <1>1, <1>4, InsertComplains
  <2>. QED
    BY <1>0, <1>2, <1>3, <2>1
<1>. QED
  BY <1>2, <1>8, <1>9 DEF Ind, RefusesOnlyClashes

\* Variables are declared.
LEMMA VariablesStep ==
  ASSUME Uses = {}, Ind, NEW name \in Names, variable_declaration(name)
  PROVE  Ind'
BY NamedVarsStep DEF variable_declaration

\* Exceptions are declared.
LEMMA ExceptionsStep ==
  ASSUME Uses = {}, Ind, NEW name \in Names, compiler_compile_exception(name)
  PROVE  Ind'
<1>1. ~(Module # NONE /\ compiler_current_scope # 0 /\ Clashes("vartab", name))
  BY DEF compiler_compile_exception
<1>. QED
  BY <1>1, NamedVarsStep DEF compiler_compile_exception

\* Constants are declared.
LEMMA ConstantsStep ==
  ASSUME Uses = {}, Ind, NEW name \in Names, compiler_consttab_insert_consts(name)
  PROVE  Ind'
<1>. DEFINE d == Decl("consts", name, "", NewId)
            kind == "consts"
            b == Top
<1>0. /\ kind = "consts" /\ d = Decl(kind, name, NoArgs, nodes + 1) /\ b = Head(blocks)
      /\ kind \in {"vartab", "consts"} /\ b = Top
  BY DEF NoArgs, NewId, Top
<1>1. /\ Fit(tables, symtab_stack, current_module, compiled_modules, exported, files,
             blocks, enclosing, published, nodes)
      /\ name \in AllNames
  BY DEF Ind, AllNames
<1>2. /\ Module # NONE => Top.construct = "module"
      /\ tables' = [tables EXCEPT !.consts = vartab_insert(@, name, NewId)]
      /\ exported' = IF Module # NONE
                     THEN [exported EXCEPT ![Module].consts = vartab_insert(@, name, NewId)]
                     ELSE exported
      /\ complains' = \/ vartab_refuses(tables.consts, name)
                      \/ Module # NONE /\ vartab_refuses(exported[Module].consts, name)
      /\ clash' = DeclaredIn(blocks, SameScope(blocks), "consts", name, "")
      /\ IF clash' THEN Refused(d) ELSE Says(d)
      /\ nodes' = nodes + 1
      /\ UNCHANGED <<symtab_stack, current_module, compiled_modules, files, enclosing>>
  BY DEF compiler_consttab_insert_consts, Clashes, NewId
<1>3. /\ Module # NONE <=> b.construct = "module"
      /\ b.construct = "module" => Module = b.id
  BY <1>0, <1>2, DeclaresWhere
<1>4. clash' <=> DeclaredIn(blocks, SameScope(blocks), kind, name, NoArgs)
  BY <1>0, <1>2 DEF NoArgs
<1>5. Sets(tables, kind, vartab_insert(tables[kind], name, nodes + 1), tables')
  BY <1>0, <1>2 DEF Sets, NewId
<1>6. InsertsToo(b, exported, kind, name, nodes + 1, exported')
  <2>1. CASE b.construct = "module"
    <3>1. exported' = [exported EXCEPT ![b.id].consts
                         = vartab_insert(exported[b.id].consts, name, nodes + 1)]
      BY <1>2, <1>3, <2>1 DEF NewId
    <3>2. Exports(exported, b.id, kind, vartab_insert(exported[b.id][kind], name, nodes + 1),
                  exported')
      BY <1>0, <3>1 DEF Exports
    <3>. QED
      BY <2>1, <3>2 DEF InsertsToo
  <2>2. CASE b.construct # "module"
    BY <1>2, <1>3, <2>2 DEF InsertsToo
  <2>. QED
    BY <2>1, <2>2
<1>. HIDE DEF d, kind, b
<1>7. SaysOrNot(clash', b, blocks, published, kind, name, d, blocks', published')
  BY <1>0, <1>2, SaysIs
<1>8. Fit(tables', symtab_stack, current_module, compiled_modules, exported', files,
          blocks', enclosing, published', nodes + 1)
  BY <1>0, <1>1, <1>4, <1>5, <1>6, <1>7, InsertFits
<1>9. complains' <=> clash'
  <2>1. /\ vartab_refuses(tables[kind], name) <=> clash'
        /\ b.construct = "module" =>
             (vartab_refuses(exported[b.id][kind], name) => clash')
    BY <1>0, <1>1, <1>4, InsertComplains
  <2>. QED
    BY <1>0, <1>2, <1>3, <2>1
<1>. QED
  BY <1>2, <1>8, <1>9 DEF Ind, RefusesOnlyClashes

\* A type that is declared again in a block is known to the module, too.
LEMMA TypesAgain ==
  ASSUME NEW ts, NEW stack, NEW mods, NEW comp, NEW exp, NEW fs, NEW bs, NEW enc, NEW pub,
         NEW n, Fit(ts, stack, mods, comp, exp, fs, bs, enc, pub, n),
         NEW kind, kind = "typetab", NEW name \in AllNames, NEW b, b = Head(bs)
  PROVE  /\ typetab_refuses(ts[kind], name) <=> Own(bs, 1, kind, name, NoArgs) # {}
         /\ \A d \in Own(bs, 1, kind, name, NoArgs) :
              vartab_lookup_varnode(ts[kind], name).dnode = d.dnode
         /\ b.construct = "module" =>
              /\ typetab_refuses(exp[b.id][kind], name)
                 <=> Own(bs, 1, kind, name, NoArgs) # {}
              /\ b.id \in DOMAIN pub
              /\ exp[b.id][kind] \in Tables(AllNames, AllArgs)
<1>1. kind \in Kinds \ {"operators"}
  BY DEF Kinds
<1>2. Agrees(kind, ts[kind], bs)
  BY <1>1, FitSo
<1>3. /\ typetab_refuses(ts[kind], name) <=> Own(bs, 1, kind, name, NoArgs) # {}
      /\ \A d \in Own(bs, 1, kind, name, NoArgs) :
           vartab_lookup_varnode(ts[kind], name).dnode = d.dnode
  BY <1>2, TypetabRefuses
<1>4. ASSUME b.construct = "module"
      PROVE  /\ typetab_refuses(exp[b.id][kind], name) <=> Own(bs, 1, kind, name, NoArgs) # {}
             /\ b.id \in DOMAIN pub
             /\ exp[b.id][kind] \in Tables(AllNames, AllArgs)
  <2>. DEFINE decls == pub[b.id]
              t == exp[b.id][kind]
  <2>1. /\ decls \in SUBSET Decls /\ Shows(kind, t, decls) /\ decls = pub[b.id]
        /\ t = exp[b.id][kind] /\ b.id \in DOMAIN pub
        /\ Of(decls, kind, name, NoArgs) # {} <=> Own(bs, 1, kind, name, NoArgs) # {}
    BY <1>1, <1>4, ModuleShows
  <2>. HIDE DEF decls, t
  <2>2. typetab_refuses(t, name) <=> Of(decls, kind, name, NoArgs) # {}
    BY <1>1, <2>1, ShownByName
  <2>3. t \in Tables(AllNames, AllArgs)
    BY <2>1 DEF Shows
  <2>. QED
    BY <2>1, <2>2, <2>3
<1>. QED
  BY <1>3, <1>4

\* A declaration that is not refused is shown.
LEMMA SaysShows ==
  ASSUME NEW decl, Says(decl)
  PROVE  blocks' = With(blocks, {decl}, {}, {}) /\ ShowsToo(Top, published, decl, published')
BY DEF Says, Publish, ShowsToo, Shown

\* A type is declared, or described.
LEMMA TypesStep ==
  ASSUME Uses = {}, Ind, NEW name \in Names, NEW described,
         compiler_typetab_insert(name, described)
  PROVE  Ind'
<1>. DEFINE d == Decl("typetab", name, "", NewId)
            kind == "typetab"
            b == Top
            found == vartab_lookup_varnode(tables.typetab, name).dnode
            again == typetab_refuses(tables.typetab, name)
            tnode == IF again THEN found ELSE NewId
            own == Own(blocks, 1, "typetab", name, "")
            here == {e.dnode : e \in own}
<1>0. /\ kind = "typetab" /\ d = Decl(kind, name, NoArgs, nodes + 1) /\ b = Head(blocks)
      /\ b = Top /\ own = Own(blocks, 1, kind, name, NoArgs) /\ kind # "operators"
      /\ kind \in Kinds
  BY DEF NoArgs, NewId, Top, Kinds
<1>1. /\ Fit(tables, symtab_stack, current_module, compiled_modules, exported, files,
             blocks, enclosing, published, nodes)
      /\ name \in AllNames
  BY DEF Ind, AllNames
<1>2. /\ MayDeclare
      /\ tables' = [tables EXCEPT !.typetab = typetab_insert(@, name, tnode)]
      /\ exported' = IF IsExported
                     THEN [exported EXCEPT ![Module].typetab
                             = typetab_insert(exported[Module].typetab, name, tnode)]
                     ELSE exported
      /\ complains' = (again /\ found \notin forward)
      /\ clash' = (here # {} /\ here \cap forward = {})
      /\ IF here # {} THEN SaysNothing ELSE Says(d)
      /\ nodes' = nodes + 1
      /\ UNCHANGED <<symtab_stack, current_module, compiled_modules, files, enclosing>>
  BY DEF compiler_typetab_insert, dnode_insert, NewId
<1>3. /\ IsExported <=> b.construct = "module"
      /\ b.construct = "module" => Module = b.id
  BY <1>0, <1>2, DeclaresWhere
<1>4. /\ typetab_refuses(tables[kind], name) <=> own # {}
      /\ \A e \in own : vartab_lookup_varnode(tables[kind], name).dnode = e.dnode
      /\ b.construct = "module" =>
           /\ typetab_refuses(exported[b.id][kind], name) <=> own # {}
           /\ b.id \in DOMAIN published
           /\ exported[b.id][kind] \in Tables(AllNames, AllArgs)
  <2>. HIDE DEF d, kind, b, tnode, again, own, here, found
  <2>. QED
    BY <1>0, <1>1, TypesAgain
<1>5. /\ again <=> own # {}
      /\ \A e \in own : found = e.dnode
  BY <1>0, <1>4
<1>6. here # {} <=> own # {}
  OBVIOUS
<1>7. again => here = {found}
  BY <1>5
<1>8. complains' <=> clash'
  <2>1. clash' <=> again /\ {found} \cap forward = {}
    BY <1>2, <1>5, <1>6, <1>7
  <2>. QED
    BY <1>2, <2>1
<1>9. Sets(tables, kind, typetab_insert(tables[kind], name, tnode), tables')
  BY <1>0, <1>2 DEF Sets
<1>10. IF b.construct = "module"
       THEN Exports(exported, b.id, kind, typetab_insert(exported[b.id][kind], name, tnode),
                    exported')
       ELSE exported' = exported
  <2>1. CASE b.construct = "module"
    <3>1. exported' = [exported EXCEPT ![b.id].typetab
                         = typetab_insert(exported[b.id].typetab, name, tnode)]
      BY <1>2, <1>3, <2>1
    <3>2. Exports(exported, b.id, kind, typetab_insert(exported[b.id][kind], name, tnode),
                  exported')
      BY <1>0, <3>1 DEF Exports
    <3>. QED
      BY <2>1, <3>2
  <2>2. CASE b.construct # "module"
    BY <1>2, <1>3, <2>2
  <2>. QED
    BY <2>1, <2>2
<1>11. ~again => tnode = nodes + 1
  BY DEF NewId
<1>12. (IF own # {} THEN SaysNothing ELSE Says(d)) /\ (again <=> own # {})
  BY <1>2, <1>5, <1>6
<1>13. /\ TablesFit(tables, blocks) /\ PublishedFits(compiled_modules, published, exported, nodes)
       /\ nodes \in Nat
  BY <1>1, FitSo
<1>. HIDE DEF d, kind, b, tnode, again, own, here, found
<1>14. CASE own # {}
  <2>1. tables' = tables
    <3>1. typetab_insert(tables[kind], name, tnode) = tables[kind]
      BY <1>4, <1>14, InsertIs
    <3>. QED
      BY <1>0, <1>9, <1>13, <3>1, SetsIs
  <2>2. exported' = exported
    <3>1. CASE b.construct = "module"
      <4>1. typetab_insert(exported[b.id][kind], name, tnode) = exported[b.id][kind]
        BY <1>4, <1>14, <3>1, InsertIs
      <4>2. Exports(exported, b.id, kind, exported[b.id][kind], exported')
        BY <1>10, <3>1, <4>1
      <4>. QED
        BY <1>0, <1>4, <1>13, <3>1, <4>2, ExportsMore
    <3>. QED
      BY <1>10, <3>1
  <2>3. UNCHANGED <<blocks, published>>
    BY <1>12, <1>14 DEF SaysNothing
  <2>4. Fit(tables, symtab_stack, current_module, compiled_modules, exported, files,
            blocks, enclosing, published, nodes + 1)
    BY <1>1, NothingFits
  <2>. QED
    BY <1>2, <1>8, <2>1, <2>2, <2>3, <2>4 DEF Ind, RefusesOnlyClashes
<1>15. CASE own = {}
  <2>1. Sets(tables, kind, Declared(tables[kind], name, NoArgs, nodes + 1), tables')
    BY <1>4, <1>9, <1>11, <1>12, <1>15, InsertIs
  <2>2. ExportsToo(b, exported, kind, name, NoArgs, nodes + 1, exported')
    <3>1. b.construct = "module"
            => typetab_insert(exported[b.id][kind], name, tnode)
               = Declared(exported[b.id][kind], name, NoArgs, nodes + 1)
      BY <1>4, <1>11, <1>12, <1>15, InsertIs
    <3>. QED
      BY <1>10, <3>1 DEF ExportsToo
  <2>3. blocks' = With(blocks, {d}, {}, {}) /\ ShowsToo(b, published, d, published')
    BY <1>0, <1>12, <1>15, SaysShows
  <2>4. DeclFits(compiled_modules, d) /\ NoArgs \in AllArgs
    <3>1. nodes + 1 \in Nat \ {0}
      BY <1>13
    <3>. QED
      BY <1>0, <3>1, NewDecl
  <2>5. Own(blocks, 1, kind, name, NoArgs) = {}
    BY <1>0, <1>15
  <2>6. Fit(tables', symtab_stack, current_module, compiled_modules, exported', files,
            blocks', enclosing, published', nodes + 1)
    BY <1>0, <1>1, <2>1, <2>2, <2>3, <2>4, <2>5, DeclareFit
  <2>. QED
    BY <1>2, <1>8, <2>6 DEF Ind, RefusesOnlyClashes
<1>. QED
  BY <1>14, <1>15

\* An operator is declared.
LEMMA OperatorsStep ==
  ASSUME Uses = {}, Ind, NEW name \in Names, NEW args \in ArgTypes,
         operator_definition(name, args)
  PROVE  Ind'
<1>. DEFINE d == Decl("operators", name, args, NewId)
            kind == "operators"
            b == Top
<1>0. /\ kind = "operators" /\ d = Decl(kind, name, args, nodes + 1) /\ b = Head(blocks)
      /\ b = Top /\ kind \in Kinds
  BY DEF NewId, Top, Kinds
<1>1. /\ Fit(tables, symtab_stack, current_module, compiled_modules, exported, files,
             blocks, enclosing, published, nodes)
      /\ name \in AllNames
  BY DEF Ind, AllNames
<1>2. /\ MayDeclare
      /\ tables' = [tables EXCEPT !.operators = vartab_insert_operator(@, name, args, NewId)]
      /\ exported' = IF IsExported
                     THEN [exported EXCEPT ![Module].operators
                             = vartab_insert_operator(exported[Module].operators, name, args, NewId)]
                     ELSE exported
      /\ complains' = FALSE /\ clash' = FALSE
      /\ Says(d)
      /\ nodes' = nodes + 1
      /\ UNCHANGED <<symtab_stack, current_module, compiled_modules, files, enclosing>>
  BY DEF operator_definition, dnode_insert, NewId
<1>3. /\ IsExported <=> b.construct = "module"
      /\ b.construct = "module" => Module = b.id
  BY <1>0, <1>2, DeclaresWhere
<1>4. \A t : vartab_insert_operator(t, name, args, NewId) = Declared(t, name, args, nodes + 1)
  <2>1. \A t : vartab_insert_operator(t, name, args, NewId) = Declared(t, name, args, NewId)
    BY DEF vartab_insert_operator, Declared
  <2>. QED
    BY <2>1 DEF NewId
<1>5. Sets(tables, kind, Declared(tables[kind], name, args, nodes + 1), tables')
  BY <1>0, <1>2, <1>4 DEF Sets
<1>6. ExportsToo(b, exported, kind, name, args, nodes + 1, exported')
  <2>1. CASE b.construct = "module"
    <3>1. exported' = [exported EXCEPT ![b.id].operators
                         = Declared(exported[b.id].operators, name, args, nodes + 1)]
      BY <1>2, <1>3, <1>4, <2>1
    <3>2. Exports(exported, b.id, kind, Declared(exported[b.id][kind], name, args, nodes + 1),
                  exported')
      BY <1>0, <3>1 DEF Exports
    <3>. QED
      BY <2>1, <3>2 DEF ExportsToo
  <2>2. CASE b.construct # "module"
    BY <1>2, <1>3, <2>2 DEF ExportsToo
  <2>. QED
    BY <2>1, <2>2
<1>. HIDE DEF d, kind, b
<1>7. blocks' = With(blocks, {d}, {}, {}) /\ ShowsToo(b, published, d, published')
  BY <1>0, <1>2, SaysShows
<1>8. DeclFits(compiled_modules, d) /\ args \in AllArgs
  <2>1. nodes + 1 \in Nat \ {0}
    BY <1>1, FitSo
  <2>. QED
    BY <1>0, <2>1, NewDecl
<1>9. Fit(tables', symtab_stack, current_module, compiled_modules, exported', files,
          blocks', enclosing, published', nodes + 1)
  BY <1>0, <1>1, <1>5, <1>6, <1>7, <1>8, DeclareFit
<1>. QED
  BY <1>2, <1>9 DEF Ind, RefusesOnlyClashes

---------------------------------------------------------------------------
\* blocks and functions,

\* A block begins.
LEMMA BlockBegins ==
  ASSUME Uses = {}, Ind, NEW construct, compiler_begin_subscope(construct),
         construct \in {"block", "for lvariable in"}
  PROVE  Ind'
<1>1. construct = "block" /\ construct \in Begins
  BY DEF compiler_begin_subscope, Begins
<1>2. /\ tables' = [k \in Kinds |-> vartab_begin_subscope(tables[k])]
      /\ blocks' = Within(construct, blocks) /\ Quiet
      /\ UNCHANGED <<symtab_stack, current_module, compiled_modules, exported,
                     files, enclosing, published, nodes>>
  BY DEF compiler_begin_subscope, Within
<1>3. tables' = [k \in Kinds |-> Inside(tables[k], construct)]
  BY <1>1, <1>2 DEF Inside
<1>4. Fit(tables, symtab_stack, current_module, compiled_modules, exported, files,
          blocks, enclosing, published, nodes)
  BY DEF Ind
<1>5. Fit(tables', symtab_stack, current_module, compiled_modules, exported, files,
          blocks', enclosing, published, nodes)
  BY <1>1, <1>2, <1>3, <1>4, BeginFits
<1>. QED
  BY <1>2, <1>5 DEF Ind, RefusesOnlyClashes, Quiet

\* A function without a name begins.
LEMMA ScopeBegins ==
  ASSUME Ind, compiler_begin_scope
  PROVE  Ind'
<1>. DEFINE construct == "function"
<1>0. construct = "function" /\ construct \in Begins
  BY DEF Begins
<1>2. /\ tables' = [k \in Kinds |-> vartab_begin_scope(tables[k])]
      /\ blocks' = Within(construct, blocks) /\ Quiet
      /\ UNCHANGED <<symtab_stack, current_module, compiled_modules, exported,
                     files, enclosing, published, nodes>>
  BY DEF compiler_begin_scope, Within, BodyOf
<1>. HIDE DEF construct
<1>3. tables' = [k \in Kinds |-> Inside(tables[k], construct)]
  BY <1>0, <1>2 DEF Inside
<1>4. Fit(tables, symtab_stack, current_module, compiled_modules, exported, files,
          blocks, enclosing, published, nodes)
  BY DEF Ind
<1>5. Fit(tables', symtab_stack, current_module, compiled_modules, exported, files,
          blocks', enclosing, published, nodes)
  BY <1>0, <1>2, <1>3, <1>4, BeginFits
<1>. QED
  BY <1>2, <1>5 DEF Ind, RefusesOnlyClashes, Quiet

\* A block or function ends.
LEMMA Ends ==
  ASSUME Ind, ~InFile, Top.construct \in {"block", "function"},
         blocks' = Tail(blocks), Quiet,
         tables' = [k \in Kinds |-> Ended(tables[k], blocks)],
         UNCHANGED <<symtab_stack, current_module, compiled_modules, exported,
                     files, enclosing, published, nodes>>
  PROVE  Ind'
<1>1. Leaves(blocks, blocks')
  BY DEF Leaves, Top
<1>2. ~ (files # << >> /\ Head(files).depth = Len(enclosing) + Len(blocks))
  BY DEF InFile, Depth
<1>3. Fit(tables, symtab_stack, current_module, compiled_modules, exported, files,
          blocks, enclosing, published, nodes)
  BY DEF Ind
<1>4. Fit(tables', symtab_stack, current_module, compiled_modules, exported, files,
          blocks', enclosing, published, nodes)
  BY <1>1, <1>2, <1>3, EndFits
<1>. QED
  BY <1>4 DEF Ind, RefusesOnlyClashes, Quiet

\* A block ends.
LEMMA BlockEnds ==
  ASSUME Ind, compiler_end_subscope
  PROVE  Ind'
<1>1. Top.construct # "for lvariable in"
  <2>1. Top \in OpenBlocks
    <3>1. BlocksFit(compiled_modules, published, blocks)
      BY FitSo DEF Ind
    <3>. QED
      BY <3>1, BlocksAre DEF Top
  <2>. QED
    BY <2>1 DEF OpenBlocks
<1>2. Top.construct = "block" /\ ~InFile /\ blocks' = Tail(blocks) /\ Quiet
  BY <1>1 DEF compiler_end_subscope
<1>3. tables' = [k \in Kinds |-> Ended(tables[k], blocks)]
  <2>1. tables' = [k \in Kinds |-> vartab_end_subscope(tables[k])]
    BY <1>2 DEF compiler_end_subscope
  <2>2. \A t : Ended(t, blocks) = vartab_end_subscope(t)
    BY <1>2 DEF Ended, Top
  <2>. QED
    BY <2>1, <2>2
<1>4. UNCHANGED <<symtab_stack, current_module, compiled_modules, exported,
                  files, enclosing, published, nodes>>
  BY DEF compiler_end_subscope
<1>. QED
  BY <1>2, <1>3, <1>4, Ends

\* A function ends.
LEMMA FunctionEnds ==
  ASSUME Ind, compiler_end_scope
  PROVE  Ind'
<1>2. Top.construct = "function" /\ ~InFile /\ blocks' = Tail(blocks) /\ Quiet
  BY DEF compiler_end_scope
<1>3. tables' = [k \in Kinds |-> Ended(tables[k], blocks)]
  <2>1. tables' = [k \in Kinds |-> vartab_end_scope(tables[k])]
    BY DEF compiler_end_scope
  <2>2. \A t : Ended(t, blocks) = vartab_end_scope(t)
    BY <1>2 DEF Ended, Top
  <2>. QED
    BY <2>1, <2>2
<1>4. UNCHANGED <<symtab_stack, current_module, compiled_modules, exported,
                  files, enclosing, published, nodes>>
  BY DEF compiler_end_scope
<1>. QED
  BY <1>2, <1>3, <1>4, Ends

---------------------------------------------------------------------------
\* A name that is found and not imported is declared in some block.
LEMMA FoundIsDeclared ==
  ASSUME NEW kind \in Kinds \ {"operators"}, NEW t, NEW cs, Agrees(kind, t, cs),
         NEW name \in AllNames
  PROVE  IsOwn(vartab_lookup_varnode(t, name))
         <=> DeclaredIn(cs, DOMAIN cs, kind, name, NoArgs)
<1>. DEFINE node == vartab_lookup_varnode(t, name)
            v == View(cs, kind, name, NoArgs)
<1>1. Finds(kind, t, node, v) /\ cs \in Seq(OpenBlocks) /\ cs # << >>
  BY FindsName
<1>2. v.here # {} <=> DeclaredIn(cs, DOMAIN cs, kind, name, NoArgs)
  <2>1. v = View(cs, kind, name, NoArgs)
    OBVIOUS
  <2>. HIDE DEF v
  <2>. QED
    BY <1>1, <2>1, ViewFits
<1>. HIDE DEF node, v
<1>3. v.here # {} => IsOwn(node)
  BY <1>1 DEF Finds
<1>4. v.here = {} => node = NoNode \/ node.imported
  BY <1>1 DEF Finds
<1>5. v.here = {} => ~IsOwn(node)
  BY <1>4, NothingFound DEF IsOwn
<1>. QED
  BY <1>2, <1>3, <1>5 DEF node

\* A function with a name begins.
LEMMA FunctionsStep ==
  ASSUME Uses = {}, Ind, NEW name \in Names, compiler_check_and_set_fn_proto(name)
  PROVE  Ind'
<1>. DEFINE d == Decl("vartab", name, "", NewId)
            kind == "vartab"
            b == Top
            found == vartab_lookup_varnode(tables.vartab, name)
            construct == "function"
            Insert(t) == IF IsOwn(found) THEN t ELSE vartab_insert(t, name, NewId)
<1>0. /\ kind = "vartab" /\ d = Decl(kind, name, NoArgs, nodes + 1) /\ b = Head(blocks)
      /\ kind \in {"vartab", "consts"} /\ b = Top
      /\ found = vartab_lookup_varnode(tables[kind], name)
      /\ kind \in Kinds /\ kind \in Kinds \ {"operators"}
      /\ construct = "function" /\ construct \in Begins
  BY DEF NoArgs, NewId, Top, Kinds, Begins
<1>1. /\ Fit(tables, symtab_stack, current_module, compiled_modules, exported, files,
             blocks, enclosing, published, nodes)
      /\ name \in AllNames
  BY DEF Ind, AllNames
<1>2. /\ MayDeclare
      /\ ~DeclaredIn(blocks, DOMAIN blocks \ SameScope(blocks), "vartab", name, "")
      /\ tables' = [k \in Kinds |->
                      vartab_begin_scope(IF k = "vartab" THEN Insert(tables[k])
                                         ELSE tables[k])]
      /\ exported' = IF IsExported
                     THEN [exported EXCEPT ![Module].vartab = Insert(exported[Module].vartab)]
                     ELSE exported
      /\ complains' = \/ IsOwn(found)
                      \/ IsExported /\ vartab_refuses(exported[Module].vartab, name)
      /\ clash' = DeclaredIn(blocks, SameScope(blocks), "vartab", name, "")
      /\ IF clash' THEN blocks' = BodyOf(blocks) /\ UNCHANGED published
         ELSE blocks' = BodyOf(With(blocks, {d}, {}, {})) /\ Publish(d)
      /\ nodes' = nodes + 1
      /\ UNCHANGED <<symtab_stack, current_module, compiled_modules, files, enclosing>>
  BY DEF compiler_check_and_set_fn_proto, dnode_insert, Clashes, NewId
<1>3. /\ IsExported <=> b.construct = "module"
      /\ b.construct = "module" => Module = b.id
  BY <1>0, <1>2, DeclaresWhere
<1>4. clash' <=> DeclaredIn(blocks, SameScope(blocks), kind, name, NoArgs)
  BY <1>0, <1>2 DEF NoArgs
<1>5. IsOwn(found) <=> clash'
  <2>1. Agrees(kind, tables[kind], blocks)
    BY <1>0, <1>1, FitSo
  <2>2. IsOwn(found) <=> DeclaredIn(blocks, DOMAIN blocks, kind, name, NoArgs)
    BY <1>0, <1>1, <2>1, FoundIsDeclared
  <2>3. DeclaredIn(blocks, DOMAIN blocks, kind, name, NoArgs)
        <=> \/ DeclaredIn(blocks, SameScope(blocks), kind, name, NoArgs)
            \/ DeclaredIn(blocks, DOMAIN blocks \ SameScope(blocks), kind, name, NoArgs)
    BY DEF DeclaredIn, SameScope
  <2>4. ~DeclaredIn(blocks, DOMAIN blocks \ SameScope(blocks), kind, name, NoArgs)
    BY <1>0, <1>2 DEF NoArgs
  <2>. QED
    BY <1>4, <2>2, <2>3, <2>4
<1>6. /\ vartab_refuses(tables[kind], name) <=> clash'
      /\ b.construct = "module" =>
           (vartab_refuses(exported[b.id][kind], name) => clash')
  BY <1>0, <1>1, <1>4, InsertComplains
<1>7. complains' <=> clash'
  BY <1>0, <1>2, <1>3, <1>5, <1>6
<1>8. CASE clash'
  <2>1. tables' = [k \in Kinds |-> Inside(tables[k], construct)]
    BY <1>2, <1>5, <1>8 DEF Inside
  <2>2. exported' = exported
    <3>1. CASE IsExported
      <4>1. exported' = [exported EXCEPT ![b.id].vartab = exported[b.id].vartab]
        BY <1>2, <1>3, <1>5, <1>8, <3>1
      <4>2. b.construct = "module" /\ b.id \in DOMAIN published
            /\ Shows(kind, exported[b.id][kind], published[b.id])
        BY <1>0, <1>1, <1>3, <3>1, ModuleShows
      <4>3. exported[b.id][kind] \in Tables(AllNames, AllArgs)
        BY <4>2 DEF Shows
      <4>4. Exports(exported, b.id, kind, exported[b.id][kind], exported')
        BY <1>0, <4>1 DEF Exports
      <4>5. PublishedFits(compiled_modules, published, exported, nodes)
        BY <1>1, FitSo
      <4>. DEFINE m == b.id
                  t == exported[m][kind]
      <4>6. /\ m \in DOMAIN published /\ t \in Tables(AllNames, AllArgs)
            /\ Exports(exported, m, kind, t, exported') /\ t = exported[m][kind]
            /\ kind \in Kinds
        BY <1>0, <4>2, <4>3, <4>4
      <4>. HIDE DEF d, kind, b, found, construct, Insert, m, t
      <4>. QED
        BY <4>5, <4>6, ExportsMore
    <3>2. CASE ~IsExported
      BY <1>2, <3>2
    <3>. QED
      BY <3>1, <3>2
  <2>3. blocks' = Within(construct, blocks) /\ UNCHANGED published
    BY <1>2, <1>8 DEF BodyOf, Within
  <2>. HIDE DEF d, kind, b, found, construct, Insert
  <2>4. Fit(tables, symtab_stack, current_module, compiled_modules, exported, files,
            blocks, enclosing, published, nodes + 1)
    BY <1>1, NothingFits
  <2>5. Fit(tables', symtab_stack, current_module, compiled_modules, exported, files,
            blocks', enclosing, published, nodes + 1)
    BY <1>0, <2>1, <2>3, <2>4, BeginFits
  <2>. QED
    BY <1>2, <1>7, <2>2, <2>3, <2>5 DEF Ind, RefusesOnlyClashes
<1>9. CASE ~clash'
  <2>. DEFINE ts == [tables EXCEPT !["vartab"] = vartab_insert(@, name, NewId)]
              bs == With(blocks, {d}, {}, {})
              t == vartab_insert(tables["vartab"], name, NewId)
  <2>1. /\ Sets(tables, kind, vartab_insert(tables[kind], name, nodes + 1), ts)
        /\ bs = With(blocks, {d}, {}, {}) /\ t = vartab_insert(tables[kind], name, nodes + 1)
    BY <1>0 DEF Sets, NewId
  <2>2. InsertsToo(b, exported, kind, name, nodes + 1, exported')
    <3>1. CASE b.construct = "module"
      <4>1. exported' = [exported EXCEPT ![b.id].vartab
                           = vartab_insert(exported[b.id].vartab, name, nodes + 1)]
        BY <1>2, <1>3, <1>5, <1>9, <3>1 DEF NewId
      <4>2. Exports(exported, b.id, kind,
                    vartab_insert(exported[b.id][kind], name, nodes + 1), exported')
        BY <1>0, <4>1 DEF Exports
      <4>. QED
        BY <3>1, <4>2 DEF InsertsToo
    <3>2. CASE b.construct # "module"
      BY <1>2, <1>3, <3>2 DEF InsertsToo
    <3>. QED
      BY <3>1, <3>2
  <2>3. SaysOrNot(clash', b, blocks, published, kind, name, d, bs, published')
    <3>1. ShowsToo(Top, published, d, published')
      BY <1>2, <1>9 DEF Publish, ShowsToo, Shown
    <3>. QED
      BY <1>0, <1>9, <3>1 DEF SaysOrNot
  <2>4. blocks' = Within(construct, bs)
    BY <1>2, <1>9 DEF BodyOf, Within
  <2>5. \A k \in Kinds :
          (IF k = "vartab" THEN Insert(tables[k]) ELSE tables[k])
           = IF k = kind THEN t ELSE tables[k]
    BY <1>5, <1>9
  <2>6. tables' = [k \in Kinds |->
                     vartab_begin_scope(IF k = kind THEN t ELSE tables[k])]
    BY <1>2, <2>5
  <2>. HIDE DEF d, kind, b, found, construct, Insert, ts, bs, t
  <2>7. Fit(ts, symtab_stack, current_module, compiled_modules, exported', files,
            bs, enclosing, published', nodes + 1)
    BY <1>0, <1>1, <1>4, <2>1, <2>2, <2>3, InsertFits
  <2>8. tables' = [k \in Kinds |-> Inside(ts[k], construct)]
    <3>1. TablesFit(tables, blocks) /\ Sets(tables, kind, t, ts)
      BY <1>1, <2>1, FitSo
    <3>2. ts[kind] = t /\ \A k \in Kinds \ {kind} : ts[k] = tables[k]
      BY <1>0, <3>1, SetsIs
    <3>3. \A k \in Kinds : (IF k = kind THEN t ELSE tables[k]) = ts[k]
      BY <3>2
    <3>4. \A u : Inside(u, construct) = vartab_begin_scope(u)
      BY <1>0 DEF Inside
    <3>. QED
      BY <2>6, <3>3, <3>4
  <2>9. Fit(tables', symtab_stack, current_module, compiled_modules, exported', files,
            blocks', enclosing, published', nodes + 1)
    BY <1>0, <2>4, <2>7, <2>8, BeginFits
  <2>. QED
    BY <1>2, <1>7, <2>9 DEF Ind, RefusesOnlyClashes
<1>. QED
  BY <1>8, <1>9

---------------------------------------------------------------------------
\* modules and files,

\* A name that no declaration has is not found.
LEMMA NameIsFree ==
  ASSUME NEW ts, NEW stack, NEW mods, NEW comp, NEW exp, NEW fs, NEW bs, NEW enc, NEW pub,
         NEW n, Fit(ts, stack, mods, comp, exp, fs, bs, enc, pub, n),
         NEW name \in AllNames, \A d : DeclFits(comp, d) => d.name # name,
         NEW kind \in {"vartab", "consts"}
  PROVE  /\ ~DeclaredIn(bs, SameScope(bs), kind, name, NoArgs)
         /\ Own(bs, 1, kind, name, NoArgs) = {}
         /\ vartab_lookup_varnode(ts[kind], name) = NoNode
<1>0. kind \in Kinds /\ kind \in Kinds \ {"operators"}
  BY DEF Kinds
<1>1. /\ BlocksFit(comp, pub, bs) /\ PublishedFits(comp, pub, exp, n)
      /\ Agrees(kind, ts[kind], bs) /\ bs \in Seq(OpenBlocks) /\ bs # << >>
  BY <1>0, FitSo
<1>2. \A i \in DOMAIN bs : BlockFits(comp, pub, bs[i])
  BY <1>1 DEF BlocksFit
<1>3. \A i \in DOMAIN bs : Own(bs, i, kind, name, NoArgs) = {}
  <2>1. \A i \in DOMAIN bs : \A d \in bs[i].own : d.name # name
    BY <1>2 DEF BlockFits
  <2>. QED
    BY <2>1 DEF Own, Of
<1>4. \A i \in DOMAIN bs : Of(bs[i].imports, kind, name, NoArgs) = {}
  <2>1. ASSUME NEW i \in DOMAIN bs, NEW d \in bs[i].imports
        PROVE  d.name # name
    <3>1. PICK m \in bs[i].uses : d \in pub[m]
      BY <1>2 DEF BlockFits
    <3>2. m \in DOMAIN pub
      BY <1>2, <3>1 DEF BlockFits
    <3>3. DeclFits(comp, d)
      BY <1>1, <3>1, <3>2 DEF PublishedFits
    <3>. QED
      BY <3>3
  <2>. QED
    BY <2>1 DEF Of
<1>5. Imported(bs, kind, name, NoArgs) = {}
  BY <1>4 DEF Imported
<1>6. /\ ~DeclaredIn(bs, DOMAIN bs, kind, name, NoArgs)
      /\ ~DeclaredIn(bs, SameScope(bs), kind, name, NoArgs)
  BY <1>3 DEF DeclaredIn, SameScope
<1>7. Own(bs, 1, kind, name, NoArgs) = {}
  <2>1. 1 \in DOMAIN bs
    BY <1>1
  <2>. QED
    BY <1>3, <2>1
<1>. DEFINE v == View(bs, kind, name, NoArgs)
            node == vartab_lookup_varnode(ts[kind], name)
<1>8. Finds(kind, ts[kind], node, v)
  BY <1>0, <1>1, FindsName
<1>9. v.here = {} /\ v.imports = {}
  <2>1. v = View(bs, kind, name, NoArgs)
    OBVIOUS
  <2>. HIDE DEF v
  <2>2. /\ v.imports = Imported(bs, kind, name, NoArgs)
        /\ v.here # {} <=> DeclaredIn(bs, DOMAIN bs, kind, name, NoArgs)
    BY <1>1, <2>1, ViewFits
  <2>. QED
    BY <1>5, <1>6, <2>2
<1>. HIDE DEF v, node
<1>10. node = NoNode
  BY <1>8, <1>9 DEF Finds
<1>. QED
  BY <1>6, <1>7, <1>10 DEF node

\* A name that is not found is not refused.
LEMMA NothingRefused ==
  ASSUME NEW t, NEW name, vartab_lookup_varnode(t, name) = NoNode
  PROVE  ~vartab_refuses(t, name)
BY NothingFound DEF vartab_refuses

\* As DeclareFits, for what a module's name needs.
LEMMA DeclareAs ==
  ASSUME NEW ts, NEW stack, NEW mods, NEW comp, NEW exp, NEW fs, NEW bs, NEW enc, NEW pub,
         NEW n, Consistent(ts, stack, mods, comp, exp, fs, bs, enc, pub, n),
         NEW kind \in Kinds, NEW name \in AllNames, NEW b, b = Head(bs),
         NEW id, id = n + 1, NEW d, d = Decl(kind, name, NoArgs, id), DeclFits(comp, d),
         Own(bs, 1, kind, name, NoArgs) = {},
         NEW ts2, Sets(ts, kind, Declared(ts[kind], name, NoArgs, id), ts2),
         NEW bs2, bs2 = With(bs, {d}, {}, {}),
         NEW pub2, ShowsToo(b, pub, d, pub2),
         NEW exp2, ExportsToo(b, exp, kind, name, NoArgs, id, exp2)
  PROVE  DOMAIN pub2 = DOMAIN pub /\ Consistent(ts2, stack, mods, comp, exp2, fs, bs2, enc, pub2, id)
<1>1. NoArgs \in AllArgs
  BY DEF AllArgs
<1>. QED
  BY <1>1, DeclareFits

OfVariables(kind) == kind = "vartab"

\* A module begins: its name is declared around it, and its block is opened.
LEMMA ModuleFits ==
  ASSUME NEW ts, NEW stack, NEW mods, NEW comp, NEW exp, NEW fs, NEW bs, NEW enc, NEW pub,
         NEW n, Fit(ts, stack, mods, comp, exp, fs, bs, enc, pub, n),
         NEW b, b = Head(bs), b.construct \in {"program", "module"},
         NEW name \in ModuleNames, vartab_lookup_varnode(comp, name) = NoNode,
         NEW id, id = n + 1, NEW kind, OfVariables(kind), NEW d, d = Decl(kind, name, NoArgs, id),
         NEW comp2, comp2 = Declared(comp, name, NoArgs, id),
         NEW ts1, Sets(ts, kind, Declared(ts[kind], name, NoArgs, id), ts1),
         NEW ts2, Sets(Fresh, kind, Declared(Fresh[kind], name, NoArgs, id), ts2),
         NEW exp1, ExportsToo(b, exp, kind, name, NoArgs, id, exp1),
         NEW exp2, OnTop(id, Fresh, exp1, exp2),
         NEW pub1, ShowsToo(b, pub, d, pub1), NEW pub2, OnTop(id, {}, pub1, pub2),
         NEW stack2, Puts(ts1, stack, stack2), NEW mods2, Puts(id, mods, mods2),
         NEW b1, b1 = Head(With(bs, {d}, {}, {})), NEW enc2, Puts(b1, enc, enc2),
         NEW bs2, OpensModule(id, d, bs2)
  PROVE  Fit(ts2, stack2, mods2, comp2, exp2, fs, bs2, enc2, pub2, n + 1)
<1>0. /\ Consistent(ts, stack, mods, comp, exp, fs, bs, enc, pub, n) /\ n \in Nat
      /\ CompiledFit(comp, pub) /\ name \in AllNames /\ NoArgs \in AllArgs
      /\ bs \in Seq(OpenBlocks) /\ bs # << >>
      /\ kind \in Kinds /\ kind # "operators"
      /\ n + 1 \in Nat \ {0}
  BY FitSo DEF AllNames, AllArgs, Kinds, OfVariables
<1>1. /\ Keeps(comp, pub, comp2, pub)
      /\ \A e : DeclFits(comp, e) => e.name # name
      /\ comp2 \in Tables(AllNames, AllArgs)
      /\ Compiled(comp2, name) = id
      /\ \A i \in DOMAIN comp2.node :
           comp2.node[i].dnode = id
             \/ \E j \in DOMAIN comp.node : comp2.node[i].dnode = comp.node[j].dnode
  <2>1. comp \in Tables(AllNames, AllArgs)
    BY <1>0 DEF CompiledFit
  <2>. QED
    BY <1>0, <2>1, CompileKeeps
<1>2. Consistent(ts, stack, mods, comp2, exp, fs, bs, enc, pub, n)
  BY <1>0, <1>1, ConsistentKeeps
<1>3. Own(bs, 1, kind, name, NoArgs) = {}
  <2>1. kind \in {"vartab", "consts"}
    BY DEF OfVariables
  <2>. QED
    BY <1>0, <1>1, <2>1, NameIsFree
<1>4. DeclFits(comp2, d) /\ d = Decl("vartab", name, NoArgs, id)
  <2>1. d \in Decls
    BY <1>0 DEF Decls, Decl
  <2>2. d.name = name /\ d.kind = "vartab" /\ d.dnode = id
    BY DEF Decl, OfVariables
  <2>. QED
    BY <1>1, <2>1, <2>2 DEF DeclFits, OfVariables
<1>. DEFINE bs1 == With(bs, {d}, {}, {})
<1>5. bs1 = With(bs, {d}, {}, {}) /\ b1 = Head(bs1)
  OBVIOUS
<1>. HIDE DEF bs1
<1>6. /\ DOMAIN pub1 = DOMAIN pub
      /\ Consistent(ts1, stack, mods, comp2, exp1, fs, bs1, enc, pub1, id)
  BY <1>0, <1>2, <1>3, <1>4, <1>5, DeclareAs
<1>7. b1.construct = b.construct
  <2>. DEFINE one == {d}
              none == {}
  <2>1. one = {d} /\ none = {} /\ bs1 = With(bs, one, none, none)
    BY <1>5
  <2>2. Additions(one, none, none)
    BY <1>4 DEF Additions, DeclFits
  <2>. HIDE DEF one, none
  <2>3. Grows(kind, bs, bs1, one, none)
    BY <1>0, <2>1, <2>2, WithGrows
  <2>. QED
    BY <1>5, <2>3 DEF Grows
<1>8. id \in Nat \ {0} /\ id = n + 1 /\ id \notin DOMAIN pub1
  <2>1. DOMAIN pub \subseteq 1 .. n
    BY <1>0, SomeTyping
  <2>. QED
    BY <1>0, <1>6, <2>1
<1>9. NotAmong(id, mods)
  <2>1. mods \in Seq(Nat) /\ \A i \in DOMAIN mods : mods[i] <= n
    BY <1>0 DEF Consistent, ModulesFit
  <2>2. \A i \in DOMAIN mods : mods[i] \in Nat
    BY <2>1
  <2>. QED
    BY <1>0, <2>1, <2>2 DEF NotAmong
<1>10. b1.construct \in {"program", "module"}
  BY <1>7
<1>11. Sets(Fresh, "vartab", Declared(Fresh["vartab"], name, NoArgs, id), ts2)
  BY DEF OfVariables
<1>12. /\ Consistent(ts2, stack2, mods2, comp2, exp2, fs, bs2, enc2, pub2, n + 1)
       /\ DOMAIN pub2 = {id} \cup DOMAIN pub1
  BY <1>4, <1>5, <1>6, <1>8, <1>9, <1>10, <1>11, OpenFits
<1>13. CompiledFit(comp2, pub2)
  BY <1>0, <1>1, <1>6, <1>12 DEF CompiledFit
<1>. QED
  BY <1>12, <1>13 DEF Fit

\* With more declared in it, and nothing else.
LEMMA OnlyMoreOwn ==
  ASSUME NEW bs \in Seq(OpenBlocks), bs # << >>, NEW d, d \in Decls
  PROVE  Head(With(bs, {d}, {}, {})) = [Head(bs) EXCEPT !.own = @ \cup {d}]
<1>. DEFINE b == Head(bs)
            c == [b EXCEPT !.own = @ \cup {d}, !.imports = @ \cup {}, !.uses = @ \cup {}]
            t == Tail(bs)
<1>1. b \in OpenBlocks /\ t \in Seq(OpenBlocks)
  OBVIOUS
<1>2. c = [b EXCEPT !.own = @ \cup {d}]
  <2>1. b.imports \cup {} = b.imports /\ b.uses \cup {} = b.uses
    OBVIOUS
  <2>2. c = [b EXCEPT !.own = @ \cup {d}, !.imports = b.imports, !.uses = b.uses]
    BY <2>1
  <2>. DEFINE more == b.own \cup {d}
  <2>. HIDE DEF more
  <2>3. [b EXCEPT !.own = more, !.imports = b.imports, !.uses = b.uses]
        = [b EXCEPT !.own = more]
    BY <1>1 DEF OpenBlocks
  <2>. QED
    BY <2>2, <2>3 DEF more
<1>3. c \in OpenBlocks
  BY <1>1 DEF OpenBlocks
<1>4. With(bs, {d}, {}, {}) = <<c>> \o t
  BY DEF With
<1>. HIDE DEF b, c, t
<1>5. Head(<<c>> \o t) = c
  BY <1>1, <1>3
<1>. QED
  BY <1>2, <1>4, <1>5 DEF b

\* A module begins.
LEMMA ModulesStep ==
  ASSUME Uses = {}, Ind, NEW name \in ModuleNames, compiler_begin_module(name)
  PROVE  Ind'
<1>. DEFINE d == Decl("vartab", name, "", NewId)
            kind == "vartab"
            b == Top
            id == NewId
            ts1 == [tables EXCEPT !.vartab = vartab_insert_module(@, name, NewId)]
            exp1 == IF IsExported
                    THEN [exported EXCEPT ![Module].vartab = vartab_insert(@, name, NewId)]
                    ELSE exported
            pub1 == IF Top.construct = "module"
                    THEN [published EXCEPT ![Top.id] = @ \cup {d}] ELSE published
            b1 == [Top EXCEPT !.own = @ \cup {d}]
<1>0. /\ kind = "vartab" /\ d = Decl(kind, name, NoArgs, id) /\ b = Head(blocks)
      /\ kind \in {"vartab", "consts"} /\ b = Top /\ id = nodes + 1 /\ OfVariables(kind)
      /\ id = NewId /\ kind \in Kinds
  BY DEF NoArgs, NewId, Top, OfVariables, Kinds
<1>1. /\ Fit(tables, symtab_stack, current_module, compiled_modules, exported, files,
             blocks, enclosing, published, nodes)
      /\ name \in AllNames /\ nodes \in Nat /\ CompiledFit(compiled_modules, published)
      /\ blocks \in Seq(OpenBlocks) /\ blocks # << >>
      /\ id \in Nat \ {0}
  BY FitSo DEF Ind, AllNames, NewId
<1>2. /\ Top.construct \in {"program", "module"}
      /\ vartab_lookup_varnode(compiled_modules, name) = NoNode
  BY DEF compiler_begin_module
<1>3. \A e : DeclFits(compiled_modules, e) => e.name # name
  <2>1. compiled_modules \in Tables(AllNames, AllArgs)
    BY <1>1 DEF CompiledFit
  <2>. QED
    BY <1>1, <1>2, <2>1, CompileKeeps
<1>4. /\ ~DeclaredIn(blocks, SameScope(blocks), kind, name, NoArgs)
      /\ vartab_lookup_varnode(tables[kind], name) = NoNode
  BY <1>0, <1>1, <1>3, NameIsFree
<1>5. /\ ~vartab_refuses(tables[kind], name) /\ ~vartab_refuses(compiled_modules, name)
      /\ b.construct = "module" => ~vartab_refuses(exported[b.id][kind], name)
  <2>1. b.construct = "module" => ~vartab_refuses(exported[b.id][kind], name)
    BY <1>0, <1>1, <1>4, InsertComplains
  <2>. QED
    BY <1>2, <1>4, <2>1, NothingRefused
<1>6. /\ IsExported <=> b.construct = "module"
      /\ b.construct = "module" => Module = b.id
  <2>1. MayDeclare
    BY <1>2, DeclaresWhere DEF MayDeclare, InBlockOfModule
  <2>. QED
    BY <1>0, <2>1, DeclaresWhere
<1>7. ~clash'
  <2>1. clash' = DeclaredIn(blocks, SameScope(blocks), "vartab", name, "")
    BY DEF compiler_begin_module, Clashes
  <2>. QED
    BY <1>0, <1>4, <2>1 DEF NoArgs
<1>8. ~complains'
  <2>1. complains' = \/ vartab_refuses(tables.vartab, name)
                     \/ vartab_refuses(compiled_modules, name)
                     \/ IsExported /\ vartab_refuses(exported[Module].vartab, name)
    BY DEF compiler_begin_module
  <2>. QED
    BY <1>0, <1>5, <1>6, <2>1
<1>9. /\ symtab_stack' = <<ts1>> \o symtab_stack
      /\ compiled_modules' = vartab_insert_module(compiled_modules, name, NewId)
      /\ tables' = [Fresh EXCEPT !.vartab = vartab_insert(@, name, NewId)]
      /\ current_module' = <<NewId>> \o current_module
      /\ exported' = WithModule(exp1, NewId, Fresh)
      /\ blocks' = <<[Block("module", NewId) EXCEPT !.own = {d}]>>
      /\ nodes' = NewId
      /\ UNCHANGED files
  BY DEF compiler_begin_module
<1>10. /\ enclosing' = <<b1>> \o enclosing
       /\ published' = WithModule(pub1, NewId, {})
  BY <1>7 DEF compiler_begin_module
<1>11. compiled_modules' = Declared(compiled_modules, name, NoArgs, id)
  BY <1>0, <1>2, <1>5, <1>9, InsertIs
<1>12. Sets(tables, kind, Declared(tables[kind], name, NoArgs, id), ts1)
  <2>1. vartab_insert_module(tables[kind], name, id) = Declared(tables[kind], name, NoArgs, id)
    BY <1>4, <1>5, InsertIs
  <2>. QED
    BY <1>0, <2>1 DEF Sets
<1>13. Sets(Fresh, kind, Declared(Fresh[kind], name, NoArgs, id), tables')
  <2>1. Fresh[kind] = new_vartab
    BY <1>0 DEF Fresh
  <2>2. ~vartab_refuses(Fresh[kind], name)
    BY <2>1, NewTable, NothingRefused
  <2>3. vartab_insert(Fresh[kind], name, id) = Declared(Fresh[kind], name, NoArgs, id)
    BY <2>2, InsertIs
  <2>. QED
    BY <1>0, <1>9, <2>3 DEF Sets
<1>14. ExportsToo(b, exported, kind, name, NoArgs, id, exp1)
  <2>1. CASE b.construct = "module"
    <3>1. exp1 = [exported EXCEPT ![b.id].vartab = vartab_insert(exported[b.id].vartab, name, id)]
      BY <1>0, <1>6, <2>1
    <3>2. vartab_insert(exported[b.id][kind], name, id)
          = Declared(exported[b.id][kind], name, NoArgs, id)
      BY <1>5, <2>1, InsertIs
    <3>3. Exports(exported, b.id, kind, vartab_insert(exported[b.id][kind], name, id), exp1)
      BY <1>0, <3>1 DEF Exports
    <3>. QED
      BY <2>1, <3>2, <3>3 DEF ExportsToo
  <2>2. CASE b.construct # "module"
    BY <1>6, <2>2 DEF ExportsToo
  <2>. QED
    BY <2>1, <2>2
<1>15. ShowsToo(b, published, d, pub1)
  BY DEF ShowsToo, Shown
<1>16. b1 = Head(With(blocks, {d}, {}, {}))
  <2>1. d \in Decls
    BY <1>0, <1>1 DEF Decls, Decl, AllArgs
  <2>. QED
    BY <1>1, <2>1, OnlyMoreOwn DEF Top
<1>17. OpensModule(id, d, blocks')
  <2>1. [Block("module", NewId) EXCEPT !.own = {d}]
        = [Block("module", NewId) EXCEPT !.own = @ \cup {d}, !.imports = @ \cup {}, !.uses = @ \cup {}]
    BY DEF Block
  <2>2. \A x : Head(<<x>>) = x /\ Tail(<<x>>) = << >> /\ <<x>> \o << >> = <<x>>
    OBVIOUS
  <2>. DEFINE B == Block("module", id)
              c == [B EXCEPT !.own = @ \cup {d}, !.imports = @ \cup {}, !.uses = @ \cup {}]
  <2>3. blocks' = <<c>>
    BY <1>0, <1>9, <2>1
  <2>4. With(<<B>>, {d}, {}, {}) = <<c>> \o << >>
    BY <2>2 DEF With
  <2>. HIDE DEF c
  <2>5. With(<<B>>, {d}, {}, {}) = <<c>>
    BY <2>2, <2>4
  <2>. QED
    BY <2>3, <2>5 DEF OpensModule
<1>18. /\ Puts(ts1, symtab_stack, symtab_stack') /\ Puts(id, current_module, current_module')
       /\ Puts(b1, enclosing, enclosing')
       /\ OnTop(id, Fresh, exp1, exported') /\ OnTop(id, {}, pub1, published')
  BY <1>9, <1>10 DEF Puts, OnTop
<1>19. b.construct \in {"program", "module"}
  BY <1>2
<1>. HIDE DEF d, kind, b, id, ts1, exp1, pub1, b1
<1>20. Fit(tables', symtab_stack', current_module', compiled_modules', exported', files,
           blocks', enclosing', published', nodes + 1)
  BY <1>0, <1>1, <1>2, <1>11, <1>12, <1>13, <1>14, <1>15, <1>16, <1>17, <1>18, <1>19, ModuleFits
<1>. QED
  BY <1>7, <1>8, <1>9, <1>20 DEF Ind, RefusesOnlyClashes, NewId

\* A module ends.
LEMMA ModuleEnds ==
  ASSUME Ind, compiler_end_module
  PROVE  Ind'
<1>. DEFINE m == Head(current_module)
            b == Head(enclosing)
<1>1. /\ Pops(symtab_stack, tables', symtab_stack') /\ Pops(current_module, m, current_module')
      /\ Pops(enclosing, b, enclosing') /\ blocks' = <<b>>
      /\ Head(blocks).construct = "module" /\ Quiet
      /\ ~ (files # << >> /\ Head(files).depth = Len(enclosing) + Len(blocks))
      /\ UNCHANGED <<compiled_modules, exported, files, published, nodes>>
  BY DEF compiler_end_module, Pops, Top, InFile, Depth
<1>. HIDE DEF m, b
<1>2. Fit(tables, symtab_stack, current_module, compiled_modules, exported, files,
          blocks, enclosing, published, nodes)
  BY DEF Ind
<1>3. Fit(tables', symtab_stack', current_module', compiled_modules, exported, files,
          blocks', enclosing', published, nodes)
  BY <1>1, <1>2, CloseFits
<1>. QED
  BY <1>1, <1>3 DEF Ind, RefusesOnlyClashes, Quiet

\* Not in a function.
LEMMA CanUse ==
  ASSUME compiler_can_compile_use_statement
  PROVE  ~InFunction(blocks)
BY DEF compiler_can_compile_use_statement, InFunction

\* The file of a module is opened.
LEMMA FileStep ==
  ASSUME Ind, NEW name \in ModuleNames, NEW is_use \in BOOLEAN,
         compiler_open_include_file(name, is_use)
  PROVE  Ind'
<1>. DEFINE f == [name |-> name, is_use |-> is_use, depth |-> Len(enclosing) + Len(blocks)]
<1>1. /\ Puts(f, files, files') /\ ~InFunction(blocks) /\ Quiet
      /\ f = [name |-> name, is_use |-> is_use, depth |-> Len(enclosing) + Len(blocks)]
  BY CanUse DEF compiler_open_include_file, Puts, Depth
<1>2. /\ UNCHANGED <<tables, symtab_stack, current_module, compiled_modules, exported>>
      /\ UNCHANGED <<blocks, enclosing, published, nodes>>
  BY DEF compiler_open_include_file, compiler, source
<1>. HIDE DEF f
<1>3. Fit(tables, symtab_stack, current_module, compiled_modules, exported, files,
          blocks, enclosing, published, nodes)
  BY DEF Ind
<1>4. Fit(tables, symtab_stack, current_module, compiled_modules, exported, files',
          blocks, enclosing, published, nodes)
  BY <1>1, <1>3, FileOpens
<1>. QED
  BY <1>1, <1>2, <1>4 DEF Ind, RefusesOnlyClashes, Quiet

\* The invariant holds as the compiler is created,
LEMMA Starts ==
  Init => Ind
<1>. HAVE Init
<1>1. /\ tables = Fresh /\ symtab_stack = << >> /\ current_module = <<NONE>>
      /\ compiled_modules = new_vartab /\ exported = << >> /\ files = << >>
      /\ blocks = <<Block("program", NONE)>> /\ enclosing = << >> /\ published = << >>
      /\ complains = FALSE /\ clash = FALSE /\ nodes = 0
  BY DEF Init
<1>2. Fit(tables, symtab_stack, current_module, compiled_modules, exported, files,
          blocks, enclosing, published, nodes)
  BY <1>1, StartFits
<1>. QED
  BY <1>1, <1>2 DEF Ind, RefusesOnlyClashes

\* as it is deleted,
LEMMA Deletes ==
  delete_compiler => Ind'
<1>. HAVE delete_compiler
<1>1. /\ tables' = Fresh /\ symtab_stack' = << >> /\ current_module' = <<NONE>>
      /\ compiled_modules' = new_vartab /\ exported' = << >> /\ files' = << >>
      /\ blocks' = <<Block("program", NONE)>> /\ enclosing' = << >> /\ published' = << >>
      /\ complains' = FALSE /\ clash' = FALSE /\ nodes' = 0
  BY DEF delete_compiler, Quiet
<1>2. Fit(tables', symtab_stack', current_module', compiled_modules', exported', files',
          blocks', enclosing', published', nodes')
  BY <1>1, StartFits
<1>. QED
  BY <1>1, <1>2 DEF Ind, RefusesOnlyClashes

\* and when nothing happens.
LEMMA Stays ==
  Ind /\ UNCHANGED vars => Ind'
BY DEF Ind, RefusesOnlyClashes, vars, compiler, source

---------------------------------------------------------------------------
\* and names of other modules.

\* A module that is found among the compiled ones shows something.
LEMMA CompiledIs ==
  ASSUME NEW comp, NEW pub, CompiledFit(comp, pub), NEW name, Compiled(comp, name) # NONE
  PROVE  Compiled(comp, name) \in DOMAIN pub
<1>1. /\ comp \in Tables(AllNames, AllArgs)
      /\ \A i \in DOMAIN comp.node : comp.node[i].dnode \in DOMAIN pub
  BY DEF CompiledFit
<1>2. CASE \A i \in DOMAIN comp.node : comp.node[i].name # name
  <2>1. vartab_lookup_varnode(comp, name) = NoNode
    BY <1>1, <1>2, LookupIs
  <2>. QED
    BY <2>1, NothingFound DEF Compiled, NONE
<1>3. CASE \E i \in DOMAIN comp.node : comp.node[i].name = name
  <2>1. \E i \in DOMAIN comp.node : vartab_lookup_varnode(comp, name) = comp.node[i]
    BY <1>1, <1>3, LookupIs
  <2>. QED
    BY <1>1, <2>1 DEF Compiled
<1>. QED
  BY <1>2, <1>3

\* Whatever has the name of a module is its declaration.
LEMMA ModulesNameThemselves ==
  ASSUME NEW ts, NEW stack, NEW mods, NEW comp, NEW exp, NEW fs, NEW bs, NEW enc, NEW pub,
         NEW n, Fit(ts, stack, mods, comp, exp, fs, bs, enc, pub, n),
         NEW name \in ModuleNames, NEW m, m = Compiled(comp, name), m # NONE,
         NEW kind, OfVariables(kind), NEW d, d = Decl(kind, name, NoArgs, m)
  PROVE  /\ m \in DOMAIN pub /\ m \in Nat \ {0} /\ DeclFits(comp, d) /\ name \in AllNames
         /\ Innermost(bs, kind, name, NoArgs) \subseteq {d}
         /\ Imported(bs, kind, name, NoArgs) \subseteq {d}
<1>1. /\ BlocksFit(comp, pub, bs) /\ PublishedFits(comp, pub, exp, n) /\ CompiledFit(comp, pub)
      /\ n \in Nat
      /\ name \in AllNames
  BY FitSo DEF AllNames
<1>2. m \in DOMAIN pub
  BY <1>1, CompiledIs
<1>3. m \in Nat \ {0}
  BY <1>1, <1>2 DEF PublishedFits
<1>4. DeclFits(comp, d)
  <2>1. d \in Decls
    BY <1>1, <1>3 DEF Decls, Decl, Kinds, AllArgs, OfVariables
  <2>. QED
    BY <2>1 DEF DeclFits, Decl, OfVariables
<1>5. \A e : DeclFits(comp, e) /\ e.name = name => e = d
  <2>. TAKE e
  <2>. HAVE DeclFits(comp, e) /\ e.name = name
  <2>1. e \in Decls /\ e.kind = "vartab" /\ e.dnode = m
    BY DEF DeclFits
  <2>2. e.args = NoArgs
    BY <2>1 DEF Decls
  <2>. QED
    BY <2>1, <2>2 DEF Decls, Decl, OfVariables
<1>6. \A i \in DOMAIN bs : BlockFits(comp, pub, bs[i])
  BY <1>1 DEF BlocksFit
<1>7. \A i \in DOMAIN bs : \A e \in bs[i].own : e.name = name => e = d
  BY <1>5, <1>6 DEF BlockFits
<1>8. \A i \in DOMAIN bs : \A e \in bs[i].imports : e.name = name => e = d
  <2>. TAKE i \in DOMAIN bs
  <2>. TAKE e \in bs[i].imports
  <2>1. PICK m2 \in bs[i].uses : e \in pub[m2]
    BY <1>6 DEF BlockFits
  <2>2. m2 \in DOMAIN pub
    BY <1>6, <2>1 DEF BlockFits
  <2>3. DeclFits(comp, e)
    BY <1>1, <2>1, <2>2 DEF PublishedFits
  <2>. QED
    BY <1>5, <2>3
<1>9. Innermost(bs, kind, name, NoArgs) \subseteq {d}
  BY <1>7 DEF Innermost, Own, Of
<1>10. Imported(bs, kind, name, NoArgs) \subseteq {d}
  BY <1>8 DEF Imported, Of
<1>. QED
  BY <1>1, <1>2, <1>3, <1>4, <1>9, <1>10

\* Looking up such a name finds the module or nothing.
LEMMA ModuleFound ==
  ASSUME NEW ts, NEW stack, NEW mods, NEW comp, NEW exp, NEW fs, NEW bs, NEW enc, NEW pub,
         NEW n, Fit(ts, stack, mods, comp, exp, fs, bs, enc, pub, n),
         NEW name \in ModuleNames, NEW m, m = Compiled(comp, name), m # NONE,
         NEW kind, OfVariables(kind), NEW d, d = Decl(kind, name, NoArgs, m),
         NEW node, node = vartab_lookup_varnode(ts[kind], name)
  PROVE  /\ DeclaredIn(bs, DOMAIN bs, kind, name, NoArgs)
              => node.dnode = m /\ Innermost(bs, kind, name, NoArgs) = {d}
         /\ ~DeclaredIn(bs, DOMAIN bs, kind, name, NoArgs) =>
              \/ node = NoNode /\ Imported(bs, kind, name, NoArgs) = {}
              \/ node.dnode = m /\ Imported(bs, kind, name, NoArgs) = {d}
<1>. DEFINE v == View(bs, kind, name, NoArgs)
<1>1. /\ Innermost(bs, kind, name, NoArgs) \subseteq {d}
      /\ Imported(bs, kind, name, NoArgs) \subseteq {d} /\ name \in AllNames
  BY ModulesNameThemselves
<1>2. bs \in Seq(OpenBlocks) /\ bs # << >> /\ kind \in Kinds \ {"operators"}
      /\ Agrees(kind, ts[kind], bs)
  BY FitSo DEF Kinds, OfVariables
<1>3. Finds(kind, ts[kind], node, v)
  BY <1>1, <1>2, FindsName
<1>4. /\ v.here = Innermost(bs, kind, name, NoArgs)
      /\ v.imports = Imported(bs, kind, name, NoArgs)
      /\ v.here # {} <=> DeclaredIn(bs, DOMAIN bs, kind, name, NoArgs)
  <2>1. v = View(bs, kind, name, NoArgs)
    OBVIOUS
  <2>. HIDE DEF v
  <2>. QED
    BY <1>2, <2>1, ViewFits
<1>. HIDE DEF v
<1>5. d.dnode = m
  BY DEF Decl
<1>6. v.here # {} => Mentions(v.here, node.dnode)
  BY <1>3 DEF Finds
<1>7. v.here = {} /\ v.imports = {} => node = NoNode
  BY <1>3 DEF Finds
<1>8. v.here = {} /\ v.imports # {} => Mentions(v.imports, node.dnode)
  BY <1>3 DEF Finds
<1>. QED
  BY <1>1, <1>4, <1>5, <1>6, <1>7, <1>8 DEF Mentions

---------------------------------------------------------------------------
\* use name from M.
LEMMA SelectedStep ==
  ASSUME Ind, NEW kind \in {"vartab", "consts"}, NEW module_name \in ModuleNames,
         NEW name \in Names, compiler_import_selected_names(kind, module_name, name)
  PROVE  Ind'
<1>. DEFINE m == vartab_lookup_varnode(compiled_modules, module_name).dnode
            dnode == vartab_lookup_varnode(exported[m][kind], name).dnode
            d == Decl(kind, name, "", dnode)
<1>1. /\ Fit(tables, symtab_stack, current_module, compiled_modules, exported, files,
             blocks, enclosing, published, nodes)
      /\ name \in AllNames /\ CompiledFit(compiled_modules, published)
      /\ blocks \in Seq(OpenBlocks) /\ blocks # << >> /\ TablesFit(tables, blocks)
      /\ kind \in Kinds /\ kind \in Kinds \ {"operators"} /\ kind # "operators"
      /\ d = Decl(kind, name, NoArgs, dnode)
  BY FitSo DEF Ind, AllNames, Kinds, NoArgs
<1>2. /\ m # NONE /\ dnode # NONE
      /\ tables' = [tables EXCEPT ![kind] = vartab_insert(@, name, dnode)]
      /\ complains' = vartab_refuses(tables[kind], name)
      /\ clash' = DeclaredIn(blocks, SameScope(blocks), kind, name, "")
      /\ blocks' = With(blocks, IF clash' THEN {} ELSE {d}, {}, {})
      /\ UNCHANGED <<symtab_stack, current_module, compiled_modules, exported, files,
                     enclosing, published, nodes>>
  BY DEF compiler_import_selected_names, Clashes
<1>3. m \in DOMAIN published
  BY <1>1, <1>2, CompiledIs DEF Compiled
<1>4. dnode \in Nat \ {0}
  <2>. DEFINE t == exported[m][kind]
              decls == published[m]
              node == vartab_lookup_operator(t, name, NoArgs)
  <2>1. decls \in SUBSET Decls /\ Shows(kind, t, decls) /\ t = exported[m][kind]
        /\ node = vartab_lookup_operator(t, name, NoArgs)
    BY <1>1, <1>3, FitSo
  <2>. HIDE DEF t, decls
  <2>2. vartab_lookup_varnode(t, name) = node
    BY <1>1, <2>1, ShownByName
  <2>3. /\ Of(decls, kind, name, NoArgs) = {} => node = NoNode
        /\ Of(decls, kind, name, NoArgs) # {} => Decl(kind, name, NoArgs, node.dnode) \in decls
    BY <2>1, ShownIs
  <2>. HIDE DEF node
  <2>4. dnode = node.dnode
    BY <2>1, <2>2
  <2>5. node # NoNode
    BY <1>2, <2>4, NothingFound DEF NONE
  <2>6. Decl(kind, name, NoArgs, node.dnode) \in Decls
    BY <2>1, <2>3, <2>5
  <2>. QED
    BY <2>4, <2>6 DEF Decls, Decl
<1>. HIDE DEF m, dnode, d
<1>5. clash' <=> DeclaredIn(blocks, SameScope(blocks), kind, name, NoArgs)
  BY <1>2 DEF NoArgs
<1>6. vartab_refuses(tables[kind], name) <=> clash'
  BY <1>1, <1>5, InsertComplains
<1>7. Sets(tables, kind, vartab_insert(tables[kind], name, dnode), tables')
  BY <1>2 DEF Sets
<1>8. CASE clash'
  <2>1. tables' = tables
    <3>1. vartab_insert(tables[kind], name, dnode) = tables[kind]
      BY <1>6, <1>8, InsertIs
    <3>. QED
      BY <1>1, <1>7, <3>1, SetsIs
  <2>2. blocks' = blocks
    BY <1>1, <1>2, <1>8, WithNothing
  <2>. QED
    BY <1>1, <1>2, <1>6, <2>1, <2>2 DEF Ind, RefusesOnlyClashes
<1>9. CASE ~clash'
  <2>1. Sets(tables, kind, Declared(tables[kind], name, NoArgs, dnode), tables')
    BY <1>6, <1>7, <1>9, InsertIs
  <2>2. blocks' = With(blocks, {d}, {}, {})
    BY <1>2, <1>9
  <2>3. Own(blocks, 1, kind, name, NoArgs) = {}
    BY <1>1, <1>5, <1>9, OwnIsInScope
  <2>4. DeclFits(compiled_modules, d)
    BY <1>1, <1>4, NewDecl
  <2>5. Fit(tables', symtab_stack, current_module, compiled_modules, exported, files,
            blocks', enclosing, published, nodes)
    BY <1>1, <1>4, <2>1, <2>2, <2>3, <2>4, HereFits
  <2>. QED
    BY <1>2, <1>6, <2>5 DEF Ind, RefusesOnlyClashes
<1>. QED
  BY <1>8, <1>9

\* import M.
LEMMA ImportStep ==
  ASSUME Uses = {}, Ind, NEW name \in ModuleNames, compiler_import_module(name)
  PROVE  Ind'
<1>. DEFINE m == vartab_lookup_varnode(compiled_modules, name).dnode
            kind == "vartab"
            d == Decl("vartab", name, "", m)
            t == tables[kind]
<1>1. /\ Fit(tables, symtab_stack, current_module, compiled_modules, exported, files,
             blocks, enclosing, published, nodes)
      /\ name \in AllNames /\ CompiledFit(compiled_modules, published)
      /\ blocks \in Seq(OpenBlocks) /\ blocks # << >> /\ TablesFit(tables, blocks)
      /\ kind \in Kinds /\ kind # "operators" /\ kind \in {"vartab", "consts"}
      /\ OfVariables(kind) /\ t = tables[kind]
      /\ d = Decl(kind, name, NoArgs, m)
  BY FitSo DEF Ind, AllNames, Kinds, NoArgs, OfVariables
<1>2. /\ m # NONE /\ ~ \E i \in DOMAIN blocks : d \in blocks[i].imports
      /\ tables' = [tables EXCEPT !.vartab = vartab_insert_module(@, name, m)]
      /\ complains' = vartab_refuses(tables.vartab, name)
      /\ clash' = DeclaredIn(blocks, SameScope(blocks), "vartab", name, "")
      /\ blocks' = With(blocks, IF clash' THEN {} ELSE {d}, {}, {})
      /\ ~InFunction(blocks)
      /\ UNCHANGED <<symtab_stack, current_module, compiled_modules, exported, files,
                     enclosing, published, nodes>>
  BY CanUse DEF compiler_import_module, Clashes
<1>3. /\ clash' <=> DeclaredIn(blocks, SameScope(blocks), kind, name, NoArgs)
      /\ complains' = vartab_refuses(t, name)
      /\ Sets(tables, kind, vartab_insert_module(t, name, m), tables')
      /\ m = Compiled(compiled_modules, name)
  BY <1>1, <1>2 DEF NoArgs, Sets, Compiled
<1>. HIDE DEF m, d, kind, t
<1>10. /\ Fit(tables, symtab_stack, current_module, compiled_modules, exported, files,
              blocks, enclosing, published, nodes)
       /\ m = Compiled(compiled_modules, name) /\ m # NONE
       /\ OfVariables(kind) /\ d = Decl(kind, name, NoArgs, m)
  BY <1>1, <1>2, <1>3
<1>4. m \in Nat \ {0} /\ DeclFits(compiled_modules, d)
  BY <1>10, ModulesNameThemselves
<1>5. vartab_refuses(t, name) <=> clash'
  BY <1>1, <1>3, InsertComplains
<1>6. CASE clash'
  <2>1. tables' = tables
    <3>1. vartab_insert_module(t, name, m) = tables[kind]
      BY <1>1, <1>5, <1>6, InsertIs
    <3>. QED
      BY <1>1, <1>3, <3>1, SetsIs
  <2>2. blocks' = blocks
    BY <1>1, <1>2, <1>6, WithNothing
  <2>. QED
    BY <1>1, <1>2, <1>3, <1>5, <2>1, <2>2 DEF Ind, RefusesOnlyClashes
<1>7. CASE ~clash'
  <2>1. vartab_lookup_varnode(t, name) = NoNode
    <3>1. ~DeclaredIn(blocks, DOMAIN blocks, kind, name, NoArgs)
      <4>. DEFINE v == View(blocks, kind, name, NoArgs)
      <4>1. v = View(blocks, kind, name, NoArgs)
        OBVIOUS
      <4>. HIDE DEF v
      <4>2. /\ v.scope # {} <=> DeclaredIn(blocks, SameScope(blocks), kind, name, NoArgs)
            /\ v.here # {} <=> DeclaredIn(blocks, DOMAIN blocks, kind, name, NoArgs)
            /\ v.here # {} => v.scope # {}
        <5>1. blocks \in Seq(OpenBlocks) /\ blocks # << >> /\ ~InFunction(blocks)
          BY <1>1, <1>2
        <5>. QED
          BY <5>1, <4>1, ViewFits
      <4>. QED
        BY <1>3, <1>7, <4>2
    <3>2. d \notin Imported(blocks, kind, name, NoArgs)
      BY <1>2 DEF Imported, Of
    <3>3. \/ vartab_lookup_varnode(t, name) = NoNode
          \/ Imported(blocks, kind, name, NoArgs) = {d}
      <4>. DEFINE node == vartab_lookup_varnode(tables[kind], name)
      <4>1. node = vartab_lookup_varnode(tables[kind], name)
        OBVIOUS
      <4>. HIDE DEF node
      <4>2. \/ node = NoNode
            \/ Imported(blocks, kind, name, NoArgs) = {d}
        BY <1>10, <3>1, <4>1, ModuleFound
      <4>. QED
        BY <1>1, <4>1, <4>2
    <3>. QED
      BY <3>2, <3>3
  <2>2. Sets(tables, kind, Declared(tables[kind], name, NoArgs, m), tables')
    BY <1>1, <1>3, <1>5, <1>7, <2>1, InsertIs
  <2>3. blocks' = With(blocks, {d}, {}, {})
    BY <1>2, <1>7
  <2>4. Own(blocks, 1, kind, name, NoArgs) = {}
    BY <1>1, <1>3, <1>7, OwnIsInScope
  <2>5. Fit(tables', symtab_stack, current_module, compiled_modules, exported, files,
            blocks', enclosing, published, nodes)
    BY <1>1, <1>4, <2>2, <2>3, <2>4, HereFits
  <2>. QED
    BY <1>2, <1>3, <1>5, <2>5 DEF Ind, RefusesOnlyClashes
<1>. QED
  BY <1>6, <1>7

---------------------------------------------------------------------------
\* When all that a module shows may be taken over.

NotUsed(bs, m) == \A i \in DOMAIN bs : m \notin bs[i].uses
OthersFit(bs, decls) ==
  \A d \in decls : d.kind = "operators" =>
     \A args \in ArgTypes \ {d.args} : ~DeclaredIn(bs, DOMAIN bs, "operators", d.name, args)
ForwardFit(bs, decls, fw) ==
  \A i \in DOMAIN bs : \A d \in bs[i].imports :
     d.kind = "typetab" /\ d.dnode \in fw => Of(decls, "typetab", d.name, "") \subseteq {d}

\* What comes from one module does not come from another.
LEMMA NotImportedYet ==
  ASSUME NEW comp, NEW pub, NEW exp, NEW n, PublishedFits(comp, pub, exp, n),
         NEW bs, BlocksFit(comp, pub, bs), NEW m \in DOMAIN pub, NotUsed(bs, m),
         NEW d \in pub[m], NEW kind, NEW name, NEW args
  PROVE  d \notin Imported(bs, kind, name, args)
<1>1. ASSUME NEW i \in DOMAIN bs, d \in bs[i].imports PROVE FALSE
  <2>1. BlockFits(comp, pub, bs[i])
    BY DEF BlocksFit
  <2>2. PICK m2 \in bs[i].uses : d \in pub[m2]
    BY <1>1, <2>1 DEF BlockFits
  <2>3. m2 \in DOMAIN pub /\ pub[m] \cap pub[m2] # {}
    BY <2>1, <2>2 DEF BlockFits
  <2>4. m = m2
    BY <2>3 DEF PublishedFits
  <2>. QED
    BY <2>2, <2>4 DEF NotUsed
<1>. QED
  BY <1>1 DEF Imported, Of

\* The operators of a name that blocks declare have arguments.
LEMMA OperatorsHaveArgs ==
  ASSUME NEW bs \in Seq(OpenBlocks), NEW name, NEW args,
         Innermost(bs, "operators", name, args) # {}
  PROVE  args \in ArgTypes /\ DeclaredIn(bs, DOMAIN bs, "operators", name, args)
<1>1. DeclaredIn(bs, DOMAIN bs, "operators", name, args)
  BY InnermostIsDeclared
<1>2. PICK i \in DOMAIN bs : Own(bs, i, "operators", name, args) # {}
  BY <1>1 DEF DeclaredIn
<1>3. PICK d \in bs[i].own : d.kind = "operators" /\ d.args = args
  BY <1>2 DEF Own, Of
<1>4. d \in Decls
  <2>1. bs[i] \in OpenBlocks
    OBVIOUS
  <2>. QED
    BY <1>3, <2>1 DEF OpenBlocks
<1>. QED
  BY <1>1, <1>3, <1>4 DEF Decls

\* These are enough.
LEMMA MayTakeSo ==
  ASSUME NEW comp, NEW pub, NEW exp, NEW n, PublishedFits(comp, pub, exp, n),
         NEW bs, BlocksFit(comp, pub, bs), NEW m \in DOMAIN pub, NotUsed(bs, m),
         NEW decls, decls = pub[m], OthersFit(bs, decls), NEW fw, ForwardFit(bs, decls, fw),
         NEW kind
  PROVE  MayTake(kind, bs, decls, fw)
<1>. SUFFICES ASSUME NEW d \in decls, d.kind = kind
              PROVE  /\ d \notin Imported(bs, kind, d.name, d.args)
                     /\ kind = "operators" =>
                          \A ar \in AllArgs : Innermost(bs, kind, d.name, ar) # {} => ar = d.args
                     /\ kind = "typetab" =>
                          \A e \in Imported(bs, kind, d.name, NoArgs) : e.dnode \notin fw
  BY DEF MayTake
<1>1. \A name, args : d \notin Imported(bs, kind, name, args)
  BY NotImportedYet
<1>2. ASSUME kind = "operators", NEW ar \in AllArgs, Innermost(bs, "operators", d.name, ar) # {}
      PROVE  ar = d.args
  <2>1. bs \in Seq(OpenBlocks)
    BY DEF BlocksFit
  <2>2. ar \in ArgTypes /\ DeclaredIn(bs, DOMAIN bs, "operators", d.name, ar)
    BY <1>2, <2>1, OperatorsHaveArgs
  <2>. QED
    BY <1>2, <2>2 DEF OthersFit
<1>3. ASSUME kind = "typetab", NEW e \in Imported(bs, "typetab", d.name, NoArgs), e.dnode \in fw
      PROVE  FALSE
  <2>1. PICK i \in DOMAIN bs : e \in bs[i].imports /\ e.kind = "typetab" /\ e.name = d.name
    BY <1>3 DEF Imported, Of
  <2>2. Of(decls, "typetab", e.name, "") \subseteq {e}
    BY <1>3, <2>1 DEF ForwardFit
  <2>3. d \in Decls
    BY DEF PublishedFits
  <2>4. d.args = ""
    BY <1>3, <2>3 DEF Decls, NoArgs
  <2>5. d = e
    BY <1>3, <2>1, <2>2, <2>4 DEF Of
  <2>. QED
    BY <1>1, <1>3, <2>5
<1>. QED
  BY <1>1, <1>2, <1>3

\* The name of the module that is entered before does not matter.
LEMMA MayTakeStill ==
  ASSUME NEW bs \in Seq(OpenBlocks), bs # << >>, NEW d \in Decls, d.kind = "vartab",
         NEW bs1, bs1 = With(bs, {d}, {}, {}), NEW decls, NEW fw, NEW kind,
         MayTake(kind, bs, decls, fw)
  PROVE  MayTake(kind, bs1, decls, fw)
<1>. DEFINE own == {d}
            none == {}
<1>1. own = {d} /\ none = {} /\ bs1 = With(bs, own, none, none)
  OBVIOUS
<1>. HIDE DEF own, none
<1>2. Additions(own, none, none)
  BY <1>1 DEF Additions
<1>3. Grows(kind, bs, bs1, own, none)
  BY <1>1, <1>2, WithGrows
<1>4. \A name, args :
        View(bs1, kind, name, args)
        = Extended(View(bs, kind, name, args), Of(own, kind, name, args),
                   Of(none, kind, name, args))
  BY <1>3 DEF Grows
<1>5. \A name, args : Imported(bs1, kind, name, args) = Imported(bs, kind, name, args)
  <2>. TAKE name, args
  <2>. DEFINE v == View(bs, kind, name, args)
              more == Of(own, kind, name, args)
  <2>1. Of(none, kind, name, args) = {}
    BY <1>1 DEF Of
  <2>2. View(bs1, kind, name, args) = Extended(v, more, {})
    BY <1>4, <2>1
  <2>3. View(bs1, kind, name, args).imports = v.imports
    <3>. HIDE DEF v, more
    <3>. QED
      BY <2>2 DEF Extended
  <2>. QED
    BY <2>3 DEF View
<1>6. ASSUME kind = "operators", NEW name, NEW args
      PROVE  Innermost(bs1, kind, name, args) = Innermost(bs, kind, name, args)
  <2>1. Of(own, kind, name, args) = {}
    BY <1>1, <1>6 DEF Of
  <2>. QED
    BY <1>4, <2>1 DEF View, Extended
<1>. QED
  BY <1>5, <1>6 DEF MayTake

\* To add twice is to add all.
LEMMA WithTwice ==
  ASSUME NEW bs \in Seq(OpenBlocks), bs # << >>, NEW own, NEW imports, NEW modules,
         NEW none, none = {}, NEW bs1, bs1 = With(bs, own, none, none)
  PROVE  With(bs1, none, imports, modules) = With(bs, own, imports, modules)
<1>. DEFINE b == Head(bs)
            c == [b EXCEPT !.own = @ \cup own, !.imports = @ \cup none, !.uses = @ \cup none]
            S == OpenBlocks \cup {c}
<1>1. b \in OpenBlocks /\ Tail(bs) \in Seq(OpenBlocks)
  BY HeadAndTail
<1>2. c \in S /\ Tail(bs) \in Seq(S)
  BY <1>1
<1>3. bs1 = <<c>> \o Tail(bs)
  BY Zenon DEF With
<1>4. [c EXCEPT !.own = @ \cup none, !.imports = @ \cup imports, !.uses = @ \cup modules]
      = [b EXCEPT !.own = @ \cup own, !.imports = @ \cup imports, !.uses = @ \cup modules]
  BY <1>1 DEF OpenBlocks
<1>. HIDE DEF c, S
<1>5. Head(bs1) = c /\ Tail(bs1) = Tail(bs)
  BY <1>2, <1>3, Before
<1>. QED
  BY <1>4, <1>5, Zenon DEF With

\* The actions in these words.
LEMMA MayUseSo ==
  ASSUME Uses = {}, Ind, NEW m \in DOMAIN published, MayUse(m), NEW kind
  PROVE  MayTake(kind, blocks, published[m], forward)
<1>1. NotUsed(blocks, m) /\ OthersFit(blocks, published[m])
      /\ ForwardFit(blocks, published[m], forward)
  BY DEF MayUse, OperatorsFit, TypesFit, NotUsed, OthersFit, ForwardFit
<1>2. /\ PublishedFits(compiled_modules, published, exported, nodes)
      /\ BlocksFit(compiled_modules, published, blocks)
  BY DEF Ind, Fit, Consistent
<1>. QED
  BY <1>1, <1>2, MayTakeSo

\* Every table is copied to the one of its kind.
LEMMA TookIs ==
  ASSUME NEW ts, NEW m
  PROVE  compiler_use_exported_module_names(ts, m) = Took(ts, forward, exported[m])
BY DEF compiler_use_exported_module_names, Took, Copied

---------------------------------------------------------------------------
\* Modules whose names are taken over.

\* A module that is known by name is found, and is what the name means.
LEMMA KnownIsNamed ==
  ASSUME NEW ts, NEW stack, NEW mods, NEW comp, NEW exp, NEW fs, NEW bs, NEW enc, NEW pub,
         NEW n, Fit(ts, stack, mods, comp, exp, fs, bs, enc, pub, n),
         NEW name \in ModuleNames, NEW m, m = Compiled(comp, name), m # NONE,
         NEW kind, OfVariables(kind), NEW d, d = Decl(kind, name, NoArgs, m),
         NEW node, node = vartab_lookup_varnode(ts[kind], name),
         NEW meant, meant = IF DeclaredIn(bs, DOMAIN bs, kind, name, NoArgs)
                            THEN Innermost(bs, kind, name, NoArgs)
                            ELSE Imported(bs, kind, name, NoArgs)
  PROVE  /\ node.dnode = m <=> d \in meant
         /\ node.dnode # m =>
              /\ node = NoNode /\ ~DeclaredIn(bs, DOMAIN bs, kind, name, NoArgs)
              /\ ~DeclaredIn(bs, SameScope(bs), kind, name, NoArgs)
              /\ Own(bs, 1, kind, name, NoArgs) = {}
<1>1. /\ DeclaredIn(bs, DOMAIN bs, kind, name, NoArgs)
           => node.dnode = m /\ Innermost(bs, kind, name, NoArgs) = {d}
      /\ ~DeclaredIn(bs, DOMAIN bs, kind, name, NoArgs) =>
           \/ node = NoNode /\ Imported(bs, kind, name, NoArgs) = {}
           \/ node.dnode = m /\ Imported(bs, kind, name, NoArgs) = {d}
  BY ModuleFound
<1>2. NoNode.dnode # m
  BY NothingFound DEF NONE
<1>3. node.dnode = m <=> d \in meant
  BY <1>1, <1>2
<1>4. ASSUME node.dnode # m
      PROVE  /\ node = NoNode /\ ~DeclaredIn(bs, DOMAIN bs, kind, name, NoArgs)
             /\ ~DeclaredIn(bs, SameScope(bs), kind, name, NoArgs)
             /\ Own(bs, 1, kind, name, NoArgs) = {}
  <2>1. node = NoNode /\ ~DeclaredIn(bs, DOMAIN bs, kind, name, NoArgs)
    BY <1>1, <1>4
  <2>2. ~DeclaredIn(bs, SameScope(bs), kind, name, NoArgs)
    BY <2>1 DEF DeclaredIn, SameScope
  <2>3. bs \in Seq(OpenBlocks) /\ bs # << >>
    BY FitSo
  <2>4. Own(bs, 1, kind, name, NoArgs) = {}
    BY <2>2, <2>3, OwnIsInScope
  <2>. QED
    BY <2>1, <2>2, <2>4
<1>. QED
  BY <1>3, <1>4

\* Its name is entered, and then all that it shows.
LEMMA NameAndTakeFits ==
  ASSUME NEW ts, NEW stack, NEW mods, NEW comp, NEW exp, NEW fs, NEW bs, NEW enc, NEW pub,
         NEW n, Fit(ts, stack, mods, comp, exp, fs, bs, enc, pub, n),
         NEW m \in DOMAIN pub, ~InFunction(bs), NEW fw,
         \A k \in Kinds : MayTake(k, bs, pub[m], fw),
         NEW kind, OfVariables(kind), NEW name \in AllNames, NEW dnode \in Nat \ {0},
         NEW d, d = Decl(kind, name, NoArgs, dnode), DeclFits(comp, d),
         Own(bs, 1, kind, name, NoArgs) = {},
         NEW ts1, Sets(ts, kind, Declared(ts[kind], name, NoArgs, dnode), ts1),
         NEW ts2, ts2 = Took(ts1, fw, exp[m]),
         NEW bs2, bs2 = With(bs, {d}, pub[m], {m})
  PROVE  Fit(ts2, stack, mods, comp, exp, fs, bs2, enc, pub, n)
<1>. DEFINE none == {}
            one == {d}
            bs1 == With(bs, {d}, {}, {})
            decls == pub[m]
            modules == {m}
<1>1. /\ none = {} /\ one = {d} /\ bs1 = With(bs, {d}, {}, {}) /\ decls = pub[m]
      /\ modules = {m} /\ bs1 = With(bs, one, none, none) /\ bs2 = With(bs, one, decls, modules)
  OBVIOUS
<1>2. bs \in Seq(OpenBlocks) /\ bs # << >>
  BY FitSo
<1>3. kind \in {"vartab", "consts"} /\ d.kind = "vartab" /\ d \in Decls
  BY DEF OfVariables, Decl, DeclFits
<1>. HIDE DEF none, one, bs1, decls, modules
<1>4. Fit(ts1, stack, mods, comp, exp, fs, bs1, enc, pub, n)
  BY <1>1, <1>3, HereFits
<1>5. \A k \in Kinds : MayTake(k, bs1, pub[m], fw)
  <2>. TAKE k \in Kinds
  <2>1. MayTake(k, bs, decls, fw)
    BY <1>1
  <2>2. MayTake(k, bs1, decls, fw)
    BY <1>1, <1>2, <1>3, <2>1, MayTakeStill
  <2>. QED
    BY <1>1, <2>2
<1>6. ~InFunction(bs1)
  <2>1. Additions(one, none, none)
    BY <1>1, <1>3 DEF Additions
  <2>2. Grows(kind, bs, bs1, one, none)
    BY <1>1, <1>2, <2>1, WithGrows
  <2>. QED
    BY <2>2 DEF Grows
<1>7. bs2 = With(bs1, {}, pub[m], {m})
  <2>1. With(bs1, none, decls, modules) = With(bs, one, decls, modules)
    BY <1>1, <1>2, WithTwice
  <2>. QED
    BY <1>1, <2>1
<1>. QED
  BY <1>4, <1>5, <1>6, <1>7, TakeFits

\* use M.
LEMMA UseStep ==
  ASSUME Uses = {}, Ind, NEW name \in ModuleNames, compiler_use_module(name)
  PROVE  Ind'
<1>. DEFINE kind == "vartab"
            m == vartab_lookup_varnode(compiled_modules, name).dnode
            d == Decl("vartab", name, "", m)
            node == vartab_lookup_varnode(tables["vartab"], name)
            known == node.dnode = m
            meant == Meant("vartab", name, "")
            named == d \in meant
            ts1 == [tables EXCEPT !.vartab = IF known THEN @
                                             ELSE vartab_insert_module(@, name, m)]
            refused == vartab_refuses(tables["vartab"], name)
            clashes == DeclaredIn(blocks, SameScope(blocks), "vartab", name, "")
            t1 == vartab_insert_module(tables["vartab"], name, m)
<1>1. /\ m # NONE /\ MayUse(m) /\ ~InFunction(blocks)
      /\ tables' = compiler_use_exported_module_names(ts1, m)
      /\ complains' <=> ~known /\ refused
      /\ clash' <=> ~named /\ clashes
      /\ blocks' = With(blocks, IF named \/ clash' THEN {} ELSE {d}, published[m], {m})
      /\ UNCHANGED <<symtab_stack, current_module, compiled_modules, exported, files,
                     enclosing, published, nodes>>
  BY CanUse DEF compiler_use_module, Clashes
<1>2. /\ m = Compiled(compiled_modules, name) /\ OfVariables(kind)
      /\ d = Decl(kind, name, NoArgs, m) /\ node = vartab_lookup_varnode(tables[kind], name)
      /\ meant = IF DeclaredIn(blocks, DOMAIN blocks, kind, name, NoArgs)
                 THEN Innermost(blocks, kind, name, NoArgs)
                 ELSE Imported(blocks, kind, name, NoArgs)
      /\ known <=> node.dnode = m
      /\ named <=> d \in meant
      /\ known => ts1 = tables
      /\ ~known => Sets(tables, kind, t1, ts1)
      /\ refused <=> vartab_refuses(tables[kind], name)
      /\ clashes <=> DeclaredIn(blocks, SameScope(blocks), kind, name, NoArgs)
      /\ t1 = vartab_insert_module(tables[kind], name, m)
      /\ kind \in {"vartab", "consts"}
  <2>1. known => ts1 = [tables EXCEPT !.vartab = @]
    OBVIOUS
  <2>2. [tables EXCEPT !.vartab = @] = tables
    <3>1. TablesFit(tables, blocks)
      BY DEF Ind, Fit, Consistent
    <3>. QED
      BY <3>1 DEF TablesFit, Kinds
  <2>3. ~known => Sets(tables, kind, t1, ts1)
    BY DEF Sets
  <2>4. m = Compiled(compiled_modules, name) /\ d = Decl(kind, name, NoArgs, m)
    BY DEF Compiled, NoArgs
  <2>5. meant = IF DeclaredIn(blocks, DOMAIN blocks, kind, name, NoArgs)
                THEN Innermost(blocks, kind, name, NoArgs)
                ELSE Imported(blocks, kind, name, NoArgs)
    BY DEF Meant, NoArgs
  <2>6. clashes <=> DeclaredIn(blocks, SameScope(blocks), kind, name, NoArgs)
    BY DEF NoArgs
  <2>. QED
    BY <2>1, <2>2, <2>3, <2>4, <2>5, <2>6 DEF OfVariables
<1>. HIDE DEF kind, m, d, node, known, meant, named, ts1, refused, clashes, t1
<1>3. /\ Fit(tables, symtab_stack, current_module, compiled_modules, exported, files,
             blocks, enclosing, published, nodes)
      /\ name \in AllNames /\ CompiledFit(compiled_modules, published)
  BY FitSo DEF Ind, AllNames
<1>4. m \in DOMAIN published
  BY <1>1, <1>2, <1>3, CompiledIs
<1>5. /\ node.dnode = m <=> d \in meant
      /\ node.dnode # m =>
              /\ node = NoNode /\ ~DeclaredIn(blocks, SameScope(blocks), kind, name, NoArgs)
              /\ Own(blocks, 1, kind, name, NoArgs) = {}
  <2>1. m = Compiled(compiled_modules, name) /\ m # NONE /\ OfVariables(kind)
        /\ d = Decl(kind, name, NoArgs, m) /\ node = vartab_lookup_varnode(tables[kind], name)
    BY <1>1, <1>2
  <2>2. meant = IF DeclaredIn(blocks, DOMAIN blocks, kind, name, NoArgs)
                THEN Innermost(blocks, kind, name, NoArgs)
                ELSE Imported(blocks, kind, name, NoArgs)
    BY <1>2
  <2>. QED
    BY <1>3, <2>1, <2>2, KnownIsNamed
<1>6. \A k \in Kinds : MayTake(k, blocks, published[m], forward)
  BY <1>1, <1>4, MayUseSo
<1>7. tables' = Took(ts1, forward, exported[m])
  BY <1>1, TookIs
<1>8. ~complains' /\ ~clash' /\ (known <=> named)
  <2>1. known <=> named
    BY <1>2, <1>5
  <2>2. ~known => ~clashes
    BY <1>2, <1>5
  <2>3. refused <=> clashes
    <3>1. vartab_refuses(tables[kind], name)
          <=> DeclaredIn(blocks, SameScope(blocks), kind, name, NoArgs)
      <4>1. kind \in {"vartab", "consts"}
        BY <1>2
      <4>. QED
        BY <1>3, <4>1, InsertComplains
    <3>. QED
      BY <1>2, <3>1
  <2>. QED
    BY <1>1, <2>1, <2>2, <2>3
<1>9. Fit(tables', symtab_stack, current_module, compiled_modules, exported, files,
          blocks', enclosing, published, nodes)
  <2>1. CASE known
    <3>1. tables' = Took(tables, forward, exported[m])
      BY <1>2, <1>7, <2>1
    <3>2. blocks' = With(blocks, {}, published[m], {m})
      BY <1>1, <1>8, <2>1
    <3>. QED
      BY <1>1, <1>3, <1>4, <1>6, <3>1, <3>2, TakeFits
  <2>2. CASE ~known
    <3>1. Sets(tables, kind, Declared(tables[kind], name, NoArgs, m), ts1)
      <4>1. vartab_insert_module(tables[kind], name, m) = Declared(tables[kind], name, NoArgs, m)
        <5>1. vartab_lookup_varnode(tables[kind], name) = NoNode
          BY <1>2, <1>5, <2>2
        <5>2. ~vartab_refuses(tables[kind], name)
          BY <5>1, NothingRefused
        <5>. QED
          BY <5>1, <5>2, InsertIs
      <4>. QED
        BY <1>2, <2>2, <4>1
    <3>2. blocks' = With(blocks, {d}, published[m], {m})
      BY <1>1, <1>8, <2>2
    <3>3. m \in Nat \ {0} /\ DeclFits(compiled_modules, d)
      <4>1. m = Compiled(compiled_modules, name) /\ m # NONE /\ OfVariables(kind)
            /\ d = Decl(kind, name, NoArgs, m)
        BY <1>1, <1>2
      <4>. QED
        BY <1>3, <4>1, ModulesNameThemselves
    <3>4. Own(blocks, 1, kind, name, NoArgs) = {}
      BY <1>2, <1>5, <2>2
    <3>5. OfVariables(kind) /\ d = Decl(kind, name, NoArgs, m) /\ ~InFunction(blocks)
      BY <1>1, <1>2
    <3>. QED
      BY <1>3, <1>4, <1>6, <1>7, <3>1, <3>2, <3>3, <3>4, <3>5, NameAndTakeFits
  <2>. QED
    BY <2>1, <2>2
<1>. QED
  BY <1>1, <1>8, <1>9 DEF Ind, RefusesOnlyClashes

\* The file of a module ends.
LEMMA CloseFileStep ==
  ASSUME Uses = {}, Ind, compiler_close_include_file
  PROVE  Ind'
<1>. DEFINE f == Head(files)
            m == vartab_lookup_varnode(compiled_modules, f.name).dnode
            fs2 == Tail(files)
<1>1. /\ files # << >> /\ f.depth = Len(enclosing) + Len(blocks) /\ files' = fs2
      /\ ~complains' /\ ~clash'
      /\ \/ /\ m # NONE /\ MayUse(m)
            /\ tables' = compiler_use_exported_module_names(tables, m)
            /\ blocks' = With(blocks, {}, published[m], {m})
         \/ tables' = tables /\ blocks' = blocks
      /\ UNCHANGED <<symtab_stack, current_module, compiled_modules, exported, enclosing,
                     published, nodes>>
  BY DEF compiler_close_include_file, InFile, Depth, Quiet
<1>2. Pops(files, f, fs2) /\ m = Compiled(compiled_modules, f.name) /\ f = Head(files)
  BY DEF Pops, Compiled
<1>. HIDE DEF m, fs2, f
<1>3. /\ Fit(tables, symtab_stack, current_module, compiled_modules, exported, files,
             blocks, enclosing, published, nodes)
      /\ CompiledFit(compiled_modules, published)
      /\ FilesFit(files, blocks, Len(enclosing) + Len(blocks))
      /\ blocks \in Seq(OpenBlocks) /\ Len(enclosing) \in Nat
  BY FitSo, SomeTyping DEF Ind, Fit, Consistent
<1>4. ~InFunction(blocks)
  <2>. DEFINE depth == Len(enclosing) + Len(blocks)
  <2>1. files \in Seq([name : ModuleNames, is_use : BOOLEAN, depth : Nat])
    BY <1>3 DEF FilesFit
  <2>2. f = files[1] /\ 1 \in DOMAIN files
    BY <1>1, <1>2, <2>1
  <2>3. \A j \in DOMAIN blocks : depth + 1 - j <= depth => blocks[j].construct # "function"
    BY <1>1, <1>3, <2>2 DEF FilesFit
  <2>4. \A j \in DOMAIN blocks : depth + 1 - j <= depth
    <3>1. depth \in Nat /\ DOMAIN blocks = 1 .. Len(blocks)
      BY <1>3
    <3>. HIDE DEF depth
    <3>. QED
      BY <3>1
  <2>. QED
    BY <2>3, <2>4 DEF InFunction
<1>5. Fit(tables', symtab_stack, current_module, compiled_modules, exported, files,
          blocks', enclosing, published, nodes)
  <2>1. CASE tables' = tables /\ blocks' = blocks
    BY <1>3, <2>1
  <2>2. CASE /\ m # NONE /\ MayUse(m)
             /\ tables' = compiler_use_exported_module_names(tables, m)
             /\ blocks' = With(blocks, {}, published[m], {m})
    <3>1. m \in DOMAIN published
      BY <1>2, <1>3, <2>2, CompiledIs
    <3>2. \A k \in Kinds : MayTake(k, blocks, published[m], forward)
      BY <2>2, <3>1, MayUseSo
    <3>3. tables' = Took(tables, forward, exported[m])
      BY <2>2, TookIs
    <3>. QED
      BY <1>3, <1>4, <2>2, <3>1, <3>2, <3>3, TakeFits
  <2>. QED
    BY <1>1, <2>1, <2>2
<1>6. Fit(tables', symtab_stack, current_module, compiled_modules, exported, fs2,
          blocks', enclosing, published, nodes)
  BY <1>1, <1>2, <1>5, FileCloses
<1>. QED
  BY <1>1, <1>6 DEF Ind, RefusesOnlyClashes

---------------------------------------------------------------------------
\* The invariant, and what follows from it.

\* A name stands for one of what it means.
LEMMA StandsSo ==
  ASSUME NEW node, NEW decls, decls = {} => node = NoNode,
         decls # {} => Mentions(decls, node.dnode)
  PROVE  Stands(node, decls)
<1>1. CASE decls = {}
  BY <1>1 DEF Stands
<1>2. CASE decls # {}
  <2>1. node.dnode \in {d.dnode : d \in decls}
    BY <1>2 DEF Mentions
  <2>. QED
    BY <2>1 DEF Stands
<1>. QED
  BY <1>1, <1>2

\* What a table finds is what the blocks mean, as often as they mean it.
LEMMA FoundStands ==
  ASSUME NEW kind, NEW t, NEW node, NEW cs \in Seq(OpenBlocks), cs # << >>,
         NEW name, NEW args, Finds(kind, t, node, View(cs, kind, name, args)),
         NEW meant, meant = IF DeclaredIn(cs, DOMAIN cs, kind, name, args)
                            THEN Innermost(cs, kind, name, args)
                            ELSE Imported(cs, kind, name, args)
  PROVE  /\ Stands(node, meant)
         /\ kind # "operators" => (node.count > 1 <=> Ambiguous(meant))
<1>. DEFINE v == View(cs, kind, name, args)
<1>1. v = View(cs, kind, name, args) /\ Finds(kind, t, node, v)
  OBVIOUS
<1>. HIDE DEF v
<1>2. meant = IF v.here # {} THEN v.here ELSE v.imports
  BY <1>1, ViewFits
<1>3. /\ meant = {} => node = NoNode
      /\ meant # {} => Mentions(meant, node.dnode)
  BY <1>1, <1>2 DEF Finds
<1>4. ASSUME kind # "operators"  PROVE  node.count > 1 <=> Cardinality(meant) > 1
  <2>1. CASE v.here # {}
    <3>1. node.count = 1 /\ \A d, e \in meant : d = e
      BY <1>1, <1>2, <1>4, <2>1 DEF Finds
    <3>2. PICK d \in meant : TRUE
      BY <1>2, <2>1
    <3>3. meant = {d}
      BY <3>1, <3>2
    <3>4. Cardinality(meant) = 1
      BY <3>3, FS_Singleton
    <3>. QED
      BY <3>1, <3>4
  <2>2. CASE v.here = {} /\ v.imports = {}
    <3>1. node.count = 0
      BY <1>1, <2>2, NothingFound DEF Finds
    <3>2. Cardinality(meant) = 0
      BY <1>2, <2>2, FS_EmptySet
    <3>. QED
      BY <3>1, <3>2
  <2>3. CASE v.here = {} /\ v.imports # {}
    BY <1>1, <1>2, <1>4, <2>3 DEF Finds
  <2>. QED
    BY <2>1, <2>2, <2>3
<1>. QED
  BY <1>3, <1>4, StandsSo DEF Ambiguous

\* What the table in a module's node finds is what the module shows.
LEMMA ShownStands ==
  ASSUME NEW kind \in Kinds, NEW t, NEW decls \in SUBSET Decls, Shows(kind, t, decls),
         NEW name
  PROVE  /\ \A args : Stands(vartab_lookup_operator(t, name, args), Of(decls, kind, name, args))
         /\ kind # "operators"
              => Stands(vartab_lookup_varnode(t, name), Of(decls, kind, name, NoArgs))
<1>1. ASSUME NEW args
      PROVE  Stands(vartab_lookup_operator(t, name, args), Of(decls, kind, name, args))
  <2>. DEFINE node == vartab_lookup_operator(t, name, args)
              those == Of(decls, kind, name, args)
  <2>1. /\ those = {} => node = NoNode
        /\ those # {} => Mentions(those, node.dnode)
    BY ShownIs
  <2>. HIDE DEF node, those
  <2>2. Stands(node, those)
    BY <2>1, StandsSo
  <2>. QED
    BY <2>2 DEF node, those
<1>2. kind # "operators"
        => vartab_lookup_varnode(t, name) = vartab_lookup_operator(t, name, NoArgs)
  BY ShownByName
<1>. QED
  BY <1>1, <1>2

\* Names mean what they should wherever the invariant holds.
LEMMA IndFinds ==
  Ind => FindsWhatIsMeant
<1>. SUFFICES ASSUME Ind PROVE FindsWhatIsMeant
  OBVIOUS
<1>1. Fit(tables, symtab_stack, current_module, compiled_modules, exported, files,
          blocks, enclosing, published, nodes)
  BY DEF Ind
<1>2. /\ blocks \in Seq(OpenBlocks) /\ blocks # << >>
      /\ \A kind \in Kinds : Agrees(kind, tables[kind], blocks)
      /\ \A m \in DOMAIN published :
           /\ published[m] \in SUBSET Decls
           /\ \A kind \in Kinds : Shows(kind, exported[m][kind], published[m])
  BY <1>1, FitSo
<1>3. ASSUME NEW kind \in Kinds \ {"operators"}, NEW name \in Names \cup ModuleNames
      PROVE  LET node == vartab_lookup_varnode(tables[kind], name)
                 meant == Meant(kind, name, "")
             IN  Stands(node, meant) /\ (node.count > 1 <=> Ambiguous(meant))
  <2>. DEFINE node == vartab_lookup_varnode(tables[kind], name)
              meant == Meant(kind, name, "")
              t == tables[kind]
  <2>1. Agrees(kind, t, blocks) /\ name \in AllNames /\ node = vartab_lookup_varnode(t, name)
    BY <1>2 DEF AllNames
  <2>2. meant = IF DeclaredIn(blocks, DOMAIN blocks, kind, name, NoArgs)
                THEN Innermost(blocks, kind, name, NoArgs)
                ELSE Imported(blocks, kind, name, NoArgs)
    BY DEF Meant, NoArgs
  <2>. HIDE DEF t, node, meant
  <2>3. Finds(kind, t, node, View(blocks, kind, name, NoArgs))
    BY <2>1, FindsName
  <2>4. Stands(node, meant) /\ (node.count > 1 <=> Ambiguous(meant))
    BY <1>2, <2>2, <2>3, FoundStands
  <2>. QED
    BY <2>4 DEF node, meant
<1>4. ASSUME NEW name \in Names, NEW args \in ArgTypes
      PROVE  Stands(vartab_lookup_operator(tables.operators, name, args),
                    Meant("operators", name, args))
  <2>. DEFINE kind == "operators"
              t == tables[kind]
              node == vartab_lookup_operator(t, name, args)
              meant == Meant(kind, name, args)
  <2>1. kind = "operators" /\ t = tables[kind] /\ node = vartab_lookup_operator(t, name, args)
    OBVIOUS
  <2>2. meant = IF DeclaredIn(blocks, DOMAIN blocks, kind, name, args)
                THEN Innermost(blocks, kind, name, args)
                ELSE Imported(blocks, kind, name, args)
    BY DEF Meant
  <2>3. Agrees(kind, t, blocks) /\ name \in AllNames /\ args \in AllArgs
    BY <1>2 DEF AllNames, AllArgs, Kinds
  <2>. HIDE DEF t, node, meant, kind
  <2>4. Finds(kind, t, node, View(blocks, kind, name, args))
    BY <2>1, <2>3 DEF Agrees
  <2>5. Stands(node, meant)
    BY <1>2, <2>2, <2>4, FoundStands
  <2>6. tables[kind] = tables.operators
    BY DEF kind
  <2>. QED
    BY <2>5, <2>6 DEF node, meant, t, kind
<1>5. ASSUME NEW module \in DOMAIN exported, NEW name \in Names \cup ModuleNames
      PROVE  /\ \A kind \in Kinds \ {"operators"} :
                  Stands(vartab_lookup_varnode(exported[module][kind], name),
                         Of(published[module], kind, name, ""))
             /\ \A args \in ArgTypes :
                  Stands(vartab_lookup_operator(exported[module].operators, name, args),
                         Of(published[module], "operators", name, args))
  <2>. DEFINE decls == published[module]
              src == exported[module]
  <2>1. module \in DOMAIN published
    BY <1>1 DEF Fit, Consistent, PublishedFits
  <2>2. decls \in SUBSET Decls /\ \A kind \in Kinds : Shows(kind, src[kind], decls)
    BY <1>2, <2>1
  <2>. HIDE DEF decls, src
  <2>3. ASSUME NEW kind \in Kinds \ {"operators"}
        PROVE  Stands(vartab_lookup_varnode(src[kind], name), Of(decls, kind, name, ""))
    <3>1. Stands(vartab_lookup_varnode(src[kind], name), Of(decls, kind, name, NoArgs))
      BY <2>2, ShownStands
    <3>. QED
      BY <3>1 DEF NoArgs
  <2>4. ASSUME NEW args \in ArgTypes
        PROVE  Stands(vartab_lookup_operator(src.operators, name, args),
                      Of(decls, "operators", name, args))
    <3>. DEFINE kind == "operators"
    <3>1. kind \in Kinds
      BY DEF Kinds
    <3>. HIDE DEF kind
    <3>2. Stands(vartab_lookup_operator(src[kind], name, args), Of(decls, kind, name, args))
      BY <2>2, <3>1, ShownStands
    <3>3. src[kind] = src.operators
      BY DEF kind
    <3>. QED
      BY <3>2, <3>3 DEF kind
  <2>. QED
    BY <2>3, <2>4 DEF decls, src
<1>. QED
  BY <1>3, <1>4, <1>5 DEF FindsWhatIsMeant

\* Every grammar action keeps the invariant.
LEMMA NextKeepsInd ==
  ASSUME Uses = {}, Ind, [Next]_vars
  PROVE  Ind'
<1>1. ASSUME NEW name \in Names, variable_declaration(name)  PROVE Ind'
  BY <1>1, VariablesStep
<1>20. ASSUME NEW name \in Names, compiler_compile_exception(name)  PROVE Ind'
  BY <1>20, ExceptionsStep
<1>2. ASSUME NEW name \in Names, compiler_consttab_insert_consts(name)  PROVE Ind'
  BY <1>2, ConstantsStep
<1>3. ASSUME NEW name \in Names, NEW described \in BOOLEAN,
             compiler_typetab_insert(name, described)  PROVE Ind'
  BY <1>3, TypesStep
<1>4. ASSUME NEW name \in Names, NEW args \in ArgTypes, operator_definition(name, args)
      PROVE Ind'
  BY <1>4, OperatorsStep
<1>5. ASSUME NEW name \in Names, compiler_check_and_set_fn_proto(name)  PROVE Ind'
  BY <1>5, FunctionsStep
<1>6. ASSUME NEW name \in Names, NEW kind \in {"vartab", "consts"}, NEW module \in ModuleNames,
             compiler_import_selected_names(kind, module, name)  PROVE Ind'
  BY <1>6, SelectedStep
<1>7. ASSUME NEW construct \in {"block", "for lvariable in"},
             compiler_begin_subscope(construct)  PROVE Ind'
  BY <1>7, BlockBegins
<1>8. CASE compiler_end_subscope
  BY <1>8, BlockEnds
<1>9. CASE compiler_begin_scope
  BY <1>9, ScopeBegins
<1>10. CASE compiler_end_scope
  BY <1>10, FunctionEnds
<1>11. ASSUME NEW name \in ModuleNames, compiler_begin_module(name)  PROVE Ind'
  BY <1>11, ModulesStep
<1>12. ASSUME NEW name \in ModuleNames, compiler_use_module(name)  PROVE Ind'
  BY <1>12, UseStep
<1>13. ASSUME NEW name \in ModuleNames, compiler_import_module(name)  PROVE Ind'
  BY <1>13, ImportStep
<1>14. ASSUME NEW name \in ModuleNames, NEW is_use \in BOOLEAN,
              compiler_open_include_file(name, is_use)  PROVE Ind'
  BY <1>14, FileStep
<1>15. CASE compiler_end_module
  BY <1>15, ModuleEnds
<1>16. CASE compiler_close_include_file
  BY <1>16, CloseFileStep
<1>17. CASE delete_compiler
  BY <1>17, Deletes
<1>18. CASE Stopped
  BY <1>18, Stays DEF Stopped
<1>19. CASE UNCHANGED vars
  BY <1>19, Stays
<1>. QED
  BY <1>1, <1>2, <1>3, <1>4, <1>5, <1>6, <1>7, <1>8, <1>9, <1>10, <1>11, <1>12, <1>13,
     <1>14, <1>15, <1>16, <1>17, <1>18, <1>19, <1>20 DEF Next

\* Of programs that do none of what the tables cannot follow (Uses), the tables agree
\* with the blocks that are open, and so do those that are left as blocks and modules
\* end; what modules show is in the tables of their nodes (Ind).
THEOREM SymbolsInvariance ==
  ASSUME Uses = {}
  PROVE  Spec => []Ind
<1>1. Ind /\ [Next]_vars => Ind'
  BY NextKeepsInd
<1>. QED
  BY <1>1, Starts, PTL DEF Spec

\* A name is found to mean what the source means by it, however deep functions, blocks
\* and modules are nested, in whatever order they are declared and used.
THEOREM NamesMeanWhatTheyShould ==
  ASSUME Uses = {}
  PROVE  Spec => []FindsWhatIsMeant
BY SymbolsInvariance, IndFinds, PTL

\* A declaration is reported as declared again just when it is.
THEOREM OnlyClashesAreRefused ==
  ASSUME Uses = {}
  PROVE  Spec => []RefusesOnlyClashes
<1>1. Ind => RefusesOnlyClashes
  BY DEF Ind
<1>. QED
  BY <1>1, SymbolsInvariance, PTL
=============================================================================
