---------------------------- MODULE SymbolTables ----------------------------
(***************************************************************************)
(* Which declaration a name stands for: the tables of names of the         *)
(* compiler, and how the grammar (grammar.y) enters names, opens and       *)
(* closes scopes, compiles modules and takes names over from them.         *)
(*                                                                         *)
(* One step is one grammar action.  Beside what the compiler keeps, the    *)
(* model keeps the blocks of the source that are open, with what was       *)
(* declared in and imported into each; from them follows what a name       *)
(* should mean.  A module is its name; the forms with a file name, with    *)
(* parameters and with a synonym are left out.                             *)
(***************************************************************************)
EXTENDS Vartab, FiniteSets

CONSTANTS
  Names,         \* of variables, exceptions, functions, constants, types, operators
  ModuleNames,
  ArgTypes,      \* argument types of operators
  Uses,          \* which of the things below programs do
  Bounds         \* how large programs are: how much of each they may have

\* Where the tables and the source part ways; the grammar action that excludes one
\* of these names it.
ASSUME UsesAssumption ==
  Uses \subseteq {"for lvariable in", "declare in block of module",
                  "constant in body of module", "function named as outer one",
                  "operator before use", "use twice", "import imported module",
                  "repeat module name", "import beside forward type",
                  "repeat exception in function"}
ASSUME NamesAssumption == Names \cap ModuleNames = {}
ASSUME BoundsAssumption ==
  Bounds \subseteq [{"declarations", "blocks", "functions", "modules", "uses"} -> Nat]

VARIABLES
  tables,            \* vartab, consts, typetab and operators of COMPILER
  symtab_stack,      \* those of the enclosing modules
  current_module,    \* with the modules around it; the last one is 0
  compiled_modules,
  exported,          \* module -> the tables in its node
  forward,           \* types that are declared and have no description yet
  files,             \* the module files being read, the innermost first
  blocks,            \* the blocks of the module that are open, the innermost first
  enclosing,         \* those that modules are open in, as symtab_stack
  published,         \* module -> the declarations at its top level
  complains,         \* did the last grammar action report an error,
  clash,             \* and is there one in the source?
  nodes,             \* declarations so far
  used,              \* how much of each there is in the program
  state              \* "parsing" or "done"

compiler == <<tables, symtab_stack, current_module, compiled_modules, exported, forward>>
source   == <<blocks, enclosing, published>>
vars == <<compiler, files, source, complains, clash, nodes, used, state>>

Kinds  == {"vartab", "consts", "typetab", "operators"}
Fresh  == [k \in Kinds |-> new_vartab]
NewId  == nodes + 1
NONE   == 0

Block(construct, id) ==
  [construct |-> construct, id |-> id, own |-> {}, imports |-> {}, uses |-> {}]

Init ==
  /\ tables = Fresh /\ symtab_stack = << >> /\ current_module = <<NONE>>
  /\ compiled_modules = new_vartab /\ exported = << >> /\ forward = {}
  /\ files = << >>
  /\ blocks = <<Block("program", NONE)>> /\ enclosing = << >> /\ published = << >>
  /\ complains = FALSE /\ clash = FALSE
  /\ nodes = 0
  /\ used = [what \in {"declarations", "blocks", "functions", "modules", "uses"} |-> 0]
  /\ state = "parsing"

Parsing == state = "parsing"
Counts(what) ==
  /\ used' = [used EXCEPT ![what] = @ + 1]
  /\ \E b \in Bounds : \A w \in DOMAIN used : used'[w] <= b[w]

---------------------------------------------------------------------------
\* What the source says.  A declaration is one of a table.

Decl(kind, name, args, dnode) ==
  [kind |-> kind, name |-> name, args |-> args, dnode |-> dnode]
Of(decls, kind, name, args) ==
  {d \in decls : d.kind = kind /\ d.name = name /\ d.args = args}

Top == Head(blocks)
\* The blocks up to the innermost function.
SameScope(open) ==
  {i \in DOMAIN open : \A j \in 1 .. i - 1 : open[j].construct # "function"}

Own(open, i, kind, name, args) == Of(open[i].own, kind, name, args)
DeclaredIn(open, range, kind, name, args) ==
  \E i \in range : Own(open, i, kind, name, args) # {}
\* What the innermost block that declares the name says.
Innermost(open, kind, name, args) ==
  UNION {Own(open, i, kind, name, args) :
           i \in {j \in DOMAIN open : ~DeclaredIn(open, 1 .. j - 1, kind, name, args)}}
Imported(open, kind, name, args) ==
  UNION {Of(open[i].imports, kind, name, args) : i \in DOMAIN open}

\* What a name means: what the innermost block that declares it says; if no
\* block does, whatever was imported, and if that is more than one thing the
\* name is ambiguous.
Meant(kind, name, args) ==
  IF DeclaredIn(blocks, DOMAIN blocks, kind, name, args)
  THEN Innermost(blocks, kind, name, args) ELSE Imported(blocks, kind, name, args)

\* A name may be declared once in a function or module; in its blocks, too.
Clashes(kind, name) == DeclaredIn(blocks, SameScope(blocks), kind, name, "")

\* The blocks, with more in the innermost.
With(open, own, imports, modules) ==
  <<[Head(open) EXCEPT !.own = @ \cup own, !.imports = @ \cup imports,
                       !.uses = @ \cup modules]>> \o Tail(open)

\* A module shows the declarations at its top level.
Publish(decl) ==
  published' = IF Top.construct = "module"
               THEN [published EXCEPT ![Top.id] = @ \cup {decl}] ELSE published
Says(decl) ==
  /\ blocks' = With(blocks, {decl}, {}, {})
  /\ Publish(decl)
SaysNothing == UNCHANGED <<blocks, published>>
\* One that is refused is shown when the module has no other of the name.
Refused(decl) ==
  /\ UNCHANGED blocks
  /\ \/ /\ Top.construct = "module"
        /\ Of(published[Top.id], decl.kind, decl.name, decl.args) # {}
        /\ UNCHANGED published
     \/ /\ Top.construct = "module"
           => Of(published[Top.id], decl.kind, decl.name, decl.args) = {}
        /\ Publish(decl)

---------------------------------------------------------------------------
\* Declarations.

Module == Head(current_module)
compiler_current_scope == tables.vartab.current_scope
\* Mutant: names that are declared in functions are exported, too.
ExportsFromAnywhere(scope) == Module # NONE
\* The module's own tables get what has scope 0.
ExportsAt(scope) == Module # NONE /\ scope = 0
IsExported == ExportsAt(compiler_current_scope)

InBlockOfModule ==
  Module # NONE /\ compiler_current_scope = 0 /\ Top.construct # "module"
MayDeclare == InBlockOfModule => "declare in block of module" \in Uses

\* A type, or a dnode that has been entered, is of the scope of the tables.
dnode_insert(kind, table) ==
  exported' = IF IsExported THEN [exported EXCEPT ![Module][kind] = table]
              ELSE exported

\* A dnode gets the scope of the table as it is entered, and keeps the one it
\* has when it is refused.
dnode_scope(scope, name) ==
  IF vartab_refuses(tables.vartab, name) THEN scope ELSE compiler_current_scope

compiler_vartab_insert_named_vars(name, scope) ==
  LET Insert(t) == vartab_insert(t, name, NewId)
      exports == ExportsAt(dnode_scope(scope, name))
  IN  /\ Parsing /\ MayDeclare
      /\ tables' = [tables EXCEPT !.vartab = Insert(@)]
      /\ exported' = IF exports THEN [exported EXCEPT ![Module].vartab = Insert(@)]
                     ELSE exported
      /\ complains' = \/ vartab_refuses(tables.vartab, name)
                      \/ exports /\ vartab_refuses(exported[Module].vartab, name)
      /\ clash' = Clashes("vartab", name)
      /\ LET decl == Decl("vartab", name, "", NewId)
         IN  IF clash' THEN Refused(decl) ELSE Says(decl)
      /\ nodes' = NewId /\ Counts("declarations")
      /\ UNCHANGED <<symtab_stack, current_module, compiled_modules, forward, files,
                     enclosing, state>>

\* The dnode of a variable is given the scope it is parsed in (rule identifier,
\* grammar.y:9019), so one that is refused has that scope as well.
variable_declaration(name) ==
  compiler_vartab_insert_named_vars(name, compiler_current_scope)

\* The dnode of an exception has scope 0 until it is entered.
compiler_compile_exception(name) ==
  /\ Module # NONE /\ compiler_current_scope # 0 /\ Clashes("vartab", name)
       => "repeat exception in function" \in Uses
  /\ compiler_vartab_insert_named_vars(name, 0)

\* Constants are exported wherever they are declared.
compiler_consttab_insert_consts(name) ==
  LET Insert(t) == vartab_insert(t, name, NewId)
  IN  /\ Parsing
      /\ Module # NONE /\ Top.construct # "module" => "constant in body of module" \in Uses
      /\ tables' = [tables EXCEPT !.consts = Insert(@)]
      /\ exported' = IF Module # NONE THEN [exported EXCEPT ![Module].consts = Insert(@)]
                     ELSE exported
      /\ complains' = \/ vartab_refuses(tables.consts, name)
                      \/ Module # NONE /\ vartab_refuses(exported[Module].consts, name)
      /\ clash' = Clashes("consts", name)
      /\ LET decl == Decl("consts", name, "", NewId)
         IN  IF clash' THEN Refused(decl) ELSE Says(decl)
      /\ nodes' = NewId /\ Counts("declarations")
      /\ UNCHANGED <<symtab_stack, current_module, compiled_modules, forward, files,
                     enclosing, state>>

\* A type without a description is forward, and gets it later in its block.
compiler_typetab_insert(name, described) ==
  LET found == vartab_lookup_varnode(tables.typetab, name).dnode
      again == typetab_refuses(tables.typetab, name)
      tnode == IF again THEN found ELSE NewId
      Insert(t) == typetab_insert(t, name, tnode)
      here == {d.dnode : d \in Own(blocks, 1, "typetab", name, "")}
  IN  /\ Parsing /\ MayDeclare
      /\ tables' = [tables EXCEPT !.typetab = Insert(@)]
      /\ dnode_insert("typetab", Insert(exported[Module].typetab))
      /\ forward' = IF described THEN forward \ {tnode}
                    ELSE forward \cup ({tnode} \ {found})
      /\ complains' = (again /\ found \notin forward)
      /\ clash' = (here # {} /\ here \cap forward = {})
      /\ IF here # {} THEN SaysNothing ELSE Says(Decl("typetab", name, "", NewId))
      /\ nodes' = NewId /\ Counts("declarations")
      /\ UNCHANGED <<symtab_stack, current_module, compiled_modules, files, enclosing, state>>

\* The rule of statements for operator_definition.
operator_definition(name, args) ==
  LET Insert(t) == vartab_insert_operator(t, name, args, NewId)
  IN  /\ Parsing /\ MayDeclare
      /\ tables' = [tables EXCEPT !.operators = Insert(@)]
      /\ dnode_insert("operators", Insert(exported[Module].operators))
      /\ complains' = FALSE /\ clash' = FALSE
      /\ Says(Decl("operators", name, args, NewId))
      /\ nodes' = NewId /\ Counts("declarations")
      /\ UNCHANGED <<symtab_stack, current_module, compiled_modules, forward, files,
                     enclosing, state>>

---------------------------------------------------------------------------
\* Blocks and functions.

Quiet == complains' = FALSE /\ clash' = FALSE

\* A compound statement, a loop, a catch block or a class.
compiler_begin_subscope(construct) ==
  /\ Parsing
  /\ construct = "for lvariable in" => construct \in Uses
  /\ tables' = [k \in Kinds |-> vartab_begin_subscope(tables[k])]
  /\ blocks' = <<Block(construct, NONE)>> \o blocks
  /\ Quiet /\ Counts("blocks")
  /\ UNCHANGED <<symtab_stack, current_module, compiled_modules, exported, forward,
                 files, enclosing, published, nodes, state>>

\* A block that was begun in a file ends in it.
Depth  == Len(enclosing) + Len(blocks)
InFile == files # << >> /\ Head(files).depth = Depth

compiler_end_subscope ==
  /\ Parsing /\ ~InFile /\ Top.construct \in {"block", "for lvariable in"}
  /\ tables' = IF Top.construct = "block"
                THEN [k \in Kinds |-> vartab_end_subscope(tables[k])] ELSE tables
  /\ blocks' = Tail(blocks)
  /\ Quiet
  /\ UNCHANGED <<symtab_stack, current_module, compiled_modules, exported, forward,
                 files, enclosing, published, nodes, used, state>>

BodyOf(open) == <<Block("function", NONE)>> \o open

\* A function or a method that is not entered into the tables: the parts of a
\* closure or of a class.
compiler_begin_scope ==
  /\ Parsing
  /\ tables' = [k \in Kinds |-> vartab_begin_scope(tables[k])]
  /\ blocks' = BodyOf(blocks)
  /\ Quiet /\ Counts("functions")
  /\ UNCHANGED <<symtab_stack, current_module, compiled_modules, exported, forward,
                 files, enclosing, published, nodes, state>>

\* A function whose name is taken is compiled all the same.
compiler_check_and_set_fn_proto(name) ==
  LET found == vartab_lookup_varnode(tables.vartab, name)
      Insert(t) == IF IsOwn(found) THEN t ELSE vartab_insert(t, name, NewId)
      outer == DeclaredIn(blocks, DOMAIN blocks \ SameScope(blocks), "vartab", name, "")
  IN  /\ Parsing /\ MayDeclare
      /\ outer => "function named as outer one" \in Uses
      /\ tables' = [k \in Kinds |->
                      vartab_begin_scope(IF k = "vartab" THEN Insert(tables[k])
                                         ELSE tables[k])]
      /\ dnode_insert("vartab", Insert(exported[Module].vartab))
      /\ complains' = \/ IsOwn(found)
                      \/ IsExported /\ vartab_refuses(exported[Module].vartab, name)
      /\ clash' = Clashes("vartab", name)
      /\ LET decl == Decl("vartab", name, "", NewId)
         IN  IF clash' THEN blocks' = BodyOf(blocks) /\ UNCHANGED published
             ELSE /\ blocks' = BodyOf(With(blocks, {decl}, {}, {}))
                  /\ Publish(decl)
      /\ nodes' = NewId /\ Counts("functions")
      /\ UNCHANGED <<symtab_stack, current_module, compiled_modules, forward, files,
                     enclosing, state>>

compiler_end_scope ==
  /\ Parsing /\ ~InFile /\ Top.construct = "function"
  /\ tables' = [k \in Kinds |-> vartab_end_scope(tables[k])]
  /\ blocks' = Tail(blocks)
  /\ Quiet
  /\ UNCHANGED <<symtab_stack, current_module, compiled_modules, exported, forward,
                 files, enclosing, published, nodes, used, state>>

---------------------------------------------------------------------------
\* Modules.

\* What there is of each module, with what a new one has.
WithModule(of, id, what) ==
  [module \in DOMAIN of \cup {id} |-> IF module = id THEN what ELSE of[module]]

\* The rule of module_statement with compiler_begin_module(): the name is entered
\* in the tables around the module, in those of the enclosing module's node, among
\* the compiled modules, and in the new tables of the module.
compiler_begin_module(name) ==
  LET Insert(t) == vartab_insert_module(t, name, NewId)
      Export(t) == vartab_insert(t, name, NewId)
  IN  /\ Parsing /\ Top.construct \in {"program", "module"}
      /\ vartab_lookup_varnode(compiled_modules, name) # NoNode
            => "repeat module name" \in Uses
      /\ symtab_stack' = <<[tables EXCEPT !.vartab = Insert(@)]>> \o symtab_stack
      /\ compiled_modules' = Insert(compiled_modules)
      /\ tables' = [Fresh EXCEPT !.vartab = vartab_insert(@, name, NewId)]
      /\ current_module' = <<NewId>> \o current_module
      /\ exported' = WithModule(IF IsExported
                                THEN [exported EXCEPT ![Module].vartab = Export(@)]
                                ELSE exported, NewId, Fresh)
      /\ complains' = \/ vartab_refuses(tables.vartab, name)
                      \/ vartab_refuses(compiled_modules, name)
                      \/ IsExported /\ vartab_refuses(exported[Module].vartab, name)
      /\ clash' = Clashes("vartab", name)
      /\ LET decl == Decl("vartab", name, "", NewId)
             around == IF clash' THEN {} ELSE {decl}
         IN  /\ blocks' = <<[Block("module", NewId) EXCEPT !.own = {decl}]>>
             /\ enclosing' = <<[Top EXCEPT !.own = @ \cup around]>> \o enclosing
             /\ published' = WithModule(IF Top.construct = "module"
                                        THEN [published EXCEPT ![Top.id] = @ \cup around]
                                        ELSE published, NewId, {})
      /\ nodes' = NewId /\ Counts("modules")
      /\ UNCHANGED <<forward, files, state>>

compiler_end_module ==
  /\ Parsing /\ ~InFile /\ Top.construct = "module"
  /\ tables' = Head(symtab_stack) /\ symtab_stack' = Tail(symtab_stack)
  /\ current_module' = Tail(current_module)
  /\ blocks' = <<Head(enclosing)>> /\ enclosing' = Tail(enclosing)
  /\ Quiet
  /\ UNCHANGED <<compiled_modules, exported, forward, files, published, nodes, used, state>>

---------------------------------------------------------------------------
\* Taking names over from modules.

\* No operator of the module has the name of one that is declared here, but
\* other arguments.
OperatorsFit(module) ==
  \A d \in published[module] : d.kind = "operators" =>
     \A args \in ArgTypes \ {d.args} :
       ~DeclaredIn(blocks, DOMAIN blocks, "operators", d.name, args)
\* No type of the module has the name of one that was imported before and has no
\* description.
TypesFit(module) ==
  \A i \in DOMAIN blocks : \A d \in blocks[i].imports :
     d.kind = "typetab" /\ d.dnode \in forward
       => Of(published[module], "typetab", d.name, "") \subseteq {d}
MayUse(module) ==
  /\ ~TypesFit(module) => "import beside forward type" \in Uses
  /\ ~OperatorsFit(module) => "operator before use" \in Uses
  /\ (\E i \in DOMAIN blocks : module \in blocks[i].uses) => "use twice" \in Uses

compiler_use_exported_module_names(t, module) ==
  [k \in Kinds |->
     IF k = "typetab" THEN typetab_copy_table(t[k], exported[module][k], forward)
     ELSE vartab_copy_table(t[k], exported[module][k])]

\* Not in functions, and not in loops.
compiler_can_compile_use_statement ==
  \A i \in DOMAIN blocks : blocks[i].construct \notin {"function", "for lvariable in"}

\* use M, for a module that was compiled before.
compiler_use_module(name) ==
  LET module == vartab_lookup_varnode(compiled_modules, name).dnode
      known  == vartab_lookup_varnode(tables.vartab, name).dnode = module
      Insert(t) == IF known THEN t ELSE vartab_insert_module(t, name, module)
      decl == Decl("vartab", name, "", module)
      named == decl \in Meant("vartab", name, "")
  IN  /\ Parsing /\ compiler_can_compile_use_statement
      /\ module # NONE /\ MayUse(module)
      /\ tables' = compiler_use_exported_module_names(
                      [tables EXCEPT !.vartab = Insert(@)], module)
      /\ complains' = (~known /\ vartab_refuses(tables.vartab, name))
      /\ clash' = (~named /\ Clashes("vartab", name))
      /\ blocks' = With(blocks, IF named \/ clash' THEN {} ELSE {decl},
                        published[module], {module})
      /\ Counts("uses")
      /\ UNCHANGED <<symtab_stack, current_module, compiled_modules, exported, forward,
                     files, enclosing, published, nodes, state>>

\* import M.
compiler_import_module(name) ==
  LET module == vartab_lookup_varnode(compiled_modules, name).dnode
      decl == Decl("vartab", name, "", module)
  IN  /\ Parsing /\ compiler_can_compile_use_statement
      /\ module # NONE
      /\ (\E i \in DOMAIN blocks : decl \in blocks[i].imports)
            => "import imported module" \in Uses
      /\ tables' = [tables EXCEPT !.vartab = vartab_insert_module(@, name, module)]
      /\ complains' = vartab_refuses(tables.vartab, name)
      /\ clash' = Clashes("vartab", name)
      /\ blocks' = With(blocks, IF clash' THEN {} ELSE {decl}, {}, {})
      /\ Counts("uses")
      /\ UNCHANGED <<symtab_stack, current_module, compiled_modules, exported, forward,
                     files, enclosing, published, nodes, state>>

\* use name from M, for variables, functions and constants.  Such a name is as if
\* it were declared here.
compiler_import_selected_names(kind, module_name, name) ==
  LET module == vartab_lookup_varnode(compiled_modules, module_name).dnode
      dnode == vartab_lookup_varnode(exported[module][kind], name).dnode
      decl == Decl(kind, name, "", dnode)
  IN  /\ Parsing
      /\ module # NONE /\ dnode # NONE
      /\ tables' = [tables EXCEPT ![kind] = vartab_insert(@, name, dnode)]
      /\ complains' = vartab_refuses(tables[kind], name)
      /\ clash' = Clashes(kind, name)
      /\ blocks' = With(blocks, IF clash' THEN {} ELSE {decl}, {}, {})
      /\ Counts("uses")
      /\ UNCHANGED <<symtab_stack, current_module, compiled_modules, exported, forward,
                     files, enclosing, published, nodes, state>>

\* use M and import M, for a module that is yet to be compiled: its file is read.
compiler_open_include_file(name, is_use) ==
  /\ Parsing /\ compiler_can_compile_use_statement
  /\ vartab_lookup_varnode(compiled_modules, name) = NoNode
  /\ \A i \in DOMAIN files : files[i].name # name
  /\ files' = <<[name |-> name, is_use |-> is_use, depth |-> Depth]>> \o files
  /\ Quiet /\ Counts("uses")
  /\ UNCHANGED <<compiler, source, nodes, state>>

compiler_close_include_file ==
  /\ Parsing /\ InFile
  /\ LET module == vartab_lookup_varnode(compiled_modules, Head(files).name).dnode
     IN  IF Head(files).is_use /\ module # NONE
         THEN /\ MayUse(module)
              /\ tables' = compiler_use_exported_module_names(tables, module)
              /\ blocks' = With(blocks, {}, published[module], {module})
         ELSE UNCHANGED <<tables, blocks>>
  /\ files' = Tail(files)
  /\ Quiet
  /\ UNCHANGED <<symtab_stack, current_module, compiled_modules, exported, forward,
                 enclosing, published, nodes, used, state>>

---------------------------------------------------------------------------
\* The text ends, perhaps in the middle, which is a syntax error; the compiler and
\* its tables are deleted.
delete_compiler ==
  /\ Parsing
  /\ tables' = Fresh /\ symtab_stack' = << >> /\ current_module' = <<NONE>>
  /\ compiled_modules' = new_vartab /\ exported' = << >> /\ forward' = {}
  /\ files' = << >>
  /\ blocks' = <<Block("program", NONE)>> /\ enclosing' = << >> /\ published' = << >>
  /\ Quiet
  /\ nodes' = 0 /\ used' = [what \in DOMAIN used |-> 0]
  /\ state' = "done"
Stopped == ~Parsing /\ UNCHANGED vars

Next ==
  \/ \E name \in Names :
       \/ variable_declaration(name)
       \/ compiler_compile_exception(name)
       \/ compiler_consttab_insert_consts(name)
       \/ \E described \in BOOLEAN : compiler_typetab_insert(name, described)
       \/ \E args \in ArgTypes : operator_definition(name, args)
       \/ compiler_check_and_set_fn_proto(name)
       \/ \E kind \in {"vartab", "consts"}, module \in ModuleNames :
            compiler_import_selected_names(kind, module, name)
  \/ \E construct \in {"block", "for lvariable in"} : compiler_begin_subscope(construct)
  \/ compiler_end_subscope
  \/ compiler_begin_scope
  \/ compiler_end_scope
  \/ \E name \in ModuleNames :
       \/ compiler_begin_module(name)
       \/ compiler_use_module(name)
       \/ compiler_import_module(name)
       \/ \E is_use \in BOOLEAN : compiler_open_include_file(name, is_use)
  \/ compiler_end_module
  \/ compiler_close_include_file
  \/ delete_compiler
  \/ Stopped

Spec == Init /\ [][Next]_vars

---------------------------------------------------------------------------
\* Properties.

Stands(node, decls) ==
  LET dnodes == {d.dnode : d \in decls}
  IN  IF dnodes = {} THEN node = NoNode ELSE node.dnode \in dnodes
Ambiguous(decls) == Cardinality(decls) > 1

\* Wherever the parser is, looking up a name finds what the source means by it:
\* the innermost declaration that is open, whatever scopes, blocks and modules
\* have come and gone, or else what was imported (vartab.c:352, 442, 457, 513, 543;
\* typetab.c:318); and it is found ambiguous just when it is (vartab.c:325).  A
\* module shows to others the declarations at its top level.
FindsWhatIsMeant ==
  /\ \A kind \in Kinds \ {"operators"}, name \in Names \cup ModuleNames :
       LET node == vartab_lookup_varnode(tables[kind], name)
           meant == Meant(kind, name, "")
       IN  Stands(node, meant) /\ (node.count > 1 <=> Ambiguous(meant))
  /\ \A name \in Names, args \in ArgTypes :
       Stands(vartab_lookup_operator(tables.operators, name, args),
              Meant("operators", name, args))
  /\ \A module \in DOMAIN exported, name \in Names \cup ModuleNames :
       /\ \A kind \in Kinds \ {"operators"} :
            Stands(vartab_lookup_varnode(exported[module][kind], name),
                   Of(published[module], kind, name, ""))
       /\ \A args \in ArgTypes :
            Stands(vartab_lookup_operator(exported[module].operators, name, args),
                   Of(published[module], "operators", name, args))

\* A declaration is refused just when the same function or module, or for a type
\* the same block, has another of that name (vartab.c:227, typetab.c:153).
RefusesOnlyClashes == complains <=> clash
=============================================================================
