------------------------------- MODULE Fixups -------------------------------
(***************************************************************************)
(* How the grammar (grammar.y) emits jumps and calls in one pass.          *)
(*                                                                         *)
(* A grammar action emits words, leaves fixups on the lists of a thrcode,  *)
(* patches them, and keeps code aside that belongs further on: the         *)
(* condition of a while loop, the step of a for loop, functions.  The      *)
(* parser decides in which order this happens.  A program is any nesting   *)
(* of the constructs below; one step is one grammar action, with all the   *)
(* calls it makes.                                                         *)
(***************************************************************************)
EXTENDS Thrcode, FiniteSets

CONSTANTS
  Labels,           \* labels of loops
  Names,            \* names of functions outside of modules
  ModuleNames,      \* names of functions in modules
  Uses,             \* which of the things below programs do
  Bounds,           \* how large programs are: how much of each they may have
  MaxIdentifiers    \* exceptions in a catch clause, less one

\* A label is given again inside the loop that has it; continue is the step of
\* a for loop; a module calls, outside of functions, one that it never defines.
ASSUME UsesAssumption ==
  Uses \subseteq {"shadowed label", "continue in step", "undefined call in module"}
ASSUME BoundsAssumption ==
  Bounds \subseteq [{"constructs", "jumps", "functions", "calls", "modules"} -> Nat]

VARIABLES
  compiler,   \* the fields of COMPILER that code generation uses
  open,       \* the constructs being parsed, the innermost first
  functions,  \* the declared functions
  used,       \* how much of each there is in the program
  nodes,      \* the constructs, functions and modules so far
  state       \* "parsing", or how the compilation ended

vars == <<compiler, open, functions, used, nodes, state>>

FUNCTION == 1       \* function_thrcode
MAIN     == 2       \* main_thrcode
PROGRAM  == 1       \* the number of the program among the constructs

Current(c)     == c.code[c.thrcode]
OnCode(c, t)   == [c EXCEPT !.code[c.thrcode] = t]
FreshThrcode(c) == CHOOSE n \in 1 .. Cardinality(DOMAIN c.code) + 1 :
                      n \notin DOMAIN c.code
Without(f, n)  == [i \in DOMAIN f \ {n} |-> f[i]]

---------------------------------------------------------------------------
\* What grammar actions are made of.  A goal names a label of the construct,
\* or one of the construct around it.

Do(what)        == <<[do |-> what]>>
Word(is, goal)  == [is |-> is, goal |-> goal]
Plain           == Word("plain", "")
EmitWords(ws)   == <<[do |-> "emit", words |-> ws]>>
Op              == EmitWords(<<Plain>>)
Label(goal)     == <<[do |-> "place", goal |-> goal]>>
JumpBack(goal)  == <<[do |-> "jump back", goal |-> goal]>>
JumpToBody(goal) == <<[do |-> "jump to body", goal |-> goal]>>
PatchNumber(goal) == <<[do |-> "fixup number", goal |-> goal]>>

\* compiler_push_relative_fixup(); JMP, JZ, JNZ or BJNZ 0
Jump(goal) == Do("push relative fixup")
              \o EmitWords(<<Plain, Word("jump", goal)>>)
\* compiler_swap_fixups(); compiler_fixup_here()
FixupSecond == Do("swap fixups") \o Do("fixup here")

Rule(from, calls, to) == [from |-> from, calls |-> calls, to |-> to]
Begin == "begin"
Done  == "done"

IfStatement ==
  {Rule(Begin, << >>, "condition"),
   Rule("condition", Jump("else"), "then"),
   Rule("then", Label("else") \o Do("fixup here"), Done),
   Rule("then", Jump("end") \o Label("else") \o FixupSecond, "statements"),
   Rule("statements", Label("end") \o Do("fixup here"), Done)}

Conditional ==
  {Rule(Begin, Jump("else"), "expression"),
   Rule("expression", Jump("end") \o Label("else") \o FixupSecond, "value"),
   Rule("value", Label("end") \o Do("fixup here"), Done)}

ShortCircuit ==
  {Rule(Begin, Op \o Jump("end") \o Op, "expression"),
   Rule("expression", Label("end") \o Do("fixup here"), Done)}

DoIf ==
  {Rule(Begin, Do("push thrcode"), "simple"),
   Rule("simple", Do("swap thrcodes"), "condition"),
   Rule("condition", Jump("end") \o Do("merge top thrcodes") \o Label("end")
                     \o Do("fixup here"), Done)}

Repeat ==
  {Rule(Begin, Do("push loop") \o Do("push address") \o Label("body"), "simple"),
   Rule("simple", Label("next") \o Do("fixup continue"), "condition"),
   Rule("condition", JumpBack("body") \o Label("end") \o Do("fixup break")
                     \o Do("pop loop"), Done)}

WhileLoop ==
  {Rule(Begin, Do("push loop") \o Jump("next") \o Do("push address")
               \o Label("body") \o Do("push thrcode") \o Label("next"),
        "condition"),
   Rule("condition", Do("swap thrcodes"), "body"),
   Rule("body", Do("fixup here") \o Do("fixup continue")
                \o Do("merge top thrcodes") \o JumpBack("body") \o Label("end")
                \o Do("fixup break") \o Do("pop loop"), Done)}

ForLoop ==
  {Rule(Begin, << >>, "initialisation"),
   Rule("initialisation", Do("push loop") \o Do("push thrcode") \o Label("test"),
        "condition"),
   Rule("condition", Do("push thrcode") \o Label("next"), "step"),
   Rule("step", Do("push thrcode") \o Jump("test") \o Label("body"), "body"),
   Rule("body", Do("fixup continue") \o Do("merge top thrcodes")
                \o Do("fixup here") \o Do("merge top thrcodes")
                \o JumpToBody("body") \o Do("swap thrcodes")
                \o Do("merge top thrcodes") \o Label("end")
                \o Do("fixup break") \o Do("pop loop"), Done)}

CountedLoop ==
  {Rule(Begin, Do("push counting loop"), "expression"),
   Rule("expression", Op \o Jump("next") \o Do("push address") \o Label("body"),
        "body"),
   Rule("body", Label("next") \o Do("fixup here") \o Do("fixup continue")
                \o JumpBack("body") \o Label("end") \o Do("fixup break")
                \o Do("pop loop"), Done)}

ForEach ==
  {Rule(Begin, Do("push counting loop"), "expression"),
   Rule("expression", Op \o Jump("next") \o Do("push address") \o Label("body")
                      \o Op, "body"),
   Rule("body", Op \o Label("next") \o Do("fixup continue") \o Do("fixup here")
                \o JumpBack("body") \o Label("end") \o Do("fixup break")
                \o Do("pop loop"), Done)}

Comprehension ==
  {Rule(Begin, Do("push counting loop"), "expression"),
   Rule("expression", Op \o Jump("next") \o Do("push thrcode"), "element"),
   Rule("element", Do("swap thrcodes") \o Op \o Do("push address")
                   \o Label("body") \o Do("merge top thrcodes") \o Op
                   \o Label("next") \o Do("fixup here") \o Do("fixup continue")
                   \o JumpBack("body") \o Label("end") \o Do("fixup break")
                   \o Do("pop loop"), Done)}

TryStatement ==
  {Rule(Begin, Do("push jumpovers") \o Jump("catch") \o Op, "statements"),
   Rule("statements", Op \o Jump("end") \o Label("catch") \o FixupSecond,
        "catches"),
   Rule("catches", Label("end") \o Do("fixup jumpovers") \o Do("pop jumpovers")
                   \o Do("fixup here"), Done)}

\* Mutant: a clause for all exceptions counts a jump that it does not emit.
CatchClauseWithoutJump ==
  {Rule(Begin, << >>, "any"), Rule("any", Do("count jumpover"), Done)}

CatchClause ==
  LET NextIdentifier == Jump("caught") \o Do("count identifier")
      \* An exception of a module is told by the name of the module first.
      Compare == {Op, Op \o Jump("compared") \o Op \o Label("compared")
                      \o Do("fixup here")}
  IN  {Rule(Begin, << >>, "any")}
      \cup {Rule("any", Do("count jumpover") \o Jump("end of try"), Done)}
      \cup {Rule(Begin, compare, "identifiers") : compare \in Compare}
      \cup {Rule("identifiers", NextIdentifier \o compare, "identifiers") :
              compare \in Compare}
      \cup {Rule("identifiers", Jump("next clause") \o Label("caught")
                                \o Do("fixup identifiers"), "statements"),
            Rule("statements", Do("count jumpover") \o Jump("end of try")
                               \o Label("next clause") \o FixupSecond, Done)}

\* The code of a function is kept apart until the function ends.
BeginFunction ==
  Do("push thrcode") \o Label("entry") \o Do("push address")
  \o Do("push absolute fixup") \o EmitWords(<<Plain, Word("number", "locals")>>)
EndFunction ==
  PatchNumber("locals") \o Do("pop address") \o Op \o Do("merge function")

FunctionExpression ==
  {Rule(Begin, Do("save loops") \o BeginFunction, "statements"),
   Rule("statements", EndFunction \o Do("restore loops")
                      \o Do("load function address"), Done)}

Closure ==
  {Rule(Begin, Do("push absolute fixup") \o Op \o Do("push absolute fixup")
               \o EmitWords(<<Word("number", "size"), Word("number", "nref")>>)
               \o Op, "fields"),
   Rule("fields", PatchNumber("nref") \o PatchNumber("size") \o Do("save loops")
                  \o BeginFunction, "statements"),
   Rule("statements", EndFunction \o Do("restore loops") \o Op
                      \o Do("load function address") \o Op, Done)}

Construct ==
  [if |-> IfStatement, conditional |-> Conditional, and |-> ShortCircuit,
   doIf |-> DoIf, repeat |-> Repeat, while |-> WhileLoop, for |-> ForLoop,
   forTo |-> CountedLoop, forIn |-> ForEach, array |-> Comprehension,
   try |-> TryStatement, catch |-> CatchClause,
   function |-> FunctionExpression, closure |-> Closure]

Expressions  == {"conditional", "and", "array", "function", "closure"}
Simple       == Expressions \cup {"doIf", "repeat"}
Statements   == DOMAIN Construct \ {"catch"}
LabeledLoops == {"while", "for", "forTo", "forIn"}

ExpressionPhases == {"condition", "expression", "value", "element", "fields"}

\* What the grammar allows where.
Allowed(phase) ==
  CASE phase \in ExpressionPhases -> Expressions
    [] phase = "simple"      -> Simple
    [] phase = "catches"     -> {"catch"}
    [] phase = "identifiers" -> {}
    [] OTHER                 -> Statements
IsStatementPhase(phase) == "doIf" \in Allowed(phase)

---------------------------------------------------------------------------
\* The functions of the compiler that grammar actions call.

\* Each identifier of a catch clause has a comparison of its own.
Goal(c, k, goal) == CASE goal = "end of try" -> <<k[2].id, "end">>
                      [] goal = "compared" -> <<Head(k).id, goal, c.identifiers>>
                      [] OTHER -> <<Head(k).id, goal>>
\* The number of locals of a function, or the size of a closure.
Measure(goal) ==
  3 * goal[1] + (CASE goal[2] = "locals" -> 0
                   [] goal[2] = "nref"   -> 1
                   [] goal[2] = "size"   -> 2)
Zero(is, goal) == [is |-> is, goal |-> goal, value |-> 0, settled |-> FALSE]
Settled(is, goal, value) ==
  [is |-> is, goal |-> goal, value |-> value, settled |-> TRUE]
PlainWord == Settled("plain", << >>, 0)
ToEmit(c, k, w) ==
  IF w.is = "plain" THEN PlainWord ELSE Zero(w.is, Goal(c, k, w.goal))

compiler_push_thrcode(c) ==
  LET n == FreshThrcode(c)
  IN  [c EXCEPT !.thrstack = <<c.thrcode>> \o @, !.thrcode = n,
                !.code = [i \in DOMAIN @ \cup {n} |->
                            IF i = n THEN new_thrcode ELSE @[i]]]

compiler_swap_thrcodes(c) ==
  [c EXCEPT !.thrcode = Head(c.thrstack),
            !.thrstack = <<c.thrcode>> \o Tail(@)]

compiler_merge_top_thrcodes(c) ==
  LET top == Head(c.thrstack)
  IN  [OnCode(c, thrcode_merge(Current(c), c.code[top])) EXCEPT
         !.thrstack = Tail(@), !.code = Without(@, top)]

\* Mutant: the offset is taken after the code of the function was added.
compiler_merge_functions_and_top_late(c) ==
  LET functions_ == thrcode_merge(c.code[FUNCTION], Current(c))
  IN  [c EXCEPT !.offset = functions_.length,
                !.code = Without([@ EXCEPT ![FUNCTION] = functions_], c.thrcode),
                !.thrcode = Head(c.thrstack), !.thrstack = Tail(@)]

\* compiler_merge_functions_and_top(); the offset of the function is the length
\* the code of the functions had.
compiler_merge_functions_and_top(c) ==
  [c EXCEPT !.offset = c.code[FUNCTION].length,
            !.code = Without([@ EXCEPT ![FUNCTION] =
                                thrcode_merge(@, Current(c))], c.thrcode),
            !.thrcode = Head(c.thrstack), !.thrstack = Tail(@)]

\* A loop without a label is named by the address of its node; nodes of loops
\* that are over may be used again.
compiler_push_loop(c, k, counts) ==
  LET nr == Len(c.loops)
            + FoldLeft(LAMBDA n, loops : n + Len(loops), 0, c.loop_stack)
      loop == [name |-> IF Head(k).label = "" THEN <<"@", nr>>
                        ELSE <<Head(k).label>>,
               counts |-> counts, id |-> Head(k).id]
  IN  [c EXCEPT !.loops = <<loop>> \o @]

\* Back to the address on top of the stack.
JumpBackTo(c, k, goal) ==
  LET t == Current(c)
      offset == Head(c.addr_stack) - t.length
  IN  [OnCode(c, Emit(t, <<PlainWord, Settled("jump", Goal(c, k, goal), offset)>>))
         EXCEPT !.addr_stack = Tail(@)]

Execute(c, k, s) ==
  LET t == Current(c)
      SwapFixups(u) == [u EXCEPT !.fixups = fixup_swap(@)]
  IN
  CASE s.do = "emit" ->
         OnCode(c, Emit(t, [i \in DOMAIN s.words |-> ToEmit(c, k, s.words[i])]))
    [] s.do = "place" -> OnCode(c, Place(t, Goal(c, k, s.goal)))
    [] s.do = "push relative fixup" -> OnCode(c, thrcode_push_fixup_here(t, FALSE))
    [] s.do = "push absolute fixup" -> OnCode(c, thrcode_push_fixup_here(t, TRUE))
    [] s.do = "fixup here" -> OnCode(c, thrcode_internal_fixup_here(t))
    [] s.do = "fixup number" ->
         OnCode(c, thrcode_internal_fixup(t, Measure(Goal(c, k, s.goal))))
    [] s.do = "swap fixups" -> OnCode(c, SwapFixups(t))
    [] s.do = "push address" -> [c EXCEPT !.addr_stack = <<t.length>> \o @]
    [] s.do = "pop address"  -> [c EXCEPT !.addr_stack = Tail(@)]
    [] s.do = "jump back" -> JumpBackTo(c, k, s.goal)
    [] s.do = "jump to body" ->
         OnCode(c, Emit(t, <<PlainWord, Settled("jump", Goal(c, k, s.goal),
                                                -t.length + 2)>>))
    [] s.do = "push thrcode" -> compiler_push_thrcode(c)
    [] s.do = "swap thrcodes" -> compiler_swap_thrcodes(c)
    [] s.do = "merge top thrcodes" -> compiler_merge_top_thrcodes(c)
    [] s.do = "merge function" -> compiler_merge_functions_and_top(c)
    [] s.do = "push loop" -> compiler_push_loop(c, k, FALSE)
    [] s.do = "push counting loop" -> compiler_push_loop(c, k, TRUE)
    [] s.do = "pop loop" -> [c EXCEPT !.loops = Tail(@)]
    [] s.do = "fixup continue" ->
         OnCode(c, thrcode_fixup_op_continue(t, Head(c.loops).name))
    [] s.do = "fixup break" ->
         OnCode(c, thrcode_fixup_op_break(t, Head(c.loops).name))
    [] s.do = "save loops" ->
         [c EXCEPT !.loop_stack = <<c.loops>> \o @, !.loops = << >>]
    [] s.do = "restore loops" ->
         [c EXCEPT !.loops = Head(c.loop_stack), !.loop_stack = Tail(@)]
    [] s.do = "load function address" ->
         OnCode(c, Emit(t, <<PlainWord, Settled("call", Goal(c, k, "entry"),
                                                c.offset)>>))
    [] s.do = "push jumpovers" ->
         [c EXCEPT !.catch_jumpover_stack = <<c.catch_jumpover_nr>> \o @,
                   !.catch_jumpover_nr = 0]
    [] s.do = "pop jumpovers" ->
         [c EXCEPT !.catch_jumpover_nr = Head(c.catch_jumpover_stack),
                   !.catch_jumpover_stack = Tail(@)]
    [] s.do = "count jumpover" -> [c EXCEPT !.catch_jumpover_nr = @ + 1]
    [] s.do = "fixup jumpovers" ->
         OnCode(c, FoldLeft(LAMBDA u, i : thrcode_internal_fixup_here(u), t,
                            [i \in 1 .. c.catch_jumpover_nr |-> i]))
    [] s.do = "count identifier" -> [c EXCEPT !.identifiers = @ + 1]
    [] s.do = "fixup identifiers" ->
         [OnCode(c, FoldLeft(LAMBDA u, i :
                               thrcode_internal_fixup_here(SwapFixups(u)), t,
                             [i \in 1 .. c.identifiers |-> i]))
            EXCEPT !.identifiers = 0]
    [] s.do = "push function calls" -> OnCode(c, thrcode_push_function_call_fixups(t))
    [] s.do = "pop function calls" -> OnCode(c, thrcode_pop_function_call_fixups(t))

\* What the code asserts, or dereferences.
Asserts(c, s) ==
  LET t == Current(c)
      Named_(list) == \A i \in DOMAIN list :
         list[i].name = Head(c.loops).name => list[i].address < t.length
  IN
  CASE s.do \in {"fixup here", "fixup number"} -> Patchable(t)
    [] s.do = "swap fixups" -> Len(t.fixups) >= 2
    [] s.do = "fixup jumpovers" -> Len(t.fixups) >= c.catch_jumpover_nr
    [] s.do = "fixup identifiers" -> Len(t.fixups) >= c.identifiers + 1
    [] s.do \in {"pop address", "jump back"} -> c.addr_stack # << >>
    [] s.do \in {"swap thrcodes", "merge top thrcodes"} -> c.thrstack # << >>
    [] s.do = "merge function" -> c.thrcode \notin {FUNCTION, MAIN}
                                  /\ c.thrstack # << >>
    [] s.do = "pop loop" -> c.loops # << >>
    [] s.do = "fixup continue" -> c.loops # << >> /\ Named_(t.op_continue_fixups)
    [] s.do = "fixup break" -> c.loops # << >> /\ Named_(t.op_break_fixups)
    [] s.do = "pop function calls" -> t.forward_function_calls = << >>
    [] OTHER -> TRUE

Run(c, k, calls) ==
  FoldLeft(LAMBDA d, s : IF d.failed \/ ~Asserts(d, s)
                         THEN [d EXCEPT !.failed = TRUE]
                         ELSE Execute(d, k, s), c, calls)

---------------------------------------------------------------------------
Node(kind, phase, id, label) ==
  [kind |-> kind, phase |-> phase, id |-> id, label |-> label]
Program == Node("program", "statements", PROGRAM, "")

\* The first rules of Program: ENTER, and a jump over the functions.
Init ==
  /\ open = <<Program>>
  /\ compiler =
       LET c == [code |-> (FUNCTION :> new_thrcode
                           @@ MAIN :> Place(new_thrcode, <<PROGRAM, "main">>)),
                 thrcode |-> FUNCTION, thrstack |-> << >>, offset |-> 0,
                 loops |-> << >>, loop_stack |-> << >>, addr_stack |-> << >>,
                 catch_jumpover_nr |-> 0, catch_jumpover_stack |-> << >>,
                 identifiers |-> 0, failed |-> FALSE]
       IN  [Run(c, open, Do("push absolute fixup")
                         \o EmitWords(<<Plain, Word("number", "locals")>>)
                         \o Jump("main")) EXCEPT !.thrcode = MAIN]
  /\ functions = {}
  /\ used = [constructs |-> 0, jumps |-> 0, functions |-> 0, calls |-> 0,
             modules |-> 0]
  /\ nodes = PROGRAM
  /\ state = "parsing"

Parsing == state = "parsing" /\ ~compiler.failed
NewId   == nodes + 1
\* One more of this kind.
Use(kind) ==
  /\ used' = [used EXCEPT ![kind] = @ + 1]
  /\ \E b \in Bounds : \A i \in DOMAIN b : used'[i] <= b[i]

MayHaveLabel(kind, label) ==
  /\ label # "" => kind \in LabeledLoops
  /\ "shadowed label" \in Uses \/
       \A i \in DOMAIN compiler.loops : compiler.loops[i].name # <<label>>

StartConstruct(kind, label) ==
  /\ Parsing
  /\ kind \in Allowed(Head(open).phase) /\ MayHaveLabel(kind, label)
  /\ \E r \in Construct[kind] :
       LET k == <<Node(kind, r.to, NewId, label)>> \o open
       IN  /\ r.from = Begin
           /\ open' = k
           /\ compiler' = Run(compiler, k, r.calls)
  /\ Use("constructs") /\ nodes' = NewId
  /\ UNCHANGED <<functions, state>>

\* The next part of a construct is over.  An expression has emitted something.
PartIsOver(phase) == IF phase \in ExpressionPhases THEN Op ELSE << >>
Proceed ==
  /\ Parsing /\ Head(open).kind \in DOMAIN Construct
  /\ \E r \in Construct[Head(open).kind] :
       /\ r.from = Head(open).phase
       /\ r.to = "identifiers" => compiler.identifiers < MaxIdentifiers
       /\ compiler' = Run(compiler, open, PartIsOver(r.from) \o r.calls)
       /\ open' = IF r.to = Done THEN Tail(open)
                   ELSE [open EXCEPT ![1].phase = r.to]
  /\ UNCHANGED <<functions, used, nodes, state>>

---------------------------------------------------------------------------
\* break and continue.

\* compiler_get_loop_name()
compiler_get_loop_name(label) ==
  IF label = "" THEN Head(compiler.loops).name ELSE <<label>>

\* The loop that check_loop_types() finds.
LoopNamed(name) ==
  CHOOSE i \in DOMAIN compiler.loops :
    /\ compiler.loops[i].name = name
    /\ \A j \in 1 .. i - 1 : compiler.loops[j].name # name

\* compiler_drop_loop_counters()
DropLoopCounters(t, last) ==
  IF \E i \in 1 .. last : compiler.loops[i].counts
  THEN Emit(t, <<PlainWord, PlainWord>>) ELSE t

InLoopNamed(label) ==
  /\ Parsing
  /\ IsStatementPhase(Head(open).phase)
  /\ compiler.loops # << >>
  /\ \E i \in DOMAIN compiler.loops :
       compiler.loops[i].name = compiler_get_loop_name(label)

JumpFrom(t, goal) == Emit(t, <<PlainWord, Zero("jump", goal)>>)

compiler_compile_break(label) ==
  LET name == compiler_get_loop_name(label)
      i == LoopNamed(name)
      t == DropLoopCounters(Current(compiler), i)
  IN  /\ InLoopNamed(label)
      /\ compiler' = OnCode(compiler,
           JumpFrom(thrcode_push_op_break_fixup(t, name),
                    <<compiler.loops[i].id, "end">>))
      /\ Use("jumps")
      /\ UNCHANGED <<open, functions, nodes, state>>

compiler_compile_continue(label) ==
  LET name == compiler_get_loop_name(label)
      i == LoopNamed(name)
      t == DropLoopCounters(Current(compiler), i - 1)
  IN  /\ InLoopNamed(label)
      /\ "continue in step" \in Uses \/
           \A n \in DOMAIN open :
              open[n].id = compiler.loops[i].id => open[n].phase # "step"
      /\ compiler' = OnCode(compiler,
           JumpFrom(thrcode_push_op_continue_fixup(t, name),
                    <<compiler.loops[i].id, "next">>))
      /\ Use("jumps")
      /\ UNCHANGED <<open, functions, nodes, state>>

---------------------------------------------------------------------------
\* Functions with a name, and modules.

IsModule(node) == node.kind \in {"program", "module"}
Module == SelectSeq(open, IsModule)[1].id
NamesHere == IF Module = PROGRAM THEN Names ELSE ModuleNames
\* A module has symbol tables of its own.
Declared(name) == {f \in functions : f.module = Module /\ f.name = name}

function_prototype(name) ==
  /\ Parsing
  /\ IsModule(Head(open)) /\ name \in NamesHere /\ Declared(name) = {}
  /\ functions' = functions \cup
       {[id |-> NewId, name |-> name, module |-> Module, offset |-> 0,
         begun |-> FALSE]}
  /\ Use("functions") /\ nodes' = NewId
  /\ UNCHANGED <<compiler, open, state>>

\* The body of a function that was declared before.  One that was not is
\* declared by its header.
function_or_operator_start(name) ==
  /\ Parsing /\ IsModule(Head(open)) /\ name \in NamesHere
  /\ \E f \in Declared(name) :
       LET k == <<Node("definition", "statements", f.id, "")>> \o open
       IN  /\ ~f.begun
           /\ open' = k
           /\ compiler' = Run(compiler, k, BeginFunction)
           /\ functions' = (functions \ {f}) \cup {[f EXCEPT !.begun = TRUE]}
  /\ UNCHANGED <<used, nodes, state>>

function_or_operator_end ==
  /\ Parsing /\ Head(open).kind = "definition"
  /\ \E f \in functions :
       LET c == Run(compiler, open, EndFunction)
           FixCalls(t) == thrcode_fixup_function_calls(t, f.name, c.offset)
       IN  /\ f.id = Head(open).id
           /\ functions' = (functions \ {f}) \cup {[f EXCEPT !.offset = c.offset]}
           /\ compiler' = [c EXCEPT !.code[FUNCTION] = FixCalls(@),
                                    !.code[MAIN] = FixCalls(@)]
  /\ open' = Tail(open)
  /\ UNCHANGED <<used, nodes, state>>

\* CALL, or LDFN for a function that is used as a value.
compiler_emit_function_call(name) ==
  /\ Parsing
  /\ Head(open).phase \notin {"catches", "identifiers"}
  /\ \E f \in Declared(name) :
       LET t == Current(compiler)
           goal == <<f.id, "entry">>
       IN  compiler' = OnCode(compiler,
             IF f.offset = 0
             THEN Emit(thrcode_push_forward_function(t, name, t.length + 1),
                       <<PlainWord, Zero("call", goal)>>)
             ELSE Emit(t, <<PlainWord, Settled("call", goal, f.offset)>>))
  /\ Use("calls")
  /\ UNCHANGED <<open, functions, nodes, state>>

compiler_begin_module ==
  /\ Parsing /\ Head(open) = Program
  /\ open' = <<Node("module", "statements", NewId, "")>> \o open
  /\ compiler' = Run(compiler, open', Do("push function calls"))
  /\ Use("modules") /\ nodes' = NewId
  /\ UNCHANGED <<functions, state>>

compiler_end_module ==
  /\ Parsing /\ Head(open).kind = "module"
  /\ Current(compiler).forward_function_calls # << >>
       => "undefined call in module" \in Uses
  /\ compiler' = Run(compiler, open, Do("pop function calls"))
  /\ open' = Tail(open)
  /\ UNCHANGED <<functions, used, nodes, state>>

---------------------------------------------------------------------------
\* compiler_merge_functions_and_main()
compiler_merge_functions_and_main(c) ==
  [c EXCEPT !.code = FUNCTION :> thrcode_merge(c.code[FUNCTION], c.code[MAIN])]

\* The last rules of Program.  compiler_check_forward_functions() reports the
\* calls that still wait.
EndProgram ==
  /\ Parsing /\ open = <<Program>>
  /\ LET c == Run([compiler EXCEPT !.thrcode = FUNCTION], open,
                  Do("fixup here") \o PatchNumber("locals"))
          d == compiler_merge_functions_and_main(c)
      IN  /\ compiler' = IF c.failed THEN c ELSE d
          /\ state' = IF Current(d).forward_function_calls = << >>
                      THEN "compiled" ELSE "reported"
  /\ UNCHANGED <<open, functions, used, nodes>>

Stopped == ~Parsing /\ UNCHANGED vars

Next ==
  \/ \E kind \in DOMAIN Construct, label \in Labels \cup {""} :
       StartConstruct(kind, label)
  \/ Proceed
  \/ \E label \in Labels \cup {""} : compiler_compile_break(label)
  \/ \E label \in Labels \cup {""} : compiler_compile_continue(label)
  \/ \E name \in Names \cup ModuleNames :
       \/ function_prototype(name)
       \/ function_or_operator_start(name)
       \/ compiler_emit_function_call(name)
  \/ function_or_operator_end
  \/ compiler_begin_module
  \/ compiler_end_module
  \/ EndProgram
  \/ Stopped

Spec == Init /\ [][Next]_vars

---------------------------------------------------------------------------
CodeOf(c) == {c.code[i] : i \in DOMAIN c.code}

\* Every jump that has been patched leads to the place in the program that it
\* stands for, whatever code was kept aside, swapped and merged in between
\* (thrcode.c:972), and every number went to its own operand.
JumpsGoHome ==
  \A t \in CodeOf(compiler) :
    /\ LeadsHome(t, "jump", t.labels)
    /\ \A o \in t.operands :
         (o.is = "number" /\ o.settled) => o.value = Measure(o.goal)

\* A call that has an address calls the function it names in the module it is
\* in, also when the function was defined after the call (thrcode.c:772).
CallsGoHome ==
  \A t \in CodeOf(compiler) :
    LeadsHome(t, "call", compiler.code[FUNCTION].labels)

\* Between two grammar actions the lists of fixups hold exactly the operands
\* that have no value yet, each once: none is lost when lists are swapped,
\* turned, split and merged (fixup.c:145, thrcode.c:957), and none is left over.
PendingIsOwed == \A t \in CodeOf(compiler) : Owed(t)

\* When the program is over nothing waits but calls of functions that were
\* declared and never defined; just these are reported (grammar.y:5785).
NothingLeftOpen ==
  state # "parsing" =>
    LET t == Current(compiler)
        undefined == {f \in functions : f.offset = 0}
        open_ == {o \in t.operands : ~o.settled}
    IN  /\ open_ = {o \in t.operands : o.is = "call"
                      /\ \E f \in undefined : o.goal = <<f.id, "entry">>}
        /\ state = "compiled" <=> open_ = {}

\* No assertion of thrcode.c, fixup.c or of the code stacks fails, and no empty
\* list is dereferenced (fixup.c:149).
NoAssertionFails == ~compiler.failed
=============================================================================
