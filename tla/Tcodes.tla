------------------------------- MODULE Tcodes -------------------------------
(***************************************************************************)
(* The opcodes of interpreters/packed-type/tcodes.c, each with the words   *)
(* and the stack effect its comment states (where it has none: the effect  *)
(* the compiler relies on) and the steps its function takes.  Arrays of    *)
(* operands and lists of values are shown for two elements.                *)
(***************************************************************************)
EXTENDS Operations

-----------------------------------------------------------------------------
(* Moving cells about.                                                     *)

NOP == Silent
DUP  == Op(0, <<"x">>, <<"x", "x">>, Ep(-1) \o Copy(E(0), E(1)) \o Ret(1))
OVER == Op(0, <<"x", "y">>, <<"x", "y", "x">>, Ep(-1) \o Copy(E(0), E(2)) \o Ret(1))
SWAP == Op(0, <<"x", "y">>, <<"y", "x">>,
           Copy(Tmp, E(0)) \o Copy(E(0), E(1)) \o Copy(E(1), Tmp) \o Ret(1))
\* Mutant: the top two cells are swapped, the third stays.
ROTOfTwo == Op(0, <<"x", "y", "z">>, <<"z", "x", "y">>,
           Copy(Tmp, E(0)) \o Copy(E(0), E(1)) \o Copy(E(1), Tmp) \o Ret(1))
ROT  == Op(0, <<"x", "y", "z">>, <<"z", "x", "y">>,
           Copy(Tmp, E(0)) \o Copy(E(0), E(1)) \o Copy(E(1), E(2))
           \o Copy(E(2), Tmp) \o Ret(1))
PEEK == Op(1, <<"x", "y">>, <<"x", "y", "x">>,
           Words(1) \o Ep(-1) \o Copy(E(0), E(2)) \o Ret(2))
\* The compiler drops references with PDROP (compiler_compile_drop, grammar.y).
DROP  == Op(0, <<"n">>, << >>, Ep(1) \o Ret(1))
DROPN == Op(1, <<"n", "n">>, << >>, Words(1) \o Ep(2) \o Ret(2))
PDROP == Op(0, <<"r">>, << >>, Zero(E(0)) \o Ep(1) \o Ret(1))
PDROPN == Op(1, <<"r", "r">>, << >>,
             Words(1) \o Clear(E(0)) \o Clear(E(1)) \o Ep(2) \o Ret(2))

\* Copying the contents of an array is skipped when either one is null.
COPY == Op(0, <<"r", "r">>, << >>,
    IfNull(Arg(0), << >>, IfNull(Arg(1), << >>,
        Use(Arg(0)) \o Use(Arg(1)) \o Link(Arg(1), Elem(0))))
    \o Zero(E(0)) \o Zero(E(1)) \o Ep(2) \o Ret(1))
ICOPY == Op(0, <<"r", "n", "r">>, << >>,
    IfNull(Arg(0), << >>, IfNull(Arg(2), << >>,
        Use(Arg(2)) \o Maybe(Use(Arg(0)) \o Link(Arg(2), Elem(0)))))
    \o Zero(E(0)) \o Zero(E(2)) \o Ep(3) \o Ret(1))
MEMCPY == Op(1, <<"x", "y">>, <<"x", "y">>,
    Words(1) \o IfNull(Arg(1), Ret(1), << >>) \o IfNull(Arg(0), Ret(1), << >>)
    \o Use(Arg(0)) \o Use(Arg(1)) \o Ret(2))

OFFSET == Op(1, <<"a">>, <<"a">>, Words(1) \o Num(E(0)) \o Ret(2))
ZEROOFFSET == Op(0, <<"a">>, <<"a">>, Num(E(0)) \o Ret(1))

-----------------------------------------------------------------------------
(* Variables of the frame and of the globals, and what addresses point to. *)

LoadVariable == Op(1, << >>, <<"v">>, Words(1) \o Ep(-1) \o Copy(E(0), V) \o Ret(2))
LoadAddress  == Op(1, << >>, <<"r">>, Words(1) \o Ep(-1) \o Load(E(0), Static) \o Ret(2))
\* Mutant: the popped cell keeps its reference.
StoreVariableOnly == Op(1, <<"x">>, << >>,
    Words(1) \o Copy(V, E(0)) \o Ep(1) \o Ret(2))
\* "must zero ptr, since the stored stackcell could have been reference"
StoreVariable == Op(1, <<"x">>, << >>,
    Words(1) \o Copy(V, E(0)) \o Zero(E(0)) \o Ep(1) \o Ret(2))
LD   == LoadVariable
LDG  == LoadVariable
LDA  == LoadAddress
LDGA == LoadAddress
ST   == StoreVariable
STG  == StoreVariable

\* STACKCELL_MOVE_PTR copies the reference and its offset.
PLD   == LoadVariable
PLDG  == LoadVariable
PLDA  == LoadAddress
PLDGA == LoadAddress
PST   == StoreVariable
PSTG  == StoreVariable
PLDZ == Op(0, << >>, <<"r">>, Ep(-1) \o Load(E(0), Null) \o Ret(1))

LDI == Op(1, <<"r">>, <<"n">>,
    Words(1) \o RaiseIfNull(Arg(0)) \o Use(Arg(0)) \o Num(E(0)) \o Zero(E(0)) \o Ret(2))
STI == Op(1, <<"r", "n">>, << >>,
    Words(1) \o RaiseIfNull(Arg(1)) \o Use(Arg(1))
    \o Zero(E(0)) \o Zero(E(1)) \o Ep(2) \o Ret(2))
\* Mutant: no exception for a null address.
PLDIUnchecked == Op(0, <<"r">>, <<"r">>,
    Use(Arg(0)) \o Load(E(0), Elem(0)) \o Ret(1))
PLDI == Op(0, <<"r">>, <<"r">>,
    RaiseIfNull(Arg(0)) \o Use(Arg(0)) \o Load(E(0), Elem(0)) \o Ret(1))
PSTI == Op(0, <<"r", "r">>, << >>,
    RaiseIfNull(Arg(1)) \o Use(Arg(1)) \o Store(Arg(1), E(0))
    \o Zero(E(1)) \o Zero(E(0)) \o Ep(2) \o Ret(1))

\* A value of a generic type is a number or a reference; both parts lie in
\* one object when the offset is negative.
GLDI == Op(0, <<"r">>, <<"a">>,
    RaiseIfNull(Arg(0)) \o Use(Arg(0))
    \o Either(Either(Num(E(0)) \o Zero(E(0)), Load(E(0), Elem(0))),
              Num(E(0)) \o Maybe(Load(E(0), Elem(0))))
    \o Ret(1))
GSTI == Op(0, <<"r", "a">>, << >>,
    Use(Arg(1)) \o Maybe(Store(Arg(1), E(0)))
    \o Zero(E(0)) \o Zero(E(1)) \o Ep(2) \o Ret(1))

CLDI == Op(0, <<"r">>, <<"n">>, Use(Arg(0)) \o Num(E(0)) \o Zero(E(0)) \o Ret(1))
CLDCS == PushesNumber(1)
ZLDC  == PushesNumber(1)
SLDC  == LoadAddress
INDEXVAR == Op(1, <<"r">>, <<"a">>, Use(Arg(0)) \o Words(1) \o Num(E(0)) \o Ret(2))
ILDXVAR  == Op(1, <<"r">>, <<"n">>,
    Words(1) \o Use(Arg(0)) \o Num(E(0)) \o Zero(E(0)) \o Ret(2))
PLDXVAR2 == Op(2, << >>, <<"r">>,
    Words(2) \o Ep(-1) \o Use(Held) \o Load(E(0), Elem(Variable)) \o Ret(3))

-----------------------------------------------------------------------------
(* Making objects.                                                         *)

PushesNew(words) == Op(words, << >>, <<"r">>,
    Words(words) \o Alloc(1) \o Ep(-1) \o Load(E(0), New(1)) \o Ret(1 + words))
ALLOC    == PushesNew(2)
ALLOCVMT == PushesNew(3)

\* A node for every value; each is linked to the one made before it.
MKLIST == Op(5, <<"r", "r", "n">>, <<"r">>,
    Words(5)
    \o Alloc(1) \o Store(New(1), E(1)) \o Zero(E(1)) \o Load(E(0), New(1))
    \o Alloc(2) \o Store(New(2), E(2)) \o Zero(E(2)) \o Store(New(2), E(0))
    \o Load(E(0), New(2))
    \o Load(E(2), New(2)) \o Zero(E(0)) \o Ep(2) \o Ret(6))
MKARRAY == Op(3, <<"n", "n">>, <<"r">>,
    Words(3) \o Alloc(1) \o Ep(1) \o Load(E(0), New(1)) \o Ret(4))
PMKARRAY == Op(1, <<"r", "r">>, <<"r">>,
    Words(1) \o Alloc(1)
    \o Store(New(1), E(1)) \o Zero(E(1)) \o Store(New(1), E(0)) \o Zero(E(0))
    \o Ep(1) \o Load(E(0), New(1)) \o Ret(2))

APUSH == Op(0, <<"r", "r">>, <<"r">>,
    IfNull(Arg(1), Copy(E(1), E(0)), IfNull(Arg(0), << >>,
        Use(Arg(0)) \o Maybe(Use(Arg(1)) \o
            Either(Alloc(1) \o Use(Arg(1)) \o Link(New(1), Elem(1))
                       \o Load(E(1), New(1)) \o Use(Arg(0)) \o Link(New(1), Elem(0)),
                   Use(Arg(0)) \o Link(Arg(1), Elem(0))))))
    \o Zero(E(0)) \o Ep(1) \o Ret(1))
\* Nothing leaves the function after the exceptions are raised.
APOP == Op(0, <<"r">>, <<"r">>,
    IfNull(Arg(0), RaiseOnly, Use(Arg(0)) \o Maybe(
        Maybe(RaiseOnly) \o Ep(-1) \o Alloc(1) \o Load(E(0), New(1))
        \o Use(Arg(0)) \o Link(New(1), Elem(0))
        \o Copy(E(1), E(0)) \o Zero(E(0)) \o Ep(1)))
    \o Ret(1))
TRIM == Op(0, <<"r">>, <<"r">>,
    IfNull(Arg(0), << >>, Use(Arg(0)) \o Maybe(
        Alloc(1) \o Use(Arg(0)) \o Link(New(1), Elem(0)) \o Load(E(0), New(1))))
    \o Ret(1))
CLONE == Op(0, <<"r">>, <<"r">>,
    IfNull(Arg(0), Ret(1), << >>)
    \o Use(Arg(0)) \o Alloc(1) \o Use(Arg(0)) \o Link(New(1), Elem(0))
    \o Load(E(0), New(1)) \o Ret(1))
\* An element is replaced by its copy; when there is no memory for the copy
\* an exception is raised, and the caller goes on.
deep_clone(i) == Maybe(IfNull(Elem(i), << >>,
    Use(New(1)) \o AllocIn(2, Use(Elem(i)) \o Link(New(1), New(2)))))
DEEPCLONE == Op(0, <<"r", "n">>, <<"r">>,
    IfNull(Arg(1), Ep(1) \o Ret(1), Maybe(Ep(1) \o Ret(1)))
    \o Use(Arg(1)) \o Alloc(1) \o Load(E(1), New(1)) \o Use(Arg(1))
    \o Link(New(1), Elem(1)) \o deep_clone(1)
    \o Load(E(1), New(1)) \o Ep(1) \o Ret(1))

-----------------------------------------------------------------------------
(* Calls, jumps and exceptions.                                            *)

\* The return address, and above it the frame pointer.
PushFrame == Sp(-1) \o Num(S(0)) \o Sp(-1) \o Load(S(0), Static) \o Zero(S(1))
\* Mutant: the variables keep what an earlier frame has left there.
ENTERUncleared == Frames(1, << >>, -2, Words(1) \o Sp(-2) \o Ret(2))
ENTER == Frames(1, << >>, -2,
    Words(1) \o Sp(-2) \o Clear(S(0)) \o Clear(S(1)) \o Ret(2))
CALL == Frames(1, << >>, -2, Words(1) \o PushFrame \o Goto \o Ret(0))
\* A closure stays, to be the argument of its function.
ICALL == Opcode(0, <<"f">>, << >>, {<< >>, <<"f">>}, -2,
    PushFrame \o IfHeap(Arg(0), Use(Arg(0)), Ep(1))
    \o IfNull(Arg(0), Raise, IfHeap(Arg(0), Maybe(Raise), << >>)) \o Goto \o Ret(0))
VCALL == Frames(2, <<"r">>, -2,
    Words(2) \o Use(Arg(0)) \o Maybe(Raise) \o Ep(1) \o PushFrame \o Goto \o Ret(0))
DUMPVMT == Op(0, <<"r">>, << >>, Use(Arg(0)) \o Ep(1) \o Ret(1))
RTOR   == Frames(0, <<"x">>, -1, Sp(-1) \o Copy(S(0), E(0)) \o Ep(1) \o Ret(1))
RFROMR == Opcode(0, << >>, <<"s">>, {}, 1,
    Ep(-1) \o Copy(E(0), S(0)) \o Sp(1) \o Ret(1))
LDFN == LoadAddress
RET == Frames(0, << >>, 2, Sp(1) \o Sp(1) \o Goto \o Ret(0))
PUSHFRM == Frames(0, << >>, -1, Sp(-1) \o Load(S(0), Static) \o Ret(1))
POPFRM  == Frames(0, << >>, 1, Sp(1) \o Ret(1))
\* Mutant: one of the two operand words is skipped.
ZEROSTACKOneWord == Op(2, << >>, << >>, Words(2) \o Clear(V) \o Ret(2))
ZEROSTACK == Op(2, << >>, << >>, Words(2) \o Clear(V) \o Ret(3))
JMP == Op(1, << >>, << >>, Words(1) \o Goto \o Ret(0))

PJZ == Op(1, <<"r">>, << >>,
    Zero(E(0)) \o Ep(1) \o IfNull(Arg(0), Words(1) \o Goto \o Ret(0), Ret(2)))
PJNZ == Op(1, <<"r">>, << >>,
    Zero(E(0)) \o Ep(1) \o IfNull(Arg(0), Ret(2), Words(1) \o Goto \o Ret(0)))

TRY == Op(2, << >>, << >>, Words(2) \o Alloc(1) \o Load(V, New(1)) \o Ret(3))
RESTORE == Silent
RAISEX == Op(0, <<"n", "r">>, << >>, Raise)
RAISE  == Op(2, <<"n", "r">>, << >>, Words(2) \o Raise)
RERAISE == Op(1, << >>, << >>,
    Words(1) \o IfNull(Held, << >>, Use(Held) \o RaiseOnly) \o Ret(0))
EXCEPTIONEQ == Op(0, <<"n", "n">>, <<"n">>, Num(E(1)) \o Zero(E(1)) \o Ep(1) \o Ret(1))
ERRORMSG == Op(0, <<"r">>, <<"r">>,
    IfNull(Arg(0), Zero(E(0)), Use(Arg(0)) \o Load(E(0), Elem(0))) \o Ret(1))
OfException == Op(0, <<"r">>, <<"n">>,
    IfNull(Arg(0), << >>, Use(Arg(0))) \o Num(E(0)) \o Zero(E(0)) \o Ret(1))
ERRORCODE   == OfException
EXCEPTIONID == OfException
EXCEPTIONMODULE == Op(0, <<"r">>, <<"r">>,
    IfNull(Arg(0), Zero(E(0)), Use(Arg(0)) \o Load(E(0), Static)) \o Ret(1))
RAISE_TEST == Op(0, << >>, << >>, Raise)
ASSERT == Op(3, <<"n">>, << >>, Words(3) \o Maybe(Raise) \o Ep(1) \o Ret(4))
CHECKREF == Op(0, <<"r">>, <<"r">>, IfNull(Arg(0), RaiseOnly, << >>) \o Ret(1))
EXIT == Op(0, <<"n">>, << >>, Exit)
DEBUG == Silent

-----------------------------------------------------------------------------
(* Files.                                                                  *)

\* The elements of the array are all made alike; one is shown.
ALLOCARGV == Op(0, <<"n", "n">>, <<"r">>,
    Ep(1) \o Maybe(Alloc(1) \o Load(E(0), New(1))
                   \o Maybe(Alloc(2) \o Link(New(1), New(2)))) \o Ret(1))
ALLOCENV == Op(0, << >>, <<"r">>,
    Ep(-1) \o Maybe(Either(Load(E(0), Null),
        Alloc(1) \o Load(E(0), New(1)) \o Alloc(2) \o Link(New(1), New(2))))
    \o Ret(1))
ALLOCSTDIO == Op(0, << >>, <<"r">>,
    Ep(-1) \o Alloc(1) \o Load(E(0), New(1))
    \o Alloc(2) \o Link(New(1), New(2)) \o Alloc(3) \o Link(New(2), New(3)) \o Ret(1))
FDFILE == Op(1, << >>, <<"r">>,
    Words(1) \o Ep(-1) \o Alloc(1) \o Load(E(0), New(1))
    \o AllocOrNull(2) \o Link(New(1), New(2)) \o Ret(2))

\* A buffer that is kept in a cell while it grows, and is cut to length.
ReadLine(cell) ==
    Maybe(Raise)
    \o Either(Either(<< >>, Alloc(1) \o Load(cell, New(1))),
              Alloc(1) \o Load(cell, New(1)) \o Maybe(Raise)
              \o Either(Resize(New(1), 2) \o Load(cell, New(2)),
                        Resize(New(1), 3) \o Load(cell, New(3))
                        \o Resize(New(3), 2) \o Load(cell, New(2))))
STDREAD == Op(0, << >>, <<"r">>,
    Ep(-1)
    \o Maybe(Either(RaiseOnly, Load(E(0), Null)) \o Ret(1))
    \o Load(E(0), Null) \o ReadLine(E(0)) \o Ret(1))
CURFILENAME == PushesNew(0)
CUREOF == PushesNumber(0)
ALLEOF == PushesNumber(0)

FNAME == Op(0, <<"r">>, <<"r">>,
    IfNull(Arg(0), Load(E(0), Null), Use(Arg(0)) \o Load(E(0), Elem(0))) \o Ret(1))
FOPEN == Op(0, <<"r", "r">>, <<"r">>,
    Alloc(1) \o Use(Arg(1)) \o Use(Arg(0)) \o Maybe(Raise) \o Link(New(1), Arg(1))
    \o Zero(E(0)) \o Ep(1) \o Load(E(0), New(1)) \o Ret(1))
FCLOSE == Op(0, <<"r">>, << >>, Use(Arg(0)) \o Zero(E(0)) \o Ep(1) \o Ret(1))

\* The file has never been opened, or it is closed.
OpenFile(i) == RaiseIfNull(Arg(i)) \o Use(Arg(i)) \o Maybe(Raise)
Transfer == Op(0, <<"r", "r">>, <<"n">>,
    OpenFile(1)
    \o IfNull(Arg(0), << >>, Use(Arg(0)) \o Maybe(Raise)
        \o Zero(E(0)) \o Zero(E(1)) \o Ep(1) \o Num(E(0)))
    \o Ret(1))
FREAD  == Transfer
FWRITE == Transfer
FSEEK == Op(0, <<"r", "n", "n">>, << >>,
    OpenFile(2) \o Maybe(Raise) \o Maybe(Raise) \o Zero(E(2)) \o Ep(3) \o Ret(1))
OfFile == Op(0, <<"r">>, <<"n">>,
    IfNull(Arg(0), << >>, Use(Arg(0))) \o Zero(E(0)) \o Num(E(0)) \o Ret(1))
FTELL == OfFile
FEOF  == OfFile

NEWLINE == Silent
SPACE   == Silent
ESPRINT == Silent
CPRINT == Op(0, <<"n">>, << >>, Ep(1) \o Ret(1))
SPRINT == Op(0, <<"r">>, << >>,
    IfNull(Arg(0), << >>, Use(Arg(0))) \o Zero(E(0)) \o Ep(1) \o Ret(1))
SFILEPRINT == Op(0, <<"x", "r">>, <<"x">>,
    OpenFile(1) \o IfNull(Arg(0), << >>, Use(Arg(0))) \o Zero(E(0)) \o Ep(1) \o Ret(1))
SFILESCAN == Op(0, <<"x">>, <<"x", "r">>,
    OpenFile(0) \o Ep(-1) \o Alloc(1) \o Load(E(0), New(1))
    \o Either(Load(E(0), Null), Resize(New(1), 2) \o Load(E(0), New(2))) \o Ret(1))
SFILEREADLN == Op(0, <<"x", "n">>, <<"x", "r">>,
    OpenFile(1) \o Load(E(0), Null) \o ReadLine(E(0)) \o Ret(1))

-----------------------------------------------------------------------------
(* Numbers.                                                                *)

\* Mutant: the function goes on after the exception.
NarrowingGoesOn == Op(0, <<"n">>, <<"n">>, Maybe(RaiseOnly) \o Num(E(0)) \o Ret(1))
Narrowing == Op(0, <<"n">>, <<"n">>, Maybe(Raise) \o Num(E(0)) \o Ret(1))
BEXTEND == Monadic
EXTEND  == Monadic
HEXTEND == Monadic
LEXTEND == Monadic
LOWBYTE  == Narrowing
LOWSHORT == Narrowing
LOWINT   == Narrowing
LOWLONG  == Narrowing
I2F  == Monadic
L2F  == Monadic
LL2F == Monadic
I2D  == Monadic
L2D  == Monadic
LL2D == Monadic
F2D  == Monadic
LFLOORD == Monadic
I2LD  == Monadic
L2LD  == Monadic
LL2LD == Monadic
F2LD  == Monadic
D2LD  == Monadic
LLFLOORLD == Monadic
DFLOAT    == Monadic
LDDOUBLE  == Monadic

-----------------------------------------------------------------------------
(* References, strings and hash tables.                                    *)

\* The cell that is zeroed is the result; the one above keeps its reference.
ComparesReferences == Op(0, <<"r", "r">>, <<"n">>,
    Num(E(1)) \o Ep(1) \o Zero(E(0)) \o Ret(1))
PEQBOOL == ComparesReferences
PNEBOOL == ComparesReferences
PZBOOL == Op(0, <<"r">>, <<"n">>, Zero(E(0)) \o Num(E(0)) \o Ret(1))

UseIfAny(x) == IfNull(x, << >>, Use(x))
STRCAT == Op(0, <<"r", "r">>, <<"r">>,
    UseIfAny(Arg(1)) \o UseIfAny(Arg(0)) \o Alloc(1)
    \o Load(E(1), New(1)) \o Zero(E(0)) \o UseIfAny(Arg(1)) \o UseIfAny(Arg(0))
    \o Ep(1) \o Ret(1))
\* The parts are kept in the array, and the array in the cell of the count.
STRSPLIT == Op(0, <<"r", "r", "n">>, <<"r">>,
    IfNull(Arg(2), Load(E(2), Null),
        UseIfAny(Arg(1)) \o Use(Arg(2)) \o Alloc(1) \o Load(E(0), New(1))
        \o Maybe(Alloc(2) \o Use(Arg(2)) \o Link(New(1), New(2)) \o UseIfAny(Arg(1)))
        \o Load(E(2), New(1)) \o IfNull(Arg(1), << >>, Maybe(Load(E(2), Null))))
    \o Zero(E(1)) \o Zero(E(0)) \o Ep(2) \o Ret(1))
ComparesStrings == Op(0, <<"r", "r">>, <<"n">>,
    Zero(E(0)) \o Zero(E(1)) \o Ep(1)
    \o IfNull(Arg(0), << >>, IfNull(Arg(1), << >>, Use(Arg(0)) \o Use(Arg(1))))
    \o Num(E(0)) \o Ret(1))
STRSTART == ComparesStrings
STREND   == ComparesStrings
STREQ == ComparesStrings
STRNE == ComparesStrings
STRGT == ComparesStrings
STRLT == ComparesStrings
STRGE == ComparesStrings
STRLE == ComparesStrings
STRINDEX == ComparesStrings
FindsCharacter == Op(0, <<"r", "n">>, <<"n">>,
    Zero(E(0)) \o Zero(E(1)) \o Ep(1) \o UseIfAny(Arg(1)) \o Num(E(0)) \o Ret(1))
STRCHR  == FindsCharacter
STRRCHR == FindsCharacter
STRLEN == Op(0, <<"r">>, <<"n">>,
    UseIfAny(Arg(0)) \o Zero(E(0)) \o Num(E(0)) \o Ret(1))
SSPRINTF == Op(0, <<"r", "r">>, <<"r">>,
    Use(Arg(1)) \o Use(Arg(0)) \o Alloc(1) \o Load(E(1), New(1))
    \o Use(Arg(1)) \o Use(Arg(0))
    \o Maybe(Resize(New(1), 2) \o Load(E(1), New(2)) \o Use(Arg(1)) \o Use(Arg(0)))
    \o Zero(E(0)) \o Ep(1) \o Ret(1))

\* A key or a table that is null; otherwise the table is searched.
Lookup(missing, found) ==
    IfNull(Arg(0), missing, IfNull(Arg(1), missing, Use(Arg(0)) \o Use(Arg(1)) \o found))
HASHADDR == Op(1, <<"r", "r">>, <<"a">>,
    Words(1) \o Lookup(Zero(E(0)) \o Clear(E(1)),
        Maybe(Raise) \o Maybe(Link(Arg(1), Arg(0)))
        \o Num(E(1)) \o Zero(E(0)))
    \o Ep(1) \o Ret(2))
HASHVAL == Op(1, <<"r", "r">>, <<"n">>,
    Words(1) \o Lookup(Clear(E(1)), Either(Num(E(1)), Clear(E(1))))
    \o Zero(E(0)) \o Ep(1) \o Ret(2))
\* A key that is not found leaves the reference null, or clears the cell.
HASHPTR == Op(0, <<"r", "r">>, <<"r">>,
    Lookup(Clear(E(1)), Either(Load(E(1), Elem(1)), Either(Zero(E(1)), Clear(E(1)))))
    \o Zero(E(0)) \o Ep(1) \o Ret(1))
HASHDUMP == Op(0, <<"r">>, << >>, Use(Arg(0)) \o Zero(E(0)) \o Ep(1) \o Ret(1))
ASWAPW == Op(0, <<"r">>, << >>, UseIfAny(Arg(0)) \o Zero(E(0)) \o Ep(1) \o Ret(1))
ASWAPD == Op(0, <<"r">>, << >>, UseIfAny(Arg(0)) \o Zero(E(0)) \o Ep(1) \o Ret(1))

\* A null array returns 0, as an opcode does that has raised an exception.
FILLARRAY == Op(0, <<"a", "r">>, << >>,
    IfNull(Arg(0), Zero(E(0)) \o Zero(E(1)) \o Ep(1) \o Ret(0), << >>)
    \o Use(Arg(0)) \o Maybe(Store(Arg(0), E(1)))
    \o Zero(E(0)) \o Load(E(1), Arg(0)) \o Ep(1) \o Ret(1))
\* The layers below the first may be null, and are not looked at.
fill_md_array(i) == Use(Arg(i)) \o Either(Maybe(Store(Arg(i), E(1))), Use(Elem(i)))
FILLMDARRAY == Op(1, <<"a", "r">>, <<"r">>,
    Words(1) \o IfNull(Arg(0), Zero(E(0)) \o Zero(E(1)) \o Ep(1) \o Ret(0), << >>)
    \o fill_md_array(0)
    \o Zero(E(0)) \o Load(E(1), Arg(0)) \o Ep(1) \o Ret(2))

-----------------------------------------------------------------------------
(* Packing values into a blob, and unpacking them: pack.c.                 *)

\* pack and unpack are what is done to one value.
pack_value(blob, pack) == Use(blob) \o Maybe(Raise) \o pack
pack_array_values(blob, i, pack) ==
    IfNull(Arg(i), << >>, Use(Arg(i)) \o UpTo2(Maybe(Raise) \o pack_value(blob, pack)))
\* The layer of level 0 may be the array, or one of its elements.
pack_array_layer(blob, i, pack) ==
    Either(Use(blob) \o RaiseIfNull(Arg(i)) \o pack_array_values(blob, i, pack),
           Use(Arg(i)) \o Maybe(Use(blob) \o RaiseIfNull(Elem(i)) \o Use(Elem(i))
                                \o Maybe(Raise)))
unpack_value(blob, unpack) == Use(blob) \o Maybe(Raise) \o unpack
unpack_array_values(blob, description, keep, unpack) ==
    Use(description) \o IfNull(blob, << >>,
        Alloc(1) \o keep \o UpTo2(Maybe(Raise) \o unpack_value(blob, unpack)))
unpack_array_layer(blob, description, i, unpack) ==
    Either(unpack_array_values(blob, description, Load(E(i), New(1)), unpack),
           Use(Arg(i)) \o Maybe(unpack_array_values(blob, description,
                                     Link(Arg(i), New(1)), unpack)))

pack_string_value(blob, value) == Use(blob) \o Maybe(Raise) \o Use(value) \o Maybe(Raise)
\* Without memory it fails, and nothing is raised.
unpack_string_value(blob, k, keep) ==
    Use(blob) \o Maybe(Raise) \o AllocElse(k, << >>, Ret(0)) \o keep \o Maybe(Raise)

STRPACK == Op(0, <<"r", "n", "r", "r">>, << >>,
    Use(Arg(3)) \o RaiseIfNull(Arg(1)) \o Use(Arg(1))
    \o pack_value(Arg(3), pack_string_value(Arg(3), Arg(0)))
    \o Ep(4) \o Ret(1))
DropPackOperands == Zero(E(0)) \o Zero(E(1)) \o Zero(E(3)) \o Ep(4)
STRPACKARRAY == Op(0, <<"r", "n", "r", "r">>, << >>,
    Use(Arg(3)) \o RaiseIfNull(Arg(1))
    \o pack_array_values(Arg(3), 0, pack_string_value(Arg(3), Elem(0)))
    \o DropPackOperands \o Ret(1))
STRPACKMDARRAY == Op(1, <<"r", "n", "r", "r">>, << >>,
    Words(1) \o IfNull(Arg(3), DropPackOperands \o Ret(2), << >>)
    \o Use(Arg(3)) \o RaiseIfNull(Arg(1))
    \o pack_array_layer(Arg(3), 0, pack_string_value(Arg(3), Elem(0)))
    \o DropPackOperands \o Ret(2))
STRUNPACK == Op(0, <<"r", "n", "r">>, <<"r">>,
    Use(Arg(2)) \o RaiseIfNull(Arg(0)) \o Use(Arg(0))
    \o unpack_value(Arg(2), unpack_string_value(Arg(2), 1, Load(E(2), New(1))))
    \o Zero(E(0)) \o Ep(2) \o Ret(1))
\* The blob is moved to ep[1], where the collector finds it.
STRUNPACKARRAY == Op(0, <<"r", "n", "r">>, <<"r">>,
    Use(Arg(2)) \o RaiseIfNull(Arg(0)) \o Load(E(1), Arg(2))
    \o unpack_array_values(Arg(2), Arg(0), Load(E(2), New(1)),
           unpack_string_value(Arg(2), 2, Link(New(1), New(2))))
    \o Zero(E(1)) \o Zero(E(0)) \o Ep(2) \o Ret(1))
\* Nothing leaves the function after the exception is raised.
STRUNPACKMDARRAY == Op(1, <<"r", "r", "n", "r">>, <<"r">>,
    Words(1) \o IfNull(Arg(0), RaiseOnly, << >>)
    \o unpack_array_layer(Arg(2), Arg(0), 3,
           unpack_string_value(Arg(2), 2, Link(New(1), New(2))))
    \o Zero(E(2)) \o Zero(E(1)) \o Zero(E(0)) \o Ep(3) \o Ret(2))

-----------------------------------------------------------------------------
(* Loops over arrays and lists, and the collector.                         *)

ADVANCE == Opcode(1, <<"a">>, << >>, {<<"a">>}, 0,
    Words(1) \o IfNull(Arg(0), << >>,
        Use(Arg(0)) \o Maybe(Num(E(0)) \o Goto \o Ret(0)))
    \o Zero(E(0)) \o Ep(1) \o Ret(2))
NEXT == Opcode(3, <<"a">>, << >>, {<<"a">>}, 0,
    Words(3) \o IfNull(Arg(0), << >>,
        Maybe(Num(E(0)) \o Goto \o Ret(0)) \o Use(Arg(0))
        \o IfNull(Elem(0), Zero(E(0)), Load(E(0), Elem(0)) \o Goto \o Ret(0)))
    \o Ep(1) \o Ret(4))
GCPOLICY == Monadic
GCOLLECT == Op(0, << >>, <<"n">>,
    Ep(-1) \o Collect \o Maybe(Raise) \o Num(E(0)) \o Ret(1))

-----------------------------------------------------------------------------
\* All opcodes, by name.
Table == [
    NOP |-> NOP, DUP |-> DUP, OVER |-> OVER, SWAP |-> SWAP, DROP |-> DROP,
    DROPN |-> DROPN, PDROP |-> PDROP, PDROPN |-> PDROPN, ROT |-> ROT,
    PEEK |-> PEEK, COPY |-> COPY, ICOPY |-> ICOPY, OFFSET |-> OFFSET,
    ZEROOFFSET |-> ZEROOFFSET, LD |-> LD, LDG |-> LDG, LDA |-> LDA,
    LDGA |-> LDGA, ST |-> ST, STG |-> STG, LDI |-> LDI, STI |-> STI,
    GLDI |-> GLDI, GSTI |-> GSTI, EXIT |-> EXIT, NEWLINE |-> NEWLINE,
    SPACE |-> SPACE, ALLOC |-> ALLOC, ALLOCVMT |-> ALLOCVMT,
    MKLIST |-> MKLIST, MKARRAY |-> MKARRAY, PMKARRAY |-> PMKARRAY,
    APUSH |-> APUSH, APOP |-> APOP, TRIM |-> TRIM, CLONE |-> CLONE,
    DEEPCLONE |-> DEEPCLONE, MEMCPY |-> MEMCPY, ZLDC |-> ZLDC,
    ENTER |-> ENTER, CALL |-> CALL, ICALL |-> ICALL, VCALL |-> VCALL,
    DUMPVMT |-> DUMPVMT, RTOR |-> RTOR, RFROMR |-> RFROMR, LDFN |-> LDFN,
    RET |-> RET, PUSHFRM |-> PUSHFRM, POPFRM |-> POPFRM, JMP |-> JMP,
    ALLOCARGV |-> ALLOCARGV, ALLOCENV |-> ALLOCENV, TRY |-> TRY,
    RESTORE |-> RESTORE, RAISEX |-> RAISEX, RAISE |-> RAISE,
    RERAISE |-> RERAISE, EXCEPTIONEQ |-> EXCEPTIONEQ, ERRORMSG |-> ERRORMSG,
    ERRORCODE |-> ERRORCODE, EXCEPTIONID |-> EXCEPTIONID,
    EXCEPTIONMODULE |-> EXCEPTIONMODULE, STDREAD |-> STDREAD,
    CURFILENAME |-> CURFILENAME, CUREOF |-> CUREOF, ALLEOF |-> ALLEOF,
    ALLOCSTDIO |-> ALLOCSTDIO, FDFILE |-> FDFILE, FNAME |-> FNAME,
    FOPEN |-> FOPEN, FCLOSE |-> FCLOSE, FREAD |-> FREAD, FWRITE |-> FWRITE,
    FSEEK |-> FSEEK, FTELL |-> FTELL, FEOF |-> FEOF, BEXTEND |-> BEXTEND,
    EXTEND |-> EXTEND, HEXTEND |-> HEXTEND, LEXTEND |-> LEXTEND,
    LOWBYTE |-> LOWBYTE, LOWSHORT |-> LOWSHORT, LOWINT |-> LOWINT,
    LOWLONG |-> LOWLONG, I2F |-> I2F, L2F |-> L2F, LL2F |-> LL2F, I2D |-> I2D,
    L2D |-> L2D, LL2D |-> LL2D, F2D |-> F2D, LFLOORD |-> LFLOORD,
    I2LD |-> I2LD, L2LD |-> L2LD, LL2LD |-> LL2LD, F2LD |-> F2LD,
    D2LD |-> D2LD, LLFLOORLD |-> LLFLOORLD, DFLOAT |-> DFLOAT,
    LDDOUBLE |-> LDDOUBLE, SLDC |-> SLDC, SPRINT |-> SPRINT,
    SFILEPRINT |-> SFILEPRINT, SFILESCAN |-> SFILESCAN,
    SFILEREADLN |-> SFILEREADLN, PLDZ |-> PLDZ, PLD |-> PLD, PLDA |-> PLDA,
    PST |-> PST, PLDG |-> PLDG, PLDGA |-> PLDGA, PSTG |-> PSTG, PLDI |-> PLDI,
    PSTI |-> PSTI, PJZ |-> PJZ, PJNZ |-> PJNZ, CLDI |-> CLDI,
    CPRINT |-> CPRINT, CLDCS |-> CLDCS, INDEXVAR |-> INDEXVAR,
    ILDXVAR |-> ILDXVAR, PLDXVAR2 |-> PLDXVAR2, PEQBOOL |-> PEQBOOL,
    PNEBOOL |-> PNEBOOL, PZBOOL |-> PZBOOL, STRCAT |-> STRCAT,
    STRSPLIT |-> STRSPLIT, STRSTART |-> STRSTART, STREND |-> STREND,
    STREQ |-> STREQ, STRNE |-> STRNE, STRGT |-> STRGT, STRLT |-> STRLT,
    STRGE |-> STRGE, STRLE |-> STRLE, STRLEN |-> STRLEN,
    STRINDEX |-> STRINDEX, STRCHR |-> STRCHR, STRRCHR |-> STRRCHR,
    HASHADDR |-> HASHADDR, HASHVAL |-> HASHVAL, HASHPTR |-> HASHPTR,
    HASHDUMP |-> HASHDUMP, RAISE_TEST |-> RAISE_TEST, ESPRINT |-> ESPRINT,
    SSPRINTF |-> SSPRINTF, ASWAPW |-> ASWAPW, ASWAPD |-> ASWAPD,
    ZEROSTACK |-> ZEROSTACK, STRPACK |-> STRPACK,
    STRPACKARRAY |-> STRPACKARRAY, STRPACKMDARRAY |-> STRPACKMDARRAY,
    STRUNPACK |-> STRUNPACK, STRUNPACKARRAY |-> STRUNPACKARRAY,
    STRUNPACKMDARRAY |-> STRUNPACKMDARRAY, CHECKREF |-> CHECKREF,
    FILLARRAY |-> FILLARRAY, FILLMDARRAY |-> FILLMDARRAY, ASSERT |-> ASSERT,
    DEBUG |-> DEBUG, ADVANCE |-> ADVANCE, NEXT |-> NEXT,
    GCPOLICY |-> GCPOLICY, GCOLLECT |-> GCOLLECT]
=============================================================================
