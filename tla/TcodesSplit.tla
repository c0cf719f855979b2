----------------------------- MODULE TcodesSplit ------------------------------
(***************************************************************************)
(* The opcodes of interpreters/split-stackcell/tcodes.c.  Numbers have one *)
(* size here, that of stackunion_t, and an object keeps its references     *)
(* apart from its numbers.                                                 *)
(***************************************************************************)
EXTENDS Operations

Packed == INSTANCE Tcodes

-----------------------------------------------------------------------------
(* The opcodes whose steps differ.                                         *)

ICOPY == Op(0, <<"r", "n", "r">>, << >>,
    Use(Arg(0)) \o IfNull(Arg(2), << >>, Use(Arg(2)) \o Maybe(Link(Arg(2), Elem(0))))
    \o Zero(E(0)) \o Zero(E(2)) \o Ep(3) \o Ret(1))
\* All numbers have one size, and it is not an operand.
LDI == Op(0, <<"r">>, <<"n">>,
    RaiseIfNull(Arg(0)) \o Use(Arg(0)) \o Num(E(0)) \o Zero(E(0)) \o Ret(1))
STI == Op(0, <<"r", "n">>, << >>,
    RaiseIfNull(Arg(1)) \o Use(Arg(1))
    \o Zero(E(1)) \o Zero(E(0)) \o Ep(2) \o Ret(1))
GLDI == Op(0, <<"r">>, <<"a">>,
    Use(Arg(0))
    \o Either(Either(Num(E(0)) \o Zero(E(0)), Load(E(0), Elem(0))),
              Num(E(0)) \o Maybe(Load(E(0), Elem(0))))
    \o Ret(1))

MKLIST == Op(4, <<"r", "r", "n">>, <<"r">>,
    Words(4)
    \o Alloc(1) \o Store(New(1), E(1)) \o Zero(E(1)) \o Load(E(0), New(1))
    \o Alloc(2) \o Store(New(2), E(2)) \o Zero(E(2)) \o Store(New(2), E(0))
    \o Load(E(0), New(2))
    \o Load(E(2), New(2)) \o Zero(E(0)) \o Ep(2) \o Ret(5))
MKARRAY == Op(2, <<"n", "n">>, <<"r">>,
    Words(2) \o Alloc(1) \o Ep(1) \o Load(E(0), New(1)) \o Ret(3))
APUSH == Op(0, <<"r", "r">>, <<"r">>,
    IfNull(Arg(1), Copy(E(1), E(0)),
        Use(Arg(1)) \o Use(Arg(0)) \o Maybe(
            Either(Alloc(1) \o Use(Arg(1)) \o Link(New(1), Elem(1))
                       \o Load(E(1), New(1)) \o Use(Arg(0)) \o Link(New(1), Elem(0)),
                   Link(Arg(1), Elem(0)))))
    \o Zero(E(0)) \o Ep(1) \o Ret(1))
\* The operand words its comment names are not read.
ZAALLOC == Op(2, <<"n">>, <<"r">>, Alloc(1) \o Load(E(0), New(1)) \o Ret(3))

RTOR == Frames(0, <<"r">>, -1, Sp(-1) \o Load(S(0), Arg(0)) \o Ep(1) \o Ret(1))
RFROMR == Opcode(0, << >>, <<"r">>, {}, 1,
    Ep(-1) \o Load(E(0), Arg(Pushed)) \o Sp(1) \o Ret(1))
\* No reference is zeroed.
ComparesReferences == Op(0, <<"r", "r">>, <<"n">>, Num(E(1)) \o Ep(1) \o Ret(1))
PEQBOOL == ComparesReferences
PNEBOOL == ComparesReferences

\* A key or a table that is null; otherwise the table is searched, after a
\* look at its header.
Lookup(missing, found) ==
    IfNull(Arg(1), << >>, Use(Arg(1)))
    \o IfNull(Arg(0), missing, IfNull(Arg(1), missing, Use(Arg(0)) \o found))
HASHADDR == Op(0, <<"r", "r">>, <<"a">>,
    Lookup(Zero(E(0)) \o Clear(E(1)),
        Maybe(Raise) \o Maybe(Link(Arg(1), Arg(0))) \o Num(E(1)) \o Zero(E(0)))
    \o Ep(1) \o Ret(1))
\* "assert( 0 )" when nref >= 0, as it is when there is no table.
HASHVAL == Op(0, <<"r", "r">>, <<"n">>,
    IfNull(Arg(1), Use(Null), << >>)
    \o Lookup(Clear(E(1)), Either(Num(E(1)), Clear(E(1))))
    \o Zero(E(0)) \o Ep(1) \o Ret(1))
HASHPTR == Op(0, <<"r", "r">>, <<"r">>,
    Lookup(Clear(E(1)), Either(Load(E(1), Elem(1)), Either(Zero(E(1)), Clear(E(1)))))
    \o Zero(E(0)) \o Ep(1) \o Ret(1))

\* The header of the array is read, null or not.
pack_value(blob, pack) == Packed!pack_value(blob, pack)
pack_array_values(blob, i, pack) ==
    Use(Arg(i)) \o UpTo2(Maybe(Raise) \o pack_value(blob, pack))
pack_array_layer(blob, i, pack) ==
    Either(Use(blob) \o RaiseIfNull(Arg(i)) \o pack_array_values(blob, i, pack),
           Use(Arg(i)) \o Maybe(Use(blob) \o RaiseIfNull(Elem(i)) \o Use(Elem(i))
                                \o Maybe(Raise)))
pack_string_value(blob, value) == Packed!pack_string_value(blob, value)
STRPACKARRAY == Op(0, <<"r", "n", "r", "r">>, << >>,
    Use(Arg(3)) \o RaiseIfNull(Arg(1))
    \o pack_array_values(Arg(3), 0, pack_string_value(Arg(3), Elem(0)))
    \o Packed!DropPackOperands \o Ret(1))
STRPACKMDARRAY == Op(1, <<"r", "n", "r", "r">>, << >>,
    Words(1) \o IfNull(Arg(3), Packed!DropPackOperands \o Ret(2), << >>)
    \o Use(Arg(3)) \o RaiseIfNull(Arg(1))
    \o pack_array_layer(Arg(3), 0, pack_string_value(Arg(3), Elem(0)))
    \o Packed!DropPackOperands \o Ret(2))

-----------------------------------------------------------------------------
(* The opcodes, and the helpers, that take the same steps.                 *)

unpack_value(blob, unpack) == Packed!unpack_value(blob, unpack)
unpack_array_values(blob, description, keep, unpack) == Packed!unpack_array_values(blob, description, keep, unpack)
unpack_array_layer(blob, description, i, unpack) == Packed!unpack_array_layer(blob, description, i, unpack)
unpack_string_value(blob, k, keep) == Packed!unpack_string_value(blob, k, keep)
deep_clone(i) == Packed!deep_clone(i)
fill_md_array(i) == Packed!fill_md_array(i)

NOP == Packed!NOP
DUP == Packed!DUP
OVER == Packed!OVER
SWAP == Packed!SWAP
DROP == Packed!DROP
DROPN == Packed!DROPN
PDROP == Packed!PDROP
PDROPN == Packed!PDROPN
ROT == Packed!ROT
PEEK == Packed!PEEK
COPY == Packed!COPY
OFFSET == Packed!OFFSET
ZEROOFFSET == Packed!ZEROOFFSET
LD == Packed!LD
LDG == Packed!LDG
LDA == Packed!LDA
LDGA == Packed!LDGA
ST == Packed!ST
STG == Packed!STG
GSTI == Packed!GSTI
EXIT == Packed!EXIT
NEWLINE == Packed!NEWLINE
SPACE == Packed!SPACE
ALLOC == Packed!ALLOC
ALLOCVMT == Packed!ALLOCVMT
PMKARRAY == Packed!PMKARRAY
APOP == Packed!APOP
TRIM == Packed!TRIM
CLONE == Packed!CLONE
DEEPCLONE == Packed!DEEPCLONE
MEMCPY == Packed!MEMCPY
ZLDC == Packed!ZLDC
ENTER == Packed!ENTER
CALL == Packed!CALL
ICALL == Packed!ICALL
VCALL == Packed!VCALL
DUMPVMT == Packed!DUMPVMT
LDFN == Packed!LDFN
RET == Packed!RET
PUSHFRM == Packed!PUSHFRM
POPFRM == Packed!POPFRM
JMP == Packed!JMP
ALLOCARGV == Packed!ALLOCARGV
ALLOCENV == Packed!ALLOCENV
TRY == Packed!TRY
RESTORE == Packed!RESTORE
RAISEX == Packed!RAISEX
RAISE == Packed!RAISE
RERAISE == Packed!RERAISE
EXCEPTIONEQ == Packed!EXCEPTIONEQ
ERRORMSG == Packed!ERRORMSG
ERRORCODE == Packed!ERRORCODE
EXCEPTIONID == Packed!EXCEPTIONID
EXCEPTIONMODULE == Packed!EXCEPTIONMODULE
STDREAD == Packed!STDREAD
CURFILENAME == Packed!CURFILENAME
CUREOF == Packed!CUREOF
ALLEOF == Packed!ALLEOF
ALLOCSTDIO == Packed!ALLOCSTDIO
FDFILE == Packed!FDFILE
FNAME == Packed!FNAME
FOPEN == Packed!FOPEN
FCLOSE == Packed!FCLOSE
FREAD == Packed!FREAD
FWRITE == Packed!FWRITE
FSEEK == Packed!FSEEK
FTELL == Packed!FTELL
FEOF == Packed!FEOF
BEXTEND == Packed!BEXTEND
EXTEND == Packed!EXTEND
HEXTEND == Packed!HEXTEND
LEXTEND == Packed!LEXTEND
LOWBYTE == Packed!LOWBYTE
LOWSHORT == Packed!LOWSHORT
LOWINT == Packed!LOWINT
LOWLONG == Packed!LOWLONG
I2F == Packed!I2F
L2F == Packed!L2F
LL2F == Packed!LL2F
I2D == Packed!I2D
L2D == Packed!L2D
LL2D == Packed!LL2D
F2D == Packed!F2D
LFLOORD == Packed!LFLOORD
I2LD == Packed!I2LD
L2LD == Packed!L2LD
LL2LD == Packed!LL2LD
F2LD == Packed!F2LD
D2LD == Packed!D2LD
LLFLOORLD == Packed!LLFLOORLD
DFLOAT == Packed!DFLOAT
LDDOUBLE == Packed!LDDOUBLE
SLDC == Packed!SLDC
SPRINT == Packed!SPRINT
SFILEPRINT == Packed!SFILEPRINT
SFILESCAN == Packed!SFILESCAN
SFILEREADLN == Packed!SFILEREADLN
PLDZ == Packed!PLDZ
PLD == Packed!PLD
PLDA == Packed!PLDA
PST == Packed!PST
PLDG == Packed!PLDG
PLDGA == Packed!PLDGA
PSTG == Packed!PSTG
PLDI == Packed!PLDI
PSTI == Packed!PSTI
PJZ == Packed!PJZ
PJNZ == Packed!PJNZ
CLDI == Packed!CLDI
CPRINT == Packed!CPRINT
CLDCS == Packed!CLDCS
INDEXVAR == Packed!INDEXVAR
ILDXVAR == Packed!ILDXVAR
PLDXVAR2 == Packed!PLDXVAR2
PZBOOL == Packed!PZBOOL
STRCAT == Packed!STRCAT
STRSPLIT == Packed!STRSPLIT
STRSTART == Packed!STRSTART
STREND == Packed!STREND
STREQ == Packed!STREQ
STRNE == Packed!STRNE
STRGT == Packed!STRGT
STRLT == Packed!STRLT
STRGE == Packed!STRGE
STRLE == Packed!STRLE
STRLEN == Packed!STRLEN
STRINDEX == Packed!STRINDEX
STRCHR == Packed!STRCHR
STRRCHR == Packed!STRRCHR
RAISE_TEST == Packed!RAISE_TEST
ESPRINT == Packed!ESPRINT
SSPRINTF == Packed!SSPRINTF
ASWAPW == Packed!ASWAPW
ASWAPD == Packed!ASWAPD
ZEROSTACK == Packed!ZEROSTACK
STRPACK == Packed!STRPACK
STRUNPACK == Packed!STRUNPACK
STRUNPACKARRAY == Packed!STRUNPACKARRAY
STRUNPACKMDARRAY == Packed!STRUNPACKMDARRAY
CHECKREF == Packed!CHECKREF
FILLARRAY == Packed!FILLARRAY
FILLMDARRAY == Packed!FILLMDARRAY
ASSERT == Packed!ASSERT
DEBUG == Packed!DEBUG
ADVANCE == Packed!ADVANCE
NEXT == Packed!NEXT
GCPOLICY == Packed!GCPOLICY
GCOLLECT == Packed!GCOLLECT

-----------------------------------------------------------------------------
\* All opcodes, by name.
Table == [
    NOP |-> NOP, DUP |-> DUP, OVER |-> OVER, SWAP |-> SWAP, DROP |-> DROP,
    DROPN |-> DROPN, PDROP |-> PDROP, PDROPN |-> PDROPN, ROT |-> ROT,
    PEEK |-> PEEK, COPY |-> COPY, ICOPY |-> ICOPY, OFFSET |-> OFFSET,
    ZEROOFFSET |-> ZEROOFFSET, LD |-> LD, LDG |-> LDG, LDA |-> LDA,
    LDGA |-> LDGA, ST |-> ST, STG |-> STG, LDI |-> LDI, STI |-> STI,
    GLDI |-> GLDI, GSTI |-> GSTI, EXIT |-> EXIT, NEWLINE |-> NEWLINE,
    SPACE |-> SPACE, ALLOC |-> ALLOC, ALLOCVMT |-> ALLOCVMT,
    MKLIST |-> MKLIST, MKARRAY |-> MKARRAY, PMKARRAY |-> PMKARRAY,
    APUSH |-> APUSH, APOP |-> APOP, TRIM |-> TRIM, CLONE |-> CLONE,
    DEEPCLONE |-> DEEPCLONE, MEMCPY |-> MEMCPY, ZAALLOC |-> ZAALLOC,
    ZLDC |-> ZLDC, ENTER |-> ENTER, CALL |-> CALL, ICALL |-> ICALL,
    VCALL |-> VCALL, DUMPVMT |-> DUMPVMT, RTOR |-> RTOR, RFROMR |-> RFROMR,
    LDFN |-> LDFN, RET |-> RET, PUSHFRM |-> PUSHFRM, POPFRM |-> POPFRM,
    JMP |-> JMP, ALLOCARGV |-> ALLOCARGV, ALLOCENV |-> ALLOCENV, TRY |-> TRY,
    RESTORE |-> RESTORE, RAISEX |-> RAISEX, RAISE |-> RAISE,
    RERAISE |-> RERAISE, EXCEPTIONEQ |-> EXCEPTIONEQ, ERRORMSG |-> ERRORMSG,
    ERRORCODE |-> ERRORCODE, EXCEPTIONID |-> EXCEPTIONID,
    EXCEPTIONMODULE |-> EXCEPTIONMODULE, STDREAD |-> STDREAD,
    CURFILENAME |-> CURFILENAME, CUREOF |-> CUREOF, ALLEOF |-> ALLEOF,
    ALLOCSTDIO |-> ALLOCSTDIO, FDFILE |-> FDFILE, FNAME |-> FNAME,
    FOPEN |-> FOPEN, FCLOSE |-> FCLOSE, FREAD |-> FREAD, FWRITE |-> FWRITE,
    FSEEK |-> FSEEK, FTELL |-> FTELL, FEOF |-> FEOF, BEXTEND |-> BEXTEND,
    EXTEND |-> EXTEND, HEXTEND |-> HEXTEND, LEXTEND |-> LEXTEND,
    LOWBYTE |-> LOWBYTE, LOWSHORT |-> LOWSHORT, LOWINT |-> LOWINT,
    LOWLONG |-> LOWLONG, I2F |-> I2F, L2F |-> L2F, LL2F |-> LL2F, I2D |-> I2D,
    L2D |-> L2D, LL2D |-> LL2D, F2D |-> F2D, LFLOORD |-> LFLOORD,
    I2LD |-> I2LD, L2LD |-> L2LD, LL2LD |-> LL2LD, F2LD |-> F2LD,
    D2LD |-> D2LD, LLFLOORLD |-> LLFLOORLD, DFLOAT |-> DFLOAT,
    LDDOUBLE |-> LDDOUBLE, SLDC |-> SLDC, SPRINT |-> SPRINT,
    SFILEPRINT |-> SFILEPRINT, SFILESCAN |-> SFILESCAN,
    SFILEREADLN |-> SFILEREADLN, PLDZ |-> PLDZ, PLD |-> PLD, PLDA |-> PLDA,
    PST |-> PST, PLDG |-> PLDG, PLDGA |-> PLDGA, PSTG |-> PSTG, PLDI |-> PLDI,
    PSTI |-> PSTI, PJZ |-> PJZ, PJNZ |-> PJNZ, CLDI |-> CLDI,
    CPRINT |-> CPRINT, CLDCS |-> CLDCS, INDEXVAR |-> INDEXVAR,
    ILDXVAR |-> ILDXVAR, PLDXVAR2 |-> PLDXVAR2, PEQBOOL |-> PEQBOOL,
    PNEBOOL |-> PNEBOOL, PZBOOL |-> PZBOOL, STRCAT |-> STRCAT,
    STRSPLIT |-> STRSPLIT, STRSTART |-> STRSTART, STREND |-> STREND,
    STREQ |-> STREQ, STRNE |-> STRNE, STRGT |-> STRGT, STRLT |-> STRLT,
    STRGE |-> STRGE, STRLE |-> STRLE, STRLEN |-> STRLEN,
    STRINDEX |-> STRINDEX, STRCHR |-> STRCHR, STRRCHR |-> STRRCHR,
    HASHADDR |-> HASHADDR, HASHVAL |-> HASHVAL, HASHPTR |-> HASHPTR,
    RAISE_TEST |-> RAISE_TEST, ESPRINT |-> ESPRINT, SSPRINTF |-> SSPRINTF,
    ASWAPW |-> ASWAPW, ASWAPD |-> ASWAPD, ZEROSTACK |-> ZEROSTACK,
    STRPACK |-> STRPACK, STRPACKARRAY |-> STRPACKARRAY,
    STRPACKMDARRAY |-> STRPACKMDARRAY, STRUNPACK |-> STRUNPACK,
    STRUNPACKARRAY |-> STRUNPACKARRAY, STRUNPACKMDARRAY |-> STRUNPACKMDARRAY,
    CHECKREF |-> CHECKREF, FILLARRAY |-> FILLARRAY,
    FILLMDARRAY |-> FILLMDARRAY, ASSERT |-> ASSERT, DEBUG |-> DEBUG,
    ADVANCE |-> ADVANCE, NEXT |-> NEXT, GCPOLICY |-> GCPOLICY,
    GCOLLECT |-> GCOLLECT]
=============================================================================
