----------------------------- MODULE TcodesFull -------------------------------
(***************************************************************************)
(* The opcodes of interpreters/full-stackcell/tcodes.c.  Elements and fields*)
(* are whole stack cells here, a number and a reference each.              *)
(***************************************************************************)
EXTENDS Operations

Packed == INSTANCE Tcodes
Split == INSTANCE TcodesSplit

-----------------------------------------------------------------------------
(* The opcodes whose steps differ.                                         *)

ICOPY == Packed!ICOPY
\* A cell is loaded and stored whole, its reference too.
LDI == Op(0, <<"r">>, <<"a">>,
    RaiseIfNull(Arg(0)) \o Use(Arg(0))
    \o Either(Load(E(0), Elem(0)), Load(E(0), Null) \o Num(E(0))) \o Ret(1))
STI == Op(0, <<"r", "a">>, << >>,
    RaiseIfNull(Arg(1)) \o Use(Arg(1)) \o Store(Arg(1), E(0))
    \o Zero(E(1)) \o Zero(E(0)) \o Ep(2) \o Ret(1))
MKLIST == Op(4, <<"a", "a", "n">>, <<"r">>,
    Words(4)
    \o Alloc(1) \o Store(New(1), E(1)) \o Zero(E(1)) \o Load(E(0), New(1))
    \o Alloc(2) \o Store(New(2), E(2)) \o Zero(E(2)) \o Store(New(2), E(0))
    \o Load(E(0), New(2))
    \o Load(E(2), New(2)) \o Zero(E(0)) \o Ep(2) \o Ret(5))

\* The kind of the table is not looked at.
HASHADDR == Op(0, <<"r", "r">>, <<"a">>,
    Packed!Lookup(Zero(E(0)) \o Clear(E(1)),
        Maybe(Raise) \o Maybe(Link(Arg(1), Arg(0))) \o Num(E(1)) \o Zero(E(0)))
    \o Ep(1) \o Ret(1))
HASHVAL == Op(0, <<"r", "r">>, <<"n">>,
    Packed!Lookup(Clear(E(1)), Either(Num(E(1)), Clear(E(1))))
    \o Zero(E(0)) \o Ep(1) \o Ret(1))
HASHPTR == Packed!HASHPTR

\* The array is looked at when it has to tell the number of its elements, or
\* when a value of it is to be packed.
pack_value(blob, pack) == Packed!pack_value(blob, pack)
pack_array_values(blob, i, pack) ==
    UpTo2(Maybe(RaiseIfNull(Arg(i)))
          \o Maybe(Maybe(Raise) \o Use(Arg(i)) \o Maybe(Raise) \o pack_value(blob, pack)))
pack_array_layer(blob, i, pack) ==
    Either(Use(blob) \o RaiseIfNull(Arg(i)) \o pack_array_values(blob, i, pack),
           Use(Arg(i)) \o Maybe(Use(blob) \o RaiseIfNull(Elem(i)) \o Use(Elem(i))
                                \o Maybe(Raise)))
pack_string_value(blob, value) == Packed!pack_string_value(blob, value)
STRPACKARRAY == Op(0, <<"r", "n", "r", "r">>, << >>,
    Use(Arg(3)) \o RaiseIfNull(Arg(1))
    \o pack_array_values(Arg(3), 0, pack_string_value(Arg(3), Elem(0)))
    \o Packed!DropPackOperands \o Ret(1))
STRPACKMDARRAY == Op(1, <<"r", "n", "r", "r">>, << >>,
    Words(1) \o IfNull(Arg(3), Packed!DropPackOperands \o Ret(2), << >>)
    \o Use(Arg(3)) \o RaiseIfNull(Arg(1))
    \o pack_array_layer(Arg(3), 0, pack_string_value(Arg(3), Elem(0)))
    \o Packed!DropPackOperands \o Ret(2))

-----------------------------------------------------------------------------
(* The opcodes, and the helpers, that take the same steps.                 *)

unpack_value(blob, unpack) == Split!unpack_value(blob, unpack)
unpack_array_values(blob, description, keep, unpack) == Split!unpack_array_values(blob, description, keep, unpack)
unpack_array_layer(blob, description, i, unpack) == Split!unpack_array_layer(blob, description, i, unpack)
unpack_string_value(blob, k, keep) == Split!unpack_string_value(blob, k, keep)
deep_clone(i) == Split!deep_clone(i)
fill_md_array(i) == Split!fill_md_array(i)

NOP == Split!NOP
DUP == Split!DUP
OVER == Split!OVER
SWAP == Split!SWAP
DROP == Split!DROP
DROPN == Split!DROPN
PDROP == Split!PDROP
PDROPN == Split!PDROPN
ROT == Split!ROT
PEEK == Split!PEEK
COPY == Split!COPY
OFFSET == Split!OFFSET
ZEROOFFSET == Split!ZEROOFFSET
LD == Split!LD
LDG == Split!LDG
LDA == Split!LDA
LDGA == Split!LDGA
ST == Split!ST
STG == Split!STG
EXIT == Split!EXIT
NEWLINE == Split!NEWLINE
SPACE == Split!SPACE
ALLOC == Split!ALLOC
ALLOCVMT == Split!ALLOCVMT
MKARRAY == Split!MKARRAY
PMKARRAY == Split!PMKARRAY
APUSH == Split!APUSH
APOP == Split!APOP
TRIM == Split!TRIM
CLONE == Split!CLONE
DEEPCLONE == Split!DEEPCLONE
MEMCPY == Split!MEMCPY
ZAALLOC == Split!ZAALLOC
ZLDC == Split!ZLDC
ENTER == Split!ENTER
CALL == Split!CALL
ICALL == Split!ICALL
VCALL == Split!VCALL
DUMPVMT == Split!DUMPVMT
RTOR == Split!RTOR
RFROMR == Split!RFROMR
LDFN == Split!LDFN
RET == Split!RET
PUSHFRM == Split!PUSHFRM
POPFRM == Split!POPFRM
JMP == Split!JMP
ALLOCARGV == Split!ALLOCARGV
ALLOCENV == Split!ALLOCENV
TRY == Split!TRY
RESTORE == Split!RESTORE
RAISEX == Split!RAISEX
RAISE == Split!RAISE
RERAISE == Split!RERAISE
EXCEPTIONEQ == Split!EXCEPTIONEQ
ERRORMSG == Split!ERRORMSG
ERRORCODE == Split!ERRORCODE
EXCEPTIONID == Split!EXCEPTIONID
EXCEPTIONMODULE == Split!EXCEPTIONMODULE
STDREAD == Split!STDREAD
CURFILENAME == Split!CURFILENAME
CUREOF == Split!CUREOF
ALLEOF == Split!ALLEOF
ALLOCSTDIO == Split!ALLOCSTDIO
FDFILE == Split!FDFILE
FNAME == Split!FNAME
FOPEN == Split!FOPEN
FCLOSE == Split!FCLOSE
FREAD == Split!FREAD
FWRITE == Split!FWRITE
FSEEK == Split!FSEEK
FTELL == Split!FTELL
FEOF == Split!FEOF
BEXTEND == Split!BEXTEND
EXTEND == Split!EXTEND
HEXTEND == Split!HEXTEND
LEXTEND == Split!LEXTEND
LOWBYTE == Split!LOWBYTE
LOWSHORT == Split!LOWSHORT
LOWINT == Split!LOWINT
LOWLONG == Split!LOWLONG
I2F == Split!I2F
L2F == Split!L2F
LL2F == Split!LL2F
I2D == Split!I2D
L2D == Split!L2D
LL2D == Split!LL2D
F2D == Split!F2D
LFLOORD == Split!LFLOORD
I2LD == Split!I2LD
L2LD == Split!L2LD
LL2LD == Split!LL2LD
F2LD == Split!F2LD
D2LD == Split!D2LD
LLFLOORLD == Split!LLFLOORLD
DFLOAT == Split!DFLOAT
LDDOUBLE == Split!LDDOUBLE
SLDC == Split!SLDC
SPRINT == Split!SPRINT
SFILEPRINT == Split!SFILEPRINT
SFILESCAN == Split!SFILESCAN
SFILEREADLN == Split!SFILEREADLN
PLDZ == Split!PLDZ
PLD == Split!PLD
PLDA == Split!PLDA
PST == Split!PST
PLDG == Split!PLDG
PLDGA == Split!PLDGA
PSTG == Split!PSTG
PLDI == Split!PLDI
PSTI == Split!PSTI
PJZ == Split!PJZ
PJNZ == Split!PJNZ
CLDI == Split!CLDI
CPRINT == Split!CPRINT
CLDCS == Split!CLDCS
INDEXVAR == Split!INDEXVAR
ILDXVAR == Split!ILDXVAR
PLDXVAR2 == Split!PLDXVAR2
PEQBOOL == Split!PEQBOOL
PNEBOOL == Split!PNEBOOL
PZBOOL == Split!PZBOOL
STRCAT == Split!STRCAT
STRSPLIT == Split!STRSPLIT
STRSTART == Split!STRSTART
STREND == Split!STREND
STREQ == Split!STREQ
STRNE == Split!STRNE
STRGT == Split!STRGT
STRLT == Split!STRLT
STRGE == Split!STRGE
STRLE == Split!STRLE
STRLEN == Split!STRLEN
STRINDEX == Split!STRINDEX
STRCHR == Split!STRCHR
STRRCHR == Split!STRRCHR
RAISE_TEST == Split!RAISE_TEST
ESPRINT == Split!ESPRINT
SSPRINTF == Split!SSPRINTF
ASWAPW == Split!ASWAPW
ASWAPD == Split!ASWAPD
ZEROSTACK == Split!ZEROSTACK
STRPACK == Split!STRPACK
STRUNPACK == Split!STRUNPACK
STRUNPACKARRAY == Split!STRUNPACKARRAY
STRUNPACKMDARRAY == Split!STRUNPACKMDARRAY
CHECKREF == Split!CHECKREF
FILLARRAY == Split!FILLARRAY
FILLMDARRAY == Split!FILLMDARRAY
ASSERT == Split!ASSERT
DEBUG == Split!DEBUG
ADVANCE == Split!ADVANCE
NEXT == Split!NEXT
GCPOLICY == Split!GCPOLICY
GCOLLECT == Split!GCOLLECT

-----------------------------------------------------------------------------
\* All opcodes, by name.
Table == [
    NOP |-> NOP, DUP |-> DUP, OVER |-> OVER, SWAP |-> SWAP, DROP |-> DROP,
    DROPN |-> DROPN, PDROP |-> PDROP, PDROPN |-> PDROPN, ROT |-> ROT,
    PEEK |-> PEEK, COPY |-> COPY, ICOPY |-> ICOPY, OFFSET |-> OFFSET,
    ZEROOFFSET |-> ZEROOFFSET, LD |-> LD, LDG |-> LDG, LDA |-> LDA,
    LDGA |-> LDGA, ST |-> ST, STG |-> STG, LDI |-> LDI, STI |-> STI,
    EXIT |-> EXIT, NEWLINE |-> NEWLINE, SPACE |-> SPACE, ALLOC |-> ALLOC,
    ALLOCVMT |-> ALLOCVMT, MKLIST |-> MKLIST, MKARRAY |-> MKARRAY,
    PMKARRAY |-> PMKARRAY, APUSH |-> APUSH, APOP |-> APOP, TRIM |-> TRIM,
    CLONE |-> CLONE, DEEPCLONE |-> DEEPCLONE, MEMCPY |-> MEMCPY,
    ZAALLOC |-> ZAALLOC, ZLDC |-> ZLDC, ENTER |-> ENTER, CALL |-> CALL,
    ICALL |-> ICALL, VCALL |-> VCALL, DUMPVMT |-> DUMPVMT, RTOR |-> RTOR,
    RFROMR |-> RFROMR, LDFN |-> LDFN, RET |-> RET, PUSHFRM |-> PUSHFRM,
    POPFRM |-> POPFRM, JMP |-> JMP, ALLOCARGV |-> ALLOCARGV,
    ALLOCENV |-> ALLOCENV, TRY |-> TRY, RESTORE |-> RESTORE,
    RAISEX |-> RAISEX, RAISE |-> RAISE, RERAISE |-> RERAISE,
    EXCEPTIONEQ |-> EXCEPTIONEQ, ERRORMSG |-> ERRORMSG,
    ERRORCODE |-> ERRORCODE, EXCEPTIONID |-> EXCEPTIONID,
    EXCEPTIONMODULE |-> EXCEPTIONMODULE, STDREAD |-> STDREAD,
    CURFILENAME |-> CURFILENAME, CUREOF |-> CUREOF, ALLEOF |-> ALLEOF,
    ALLOCSTDIO |-> ALLOCSTDIO, FDFILE |-> FDFILE, FNAME |-> FNAME,
    FOPEN |-> FOPEN, FCLOSE |-> FCLOSE, FREAD |-> FREAD, FWRITE |-> FWRITE,
    FSEEK |-> FSEEK, FTELL |-> FTELL, FEOF |-> FEOF, BEXTEND |-> BEXTEND,
    EXTEND |-> EXTEND, HEXTEND |-> HEXTEND, LEXTEND |-> LEXTEND,
    LOWBYTE |-> LOWBYTE, LOWSHORT |-> LOWSHORT, LOWINT |-> LOWINT,
    LOWLONG |-> LOWLONG, I2F |-> I2F, L2F |-> L2F, LL2F |-> LL2F, I2D |-> I2D,
    L2D |-> L2D, LL2D |-> LL2D, F2D |-> F2D, LFLOORD |-> LFLOORD,
    I2LD |-> I2LD, L2LD |-> L2LD, LL2LD |-> LL2LD, F2LD |-> F2LD,
    D2LD |-> D2LD, LLFLOORLD |-> LLFLOORLD, DFLOAT |-> DFLOAT,
    LDDOUBLE |-> LDDOUBLE, SLDC |-> SLDC, SPRINT |-> SPRINT,
    SFILEPRINT |-> SFILEPRINT, SFILESCAN |-> SFILESCAN,
    SFILEREADLN |-> SFILEREADLN, PLDZ |-> PLDZ, PLD |-> PLD, PLDA |-> PLDA,
    PST |-> PST, PLDG |-> PLDG, PLDGA |-> PLDGA, PSTG |-> PSTG, PLDI |-> PLDI,
    PSTI |-> PSTI, PJZ |-> PJZ, PJNZ |-> PJNZ, CLDI |-> CLDI,
    CPRINT |-> CPRINT, CLDCS |-> CLDCS, INDEXVAR |-> INDEXVAR,
    ILDXVAR |-> ILDXVAR, PLDXVAR2 |-> PLDXVAR2, PEQBOOL |-> PEQBOOL,
    PNEBOOL |-> PNEBOOL, PZBOOL |-> PZBOOL, STRCAT |-> STRCAT,
    STRSPLIT |-> STRSPLIT, STRSTART |-> STRSTART, STREND |-> STREND,
    STREQ |-> STREQ, STRNE |-> STRNE, STRGT |-> STRGT, STRLT |-> STRLT,
    STRGE |-> STRGE, STRLE |-> STRLE, STRLEN |-> STRLEN,
    STRINDEX |-> STRINDEX, STRCHR |-> STRCHR, STRRCHR |-> STRRCHR,
    HASHADDR |-> HASHADDR, HASHVAL |-> HASHVAL, HASHPTR |-> HASHPTR,
    RAISE_TEST |-> RAISE_TEST, ESPRINT |-> ESPRINT, SSPRINTF |-> SSPRINTF,
    ASWAPW |-> ASWAPW, ASWAPD |-> ASWAPD, ZEROSTACK |-> ZEROSTACK,
    STRPACK |-> STRPACK, STRPACKARRAY |-> STRPACKARRAY,
    STRPACKMDARRAY |-> STRPACKMDARRAY, STRUNPACK |-> STRUNPACK,
    STRUNPACKARRAY |-> STRUNPACKARRAY, STRUNPACKMDARRAY |-> STRUNPACKMDARRAY,
    CHECKREF |-> CHECKREF, FILLARRAY |-> FILLARRAY,
    FILLMDARRAY |-> FILLMDARRAY, ASSERT |-> ASSERT, DEBUG |-> DEBUG,
    ADVANCE |-> ADVANCE, NEXT |-> NEXT, GCPOLICY |-> GCPOLICY,
    GCOLLECT |-> GCOLLECT]
=============================================================================
