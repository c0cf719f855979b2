---------------------------- MODULE ThrcodeProof ----------------------------
(***************************************************************************)
(* What the operations of Thrcode do to any code.  Code that was compiled  *)
(* apart is appended to other code by thrcode_merge(): its jumps are       *)
(* copied as they are, because they are relative, and the fixups that wait *)
(* are moved by the length the other code had.  A fixup that is used at    *)
(* the place it was meant for makes its operand lead there.                *)
(***************************************************************************)
EXTENDS Thrcode, TLAPS

Operand(Goal) ==
  [at : Int, is : STRING, goal : Goal, value : Int, settled : BOOLEAN]
Label(Goal) == [goal : Goal, at : Int]
Fixup(Name) == [name : Name, address : Int, is_absolute : BOOLEAN]

Code(Goal, Name) ==
  [length : Nat, operands : SUBSET Operand(Goal), labels : SUBSET Label(Goal),
   fixups : Seq(Fixup(Name)),
   forward_function_calls : Seq(Fixup(Name)),
   forward_function_call_stack : Seq(Seq(Fixup(Name))),
   op_continue_fixups : Seq(Fixup(Name)), op_break_fixups : Seq(Fixup(Name))]

---------------------------------------------------------------------------
\* Merging.

LEMMA Appended ==
  ASSUME NEW S, NEW s \in Seq(S), NEW t \in Seq(S)
  PROVE  s \o t \in Seq(S) /\ Len(s \o t) = Len(s) + Len(t)
         /\ ToSet(s \o t) = ToSet(s) \cup ToSet(t)
<1>1. PICK n \in Nat, k \in Nat : n = Len(s) /\ k = Len(t)
    OBVIOUS
<1>2. /\ DOMAIN s = 1 .. n /\ DOMAIN t = 1 .. k /\ DOMAIN (s \o t) = 1 .. n + k
      /\ \A i \in 1 .. n : (s \o t)[i] = s[i]
      /\ \A i \in 1 .. k : (s \o t)[n + i] = t[i]
    BY <1>1
<1>3. \A i \in 1 .. n + k : i \in 1 .. n \/ (i - n \in 1 .. k /\ n + (i - n) = i)
    OBVIOUS
<1>4. (\A i \in 1 .. n : i \in 1 .. n + k) /\ (\A i \in 1 .. k : n + i \in 1 .. n + k)
    OBVIOUS
<1>5. ASSUME NEW x  PROVE x \in ToSet(s \o t) <=> x \in ToSet(s) \/ x \in ToSet(t)
  <2>1. x \in ToSet(s \o t) <=> \E i \in 1 .. n + k : x = (s \o t)[i]
      BY <1>2, Zenon DEF ToSet
  <2>2. x \in ToSet(s) <=> \E i \in 1 .. n : x = s[i]
      BY <1>2, Zenon DEF ToSet
  <2>3. x \in ToSet(t) <=> \E i \in 1 .. k : x = t[i]
      BY <1>2, Zenon DEF ToSet
  <2>4. x \in ToSet(s \o t) => x \in ToSet(s) \/ x \in ToSet(t)
    <3>1. ASSUME NEW i \in 1 .. n + k, x = (s \o t)[i]
          PROVE  x \in ToSet(s) \/ x \in ToSet(t)
      <4>1. CASE i \in 1 .. n
          BY <1>2, <2>2, <3>1, <4>1
      <4>2. CASE i - n \in 1 .. k /\ n + (i - n) = i
        <5>1. x = t[i - n]
            BY <1>2, <3>1, <4>2
        <5>. QED
            BY <2>3, <4>2, <5>1
      <4>. QED
          BY <1>3, <4>1, <4>2
    <3>. QED
        BY <2>1, <3>1
  <2>5. x \in ToSet(s) => x \in ToSet(s \o t)
      BY <1>2, <1>4, <2>1, <2>2
  <2>6. x \in ToSet(t) => x \in ToSet(s \o t)
      BY <1>2, <1>4, <2>1, <2>3
  <2>. QED
      BY <2>4, <2>5, <2>6
<1>. QED
    BY <1>5

LEMMA Turned ==
  ASSUME NEW S, NEW s \in Seq(S)
  PROVE  Reverse(s) \in Seq(S) /\ Len(Reverse(s)) = Len(s) /\ ToSet(Reverse(s)) = ToSet(s)
<1>1. PICK n \in Nat : n = Len(s) /\ DOMAIN s = 1 .. n
    OBVIOUS
<1>2. \A i \in 1 .. n : n - i + 1 \in 1 .. n /\ n - (n - i + 1) + 1 = i
    OBVIOUS
<1>3. Reverse(s) = [i \in 1 .. n |-> s[n - i + 1]]
    BY <1>1 DEF Reverse
<1>4. Reverse(s) \in Seq(S) /\ Len(Reverse(s)) = n /\ DOMAIN Reverse(s) = 1 .. n
    BY <1>1, <1>2, <1>3
<1>5. ASSUME NEW x  PROVE x \in ToSet(Reverse(s)) <=> x \in ToSet(s)
  <2>1. x \in ToSet(s) <=> \E i \in 1 .. n : x = s[i]
      BY <1>1 DEF ToSet
  <2>2. x \in ToSet(Reverse(s)) <=> \E i \in 1 .. n : x = s[n - i + 1]
      BY <1>3 DEF ToSet
  <2>. QED
      BY <1>2, <2>1, <2>2
<1>. QED
    BY <1>1, <1>4, <1>5

MovedBy(fixup, by) == [fixup EXCEPT !.address = fixup.address + by]
Addresses(list) == {f.address : f \in ToSet(list)}
Shifted(A, by) == {a + by : a \in A}

\* Every fixup of either list is on the merged one, those of src moved, and
\* there are as many as before.
LEMMA MergedLists ==
  ASSUME NEW Name, NEW dst \in Seq(Fixup(Name)), NEW src \in Seq(Fixup(Name)),
         NEW by \in Nat
  PROVE  LET m == merge_fixup_lists(dst, src, by)
         IN  /\ m \in Seq(Fixup(Name))
             /\ Len(m) = Len(dst) + Len(src)
             /\ ToSet(m) = ToSet(dst) \cup {MovedBy(f, by) : f \in ToSet(src)}
             /\ Addresses(m) = Addresses(dst) \cup Shifted(Addresses(src), by)
<1>. DEFINE Moved(f) == MovedBy(f, by)
            moved == [i \in DOMAIN src |-> Moved(src[i])]
<1>1. \A f \in Fixup(Name) : Moved(f) \in Fixup(Name)
    BY DEF Fixup, MovedBy
<1>2. merge_fixup_lists(dst, src, by) = Reverse(moved) \o dst
    BY DEF merge_fixup_lists, MovedBy
<1>. HIDE DEF Moved
<1>3. /\ moved \in Seq(Fixup(Name)) /\ Len(moved) = Len(src)
      /\ ToSet(moved) = {Moved(f) : f \in ToSet(src)}
  <2>1. PICK S : S = Fixup(Name)
      OBVIOUS
  <2>2. src \in Seq(S) /\ \A f \in S : Moved(f) \in S
      BY <1>1, <2>1
  <2>3. PICK n \in Nat : n = Len(src) /\ DOMAIN src = 1 .. n /\ \A i \in 1 .. n : src[i] \in S
      BY <2>2
  <2>4. moved = [i \in 1 .. n |-> Moved(src[i])]
      BY <2>3
  <2>5. moved \in Seq(S) /\ Len(moved) = n
      BY <2>2, <2>3, <2>4
  <2>6. ToSet(moved) = {Moved(f) : f \in ToSet(src)}
      BY <2>3, <2>4 DEF ToSet
  <2>. QED
      BY <2>1, <2>3, <2>5, <2>6
<1>. HIDE DEF moved
<1>4. Reverse(moved) \in Seq(Fixup(Name)) /\ Len(Reverse(moved)) = Len(src)
      /\ ToSet(Reverse(moved)) = {Moved(f) : f \in ToSet(src)}
    BY <1>3, Turned
<1>5. /\ Reverse(moved) \o dst \in Seq(Fixup(Name))
      /\ Len(Reverse(moved) \o dst) = Len(src) + Len(dst)
      /\ ToSet(Reverse(moved) \o dst) = {Moved(f) : f \in ToSet(src)} \cup ToSet(dst)
    BY <1>4, Appended
<1>6. Addresses(merge_fixup_lists(dst, src, by))
        = Addresses(dst) \cup Shifted(Addresses(src), by)
  <2>1. \A f \in ToSet(src) : f \in Fixup(Name)
      BY DEF ToSet
  <2>2. \A f \in ToSet(src) : Moved(f).address = f.address + by
      BY <2>1 DEF Fixup, Moved, MovedBy
  <2>3. PICK D, T, M : D = ToSet(dst) /\ T = ToSet(src)
                       /\ M = ToSet(merge_fixup_lists(dst, src, by))
      OBVIOUS
  <2>4. M = {Moved(f) : f \in T} \cup D /\ \A f \in T : Moved(f).address = f.address + by
      BY <1>2, <1>5, <2>2, <2>3
  <2>5. {f.address : f \in M}
          = {f.address : f \in D} \cup {a + by : a \in {f.address : f \in T}}
      BY <2>4
  <2>. QED
      BY <2>3, <2>5 DEF Addresses, Shifted
<1>. QED
    BY <1>2, <1>5, <1>6 DEF Moved

LEMMA MergedAddresses ==
  ASSUME NEW Name, NEW dst, NEW src, NEW by,
         by \in Nat, dst \in Seq(Fixup(Name)), src \in Seq(Fixup(Name))
  PROVE  Addresses(merge_fixup_lists(dst, src, by))
           = Addresses(dst) \cup Shifted(Addresses(src), by)
BY MergedLists

\* What a jump says moves with it, and the rest of an operand stays.
LEMMA MovedSays ==
  ASSUME NEW Goal, NEW o \in Operand(Goal), NEW by \in Nat
  PROVE  LET m == [o EXCEPT !.at = o.at + by]
         IN  /\ m \in Operand(Goal)
             /\ m.is = o.is /\ m.goal = o.goal /\ m.settled = o.settled
             /\ o.is = "jump" => Says(m) = Says(o) + by
BY DEF Says, Operand

\* Code whose jumps lead where they should still has such jumps when it is put
\* behind other code that has them, though none of its words is changed
\* (thrcode.c:967).
THEOREM Merging ==
  ASSUME NEW Goal, NEW Name, NEW dst \in Code(Goal, Name), NEW src \in Code(Goal, Name),
         LeadsHome(dst, "jump", dst.labels), LeadsHome(src, "jump", src.labels)
  PROVE  LET m == thrcode_merge(dst, src)
         IN  /\ m \in Code(Goal, Name)
             /\ LeadsHome(m, "jump", m.labels)
<1>. DEFINE m == thrcode_merge(dst, src)
            by == dst.length
<1>1. /\ by \in Nat /\ src.length \in Nat
      /\ dst.operands \subseteq Operand(Goal) /\ src.operands \subseteq Operand(Goal)
      /\ dst.labels \subseteq Label(Goal) /\ src.labels \subseteq Label(Goal)
    BY DEF Code
<1>2. /\ m.length = by + src.length
      /\ m.operands = dst.operands \cup MovedOperands(src, by)
      /\ m.labels = dst.labels \cup MovedLabels(src, by)
    BY DEF Code, thrcode_merge
<1>3. MovedOperands(src, by) \subseteq Operand(Goal)
    BY <1>1, MovedSays DEF MovedOperands
<1>4. MovedLabels(src, by) \subseteq Label(Goal)
    BY <1>1 DEF MovedLabels, Label
<1>5. m \in Code(Goal, Name)
  <2>1. /\ dst.fixups \in Seq(Fixup(Name)) /\ src.fixups \in Seq(Fixup(Name))
        /\ dst.forward_function_calls \in Seq(Fixup(Name))
        /\ src.forward_function_calls \in Seq(Fixup(Name))
        /\ dst.op_continue_fixups \in Seq(Fixup(Name))
        /\ src.op_continue_fixups \in Seq(Fixup(Name))
        /\ dst.op_break_fixups \in Seq(Fixup(Name))
        /\ src.op_break_fixups \in Seq(Fixup(Name))
        /\ dst.forward_function_call_stack \in Seq(Seq(Fixup(Name)))
      BY DEF Code
  <2>2. /\ merge_fixup_lists(dst.fixups, src.fixups, by) \in Seq(Fixup(Name))
        /\ merge_fixup_lists(dst.forward_function_calls, src.forward_function_calls, by)
             \in Seq(Fixup(Name))
        /\ merge_fixup_lists(dst.op_continue_fixups, src.op_continue_fixups, by)
             \in Seq(Fixup(Name))
        /\ merge_fixup_lists(dst.op_break_fixups, src.op_break_fixups, by)
             \in Seq(Fixup(Name))
      BY <1>1, <2>1, MergedLists
  <2>3. by + src.length \in Nat
      BY <1>1
  <2>. QED
      BY <1>1, <1>3, <1>4, <2>2, <2>3 DEF Code, thrcode_merge
<1>6. ASSUME NEW o \in m.operands, o.is = "jump", o.settled
      PROVE  \E l \in m.labels : l.goal = o.goal /\ l.at = Says(o)
  <2>1. CASE o \in dst.operands
      BY <1>2, <1>6, <2>1 DEF LeadsHome
  <2>2. CASE o \in MovedOperands(src, by)
    <3>1. PICK s \in src.operands : o = [s EXCEPT !.at = s.at + by]
        BY <2>2 DEF MovedOperands
    <3>2. s.is = "jump" /\ s.settled /\ s.goal = o.goal /\ Says(o) = Says(s) + by
        BY <1>1, <1>6, <3>1, MovedSays
    <3>3. PICK l \in src.labels : l.goal = s.goal /\ l.at = Says(s)
        BY <3>2 DEF LeadsHome
    <3>4. [l EXCEPT !.at = l.at + by] \in m.labels
        BY <1>2, <3>3 DEF MovedLabels
    <3>5. /\ [l EXCEPT !.at = l.at + by].goal = l.goal
          /\ [l EXCEPT !.at = l.at + by].at = l.at + by
        BY <1>1, <3>3 DEF Label
    <3>. QED
        BY <3>2, <3>3, <3>4, <3>5
  <2>. QED
      BY <1>2, <2>1, <2>2
<1>. QED
    BY <1>5, <1>6 DEF LeadsHome

\* The addresses for which a fixup waits, those of enclosing modules left out,
\* and the operands that have no value yet.
Awaited(t) ==
  UNION {Addresses(list) :
           list \in {t.fixups, t.forward_function_calls, t.op_continue_fixups,
                     t.op_break_fixups}}
Open(t) == {o.at : o \in {x \in t.operands : ~ x.settled}}

\* If in two pieces of code fixups wait for just the operands that have no
\* value yet, they do so when one is put behind the other: the lists are turned
\* round, but each fixup still has the address of its operand (thrcode.c:957).
THEOREM MergingOwes ==
  ASSUME NEW Goal, NEW Name, NEW dst \in Code(Goal, Name), NEW src \in Code(Goal, Name),
         Awaited(dst) = Open(dst), Awaited(src) = Open(src)
  PROVE  LET m == thrcode_merge(dst, src) IN Awaited(m) = Open(m)
<1>. DEFINE m == thrcode_merge(dst, src)
            by == dst.length
<1>1. by \in Nat
    BY DEF Code
<1>3. Open(m) = Open(dst) \cup Shifted(Open(src), by)
  <2>1. m.operands = dst.operands \cup {[o EXCEPT !.at = o.at + by] : o \in src.operands}
      BY <1>1 DEF Code, thrcode_merge, MovedOperands
  <2>2. \A o \in src.operands : /\ [o EXCEPT !.at = o.at + by].at = o.at + by
                                /\ [o EXCEPT !.at = o.at + by].settled = o.settled
      BY DEF Code, Operand
  <2>. DEFINE M(o) == [o EXCEPT !.at = o.at + by]
  <2>3. m.operands = dst.operands \cup {M(o) : o \in src.operands}
      BY <2>1
  <2>4. \A o \in src.operands : M(o).at = o.at + by /\ M(o).settled = o.settled
      BY <2>2
  <2>. HIDE DEF m, M
  <2>. QED
      BY <2>3, <2>4 DEF Open, Shifted
<1>4. ASSUME NEW t
      PROVE  Awaited(t) = Addresses(t.fixups) \cup Addresses(t.forward_function_calls)
                \cup Addresses(t.op_continue_fixups) \cup Addresses(t.op_break_fixups)
    BY DEF Awaited
<1>5. /\ m.fixups = merge_fixup_lists(dst.fixups, src.fixups, by)
      /\ m.forward_function_calls
           = merge_fixup_lists(dst.forward_function_calls, src.forward_function_calls, by)
      /\ m.op_continue_fixups
           = merge_fixup_lists(dst.op_continue_fixups, src.op_continue_fixups, by)
      /\ m.op_break_fixups
           = merge_fixup_lists(dst.op_break_fixups, src.op_break_fixups, by)
    BY <1>1 DEF Code, thrcode_merge
<1>6. /\ dst.fixups \in Seq(Fixup(Name)) /\ src.fixups \in Seq(Fixup(Name))
      /\ dst.forward_function_calls \in Seq(Fixup(Name))
      /\ src.forward_function_calls \in Seq(Fixup(Name))
      /\ dst.op_continue_fixups \in Seq(Fixup(Name))
      /\ src.op_continue_fixups \in Seq(Fixup(Name))
      /\ dst.op_break_fixups \in Seq(Fixup(Name))
      /\ src.op_break_fixups \in Seq(Fixup(Name))
    BY DEF Code
<1>. HIDE DEF m
<1>7. ASSUME NEW d, NEW s, d \in Seq(Fixup(Name)), s \in Seq(Fixup(Name))
      PROVE  Addresses(merge_fixup_lists(d, s, by)) = Addresses(d) \cup Shifted(Addresses(s), by)
    BY <1>1, <1>7, MergedAddresses
<1>8. Awaited(m) = Awaited(dst) \cup Shifted(Awaited(src), by)
    BY <1>4, <1>5, <1>6, <1>7 DEF Shifted
<1>9. Awaited(m) = Open(m)
    BY <1>3, <1>8
<1>. QED
    BY <1>9 DEF m

---------------------------------------------------------------------------
\* Patching.

\* A relative fixup used at a place makes the operands at its address say that
\* place; if it is what they mean, the jumps of the code still lead where they
\* should (thrcode.c:897-907).
THEOREM Patching ==
  ASSUME NEW Goal, NEW Name, NEW t \in Code(Goal, Name),
         LeadsHome(t, "jump", t.labels),
         NEW fixup \in Fixup(Name), ~ fixup.is_absolute, NEW l \in t.labels,
         \A o \in t.operands : o.at = fixup.address => o.goal = l.goal
  PROVE  LeadsHome(thrcode_fixup(t, fixup, l.at), "jump", t.labels)
<1>. DEFINE value == l.at - fixup.address + 1
            Settled(o) == IF o.at = fixup.address
                          THEN [o EXCEPT !.value = value, !.settled = TRUE] ELSE o
<1>1. t.operands \subseteq Operand(Goal) /\ l \in Label(Goal) /\ value \in Int
    BY DEF Code, Label, Fixup
<1>2. thrcode_fixup(t, fixup, l.at).operands = {Settled(o) : o \in t.operands}
    BY DEF thrcode_fixup, thrcode_patch, Code
<1>3. ASSUME NEW o \in t.operands, Settled(o).is = "jump", Settled(o).settled
      PROVE  \E h \in t.labels : h.goal = Settled(o).goal /\ h.at = Says(Settled(o))
  <2>1. CASE o.at = fixup.address
    <3>1. PICK s : s = [o EXCEPT !.value = value, !.settled = TRUE] /\ s = Settled(o)
        BY <2>1
    <3>2. s.is = "jump" /\ s.goal = o.goal /\ s.at = o.at /\ s.value = value
        BY <1>1, <1>3, <3>1 DEF Operand
    <3>3. Says(s) = l.at
        BY <1>1, <2>1, <3>2 DEF Says, Label, Fixup
    <3>. QED
        BY <2>1, <3>1, <3>2, <3>3
  <2>2. CASE o.at # fixup.address
      BY <1>3, <2>2 DEF LeadsHome
  <2>. QED
      BY <2>1, <2>2
<1>. HIDE DEF Settled
<1>. QED
    BY <1>2, <1>3 DEF LeadsHome
=============================================================================
