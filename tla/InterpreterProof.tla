-------------------------- MODULE InterpreterProof --------------------------
(***************************************************************************)
(* Theorems about the registers of the interpreter, for functions nested,  *)
(* called and interrupted to any depth and stacks that move any number of  *)
(* times, and programs without the uses the compiler gets wrong.           *)
(***************************************************************************)
EXTENDS Interpreter, LeastNumber, FiniteSetTheorems, SequenceTheorems, TLAPS

\* Each of the other uses breaks one of the properties (README, section 5).
Mild == Uses \subseteq {"destructor grows"}

---------------------------------------------------------------------------
\* The invariant.

\* Where fp points to when the stack is n cells high.
TopFp(n) == IF n = 1 THEN 1 ELSE n - 1

\* Frames of three cells lie on the variables of the program.
Layout ==
  /\ sp >= 1 /\ stack[1].is = "locals" /\ stack[sp].is = "locals"
  /\ \A i \in 2 .. sp : stack[i].is = "locals" =>
       /\ i >= 4 /\ stack[i - 3].is = "locals"
       /\ stack[i - 2].is \in {"ret", "stop"} /\ stack[i - 1].is = "fp"
       /\ stack[i - 1].ptr = [cell |-> TopFp(i - 3), moves |-> moves]
  /\ fp = [cell |-> TopFp(sp), moves |-> moves]

Tries(f) == Open(f, {"try"})
Fors(f) == Open(f, {"for"})
Below(S, p) == {q \in S : Before(q, p)}

\* A handler leads to the catch list of its try body, with the counters of the
\* loops around that.
Catches(h, f, base) ==
  /\ h.ctx = Append(SubSeq(f[h.sp.cell + 1], 1, Len(h.ctx) - 1), "catch")
  /\ h.ep.cell = base + Cardinality(Below(Fors(f), Place(h)))

\* The contexts f, the handlers x and the height e of the evaluation stack
\* agree, for a program that began with the height base.
Coherent(f, x, e, base) ==
  /\ DOMAIN f \subseteq Nat
  /\ \A i \in DOMAIN f :
       /\ f[i] \in Seq(Kinds)
       /\ \A j \in 1 .. Len(f[i]) :
            f[i][j] # "outer_try" /\ (f[i][j] = "function" => i > 2)
  /\ x \in Seq(Handlers) /\ e \in Nat /\ base \in Nat
  /\ Describes(x, Tries(f))
  /\ \A k \in 1 .. Len(x) : Catches(x[k], f, base)
  /\ IsFiniteSet(Fors(f)) /\ e = base + Cardinality(Fors(f))

\* The frame of a handler is where the handler says.
Homed(x) ==
  \A k \in 1 .. Len(x) :
    /\ x[k].sp.cell \in 1 .. sp /\ stack[x[k].sp.cell].is = "locals"
    /\ x[k].fp.cell = TopFp(x[k].sp.cell)

\* What a destructor leaves alone of the program it interrupts.
Interrupted ==
  IF in_gc
  THEN /\ saved.sp >= 1 /\ sp >= saved.sp + 3
       /\ stack[saved.sp].is = "locals" /\ stack[saved.sp + 1].is = "stop"
       /\ stack[saved.sp + 2].is = "fp" /\ stack[saved.sp + 3].is = "locals"
       /\ \A i \in 1 .. sp : stack[i].is = "stop" => i = saved.sp + 1
       /\ saved.fp = TopFp(saved.sp)
       /\ Coherent(Contexts(stack, 0, saved.sp, saved.ctx), save_xp, saved.ep, 0)
       /\ Homed(save_xp)
  ELSE /\ saved = Nothing /\ save_xp = << >>
       /\ \A i \in 1 .. sp : stack[i].is # "stop"

Unmoved(x) == \A k \in 1 .. Len(x) : Good(x[k])

Grows == "destructor grows" \in Uses

IInv ==
  /\ TypeOK
  /\ Running => /\ Layout /\ Interrupted
                /\ Coherent(Here, xp, ep, saved.ep) /\ Homed(xp)
                /\ ~ Grows => Unmoved(xp) /\ Unmoved(save_xp)
  /\ ~ Grows => status # "crashed"

---------------------------------------------------------------------------
\* Places.

LEMMA OpenPairs ==
  ASSUME NEW f, NEW K
  PROVE  /\ \A i, j : <<i, j>> \in Open(f, K) <=>
                        i \in DOMAIN f /\ j \in 1 .. Len(f[i]) /\ f[i][j] \in K
         /\ \A q \in Open(f, K) : q = <<q[1], q[2]>>
  BY DEF Open

LEMMA BeforeOrder ==
  ASSUME NEW p \in Nat \X Nat, NEW q \in Nat \X Nat, NEW r \in Nat \X Nat
  PROVE  /\ Before(p, q) /\ Before(q, r) => Before(p, r)
         /\ ~ Before(p, p)
         /\ Before(p, q) \/ Before(q, p) \/ p = q
  BY DEF Before

LEMMA PlaceType ==
  ASSUME NEW h \in Handlers
  PROVE  /\ Place(h) \in Nat \X Nat
         /\ Place(h)[1] = h.sp.cell + 1 /\ Place(h)[2] = Len(h.ctx)
         /\ h.sp.cell \in Nat /\ h.ctx \in Seq(Kinds) /\ Len(h.ctx) \in Nat
<1>1. h.sp.cell \in Nat /\ h.ctx \in Seq(Kinds)
  BY DEF Handlers, Pointers
<1>2. Len(h.ctx) \in Nat
  BY <1>1, LenProperties
<1>. QED
  BY <1>1, <1>2 DEF Place

LEMMA OpenType ==
  ASSUME NEW f, NEW K, DOMAIN f \subseteq Nat, \A i \in DOMAIN f : f[i] \in Seq(Kinds)
  PROVE  Open(f, K) \in SUBSET (Nat \X Nat)
<1>. SUFFICES ASSUME NEW q \in Open(f, K)
     PROVE  q \in Nat \X Nat
  OBVIOUS
<1>1. q = <<q[1], q[2]>> /\ q[1] \in DOMAIN f /\ q[2] \in 1 .. Len(f[q[1]])
  BY OpenPairs
<1>2. Len(f[q[1]]) \in Nat
  BY <1>1, LenProperties
<1>3. q[1] \in Nat /\ q[2] \in Nat
  BY <1>1, <1>2
<1>. QED
  BY <1>1, <1>3

---------------------------------------------------------------------------
\* Contexts that end earlier.

\* g are the contexts f up to the place p.
UpTo(f, g, p) ==
  /\ DOMAIN g \subseteq DOMAIN f
  /\ \A i \in DOMAIN g :
       /\ g[i] \in Seq(Kinds) /\ Len(g[i]) <= Len(f[i])
       /\ \A j \in 1 .. Len(g[i]) : g[i][j] = f[i][j]
  /\ \A i \in DOMAIN f : \A j \in 1 .. Len(f[i]) :
       Before(<<i, j>>, p) <=> i \in DOMAIN g /\ j <= Len(g[i])

LEMMA OpenUpTo ==
  ASSUME NEW f, NEW g, NEW p, NEW K, UpTo(f, g, p),
         \A i \in DOMAIN f : f[i] \in Seq(Kinds)
  PROVE  Open(g, K) = Below(Open(f, K), p)
<1>1. \A i \in DOMAIN f : Len(f[i]) \in Nat
  BY LenProperties
<1>2. \A i \in DOMAIN g : i \in DOMAIN f /\ Len(g[i]) \in Nat
  BY LenProperties DEF UpTo
<1>3. ASSUME NEW q \in Open(g, K)  PROVE  q \in Below(Open(f, K), p)
  <2>. DEFINE i == q[1]
              j == q[2]
  <2>1. q = <<i, j>> /\ i \in DOMAIN g /\ j \in 1 .. Len(g[i]) /\ g[i][j] \in K
    BY <1>3, OpenPairs
  <2>. HIDE DEF i, j
  <2>2. i \in DOMAIN f /\ j \in 1 .. Len(f[i]) /\ f[i][j] \in K /\ j <= Len(g[i])
    BY <1>1, <1>2, <2>1 DEF UpTo
  <2>3. <<i, j>> \in Open(f, K) /\ Before(<<i, j>>, p)
    BY <2>1, <2>2, OpenPairs DEF UpTo
  <2>. QED
    BY <2>1, <2>3 DEF Below
<1>4. ASSUME NEW q \in Below(Open(f, K), p)  PROVE  q \in Open(g, K)
  <2>. DEFINE i == q[1]
              j == q[2]
  <2>1. q \in Open(f, K) /\ Before(q, p)
    BY DEF Below
  <2>2. q = <<i, j>> /\ i \in DOMAIN f /\ j \in 1 .. Len(f[i]) /\ f[i][j] \in K
    BY <2>1, OpenPairs
  <2>. HIDE DEF i, j
  <2>3. i \in DOMAIN g /\ j <= Len(g[i])
    BY <2>1, <2>2 DEF UpTo
  <2>4. j \in 1 .. Len(g[i]) /\ g[i][j] \in K
    BY <1>1, <1>2, <2>2, <2>3 DEF UpTo
  <2>. QED
    BY <2>2, <2>3, <2>4, OpenPairs
<1>. QED
  BY <1>3, <1>4

\* What lies below a place that is kept.
LEMMA BelowBelow ==
  ASSUME NEW S \in SUBSET (Nat \X Nat), NEW p \in Nat \X Nat, NEW q \in Nat \X Nat,
         Before(q, p)
  PROVE  Below(Below(S, p), q) = Below(S, q)
<1>1. \A r \in S : Before(r, q) => Before(r, p)
  BY BeforeOrder
<1>. QED
  BY <1>1 DEF Below

---------------------------------------------------------------------------
\* Chains of handlers.

LEMMA CutChain ==
  ASSUME NEW x \in Seq(Handlers), NEW T, Describes(x, T), NEW p, NEW n \in 0 .. Len(x),
         \A k \in 1 .. Len(x) : Before(Place(x[k]), p) <=> k > n
  PROVE  /\ SubSeq(x, n + 1, Len(x)) \in Seq(Handlers)
         /\ Len(SubSeq(x, n + 1, Len(x))) = Len(x) - n
         /\ \A k \in 1 .. Len(x) - n : SubSeq(x, n + 1, Len(x))[k] = x[n + k]
         /\ Describes(SubSeq(x, n + 1, Len(x)), Below(T, p))
<1>. DEFINE y == SubSeq(x, n + 1, Len(x))
            L == Len(x)
<1>1. L \in Nat /\ n \in Nat /\ n <= L /\ \A k \in 1 .. L : x[k] \in Handlers
  BY LenProperties, ElementOfSeq
<1>2. y \in Seq(Handlers) /\ Len(y) = L - n /\ \A k \in 1 .. L - n : y[k] = x[n + k]
  <2>. HIDE DEF L
  <2>1. \A i \in n + 1 .. L : x[i] \in Handlers
    BY <1>1
  <2>. DEFINE m == n + 1
              z == SubSeq(x, m, L)
  <2>2. m \in Int /\ L \in Int /\ m \in Nat
    BY <1>1
  <2>. HIDE DEF m
  <2>3. /\ z \in Seq(Handlers) /\ Len(z) = IF m <= L THEN L - m + 1 ELSE 0
        /\ \A i \in 1 .. L - m + 1 : z[i] = x[m + i - 1]
    BY <2>1, <2>2, SubSeqProperties DEF m
  <2>. HIDE DEF z
  <2>4. Len(z) = L - n /\ L - m + 1 = L - n
    BY <1>1, <2>3 DEF m
  <2>5. \A k \in 1 .. L - n : m + k - 1 = n + k
    BY <1>1 DEF m
  <2>6. \A k \in 1 .. L - n : z[k] = x[n + k]
    BY <2>3, <2>4, <2>5
  <2>. QED
    BY <2>3, <2>4, <2>6 DEF z, m, L
<1>. HIDE DEF y
<1>3. \A k \in 1 .. L - n : n + k \in 1 .. L /\ n + k > n
  BY <1>1
<1>4. \A k \in 1 .. L : k > n => k - n \in 1 .. L - n /\ n + (k - n) = k
  BY <1>1
<1>. HIDE DEF L
<1>5. /\ T = {Place(x[k]) : k \in 1 .. L}
      /\ \A k, l \in 1 .. L : k < l => Before(Place(x[l]), Place(x[k]))
      /\ \A k \in 1 .. L : Before(Place(x[k]), p) <=> k > n
  BY DEF Describes, L
<1>6. {Place(y[k]) : k \in 1 .. Len(y)} = Below(T, p)
  <2>1. ASSUME NEW k \in 1 .. L - n  PROVE  Place(y[k]) \in Below(T, p)
    BY <1>2, <1>3, <1>5 DEF Below
  <2>2. ASSUME NEW q \in Below(T, p)  PROVE  \E k \in 1 .. L - n : q = Place(y[k])
    <3>1. PICK k \in 1 .. L : q = Place(x[k]) /\ k > n
      BY <1>5 DEF Below
    <3>2. k - n \in 1 .. L - n /\ y[k - n] = x[k]
      BY <1>2, <1>4, <3>1
    <3>. QED
      BY <3>1, <3>2
  <2>. QED
    BY <1>2, <2>1, <2>2
<1>7. ASSUME NEW k \in 1 .. L - n, NEW l \in 1 .. L - n, k < l
      PROVE  Before(Place(y[l]), Place(y[k]))
  <2>1. n + k < n + l
    BY <1>1, <1>7
  <2>. QED
    BY <1>2, <1>3, <1>5, <2>1
<1>8. Describes(y, Below(T, p))
  BY <1>2, <1>6, <1>7 DEF Describes
<1>. QED
  BY <1>2, <1>8 DEF y, L

LEMMA PushChain ==
  ASSUME NEW x \in Seq(Handlers), NEW T, Describes(x, T), NEW h \in Handlers,
         \A q \in T : Before(q, Place(h))
  PROVE  /\ <<h>> \o x \in Seq(Handlers)
         /\ Len(<<h>> \o x) = Len(x) + 1
         /\ (<<h>> \o x)[1] = h
         /\ \A k \in 1 .. Len(x) : (<<h>> \o x)[k + 1] = x[k]
         /\ Describes(<<h>> \o x, T \cup {Place(h)})
<1>. DEFINE y == <<h>> \o x
            L == Len(x)
            u == <<h>>
<1>1. u \in Seq(Handlers) /\ Len(u) = 1 /\ u[1] = h /\ L \in Nat
  BY LenProperties
<1>2. y = u \o x
  OBVIOUS
<1>. HIDE DEF u, y
<1>3. /\ y \in Seq(Handlers) /\ Len(y) = 1 + L
      /\ \A i \in 1 .. 1 + L : y[i] = IF i <= 1 THEN u[i] ELSE x[i - 1]
  <2>1. /\ u \o x \in Seq(Handlers) /\ Len(u \o x) = Len(u) + Len(x)
        /\ \A i \in 1 .. Len(u) + Len(x) : (u \o x)[i] = IF i <= Len(u) THEN u[i] ELSE x[i - Len(u)]
    BY <1>1, ConcatProperties
  <2>. QED
    BY <1>1, <1>2, <2>1
<1>. HIDE DEF L
<1>4. Len(y) = L + 1 /\ y[1] = h /\ \A k \in 1 .. L : k + 1 \in 1 .. 1 + L /\ y[k + 1] = x[k]
  BY <1>1, <1>3
<1>5. /\ T = {Place(x[k]) : k \in 1 .. L}
      /\ \A k, l \in 1 .. L : k < l => Before(Place(x[l]), Place(x[k]))
  BY DEF Describes, L
<1>6. \A k \in 1 .. L + 1 : k = 1 \/ (k - 1 \in 1 .. L /\ y[k] = x[k - 1])
  BY <1>1, <1>3
<1>7. {Place(y[k]) : k \in 1 .. L + 1} = T \cup {Place(h)}
  <2>1. \A k \in 1 .. L + 1 : Place(y[k]) \in T \cup {Place(h)}
    BY <1>4, <1>5, <1>6
  <2>2. \A q \in T : \E k \in 1 .. L + 1 : q = Place(y[k])
    <3>. TAKE q \in T
    <3>1. PICK k \in 1 .. L : q = Place(x[k])
      BY <1>5
    <3>2. k + 1 \in 1 .. L + 1 /\ y[k + 1] = x[k]
      BY <1>1, <1>4
    <3>. QED
      BY <3>1, <3>2
  <2>3. 1 \in 1 .. L + 1 /\ Place(h) = Place(y[1])
    BY <1>1, <1>4
  <2>. QED
    BY <2>1, <2>2, <2>3
<1>8. ASSUME NEW k \in 1 .. L + 1, NEW l \in 1 .. L + 1, k < l
      PROVE  Before(Place(y[l]), Place(y[k]))
  <2>1. l - 1 \in 1 .. L /\ y[l] = x[l - 1]
    BY <1>1, <1>6, <1>8
  <2>2. CASE k = 1
    BY <1>4, <1>5, <2>1, <2>2
  <2>3. CASE k # 1
    <3>1. k - 1 \in 1 .. L /\ y[k] = x[k - 1] /\ k - 1 < l - 1
      BY <1>1, <1>6, <1>8, <2>3
    <3>. QED
      BY <1>5, <2>1, <3>1
  <2>. QED
    BY <2>2, <2>3
<1>9. Describes(y, T \cup {Place(h)})
  BY <1>4, <1>7, <1>8 DEF Describes
<1>. QED
  BY <1>3, <1>4, <1>9 DEF y, L

\* The handlers of the innermost function are the first of the chain, and as
\* many as it has open try bodies.
LEMMA TopHandlers ==
  ASSUME NEW x \in Seq(Handlers), NEW T \in SUBSET (Nat \X Nat), Describes(x, T),
         NEW t \in Nat, \A q \in T : q[1] <= t /\ q[2] >= 1,
         NEW J \in SUBSET Nat, IsFiniteSet(J), \A j \in Nat : <<t, j>> \in T <=> j \in J
  PROVE  /\ Cardinality(J) \in 0 .. Len(x)
         /\ \A k \in 1 .. Len(x) : Before(Place(x[k]), <<t, 1>>) <=> k > Cardinality(J)
<1>. DEFINE L == Len(x)
            P(k) == Place(x[k])
            M == {k \in 1 .. L + 1 : k = L + 1 \/ P(k)[1] # t}
<1>1. /\ L \in Nat /\ T = {P(k) : k \in 1 .. L}
      /\ \A k, l \in 1 .. L : k < l => Before(P(l), P(k))
  BY LenProperties DEF Describes
<1>2. \A k \in 1 .. L : P(k) \in T /\ P(k) \in Nat \X Nat /\ P(k)[1] <= t /\ P(k)[2] >= 1
  BY <1>1
<1>. HIDE DEF L, P
<1>3. PICK m \in M : \A k \in M : m <= k
  <2>1. M \in SUBSET Nat /\ L + 1 \in M
    BY <1>1
  <2>. HIDE DEF M
  <2>. QED
    BY <2>1, LeastNatural
<1>4. m \in Nat /\ m >= 1 /\ m - 1 \in Nat /\ m - 1 <= L
  BY <1>1, <1>3
<1>5. \A k \in 1 .. L : k < m => P(k)[1] = t
  BY <1>1, <1>3
<1>6. \A k \in 1 .. L : k >= m => P(k)[1] # t
  <2>. SUFFICES ASSUME NEW k \in 1 .. L, k >= m, P(k)[1] = t PROVE FALSE
    OBVIOUS
  <2>1. m \in 1 .. L /\ P(m)[1] # t
    BY <1>1, <1>3
  <2>2. m < k
    BY <1>4, <2>1
  <2>3. Before(P(k), P(m))
    BY <1>1, <2>1, <2>2
  <2>. QED
    BY <1>2, <2>1, <2>3 DEF Before
<1>7. \A k \in 1 .. L : Before(P(k), <<t, 1>>) <=> k >= m
  BY <1>2, <1>4, <1>5, <1>6 DEF Before
<1>. HIDE DEF M
<1>8. Cardinality(J) = m - 1
  <2>. DEFINE n == m - 1
              F == [k \in 1 .. n |-> P(k)[2]]
  <2>1. n \in Nat /\ \A k \in 1 .. n : k \in 1 .. L /\ k < m
    BY <1>1, <1>4
  <2>2. \A k \in 1 .. L : k < m => k \in 1 .. n
    BY <1>1, <1>4
  <2>. HIDE DEF n
  <2>3. \A k \in 1 .. n : P(k) = <<t, P(k)[2]>> /\ P(k)[2] \in J
    <3>. TAKE k \in 1 .. n
    <3>1. P(k) \in T /\ P(k)[1] = t /\ P(k) \in Nat \X Nat
      BY <1>2, <1>5, <2>1
    <3>. QED
      BY <3>1
  <2>4. F \in [1 .. n -> J]
    BY <2>3
  <2>5. \A k, l \in 1 .. n : F[k] = F[l] => k = l
    <3>. SUFFICES ASSUME NEW k \in 1 .. n, NEW l \in 1 .. n, F[k] = F[l], k < l
         PROVE  FALSE
      BY <2>1
    <3>1. Before(P(l), P(k)) /\ P(k) = P(l) /\ P(k) \in Nat \X Nat
      BY <1>1, <1>2, <2>1, <2>3
    <3>. QED
      BY <3>1, BeforeOrder
  <2>6. \A j \in J : \E k \in 1 .. n : F[k] = j
    <3>. TAKE j \in J
    <3>1. j \in Nat /\ <<t, j>> \in T
      OBVIOUS
    <3>2. PICK k \in 1 .. L : P(k) = <<t, j>>
      BY <1>1, <3>1
    <3>3. k < m
      BY <1>1, <1>4, <1>6, <3>2
    <3>4. k \in 1 .. n /\ F[k] = j
      BY <2>2, <3>2, <3>3
    <3>. QED
      BY <3>4
  <2>7. F \in Bijection(1 .. n, J)
    <3>. HIDE DEF F
    <3>. QED
      BY <2>4, <2>5, <2>6 DEF Bijection, Injection, Surjection, IsInjective
  <2>8. IsFiniteSet(1 .. n) /\ Cardinality(1 .. n) = n
    <3>1. 1 \in Int /\ n \in Int /\ (1 > n => n = 0) /\ n - 1 + 1 = n
      BY <2>1
    <3>. QED
      BY <3>1, FS_Interval
  <2>9. Cardinality(J) = n
    BY <2>7, <2>8, FS_Bijection DEF ExistsBijection
  <2>. QED
    BY <2>9 DEF n
<1>. QED
  BY <1>1, <1>4, <1>7, <1>8 DEF L, P

---------------------------------------------------------------------------
\* Coherence when contexts grow and end.

IsContexts(f) ==
  /\ DOMAIN f \subseteq Nat
  /\ \A i \in DOMAIN f : f[i] \in Seq(Kinds)

ProperContexts(f) ==
  \A i \in DOMAIN f : \A j \in 1 .. Len(f[i]) :
    f[i][j] # "outer_try" /\ (f[i][j] = "function" => i > 2)

LEMMA CoherentParts ==
  ASSUME NEW f, NEW x, NEW e, NEW base
  PROVE  Coherent(f, x, e, base) <=>
           /\ IsContexts(f) /\ ProperContexts(f)
           /\ x \in Seq(Handlers) /\ e \in Nat /\ base \in Nat
           /\ Describes(x, Tries(f))
           /\ \A k \in 1 .. Len(x) : Catches(x[k], f, base)
           /\ IsFiniteSet(Fors(f)) /\ e = base + Cardinality(Fors(f))
  BY DEF Coherent, IsContexts, ProperContexts

LEMMA SamePrefix ==
  ASSUME NEW a \in Seq(Kinds), NEW b \in Seq(Kinds), NEW j \in Nat, j <= Len(b),
         Len(b) <= Len(a), \A m \in 1 .. Len(b) : b[m] = a[m], j >= 1
  PROVE  SubSeq(a, 1, j - 1) = SubSeq(b, 1, j - 1)
<1>. DEFINE n == j - 1
            u == SubSeq(a, 1, n)
            v == SubSeq(b, 1, n)
<1>1. /\ n \in Int /\ n \in Nat /\ 1 \in Int
      /\ \A i \in 1 .. n : i \in 1 .. Len(a) /\ i \in 1 .. Len(b) /\ 1 + i - 1 = i
      /\ n - 1 + 1 = n
  BY LenProperties
<1>2. (IF 1 <= n THEN n - 1 + 1 ELSE 0) = n
  BY <1>1
<1>. HIDE DEF n
<1>3. \A i \in 1 .. n : a[i] \in Kinds /\ b[i] \in Kinds
  BY <1>1, ElementOfSeq
<1>4. u \in Seq(Kinds) /\ Len(u) = n /\ \A i \in 1 .. n : u[i] = a[i]
  BY <1>1, <1>2, <1>3, SubSeqProperties
<1>5. v \in Seq(Kinds) /\ Len(v) = n /\ \A i \in 1 .. n : v[i] = b[i]
  BY <1>1, <1>2, <1>3, SubSeqProperties
<1>. HIDE DEF u, v
<1>6. u = v
  BY <1>1, <1>4, <1>5, SeqEqual
<1>. QED
  BY <1>6 DEF u, v, n

\* A handler does not notice what comes after its place.
LEMMA CatchesUpTo ==
  ASSUME NEW f, NEW g, NEW p \in Nat \X Nat, IsContexts(f), UpTo(f, g, p),
         NEW base, NEW h \in Handlers, Place(h) \in Tries(g)
  PROVE  Catches(h, f, base) <=> Catches(h, g, base)
<1>. DEFINE i == h.sp.cell + 1
            j == Len(h.ctx)
<1>1. Place(h) = <<i, j>> /\ Place(h) \in Nat \X Nat
  BY PlaceType DEF Place
<1>. HIDE DEF i, j
<1>2. i \in DOMAIN g /\ j \in 1 .. Len(g[i])
  BY <1>1, OpenPairs DEF Tries
<1>3. /\ f[i] \in Seq(Kinds) /\ g[i] \in Seq(Kinds) /\ Len(g[i]) <= Len(f[i])
      /\ \A m \in 1 .. Len(g[i]) : g[i][m] = f[i][m]
      /\ j \in Nat /\ j <= Len(g[i]) /\ j >= 1
  <2>1. f[i] \in Seq(Kinds) /\ g[i] \in Seq(Kinds) /\ Len(g[i]) <= Len(f[i])
        /\ \A m \in 1 .. Len(g[i]) : g[i][m] = f[i][m]
    BY <1>2 DEF UpTo, IsContexts
  <2>2. Len(g[i]) \in Nat
    BY <2>1, LenProperties
  <2>. QED
    BY <1>2, <2>1, <2>2
<1>4. SubSeq(f[i], 1, j - 1) = SubSeq(g[i], 1, j - 1)
  BY <1>3, SamePrefix
<1>5. Below(Fors(g), Place(h)) = Below(Fors(f), Place(h))
  <2>1. /\ Fors(g) = Below(Fors(f), p) /\ Fors(f) \in SUBSET (Nat \X Nat)
        /\ Tries(g) = Below(Tries(f), p)
    BY OpenUpTo, OpenType DEF Fors, Tries, IsContexts
  <2>2. Before(Place(h), p)
    BY <2>1 DEF Below
  <2>. QED
    BY <1>1, <2>1, <2>2, BelowBelow
<1>. QED
  BY <1>4, <1>5 DEF Catches, i, j

\* Blocks are left, with the handlers of their try bodies and their counters.
LEMMA CoherentUpTo ==
  ASSUME NEW f, NEW x, NEW e, NEW base, Coherent(f, x, e, base),
         NEW g, NEW p \in Nat \X Nat, UpTo(f, g, p), NEW n \in 0 .. Len(x),
         \A k \in 1 .. Len(x) : Before(Place(x[k]), p) <=> k > n
  PROVE  /\ Coherent(g, SubSeq(x, n + 1, Len(x)), base + Cardinality(Below(Fors(f), p)), base)
         /\ Len(SubSeq(x, n + 1, Len(x))) = Len(x) - n
         /\ \A k \in 1 .. Len(x) - n : SubSeq(x, n + 1, Len(x))[k] = x[n + k]
<1>. DEFINE y == SubSeq(x, n + 1, Len(x))
<1>1. /\ IsContexts(f) /\ ProperContexts(f)
      /\ x \in Seq(Handlers) /\ base \in Nat
      /\ Describes(x, Tries(f))
      /\ \A k \in 1 .. Len(x) : Catches(x[k], f, base)
      /\ IsFiniteSet(Fors(f))
  BY CoherentParts
<1>2. /\ y \in Seq(Handlers) /\ Len(y) = Len(x) - n
      /\ \A k \in 1 .. Len(x) - n : y[k] = x[n + k]
      /\ Describes(y, Below(Tries(f), p))
  BY <1>1, CutChain
<1>. HIDE DEF y
<1>3. Tries(g) = Below(Tries(f), p) /\ Fors(g) = Below(Fors(f), p)
  BY <1>1, OpenUpTo DEF Tries, Fors, IsContexts
<1>4. IsContexts(g) /\ ProperContexts(g)
  <2>1. \A i \in DOMAIN g : Len(g[i]) \in Nat /\ Len(f[i]) \in Nat
    BY <1>1, LenProperties DEF UpTo, IsContexts
  <2>2. \A i \in DOMAIN g : i \in DOMAIN f /\ g[i] \in Seq(Kinds) /\ Len(g[i]) <= Len(f[i])
    BY DEF UpTo
  <2>3. \A i \in DOMAIN g : \A j \in 1 .. Len(g[i]) : j \in 1 .. Len(f[i]) /\ g[i][j] = f[i][j]
    BY <2>1, <2>2 DEF UpTo
  <2>4. ProperContexts(g)
    BY <1>1, <2>2, <2>3 DEF ProperContexts
  <2>. QED
    BY <1>1, <2>2, <2>4 DEF IsContexts
<1>5. IsFiniteSet(Fors(g)) /\ Cardinality(Fors(g)) \in Nat
  <2>1. Fors(g) \in SUBSET Fors(f)
    BY <1>3 DEF Below
  <2>2. IsFiniteSet(Fors(g))
    BY <1>1, <2>1, FS_Subset
  <2>. QED
    BY <2>2, FS_CardinalityType
<1>6. ASSUME NEW k \in 1 .. Len(y)  PROVE  Catches(y[k], g, base)
  <2>0. Len(x) \in Nat /\ n \in Nat
    BY <1>1, LenProperties
  <2>1. n + k \in 1 .. Len(x) /\ y[k] = x[n + k]
    BY <1>2, <2>0
  <2>. DEFINE h == y[k]
  <2>2. h \in Handlers /\ Catches(h, f, base)
    BY <1>1, <2>1, ElementOfSeq
  <2>3. Place(h) \in Tries(g)
    BY <1>2, <1>3 DEF Describes
  <2>. HIDE DEF h
  <2>4. Catches(h, g, base)
    BY <1>1, <2>2, <2>3, CatchesUpTo
  <2>. QED
    BY <2>4 DEF h
<1>7. base + Cardinality(Fors(g)) \in Nat
  BY <1>1, <1>5
<1>. DEFINE e2 == base + Cardinality(Fors(g))
<1>8. e2 \in Nat /\ e2 = base + Cardinality(Fors(g))
  BY <1>7
<1>. HIDE DEF e2
<1>9. Coherent(g, y, e2, base)
  BY <1>1, <1>2, <1>3, <1>4, <1>5, <1>6, <1>8, CoherentParts
<1>. QED
  BY <1>2, <1>3, <1>9 DEF y, e2

\* A block begins in the innermost function.
Grown(f, g, t, b) ==
  /\ t \in DOMAIN f /\ \A i \in DOMAIN f : i <= t
  /\ b \in Kinds
  /\ DOMAIN g = DOMAIN f /\ g[t] = Append(f[t], b)
  /\ \A i \in DOMAIN f : i # t => g[i] = f[i]

LEMMA GrownLast ==
  ASSUME NEW f, IsContexts(f), NEW t, NEW b, NEW g, Grown(f, g, t, b)
  PROVE  /\ t \in Nat /\ f[t] \in Seq(Kinds) /\ g[t] \in Seq(Kinds)
         /\ Len(f[t]) \in Nat /\ Len(g[t]) = Len(f[t]) + 1
         /\ \A j \in 1 .. Len(f[t]) : g[t][j] = f[t][j]
         /\ g[t][Len(f[t]) + 1] = b
<1>. DEFINE c == f[t]
<1>1. c \in Seq(Kinds) /\ t \in Nat /\ b \in Kinds /\ g[t] = Append(c, b)
  BY DEF IsContexts, Grown
<1>. HIDE DEF c
<1>2. Len(c) \in Nat
  BY <1>1, LenProperties
<1>. QED
  BY <1>1, <1>2, AppendProperties DEF c

LEMMA GrownUpTo ==
  ASSUME NEW f, IsContexts(f), NEW t, NEW b, NEW g, Grown(f, g, t, b)
  PROVE  IsContexts(g) /\ UpTo(g, f, <<t, Len(f[t]) + 1>>)
<1>. DEFINE n == Len(f[t])
<1>1. /\ t \in Nat /\ f[t] \in Seq(Kinds) /\ g[t] \in Seq(Kinds) /\ n \in Nat
      /\ Len(g[t]) = n + 1 /\ \A j \in 1 .. n : g[t][j] = f[t][j]
  BY GrownLast
<1>3. /\ DOMAIN g = DOMAIN f
      /\ \A i \in DOMAIN f : i # t => g[i] = f[i]
  BY DEF Grown
<1>4. IsContexts(g)
  BY <1>1, <1>3 DEF IsContexts
<1>5. \A i \in DOMAIN f : i \in Nat /\ i <= t /\ Len(f[i]) \in Nat
  BY LenProperties DEF IsContexts, Grown
<1>6. UpTo(g, f, <<t, n + 1>>)
  <2>1. ASSUME NEW i \in DOMAIN f
        PROVE  /\ f[i] \in Seq(Kinds) /\ Len(f[i]) <= Len(g[i])
               /\ \A j \in 1 .. Len(f[i]) : f[i][j] = g[i][j]
    <3>1. CASE i = t
      BY <1>1, <1>3, <3>1
    <3>2. CASE i # t
      BY <1>3, <1>5, <3>2 DEF IsContexts
    <3>. QED
      BY <3>1, <3>2
  <2>2. ASSUME NEW i \in DOMAIN g, NEW j \in 1 .. Len(g[i])
        PROVE  Before(<<i, j>>, <<t, n + 1>>) <=> i \in DOMAIN f /\ j <= Len(f[i])
    <3>1. CASE i = t
      BY <1>1, <1>3, <3>1 DEF Before
    <3>2. CASE i # t
      BY <1>1, <1>3, <1>5, <3>2 DEF Before
    <3>. QED
      BY <3>1, <3>2
  <2>. QED
    BY <1>3, <2>1, <2>2 DEF UpTo
<1>. QED
  BY <1>4, <1>6

LEMMA GrownOpen ==
  ASSUME NEW f, IsContexts(f), NEW t, NEW b, NEW g, Grown(f, g, t, b), NEW K
  PROVE  Open(g, K) = Open(f, K) \cup (IF b \in K THEN {<<t, Len(f[t]) + 1>>} ELSE {})
<1>. DEFINE n == Len(f[t])
<1>1. /\ n \in Nat /\ Len(g[t]) = n + 1 /\ g[t][n + 1] = b
      /\ \A j \in 1 .. n : g[t][j] = f[t][j]
  BY GrownLast
<1>2. /\ DOMAIN g = DOMAIN f /\ t \in DOMAIN f
      /\ \A i \in DOMAIN f : i # t => g[i] = f[i]
  BY DEF Grown
<1>3. \A i \in DOMAIN f : \A j : i # t => (<<i, j>> \in Open(g, K) <=> <<i, j>> \in Open(f, K))
  BY <1>2, OpenPairs
<1>4. \A j : <<t, j>> \in Open(g, K) <=>
               <<t, j>> \in Open(f, K) \/ (j = n + 1 /\ b \in K)
  <2>1. \A j : <<t, j>> \in Open(g, K) <=> j \in 1 .. n + 1 /\ g[t][j] \in K
    BY <1>1, <1>2, OpenPairs
  <2>2. \A j : <<t, j>> \in Open(f, K) <=> j \in 1 .. n /\ f[t][j] \in K
    BY <1>2, OpenPairs
  <2>3. \A j : j \in 1 .. n + 1 <=> j \in 1 .. n \/ j = n + 1
    BY <1>1
  <2>. QED
    BY <1>1, <2>1, <2>2, <2>3
<1>5. \A q \in Open(g, K) : q = <<q[1], q[2]>> /\ q[1] \in DOMAIN f
  BY <1>2, OpenPairs
<1>6. \A q \in Open(f, K) : q = <<q[1], q[2]>> /\ q[1] \in DOMAIN f
  BY OpenPairs
<1>7. \A q \in Open(g, K) : q \in Open(f, K) \/ (q = <<t, n + 1>> /\ b \in K)
  <2>. TAKE q \in Open(g, K)
  <2>. DEFINE i == q[1]
              j == q[2]
  <2>1. q = <<i, j>> /\ i \in DOMAIN f
    BY <1>5
  <2>. HIDE DEF i, j
  <2>. QED
    BY <1>3, <1>4, <2>1
<1>8. \A q \in Open(f, K) : q \in Open(g, K)
  <2>. TAKE q \in Open(f, K)
  <2>. DEFINE i == q[1]
              j == q[2]
  <2>1. q = <<i, j>> /\ i \in DOMAIN f
    BY <1>6
  <2>. HIDE DEF i, j
  <2>. QED
    BY <1>3, <1>4, <2>1
<1>9. b \in K => <<t, n + 1>> \in Open(g, K)
  BY <1>4
<1>. QED
  BY <1>7, <1>8, <1>9

\* The last place of all.
LEMMA AfterAll ==
  ASSUME NEW f, IsContexts(f), NEW t \in DOMAIN f, \A i \in DOMAIN f : i <= t, NEW K
  PROVE  \A q \in Open(f, K) : Before(q, <<t, Len(f[t]) + 1>>)
<1>. SUFFICES ASSUME NEW q \in Open(f, K)
     PROVE  Before(q, <<t, Len(f[t]) + 1>>)
  OBVIOUS
<1>. DEFINE i == q[1]
            j == q[2]
<1>1. i \in DOMAIN f /\ j \in 1 .. Len(f[i])
  BY OpenPairs
<1>2. Len(f[i]) \in Nat /\ i \in Nat /\ i <= t /\ t \in Nat
  BY <1>1, LenProperties DEF IsContexts
<1>. QED
  BY <1>1, <1>2 DEF Before

\* Handlers do not notice what comes after their try bodies.
LEMMA CatchesAll ==
  ASSUME NEW f, NEW x, NEW e, NEW base, Coherent(f, x, e, base),
         NEW g, IsContexts(g), NEW p \in Nat \X Nat, UpTo(g, f, p)
  PROVE  \A k \in 1 .. Len(x) : Catches(x[k], g, base)
<1>. TAKE k \in 1 .. Len(x)
<1>. DEFINE h == x[k]
<1>1. h \in Handlers /\ Place(h) \in Tries(f) /\ Catches(h, f, base)
  BY ElementOfSeq, CoherentParts DEF Describes
<1>. HIDE DEF h
<1>2. Catches(h, g, base)
  BY <1>1, CatchesUpTo
<1>. QED
  BY <1>2 DEF h

LEMMA CoherentGrown ==
  ASSUME NEW f, NEW x, NEW e, NEW base, Coherent(f, x, e, base),
         NEW t, NEW g, NEW b \in {"for", "while", "catch"}, Grown(f, g, t, b)
  PROVE  Coherent(g, x, e + (IF b = "for" THEN 1 ELSE 0), base)
<1>. DEFINE p == <<t, Len(f[t]) + 1>>
            e2 == e + (IF b = "for" THEN 1 ELSE 0)
<1>1. /\ IsContexts(f) /\ ProperContexts(f)
      /\ x \in Seq(Handlers) /\ e \in Nat /\ base \in Nat
      /\ Describes(x, Tries(f))
      /\ IsFiniteSet(Fors(f)) /\ e = base + Cardinality(Fors(f))
  BY CoherentParts
<1>2. /\ t \in Nat /\ Len(f[t]) \in Nat /\ Len(g[t]) = Len(f[t]) + 1
      /\ \A j \in 1 .. Len(f[t]) : g[t][j] = f[t][j]
      /\ g[t][Len(f[t]) + 1] = b
  BY <1>1, GrownLast
<1>3. IsContexts(g) /\ UpTo(g, f, p) /\ p \in Nat \X Nat
  BY <1>1, <1>2, GrownUpTo
<1>4. Tries(g) = Tries(f) \cup (IF b \in {"try"} THEN {p} ELSE {})
  BY <1>1, GrownOpen DEF Tries
<1>5. Fors(g) = Fors(f) \cup (IF b \in {"for"} THEN {p} ELSE {})
  BY <1>1, GrownOpen DEF Fors
<1>6. p \notin Fors(f)
  <2>1. ~ Len(f[t]) + 1 \in 1 .. Len(f[t])
    BY <1>2
  <2>. QED
    BY <2>1, OpenPairs DEF Fors
<1>. HIDE DEF p
<1>7. \A k \in 1 .. Len(x) : Catches(x[k], g, base)
  BY <1>3, CatchesAll
<1>8. ProperContexts(g)
  <2>. SUFFICES ASSUME NEW i \in DOMAIN g, NEW j \in 1 .. Len(g[i])
       PROVE  g[i][j] # "outer_try" /\ (g[i][j] = "function" => i > 2)
    BY DEF ProperContexts
  <2>1. CASE i # t
    BY <1>1, <2>1 DEF Grown, ProperContexts
  <2>2. CASE i = t /\ j = Len(f[t]) + 1
    BY <1>2, <2>2
  <2>3. CASE i = t /\ j # Len(f[t]) + 1
    <3>1. j \in 1 .. Len(f[t]) /\ i \in DOMAIN f /\ g[i][j] = f[i][j]
      BY <1>2, <2>3 DEF Grown
    <3>. QED
      BY <1>1, <2>3, <3>1 DEF ProperContexts
  <2>. QED
    BY <2>1, <2>2, <2>3
<1>9. IsFiniteSet(Fors(g)) /\ e2 = base + Cardinality(Fors(g)) /\ e2 \in Nat
  <2>0. Cardinality(Fors(f)) \in Nat
    BY <1>1, FS_CardinalityType
  <2>1. CASE b = "for"
    <3>1. Fors(g) = Fors(f) \cup {p}
      BY <1>5, <2>1
    <3>2. IsFiniteSet(Fors(g)) /\ Cardinality(Fors(g)) = Cardinality(Fors(f)) + 1
      BY <1>1, <1>6, <3>1, FS_AddElement
    <3>. QED
      BY <1>1, <2>0, <2>1, <3>2
  <2>2. CASE b # "for"
    <3>1. Fors(g) = Fors(f)
      BY <1>5, <2>2
    <3>. QED
      BY <1>1, <2>0, <2>2, <3>1
  <2>. QED
    BY <2>1, <2>2
<1>. HIDE DEF e2
<1>10. Tries(g) = Tries(f)
  BY <1>4
<1>11. Coherent(g, x, e2, base)
  BY <1>1, <1>3, <1>7, <1>8, <1>9, <1>10, CoherentParts
<1>. QED
  BY <1>11 DEF e2

LEMMA CoherentTry ==
  ASSUME NEW f, NEW x, NEW e, NEW base, Coherent(f, x, e, base),
         NEW t, NEW g, Grown(f, g, t, "try"),
         NEW h \in Handlers, Place(h) = <<t, Len(f[t]) + 1>>,
         h.ctx = Append(f[t], "catch"), h.ep.cell = e
  PROVE  Coherent(g, <<h>> \o x, e, base)
<1>. DEFINE p == <<t, Len(f[t]) + 1>>
            y == <<h>> \o x
<1>1. /\ IsContexts(f) /\ ProperContexts(f)
      /\ x \in Seq(Handlers) /\ e \in Nat /\ base \in Nat
      /\ Describes(x, Tries(f))
      /\ IsFiniteSet(Fors(f)) /\ e = base + Cardinality(Fors(f))
  BY CoherentParts
<1>2. /\ t \in Nat /\ Len(f[t]) \in Nat /\ Len(g[t]) = Len(f[t]) + 1
      /\ f[t] \in Seq(Kinds) /\ g[t] \in Seq(Kinds)
      /\ \A j \in 1 .. Len(f[t]) : g[t][j] = f[t][j]
      /\ g[t][Len(f[t]) + 1] = "try"
  BY <1>1, GrownLast
<1>3. IsContexts(g) /\ UpTo(g, f, p) /\ p \in Nat \X Nat
  BY <1>1, <1>2, GrownUpTo
<1>4. Tries(g) = Tries(f) \cup (IF "try" \in {"try"} THEN {p} ELSE {})
  BY <1>1, GrownOpen DEF Tries
<1>5. Fors(g) = Fors(f) \cup (IF "try" \in {"for"} THEN {p} ELSE {})
  BY <1>1, GrownOpen DEF Fors
<1>6. \A q \in Open(f, {"try"}) : Before(q, p)
  BY <1>1, AfterAll DEF Grown
<1>7. \A q \in Open(f, {"for"}) : Before(q, p)
  BY <1>1, AfterAll DEF Grown
<1>8. SubSeq(g[t], 1, Len(h.ctx) - 1) = f[t]
  <2>1. Len(h.ctx) = Len(f[t]) + 1
    <3>. DEFINE c == f[t]
                b == "catch"
    <3>1. b \in Kinds /\ c \in Seq(Kinds) /\ h.ctx = Append(c, b)
      BY <1>2 DEF Kinds
    <3>. HIDE DEF c, b
    <3>2. Len(Append(c, b)) = Len(c) + 1
      BY <3>1, AppendProperties
    <3>. QED
      BY <3>1, <3>2 DEF c
  <2>2. Len(f[t]) + 1 - 1 = Len(f[t]) /\ Len(h.ctx) - 1 = Len(f[t])
    BY <1>2, <2>1
  <2>. DEFINE n == Len(f[t]) + 1
  <2>3. n \in Nat /\ n <= Len(g[t]) /\ n >= 1 /\ n - 1 = Len(f[t])
    BY <1>2
  <2>. DEFINE u == SubSeq(g[t], 1, Len(f[t]))
  <2>4. \A i \in 1 .. Len(f[t]) : g[t][i] \in Kinds /\ 1 + i - 1 = i
    BY <1>2, ElementOfSeq
  <2>5. 1 \in Int /\ Len(f[t]) \in Int /\ Len(f[t]) - 1 + 1 = Len(f[t])
        /\ (IF 1 <= Len(f[t]) THEN Len(f[t]) - 1 + 1 ELSE 0) = Len(f[t])
    BY <1>2
  <2>6. u \in Seq(Kinds) /\ Len(u) = Len(f[t]) /\ \A i \in 1 .. Len(f[t]) : u[i] = g[t][i]
    BY <2>4, <2>5, SubSeqProperties
  <2>. HIDE DEF u
  <2>7. u = f[t]
    BY <1>2, <2>6, SeqEqual
  <2>. QED
    BY <2>2, <2>7 DEF u
<1>. HIDE DEF p
<1>9. /\ y \in Seq(Handlers) /\ Len(y) = Len(x) + 1 /\ y[1] = h
      /\ \A k \in 1 .. Len(x) : y[k + 1] = x[k]
      /\ Describes(y, Tries(f) \cup {Place(h)})
  <2>. DEFINE T == Tries(f)
  <2>1. Describes(x, T) /\ \A q \in T : Before(q, Place(h))
    BY <1>1, <1>6 DEF Tries, p
  <2>. HIDE DEF T
  <2>2. /\ y \in Seq(Handlers) /\ Len(y) = Len(x) + 1 /\ y[1] = h
        /\ \A k \in 1 .. Len(x) : y[k + 1] = x[k]
        /\ Describes(y, T \cup {Place(h)})
    BY <1>1, <2>1, PushChain
  <2>. QED
    BY <2>2 DEF T
<1>. HIDE DEF y
<1>10. Tries(g) = Tries(f) \cup {Place(h)} /\ Fors(g) = Fors(f)
  BY <1>4, <1>5 DEF p
<1>11. \A k \in 1 .. Len(x) : Catches(x[k], g, base)
  BY <1>3, CatchesAll
<1>12. Catches(h, g, base)
  <2>1. Place(h)[1] = t /\ h.sp.cell + 1 = t
    BY DEF Place
  <2>2. Below(Fors(g), Place(h)) = Fors(f)
    BY <1>7, <1>10 DEF Below, Fors, p
  <2>. QED
    BY <1>1, <1>8, <2>1, <2>2 DEF Catches
<1>13. \A k \in 1 .. Len(y) : Catches(y[k], g, base)
  <2>. TAKE k \in 1 .. Len(y)
  <2>1. Len(x) \in Nat
    BY <1>1, LenProperties
  <2>2. k = 1 \/ (k - 1 \in 1 .. Len(x) /\ y[k] = x[k - 1])
    <3>1. k # 1 => k - 1 \in 1 .. Len(x) /\ (k - 1) + 1 = k
      BY <1>9, <2>1
    <3>. QED
      BY <1>9, <3>1
  <2>. QED
    BY <1>9, <1>11, <1>12, <2>2
<1>14. ProperContexts(g)
  <2>. SUFFICES ASSUME NEW i \in DOMAIN g, NEW j \in 1 .. Len(g[i])
       PROVE  g[i][j] # "outer_try" /\ (g[i][j] = "function" => i > 2)
    BY DEF ProperContexts
  <2>1. CASE i # t
    BY <1>1, <2>1 DEF Grown, ProperContexts
  <2>2. CASE i = t /\ j = Len(f[t]) + 1
    BY <1>2, <2>2
  <2>3. CASE i = t /\ j # Len(f[t]) + 1
    <3>1. j \in 1 .. Len(f[t]) /\ i \in DOMAIN f /\ g[i][j] = f[i][j]
      BY <1>2, <2>3 DEF Grown
    <3>. QED
      BY <1>1, <2>3, <3>1 DEF ProperContexts
  <2>. QED
    BY <2>1, <2>2, <2>3
<1>15. Coherent(g, y, e, base)
  BY <1>1, <1>3, <1>9, <1>10, <1>13, <1>14, CoherentParts
<1>. QED
  BY <1>15 DEF y

\* A function begins.
Called(f, g, t) ==
  /\ DOMAIN g = DOMAIN f \cup {t} /\ t \in Nat /\ t > 2
  /\ \A i \in DOMAIN f : i < t /\ g[i] = f[i]
  /\ g[t] = <<"function">>

LEMMA CoherentCalled ==
  ASSUME NEW f, NEW x, NEW e, NEW base, Coherent(f, x, e, base),
         NEW t, NEW g, Called(f, g, t)
  PROVE  Coherent(g, x, e, base)
<1>. DEFINE p == <<t, 1>>
<1>1. /\ IsContexts(f) /\ ProperContexts(f)
      /\ x \in Seq(Handlers) /\ e \in Nat /\ base \in Nat
      /\ Describes(x, Tries(f))
      /\ IsFiniteSet(Fors(f)) /\ e = base + Cardinality(Fors(f))
  BY CoherentParts
<1>2. p \in Nat \X Nat /\ t \in Nat /\ t > 2 /\ t \notin DOMAIN f
  BY DEF Called
<1>3. g[t] \in Seq(Kinds) /\ Len(g[t]) = 1 /\ g[t][1] = "function"
  BY DEF Called, Kinds
<1>4. \A i \in DOMAIN f : f[i] \in Seq(Kinds) /\ Len(f[i]) \in Nat /\ i \in Nat /\ i < t /\ g[i] = f[i]
  BY <1>1, LenProperties DEF Called, IsContexts
<1>5. IsContexts(g) /\ ProperContexts(g)
  <2>1. \A i \in DOMAIN g : i \in DOMAIN f \/ i = t
    BY DEF Called
  <2>2. IsContexts(g)
    BY <1>2, <1>3, <1>4, <2>1 DEF IsContexts
  <2>3. ProperContexts(g)
    <3>. SUFFICES ASSUME NEW i \in DOMAIN g, NEW j \in 1 .. Len(g[i])
         PROVE  g[i][j] # "outer_try" /\ (g[i][j] = "function" => i > 2)
      BY DEF ProperContexts
    <3>1. CASE i \in DOMAIN f
      BY <1>1, <1>4, <3>1 DEF ProperContexts
    <3>2. CASE i = t
      BY <1>2, <1>3, <3>2
    <3>. QED
      BY <2>1, <3>1, <3>2
  <2>. QED
    BY <2>2, <2>3
<1>6. UpTo(g, f, p)
  <2>1. ASSUME NEW i \in DOMAIN g, NEW j \in 1 .. Len(g[i])
        PROVE  Before(<<i, j>>, p) <=> i \in DOMAIN f /\ j <= Len(f[i])
    <3>1. CASE i = t
      BY <1>2, <1>3, <3>1 DEF Before
    <3>2. CASE i # t
      BY <1>2, <1>4, <3>2 DEF Before, Called
    <3>. QED
      BY <3>1, <3>2
  <2>2. DOMAIN f \subseteq DOMAIN g
    BY DEF Called
  <2>3. \A i \in DOMAIN f :
          /\ f[i] \in Seq(Kinds) /\ Len(f[i]) <= Len(g[i])
          /\ \A j \in 1 .. Len(f[i]) : f[i][j] = g[i][j]
    BY <1>4
  <2>. QED
    BY <2>1, <2>2, <2>3 DEF UpTo
<1>7. ASSUME NEW K, "function" \notin K  PROVE  Open(g, K) = Open(f, K)
  <2>1. ASSUME NEW q \in Open(g, K)  PROVE  q \in Open(f, K)
    <3>. DEFINE i == q[1]
                j == q[2]
    <3>1. q = <<i, j>> /\ i \in DOMAIN g /\ j \in 1 .. Len(g[i]) /\ g[i][j] \in K
      BY <2>1, OpenPairs
    <3>. HIDE DEF i, j
    <3>2. i # t
      BY <1>3, <1>7, <3>1
    <3>3. i \in DOMAIN f /\ j \in 1 .. Len(f[i]) /\ f[i][j] \in K
      BY <1>4, <3>1, <3>2 DEF Called
    <3>. QED
      BY <3>1, <3>3, OpenPairs
  <2>2. ASSUME NEW q \in Open(f, K)  PROVE  q \in Open(g, K)
    <3>. DEFINE i == q[1]
                j == q[2]
    <3>1. q = <<i, j>> /\ i \in DOMAIN f /\ j \in 1 .. Len(f[i]) /\ f[i][j] \in K
      BY <2>2, OpenPairs
    <3>. HIDE DEF i, j
    <3>2. i \in DOMAIN g /\ j \in 1 .. Len(g[i]) /\ g[i][j] \in K
      BY <1>4, <3>1 DEF Called
    <3>. QED
      BY <3>1, <3>2, OpenPairs
  <2>. QED
    BY <2>1, <2>2
<1>8. Tries(g) = Tries(f) /\ Fors(g) = Fors(f)
  BY <1>7 DEF Tries, Fors
<1>. HIDE DEF p
<1>9. \A k \in 1 .. Len(x) : Catches(x[k], g, base)
  BY <1>2, <1>5, <1>6, CatchesAll
<1>. QED
  BY <1>1, <1>5, <1>8, <1>9, CoherentParts

\* Code that has no handlers and no counters yet.
LEMMA CoherentNew ==
  ASSUME NEW f, IsContexts(f), ProperContexts(f), NEW e \in Nat,
         \A i \in DOMAIN f : \A j \in 1 .. Len(f[i]) : f[i][j] \notin {"try", "for"}
  PROVE  Coherent(f, << >>, e, e)
<1>1. ASSUME NEW K \in {{"try"}, {"for"}}  PROVE  Open(f, K) = {}
  <2>. SUFFICES ASSUME NEW q \in Open(f, K) PROVE FALSE
    OBVIOUS
  <2>1. q[1] \in DOMAIN f /\ q[2] \in 1 .. Len(f[q[1]]) /\ f[q[1]][q[2]] \in K
    BY OpenPairs
  <2>. QED
    BY <1>1, <2>1
<1>2. Tries(f) = {} /\ Fors(f) = {}
  BY <1>1 DEF Tries, Fors
<1>3. << >> \in Seq(Handlers) /\ Len(<< >>) = 0
  BY EmptySeq
<1>4. Describes(<< >>, {})
  BY <1>3 DEF Describes
<1>5. IsFiniteSet({}) /\ Cardinality({}) = 0 /\ e = e + 0
  BY FS_EmptySet
<1>. DEFINE x == << >>
<1>6. x \in Seq(Handlers) /\ Len(x) = 0 /\ Describes(x, Tries(f))
  BY <1>2, <1>3, <1>4
<1>7. IsFiniteSet(Fors(f)) /\ e = e + Cardinality(Fors(f))
  BY <1>2, <1>5
<1>. HIDE DEF x
<1>8. \A k \in 1 .. Len(x) : Catches(x[k], f, e)
  BY <1>6
<1>9. Coherent(f, x, e, e)
  BY <1>6, <1>7, <1>8, CoherentParts
<1>. QED
  BY <1>9 DEF x

\* How many counters are dropped when the innermost function goes back to its
\* first m blocks.
LEMMA LevelCount ==
  ASSUME NEW f, IsContexts(f), NEW t \in DOMAIN f, \A i \in DOMAIN f : i <= t,
         NEW m \in 0 .. Len(f[t]), IsFiniteSet(Fors(f))
  PROVE  /\ Cardinality(Below(Fors(f), <<t, m + 1>>)) \in Nat
         /\ CountFrom(f[t], m + 1, {"for"}) \in Nat
         /\ Cardinality(Fors(f)) = Cardinality(Below(Fors(f), <<t, m + 1>>))
                                     + CountFrom(f[t], m + 1, {"for"})
<1>. DEFINE p == <<t, m + 1>>
            S == Fors(f)
            B == Below(S, p)
            R == S \ B
            J == {j \in m + 1 .. Len(f[t]) : f[t][j] \in {"for"}}
            F == [j \in J |-> <<t, j>>]
<1>1. Len(f[t]) \in Nat /\ t \in Nat /\ m \in Nat
  BY LenProperties DEF IsContexts
<1>2. \A j : <<t, j>> \in R <=> j \in J
  <2>1. \A j : <<t, j>> \in S <=> j \in 1 .. Len(f[t]) /\ f[t][j] \in {"for"}
    BY OpenPairs DEF Fors
  <2>2. \A j \in 1 .. Len(f[t]) : Before(<<t, j>>, p) <=> ~ j >= m + 1
    BY <1>1 DEF Before
  <2>3. \A j : j \in m + 1 .. Len(f[t]) <=> j \in 1 .. Len(f[t]) /\ j >= m + 1
    BY <1>1
  <2>. QED
    BY <2>1, <2>2, <2>3 DEF Below
<1>3. \A q \in R : q = <<t, q[2]>>
  <2>. TAKE q \in R
  <2>. DEFINE i == q[1]
              j == q[2]
  <2>1. q = <<i, j>> /\ i \in DOMAIN f /\ j \in 1 .. Len(f[i]) /\ ~ Before(q, p)
    BY OpenPairs DEF Fors, Below
  <2>. HIDE DEF i, j
  <2>2. i \in Nat /\ i <= t
    BY <2>1 DEF IsContexts
  <2>3. i = t
    BY <1>1, <2>1, <2>2 DEF Before
  <2>. QED
    BY <2>1, <2>3 DEF j
<1>4. IsFiniteSet(J)
  <2>1. J \in SUBSET (m + 1 .. Len(f[t])) /\ m + 1 \in Int /\ Len(f[t]) \in Int
    BY <1>1
  <2>. HIDE DEF J
  <2>2. IsFiniteSet(m + 1 .. Len(f[t]))
    BY <2>1, FS_Interval
  <2>. QED
    BY <2>1, <2>2, FS_Subset
<1>. HIDE DEF J, R
<1>5. F \in Bijection(J, R)
  <2>1. F \in [J -> R] /\ \A j, k \in J : F[j] = F[k] => j = k
    BY <1>2
  <2>2. \A q \in R : \E j \in J : F[j] = q
    BY <1>2, <1>3
  <2>. HIDE DEF F
  <2>. QED
    BY <2>1, <2>2 DEF Bijection, Injection, Surjection, IsInjective
<1>6. IsFiniteSet(R) /\ Cardinality(R) = Cardinality(J) /\ Cardinality(J) \in Nat
  BY <1>4, <1>5, FS_Bijection, FS_CardinalityType DEF ExistsBijection
<1>7. B \in SUBSET S /\ S = B \cup R /\ B \cap R = {}
  BY DEF Below, R
<1>. HIDE DEF S, B
<1>8. IsFiniteSet(S) /\ IsFiniteSet(B)
  BY <1>7, FS_Subset DEF S
<1>9. Cardinality(S) = (Cardinality(B) + Cardinality(R)) - Cardinality(B \cap R)
  <2>1. Cardinality(B \cup R) = Cardinality(B) + Cardinality(R) - Cardinality(B \cap R)
    BY <1>6, <1>8, FS_Union
  <2>2. Cardinality(B) \in Nat /\ Cardinality(R) \in Nat /\ Cardinality(B \cap R) = 0
    BY <1>6, <1>7, <1>8, FS_CardinalityType, FS_EmptySet
  <2>3. \A a, b \in Nat : a + b - 0 = (a + b) - 0
    OBVIOUS
  <2>. QED
    BY <1>7, <2>1, <2>2, <2>3
<1>10. Cardinality(B) \in Nat /\ Cardinality(B \cap R) = 0
  BY <1>7, <1>8, FS_CardinalityType, FS_EmptySet
<1>11. \A a, b \in Nat : (a + b) - 0 = a + b
  OBVIOUS
<1>12. Cardinality(S) = Cardinality(B) + Cardinality(J)
  BY <1>6, <1>9, <1>10, <1>11
<1>. QED
  BY <1>6, <1>10, <1>12 DEF CountFrom, S, B, J

---------------------------------------------------------------------------
\* Steps inside a function.

LEMMA FirstIs ==
  ASSUME NEW x \in Seq(Handlers), NEW T, Describes(x, T), NEW p \in T, T \subseteq Nat \X Nat,
         \A q \in T : q = p \/ Before(q, p)
  PROVE  /\ 1 \in 1 .. Len(x) /\ Place(x[1]) = p
         /\ \A k \in 1 .. Len(x) : Before(Place(x[k]), p) <=> k > 1
<1>1. Len(x) \in Nat
  BY LenProperties
<1>2. /\ T = {Place(x[k]) : k \in 1 .. Len(x)}
      /\ \A k, l \in 1 .. Len(x) : k < l => Before(Place(x[l]), Place(x[k]))
  BY DEF Describes
<1>3. PICK m \in 1 .. Len(x) : Place(x[m]) = p
  BY <1>2
<1>4. 1 \in 1 .. Len(x) /\ Place(x[1]) \in T
  BY <1>1, <1>2, <1>3
<1>5. Place(x[1]) = p
  <2>. SUFFICES ASSUME Place(x[1]) # p PROVE FALSE
    OBVIOUS
  <2>1. 1 < m
    BY <1>3
  <2>2. Before(p, Place(x[1])) /\ Before(Place(x[1]), p)
    BY <1>2, <1>3, <1>4, <2>1
  <2>. QED
    BY <1>4, <2>2, BeforeOrder
<1>6. ~ Before(p, p)
  BY BeforeOrder
<1>7. \A k \in 1 .. Len(x) : k > 1 => Before(Place(x[k]), p)
  BY <1>2, <1>4, <1>5
<1>8. \A k \in 1 .. Len(x) : k > 1 \/ k = 1
  OBVIOUS
<1>. QED
  BY <1>4, <1>5, <1>6, <1>7, <1>8

\* What is known of a running program.
LEMMA Types ==
  ASSUME TypeOK
  PROVE  /\ sp \in Nat /\ saved.sp \in Nat /\ saved.ep \in Int
         /\ ctx \in Seq(Kinds) /\ Len(ctx) \in Nat
         /\ xp \in Seq(Handlers) /\ Len(xp) \in Nat
         /\ save_xp \in Seq(Handlers) /\ Len(save_xp) \in Nat
         /\ \A i \in 1 .. sp : stack[i].ctx \in Seq(Kinds) /\ stack[i].ptr \in Pointers
<1>. DEFINE Cells == [is : {"ret", "stop", "fp", "locals"}, ctx : Seq(Kinds), ptr : Pointers]
<1>1. stack \in Seq(Cells)
  BY DEF TypeOK
<1>2. ctx \in Seq(Kinds) /\ xp \in Seq(Handlers) /\ save_xp \in Seq(Handlers)
  BY DEF TypeOK
<1>3. saved.sp \in Nat /\ saved.ep \in Int
  <2>1. saved \in [ctx : Seq(Kinds), fp : Nat, sp : Nat, ep : Int]
    BY DEF TypeOK
  <2>. QED
    BY <2>1
<1>4. \A c \in Cells : c.ctx \in Seq(Kinds) /\ c.ptr \in Pointers
  OBVIOUS
<1>. HIDE DEF Cells
<1>5. sp \in Nat /\ \A i \in 1 .. sp : stack[i] \in Cells
  BY <1>1, ElementOfSeq, LenProperties DEF sp
<1>6. Len(ctx) \in Nat /\ Len(xp) \in Nat /\ Len(save_xp) \in Nat
  BY <1>2, LenProperties
<1>. QED
  BY <1>2, <1>3, <1>4, <1>5, <1>6

LEMMA HereIs ==
  ASSUME TypeOK
  PROVE  /\ DOMAIN Here = {m \in saved.sp + 1 .. sp : stack[m].is = "ret"} \cup {sp + 1}
         /\ Here[sp + 1] = ctx
         /\ \A i \in DOMAIN Here : i # sp + 1 => Here[i] = stack[i].ctx
         /\ \A i \in DOMAIN Here : i \in Nat /\ i <= sp + 1
         /\ sp + 1 \in DOMAIN Here /\ sp + 1 \in Nat
<1>1. sp \in Nat /\ saved.sp \in Nat
  BY Types
<1>2. /\ DOMAIN Here = {m \in saved.sp + 1 .. sp : stack[m].is = "ret"} \cup {sp + 1}
      /\ Here[sp + 1] = ctx
      /\ \A i \in DOMAIN Here : i # sp + 1 => Here[i] = stack[i].ctx
  BY DEF Here, Contexts
<1>. QED
  BY <1>1, <1>2

\* The contexts after a step that leaves the stack alone.
LEMMA HereInside ==
  ASSUME TypeOK, UNCHANGED <<stack, saved>>
  PROVE  /\ DOMAIN Here' = DOMAIN Here /\ Here'[sp + 1] = ctx'
         /\ \A i \in DOMAIN Here : i # sp + 1 => Here'[i] = Here[i]
<1>1. sp' = sp
  BY DEF sp
<1>2. /\ DOMAIN Here' = {m \in saved.sp + 1 .. sp : stack[m].is = "ret"} \cup {sp + 1}
      /\ Here'[sp + 1] = ctx'
      /\ \A i \in DOMAIN Here' : i # sp + 1 => Here'[i] = stack[i].ctx
  BY <1>1 DEF Here, Contexts
<1>. QED
  BY <1>2, HereIs

LEMMA Inside ==
  ASSUME IInv, Running, UNCHANGED <<stack, fp, save_xp, in_gc, saved, moves, emoves, status>>,
         ctx' \in Seq(Kinds), Coherent(Here', xp', ep', saved.ep),
         Homed(xp'), ~ Grows => Unmoved(xp')
  PROVE  IInv'
<1>1. xp' \in Seq(Handlers) /\ ep' \in Nat
  BY CoherentParts
<1>2. TypeOK'
  BY <1>1 DEF IInv, TypeOK
<1>3. Layout' /\ Interrupted'
  BY DEF IInv, Layout, Interrupted, sp, Homed, Contexts
<1>4. Coherent(Here, xp, ep, saved.ep)'
  OBVIOUS
<1>5. Homed(xp)'
  BY DEF Homed, sp
<1>6. ~ Grows => Unmoved(xp)' /\ Unmoved(save_xp)'
  BY DEF IInv, Unmoved, Good
<1>7. status' = "running"
  BY DEF Running
<1>. QED
  BY <1>2, <1>3, <1>4, <1>5, <1>6, <1>7 DEF IInv, Running, Grows

\* The loop counter of one block.
LEMMA CountOne ==
  ASSUME NEW b
  PROVE  Counters(<<b>>) = IF b = "for" THEN 1 ELSE 0
<1>. DEFINE S == {j \in 1 .. Len(<<b>>) : <<b>>[j] \in {"for"}}
<1>1. Len(<<b>>) = 1 /\ <<b>>[1] = b /\ \A j : j \in 1 .. 1 <=> j = 1
  OBVIOUS
<1>2. S = IF b = "for" THEN {1} ELSE {}
  BY <1>1
<1>. HIDE DEF S
<1>3. Cardinality({1}) = 1 /\ Cardinality({}) = 0
  BY FS_EmptySet, FS_Singleton
<1>4. Cardinality(S) = IF b = "for" THEN 1 ELSE 0
  BY <1>2, <1>3
<1>. QED
  BY <1>4 DEF Counters, Count, CountFrom, S

LEMMA AppendKinds ==
  ASSUME NEW c \in Seq(Kinds), NEW b \in Kinds
  PROVE  Append(c, b) \in Seq(Kinds)
OBVIOUS

LEMMA EnterLoopStep ==
  ASSUME IInv, NEW b \in Loops, EnterLoop(b)  PROVE  IInv'
<1>1. TypeOK /\ Running /\ ctx \in Seq(Kinds) /\ UNCHANGED <<stack, saved>>
  BY DEF IInv, EnterLoop, TypeOK
<1>2. ctx' = Append(ctx, b) /\ ep' = ep + Counters(<<b>>) /\ xp' = xp
  BY DEF EnterLoop, EnterBlock
<1>3. b \in {"for", "while", "catch"} /\ b \in Kinds
  BY DEF Loops, Kinds
<1>4. Grown(Here, Here', sp + 1, b)
  BY <1>1, <1>2, <1>3, HereIs, HereInside DEF Grown
<1>5. Coherent(Here, xp, ep, saved.ep)
  BY <1>1 DEF IInv
<1>. DEFINE f == Here
            g == Here'
            base == saved.ep
<1>6. Coherent(f, xp, ep, base) /\ Grown(f, g, sp + 1, b)
  BY <1>4, <1>5
<1>. HIDE DEF f, g, base
<1>7. Coherent(g, xp, ep + (IF b = "for" THEN 1 ELSE 0), base)
  BY <1>3, <1>6, CoherentGrown
<1>8. Coherent(Here', xp', ep', saved.ep)
  BY <1>2, <1>7, CountOne DEF g, base
<1>9. ctx' \in Seq(Kinds)
  BY <1>1, <1>2, <1>3, AppendKinds
<1>10. Homed(xp') /\ (~ Grows => Unmoved(xp'))
  BY <1>1, <1>2 DEF IInv
<1>. QED
  BY <1>1, <1>8, <1>9, <1>10, Inside DEF EnterLoop

LEMMA EnterTryStep ==
  ASSUME IInv, EnterTry  PROVE  IInv'
<1>1. TypeOK /\ Running /\ ctx \in Seq(Kinds) /\ UNCHANGED <<stack, saved>>
  BY DEF IInv, EnterTry, TypeOK
<1>2. ctx' = Append(ctx, "try") /\ ep' = ep /\ xp' = <<Handler>> \o xp
  BY DEF EnterTry, EnterBlock
<1>3. "try" \in Kinds /\ "catch" \in Kinds
  BY DEF Kinds
<1>4. Grown(Here, Here', sp + 1, "try")
  BY <1>1, <1>2, <1>3, HereIs, HereInside DEF Grown
<1>. DEFINE h == Handler
            f == Here
            g == Here'
            base == saved.ep
<1>5. sp \in Nat /\ fp \in Pointers /\ ep \in Nat /\ moves \in Nat /\ emoves \in Nat
  BY <1>1, Types DEF TypeOK
<1>6. h = [ctx |-> Append(ctx, "catch"), fp |-> fp, sp |-> [cell |-> sp, moves |-> moves],
           ep |-> [cell |-> ep, moves |-> emoves]]
  BY DEF Handler, Ptr
<1>7. Append(ctx, "catch") \in Seq(Kinds) /\ Append(ctx, "try") \in Seq(Kinds)
  BY <1>1, <1>3, AppendKinds
<1>8. h \in Handlers
  BY <1>5, <1>6, <1>7 DEF Handlers, Pointers
<1>9. h.ctx = Append(f[sp + 1], "catch") /\ h.ep.cell = ep /\ h.sp.cell = sp
      /\ h.fp = fp /\ h.sp.moves = moves /\ h.ep.moves = emoves
  BY <1>1, <1>6, HereIs
<1>10. Place(h) = <<sp + 1, Len(f[sp + 1]) + 1>>
  <2>1. Len(Append(ctx, "catch")) = Len(ctx) + 1
    BY <1>1, <1>3, AppendProperties
  <2>. QED
    BY <1>1, <1>9, <2>1, HereIs DEF Place
<1>11. Coherent(f, xp, ep, base) /\ xp \in Seq(Handlers)
  BY <1>1 DEF IInv, TypeOK
<1>12. Grown(f, g, sp + 1, "try")
  BY <1>4
<1>. HIDE DEF h, f, g, base
<1>13. Coherent(g, <<h>> \o xp, ep, base)
  BY <1>8, <1>9, <1>10, <1>11, <1>12, CoherentTry
<1>14. Coherent(Here', xp', ep', saved.ep)
  BY <1>2, <1>13 DEF g, h, base
<1>15. \A k \in 1 .. Len(xp') : xp'[k] = h \/ (k - 1 \in 1 .. Len(xp) /\ xp'[k] = xp[k - 1])
  <2>. DEFINE u == <<h>>
  <2>1. u \in Seq(Handlers) /\ Len(u) = 1 /\ u[1] = h /\ Len(xp) \in Nat /\ xp' = u \o xp
    BY <1>1, <1>2, <1>8, Types DEF h
  <2>. HIDE DEF u
  <2>2. Len(xp') = 1 + Len(xp) /\ \A i \in 1 .. 1 + Len(xp) : xp'[i] = IF i <= 1 THEN u[i] ELSE xp[i - 1]
    BY <1>11, <2>1, ConcatProperties
  <2>. QED
    BY <2>1, <2>2
<1>16. /\ h.sp.cell \in 1 .. sp /\ stack[h.sp.cell].is = "locals"
       /\ h.fp.cell = TopFp(h.sp.cell) /\ Good(h)
  BY <1>1, <1>5, <1>9 DEF IInv, Layout, Good
<1>17. Homed(xp') /\ (~ Grows => Unmoved(xp'))
  BY <1>1, <1>15, <1>16 DEF IInv, Homed, Unmoved
<1>. QED
  BY <1>1, <1>2, <1>7, <1>14, <1>17, Inside DEF EnterTry

\* The innermost function goes back to its first m blocks.
Cut(f, g, t, m) ==
  /\ t \in DOMAIN f /\ \A i \in DOMAIN f : i <= t
  /\ m \in 0 .. Len(f[t])
  /\ DOMAIN g = DOMAIN f /\ g[t] = SubSeq(f[t], 1, m)
  /\ \A i \in DOMAIN f : i # t => g[i] = f[i]

LEMMA Prefix ==
  ASSUME NEW S, NEW s \in Seq(S), NEW m \in 0 .. Len(s)
  PROVE  /\ SubSeq(s, 1, m) \in Seq(S) /\ Len(SubSeq(s, 1, m)) = m
         /\ \A j \in 1 .. m : SubSeq(s, 1, m)[j] = s[j]
<1>1. Len(s) \in Nat /\ m \in Nat /\ m \in Int /\ 1 \in Int /\ m <= Len(s)
  BY LenProperties
<1>2. \A j \in 1 .. m : j \in 1 .. Len(s) /\ s[j] \in S /\ 1 + j - 1 = j
  BY <1>1, ElementOfSeq
<1>3. m - 1 + 1 = m /\ (IF 1 <= m THEN m - 1 + 1 ELSE 0) = m
  BY <1>1
<1>. DEFINE u == SubSeq(s, 1, m)
<1>4. u \in Seq(S) /\ Len(u) = m /\ \A j \in 1 .. m : u[j] = s[1 + j - 1]
  BY <1>1, <1>2, <1>3, SubSeqProperties
<1>. HIDE DEF u
<1>5. \A j \in 1 .. m : u[j] = s[j]
  BY <1>2, <1>4
<1>. QED
  BY <1>4, <1>5 DEF u

LEMMA CutUpTo ==
  ASSUME NEW f, IsContexts(f), NEW t, NEW m, NEW g, Cut(f, g, t, m)
  PROVE  UpTo(f, g, <<t, m + 1>>)
<1>. DEFINE c == f[t]
<1>1. c \in Seq(Kinds) /\ m \in 0 .. Len(c) /\ t \in Nat /\ Len(c) \in Nat
  BY LenProperties DEF Cut, IsContexts
<1>2. g[t] = SubSeq(c, 1, m)
  BY DEF Cut
<1>. HIDE DEF c
<1>3. g[t] \in Seq(Kinds) /\ Len(g[t]) = m /\ \A j \in 1 .. m : g[t][j] = c[j]
  BY <1>1, <1>2, Prefix
<1>4. DOMAIN g = DOMAIN f /\ t \in DOMAIN f
      /\ \A i \in DOMAIN f : i # t => g[i] = f[i]
  BY DEF Cut
<1>5. \A i \in DOMAIN f : i \in Nat /\ i <= t /\ f[i] \in Seq(Kinds) /\ Len(f[i]) \in Nat
  BY LenProperties DEF IsContexts, Cut
<1>6. ASSUME NEW i \in DOMAIN f
      PROVE  /\ g[i] \in Seq(Kinds) /\ Len(g[i]) <= Len(f[i])
             /\ \A j \in 1 .. Len(g[i]) : g[i][j] = f[i][j]
  <2>1. CASE i = t
    BY <1>1, <1>3, <2>1 DEF c
  <2>2. CASE i # t
    BY <1>4, <1>5, <2>2
  <2>. QED
    BY <2>1, <2>2
<1>7. ASSUME NEW i \in DOMAIN f, NEW j \in 1 .. Len(f[i])
      PROVE  Before(<<i, j>>, <<t, m + 1>>) <=> i \in DOMAIN g /\ j <= Len(g[i])
  <2>1. CASE i = t
    BY <1>1, <1>3, <1>4, <1>5, <2>1 DEF Before
  <2>2. CASE i # t
    BY <1>1, <1>4, <1>5, <2>2 DEF Before
  <2>. QED
    BY <2>1, <2>2
<1>. QED
  BY <1>4, <1>6, <1>7 DEF UpTo

\* Code goes on behind the m-th block, having taken n handlers from the chain.
LEMMA CutStep ==
  ASSUME IInv, Running, UNCHANGED <<stack, fp, save_xp, in_gc, saved, moves, emoves, status>>,
         NEW m \in 0 .. Len(ctx), ctx' = SubSeq(ctx, 1, m),
         ep' = ep - CountFrom(ctx, m + 1, {"for"}),
         NEW n \in 0 .. Len(xp), xp' = SubSeq(xp, n + 1, Len(xp)),
         \A k \in 1 .. Len(xp) : Before(Place(xp[k]), <<sp + 1, m + 1>>) <=> k > n
  PROVE  IInv'
<1>1. TypeOK /\ ctx \in Seq(Kinds) /\ UNCHANGED <<stack, saved>>
  BY DEF IInv, TypeOK
<1>2. Cut(Here, Here', sp + 1, m)
  BY <1>1, HereIs, HereInside DEF Cut
<1>. DEFINE f == Here
            g == Here'
            base == saved.ep
            t == sp + 1
            p == <<t, m + 1>>
<1>3. Coherent(f, xp, ep, base) /\ Cut(f, g, t, m) /\ m \in Nat /\ t \in Nat
      /\ f[t] = ctx /\ Len(ctx) \in Nat /\ p \in Nat \X Nat
  BY <1>1, <1>2, HereIs, Types DEF IInv
<1>4. \A k \in 1 .. Len(xp) : Before(Place(xp[k]), p) <=> k > n
  OBVIOUS
<1>. HIDE DEF f, g, base, t
<1>5. IsContexts(f) /\ IsFiniteSet(Fors(f)) /\ ep = base + Cardinality(Fors(f)) /\ base \in Nat
  BY <1>3, CoherentParts
<1>6. UpTo(f, g, p)
  BY <1>3, <1>5, CutUpTo
<1>. DEFINE low == Cardinality(Below(Fors(f), p))
            gone == CountFrom(ctx, m + 1, {"for"})
<1>7. low \in Nat /\ gone \in Nat /\ Cardinality(Fors(f)) = low + gone
  <2>1. t \in DOMAIN f /\ (\A i \in DOMAIN f : i <= t) /\ m \in 0 .. Len(f[t])
    BY <1>3 DEF Cut
  <2>2. /\ low \in Nat /\ CountFrom(f[t], m + 1, {"for"}) \in Nat
        /\ Cardinality(Fors(f)) = low + CountFrom(f[t], m + 1, {"for"})
    BY <1>5, <2>1, LevelCount
  <2>. QED
    BY <1>3, <2>2
<1>8. /\ Coherent(g, SubSeq(xp, n + 1, Len(xp)), base + low, base)
      /\ Len(SubSeq(xp, n + 1, Len(xp))) = Len(xp) - n
      /\ \A k \in 1 .. Len(xp) - n : SubSeq(xp, n + 1, Len(xp))[k] = xp[n + k]
  <2>. HIDE DEF p
  <2>. QED
    BY <1>3, <1>4, <1>6, CoherentUpTo
<1>. HIDE DEF low, gone
<1>9. ep' = base + low
  BY <1>5, <1>7 DEF gone
<1>10. Coherent(Here', xp', ep', saved.ep)
  BY <1>8, <1>9 DEF g, base
<1>11. ctx' \in Seq(Kinds)
  BY <1>1, Prefix
<1>12. Len(xp) \in Nat /\ n \in Nat
  BY <1>1, Types
<1>13. \A k \in 1 .. Len(xp') : n + k \in 1 .. Len(xp) /\ xp'[k] = xp[n + k]
  BY <1>8, <1>12
<1>14. Homed(xp') /\ (~ Grows => Unmoved(xp'))
  BY <1>13 DEF IInv, Homed, Unmoved
<1>. QED
  BY <1>10, <1>11, <1>14, Inside

\* The handlers lie below a point of the innermost function behind which no
\* try body is open.
LEMMA HandlersBelow ==
  ASSUME IInv, Running, NEW m \in 0 .. Len(ctx),
         \A j \in m + 1 .. Len(ctx) : ctx[j] # "try"
  PROVE  /\ \A k \in 1 .. Len(xp) : Before(Place(xp[k]), <<sp + 1, m + 1>>) <=> k > 0
         /\ xp = SubSeq(xp, 0 + 1, Len(xp))
<1>1. TypeOK /\ xp \in Seq(Handlers) /\ Len(ctx) \in Nat /\ m \in Nat
  BY Types DEF IInv
<1>2. ASSUME NEW k \in 1 .. Len(xp)  PROVE  Before(Place(xp[k]), <<sp + 1, m + 1>>)
  <2>1. Place(xp[k]) \in Open(Here, {"try"})
    BY CoherentParts DEF IInv, Describes, Tries
  <2>2. PICK i, j : Place(xp[k]) = <<i, j>>
    BY DEF Place
  <2>3. i \in DOMAIN Here /\ j \in 1 .. Len(Here[i]) /\ Here[i][j] = "try"
    BY <2>1, <2>2, OpenPairs
  <2>4. i \in Nat /\ i <= sp + 1 /\ sp + 1 \in Nat
    BY <1>1, <2>3, HereIs
  <2>5. CASE i = sp + 1
    BY <1>1, <2>2, <2>3, <2>5, HereIs DEF Before
  <2>6. CASE i # sp + 1
    BY <2>2, <2>4, <2>6 DEF Before
  <2>. QED
    BY <2>5, <2>6
<1>3. 0 + 1 = 1 /\ \A k \in 1 .. Len(xp) : k > 0
  BY <1>1
<1>4. xp = SubSeq(xp, 1, Len(xp))
  BY <1>1, SubSeqFull
<1>. QED
  BY <1>2, <1>3, <1>4

LEMMA LastBlock ==
  ASSUME TypeOK, NEW b, InBlock(b)
  PROVE  /\ Len(ctx) \in Nat /\ Len(ctx) >= 1 /\ ctx[Len(ctx)] = b
         /\ Len(ctx) - 1 \in 0 .. Len(ctx) /\ (Len(ctx) - 1) + 1 = Len(ctx)
         /\ Front(ctx) = SubSeq(ctx, 1, Len(ctx) - 1)
         /\ CountFrom(ctx, Len(ctx), {"for"}) = IF b = "for" THEN 1 ELSE 0
<1>1. ctx \in Seq(Kinds) /\ Len(ctx) \in Nat /\ ctx # << >> /\ ctx[Len(ctx)] = b
  BY Types DEF InBlock, Last
<1>2. Len(ctx) # 0
  BY <1>1, EmptySeq
<1>3. Len(ctx) >= 1 /\ Len(ctx) - 1 \in 0 .. Len(ctx) /\ (Len(ctx) - 1) + 1 = Len(ctx)
      /\ \A j : j \in Len(ctx) .. Len(ctx) <=> j = Len(ctx)
  BY <1>1, <1>2
<1>. DEFINE S == {j \in Len(ctx) .. Len(ctx) : ctx[j] \in {"for"}}
<1>4. S = IF b = "for" THEN {Len(ctx)} ELSE {}
  BY <1>1, <1>3
<1>5. Cardinality({Len(ctx)}) = 1 /\ Cardinality({}) = 0
  BY FS_EmptySet, FS_Singleton
<1>. HIDE DEF S
<1>6. Cardinality(S) = IF b = "for" THEN 1 ELSE 0
  BY <1>4, <1>5
<1>. QED
  BY <1>1, <1>3, <1>6 DEF CountFrom, S, Front

LEMMA LeaveLoopStep ==
  ASSUME IInv, NEW b \in Loops, LeaveLoop(b)  PROVE  IInv'
<1>1. TypeOK /\ Running /\ InBlock(b)
      /\ UNCHANGED <<stack, fp, xp, save_xp, in_gc, saved, moves, emoves, status>>
  BY DEF IInv, LeaveLoop
<1>. DEFINE m == Len(ctx) - 1
<1>2. /\ m \in 0 .. Len(ctx) /\ m + 1 = Len(ctx) /\ ctx[Len(ctx)] = b
      /\ ctx' = SubSeq(ctx, 1, m) /\ ep' = ep - CountFrom(ctx, m + 1, {"for"})
      /\ Len(ctx) \in Nat
  BY <1>1, LastBlock, CountOne DEF LeaveLoop
<1>3. Len(xp) \in Nat /\ 0 \in 0 .. Len(xp)
  BY <1>1, Types
<1>4. b # "try"
  BY DEF Loops
<1>. HIDE DEF m
<1>5. \A j \in m + 1 .. Len(ctx) : ctx[j] # "try"
  <2>1. \A j \in m + 1 .. Len(ctx) : j = Len(ctx)
    BY <1>2
  <2>. QED
    BY <1>2, <1>4, <2>1
<1>. QED
  BY <1>1, <1>2, <1>3, <1>5, HandlersBelow, CutStep

LEMMA LeaveCatchStep ==
  ASSUME IInv, LeaveCatch  PROVE  IInv'
<1>1. TypeOK /\ Running /\ InBlock("catch")
      /\ UNCHANGED <<stack, fp, ep, xp, save_xp, in_gc, saved, moves, emoves, status>>
  BY DEF IInv, LeaveCatch
<1>. DEFINE m == Len(ctx) - 1
<1>2. /\ m \in 0 .. Len(ctx) /\ m + 1 = Len(ctx) /\ ctx[Len(ctx)] = "catch"
      /\ ctx' = SubSeq(ctx, 1, m) /\ CountFrom(ctx, m + 1, {"for"}) = 0
      /\ Len(ctx) \in Nat
  BY <1>1, LastBlock DEF LeaveCatch
<1>3. Len(xp) \in Nat /\ 0 \in 0 .. Len(xp) /\ ep \in Nat
  BY <1>1, Types DEF TypeOK
<1>. HIDE DEF m
<1>4. ep' = ep - CountFrom(ctx, m + 1, {"for"})
  BY <1>1, <1>2, <1>3
<1>5. \A j \in m + 1 .. Len(ctx) : ctx[j] # "try"
  <2>1. \A j \in m + 1 .. Len(ctx) : j = Len(ctx)
    BY <1>2
  <2>. QED
    BY <1>2, <2>1
<1>. QED
  BY <1>1, <1>2, <1>3, <1>4, <1>5, HandlersBelow, CutStep

LEMMA JumpStep ==
  ASSUME Mild, IInv, NEW i \in 1 .. Len(ctx), NEW cut \in {i - 1, i}, Jump(i, cut)
  PROVE  IInv'
<1>1. TypeOK /\ Running
      /\ UNCHANGED <<stack, fp, xp, save_xp, in_gc, saved, moves, emoves, status>>
  BY DEF IInv, Jump
<1>2. Len(xp) \in Nat /\ 0 \in 0 .. Len(xp) /\ Len(ctx) \in Nat /\ cut \in 0 .. Len(ctx)
  BY <1>1, Types
<1>3. ctx' = SubSeq(ctx, 1, cut) /\ ep' = ep - CountFrom(ctx, cut + 1, {"for"})
  BY DEF Jump, CountersFrom
<1>. DEFINE S == {j \in i .. Len(ctx) : ctx[j] \in {"try"}}
<1>4. IsFiniteSet(S)
  <2>1. S \in SUBSET (i .. Len(ctx)) /\ i \in Int /\ Len(ctx) \in Int
    BY <1>2
  <2>. HIDE DEF S
  <2>2. IsFiniteSet(i .. Len(ctx))
    BY <2>1, FS_Interval
  <2>. QED
    BY <2>1, <2>2, FS_Subset
<1>5. ~ Cardinality(S) > 0
  BY DEF Jump, Allowed, Mild, CountFrom
<1>. HIDE DEF S
<1>6. S = {}
  BY <1>4, <1>5, FS_CardinalityType, FS_EmptySet
<1>7. \A j \in cut + 1 .. Len(ctx) : ctx[j] # "try"
  <2>1. \A j \in cut + 1 .. Len(ctx) : j \in i .. Len(ctx)
    BY <1>2
  <2>. QED
    BY <1>6, <2>1 DEF S
<1>. QED
  BY <1>1, <1>2, <1>3, <1>7, HandlersBelow, CutStep

\* The handler of the innermost block, if that is a try body, is the first.
LEMMA FirstHandler ==
  ASSUME IInv, Running, InBlock("try")
  PROVE  /\ 1 \in 1 .. Len(xp)
         /\ \A k \in 1 .. Len(xp) : Before(Place(xp[k]), <<sp + 1, Len(ctx)>>) <=> k > 1
<1>1. TypeOK /\ xp \in Seq(Handlers) /\ Len(ctx) \in Nat /\ Len(ctx) >= 1
      /\ ctx[Len(ctx)] = "try"
  BY LastBlock, Types DEF IInv
<1>. DEFINE f == Here
            t == sp + 1
            p == <<t, Len(ctx)>>
            T == Tries(f)
<1>2. /\ t \in DOMAIN f /\ \A i \in DOMAIN f : i \in Nat /\ i <= t
      /\ t \in Nat /\ f[t] = ctx
  BY <1>1, HereIs
<1>3. IsContexts(f) /\ Describes(xp, T)
  BY CoherentParts DEF IInv
<1>. HIDE DEF f, t
<1>4. p \in T
  BY <1>1, <1>2, OpenPairs DEF Tries
<1>5. T \subseteq Nat \X Nat
  BY <1>3, OpenType DEF Tries, IsContexts
<1>6. ASSUME NEW q \in T  PROVE  q = p \/ Before(q, p)
  <2>. DEFINE i == q[1]
              j == q[2]
  <2>1. q = <<i, j>> /\ i \in DOMAIN f /\ j \in 1 .. Len(f[i])
    BY OpenPairs DEF Tries
  <2>2. i \in Nat /\ j \in Nat
    BY <1>5
  <2>. HIDE DEF i, j
  <2>3. CASE i = t
    BY <1>1, <1>2, <2>1, <2>2, <2>3 DEF Before
  <2>4. CASE i # t
    BY <1>2, <2>1, <2>2, <2>4 DEF Before
  <2>. QED
    BY <2>3, <2>4
<1>. HIDE DEF T, p
<1>7. /\ 1 \in 1 .. Len(xp)
      /\ \A k \in 1 .. Len(xp) : Before(Place(xp[k]), p) <=> k > 1
  BY <1>1, <1>3, <1>4, <1>5, <1>6, FirstIs
<1>. QED
  BY <1>7 DEF p, t

LEMMA LeaveTryStep ==
  ASSUME IInv, LeaveTry  PROVE  IInv'
<1>1. TypeOK /\ Running /\ InBlock("try")
  BY DEF IInv, LeaveTry
<1>2. /\ 1 \in 1 .. Len(xp) /\ Len(xp) \in Nat
      /\ \A k \in 1 .. Len(xp) : Before(Place(xp[k]), <<sp + 1, Len(ctx)>>) <=> k > 1
  BY <1>1, FirstHandler, Types
<1>3. xp # << >>
  BY <1>1, <1>2, EmptySeq
<1>4. /\ UNCHANGED <<stack, fp, ep, save_xp, in_gc, saved, moves, emoves, status>>
      /\ xp' = SubSeq(xp, 1 + 1, Len(xp)) /\ ctx' = Front(ctx)
  BY <1>3 DEF LeaveTry, Restore
<1>. DEFINE m == Len(ctx) - 1
<1>5. /\ m \in 0 .. Len(ctx) /\ m + 1 = Len(ctx)
      /\ ctx' = SubSeq(ctx, 1, m) /\ CountFrom(ctx, m + 1, {"for"}) = 0
      /\ Len(ctx) \in Nat
  BY <1>1, <1>4, LastBlock
<1>6. ep \in Nat /\ 1 \in 0 .. Len(xp)
  BY <1>1, <1>2 DEF TypeOK
<1>. HIDE DEF m
<1>7. ep' = ep - CountFrom(ctx, m + 1, {"for"})
  BY <1>4, <1>5, <1>6
<1>8. \A k \in 1 .. Len(xp) : Before(Place(xp[k]), <<sp + 1, m + 1>>) <=> k > 1
  BY <1>2, <1>5
<1>. QED
  BY <1>1, <1>4, <1>5, <1>6, <1>7, <1>8, CutStep

---------------------------------------------------------------------------
\* Calls.

Cells == [is : {"ret", "stop", "fp", "locals"}, ctx : Seq(Kinds), ptr : Pointers]

LEMMA SameContexts ==
  ASSUME NEW s, NEW u, NEW lo \in Nat, NEW hi \in Nat, NEW c, \A i \in lo + 1 .. hi : u[i] = s[i]
  PROVE  Contexts(u, lo, hi, c) = Contexts(s, lo, hi, c)
<1>1. {m \in lo + 1 .. hi : s[m].is = "ret"} = {m \in lo + 1 .. hi : u[m].is = "ret"}
  OBVIOUS
<1>2. \A i \in {m \in lo + 1 .. hi : s[m].is = "ret"} : u[i].ctx = s[i].ctx
  OBVIOUS
<1>. QED
  BY <1>1, <1>2 DEF Contexts

LEMMA SameFromBelow ==
  ASSUME NEW s, NEW u, NEW hi \in Nat, NEW c, \A i \in 0 + 1 .. hi : u[i] = s[i]
  PROVE  Contexts(u, 0, hi, c) = Contexts(s, 0, hi, c)
<1>1. {m \in 0 + 1 .. hi : s[m].is = "ret"} = {m \in 0 + 1 .. hi : u[m].is = "ret"}
  OBVIOUS
<1>2. \A i \in {m \in 0 + 1 .. hi : s[m].is = "ret"} : u[i].ctx = s[i].ctx
  OBVIOUS
<1>. QED
  BY <1>1, <1>2 DEF Contexts

\* The stack with a frame pushed on it.
LEMMA Pushed ==
  ASSUME TypeOK, Layout, NEW ret \in Cells, ret.is \in {"ret", "stop"}, NEW outer,
         PushFrame(ret, outer), moves' = moves
  PROVE  /\ sp \in Nat /\ sp >= 1 /\ sp' = sp + 3 /\ stack' \in Seq(Cells)
         /\ \A i \in 1 .. sp : stack'[i] = stack[i]
         /\ stack'[sp + 1] = ret /\ stack'[sp + 2].is = "fp" /\ stack'[sp + 3].is = "locals"
         /\ \A i \in 1 .. sp + 3 : i \in 1 .. sp \/ i = sp + 1 \/ i = sp + 2 \/ i = sp + 3
         /\ fp' \in Pointers
         /\ Layout'
<1>. DEFINE u == <<ret, FpCell(fp), Locals>>
<1>1. stack \in Seq(Cells) /\ fp \in Pointers /\ sp \in Nat /\ sp >= 1 /\ moves \in Nat
  BY Types DEF TypeOK, Cells, Layout
<1>2. << >> \in Seq(Kinds)
  BY EmptySeq
<1>3. FpCell(fp) \in Cells /\ FpCell(fp).is = "fp" /\ FpCell(fp).ptr = fp
  BY <1>1, <1>2 DEF FpCell, Cells
<1>4. Locals \in Cells /\ Locals.is = "locals"
  BY <1>2 DEF Locals, Cells, Pointers
<1>5. u \in Seq(Cells) /\ Len(u) = 3 /\ u[1] = ret /\ u[2] = FpCell(fp) /\ u[3] = Locals
  BY <1>3, <1>4
<1>6. stack' = stack \o u /\ fp' = [cell |-> sp + 2, moves |-> moves]
  BY DEF PushFrame, Ptr
<1>. HIDE DEF u
<1>. DEFINE s == stack
<1>7. s \in Seq(Cells) /\ sp = Len(s)
  BY <1>1 DEF sp
<1>. HIDE DEF s
<1>8. /\ s \o u \in Seq(Cells) /\ Len(s \o u) = Len(s) + Len(u)
      /\ \A i \in 1 .. Len(s) + Len(u) :
           (s \o u)[i] = IF i <= Len(s) THEN s[i] ELSE u[i - Len(s)]
  BY <1>5, <1>7, ConcatProperties
<1>9. /\ stack' \in Seq(Cells) /\ Len(stack') = sp + 3
      /\ \A i \in 1 .. sp + 3 : stack'[i] = IF i <= sp THEN stack[i] ELSE u[i - sp]
  BY <1>5, <1>6, <1>7, <1>8 DEF s
<1>10. sp' = sp + 3
  BY <1>9 DEF sp
<1>11. \A i \in 1 .. sp : stack'[i] = stack[i]
  BY <1>1, <1>9
<1>12. stack'[sp + 1] = ret /\ stack'[sp + 2] = FpCell(fp) /\ stack'[sp + 3] = Locals
  <2>1. /\ sp + 1 - sp = 1 /\ sp + 2 - sp = 2 /\ sp + 3 - sp = 3
        /\ sp + 1 \in 1 .. sp + 3 /\ sp + 2 \in 1 .. sp + 3 /\ sp + 3 \in 1 .. sp + 3
    BY <1>1
  <2>. QED
    BY <1>1, <1>5, <1>9, <2>1
<1>13. \A i \in 1 .. sp + 3 : i \in 1 .. sp \/ i = sp + 1 \/ i = sp + 2 \/ i = sp + 3
  BY <1>1
<1>14. fp' \in Pointers
  BY <1>1, <1>6 DEF Pointers
<1>15. Layout'
  <2>1. stack'[1].is = "locals" /\ stack'[sp'].is = "locals" /\ sp' >= 1
    BY <1>1, <1>4, <1>10, <1>11, <1>12 DEF Layout
  <2>2. fp' = [cell |-> TopFp(sp'), moves |-> moves']
    BY <1>1, <1>6, <1>10 DEF TopFp
  <2>3. ASSUME NEW i \in 2 .. sp', stack'[i].is = "locals"
        PROVE  /\ i >= 4 /\ stack'[i - 3].is = "locals"
               /\ stack'[i - 2].is \in {"ret", "stop"} /\ stack'[i - 1].is = "fp"
               /\ stack'[i - 1].ptr = [cell |-> TopFp(i - 3), moves |-> moves]
    <3>1. i \in 2 .. sp \/ i = sp + 1 \/ i = sp + 2 \/ i = sp + 3
      BY <1>1, <1>10
    <3>2. i # sp + 1 /\ i # sp + 2
      BY <1>3, <1>12, <2>3
    <3>3. CASE i \in 2 .. sp
      <4>1. stack[i].is = "locals"
        BY <1>1, <1>11, <2>3, <3>3
      <4>2. /\ i >= 4 /\ stack[i - 3].is = "locals"
            /\ stack[i - 2].is \in {"ret", "stop"} /\ stack[i - 1].is = "fp"
            /\ stack[i - 1].ptr = [cell |-> TopFp(i - 3), moves |-> moves]
        BY <3>3, <4>1 DEF Layout
      <4>3. i - 3 \in 1 .. sp /\ i - 2 \in 1 .. sp /\ i - 1 \in 1 .. sp
        BY <1>1, <3>3, <4>2
      <4>. QED
        BY <1>11, <4>2, <4>3
    <3>4. CASE i = sp + 3
      <4>1. i - 3 = sp /\ i - 2 = sp + 1 /\ i - 1 = sp + 2 /\ i >= 4
        BY <1>1, <3>4
      <4>2. stack'[sp].is = "locals" /\ fp = [cell |-> TopFp(sp), moves |-> moves]
        BY <1>1, <1>11 DEF Layout
      <4>. QED
        BY <1>3, <1>12, <4>1, <4>2
    <3>. QED
      BY <3>1, <3>2, <3>3, <3>4
  <2>. QED
    BY <2>1, <2>2, <2>3 DEF Layout
<1>. QED
  BY <1>1, <1>3, <1>4, <1>9, <1>10, <1>11, <1>12, <1>13, <1>14, <1>15

LEMMA CallStep ==
  ASSUME Mild, IInv, NEW outer, Call(outer)  PROVE  IInv'
<1>1. TypeOK /\ Running /\ Layout /\ Interrupted /\ Homed(xp)
      /\ Coherent(Here, xp, ep, saved.ep)
  BY DEF IInv, Call
<1>2. /\ UNCHANGED <<ep, xp, save_xp, in_gc, saved, moves, emoves, status>>
      /\ PushFrame(RetCell(ctx), outer) /\ outer = << >>
  BY DEF Call, Allowed, Mild
<1>3. /\ sp \in Nat /\ sp >= 1 /\ saved.sp \in Nat /\ ctx \in Seq(Kinds)
  BY <1>1, Types DEF Layout
<1>. DEFINE ret == RetCell(ctx)
<1>4. ret \in Cells /\ ret.is = "ret" /\ ret.ctx = ctx
  BY <1>3 DEF RetCell, Cells, Pointers
<1>5. ret.is \in {"ret", "stop"} /\ PushFrame(ret, outer) /\ moves' = moves
  BY <1>2, <1>4
<1>. HIDE DEF ret
<1>6. /\ sp' = sp + 3 /\ stack' \in Seq(Cells)
      /\ \A i \in 1 .. sp : stack'[i] = stack[i]
      /\ stack'[sp + 1] = ret /\ stack'[sp + 2].is = "fp" /\ stack'[sp + 3].is = "locals"
      /\ \A i \in 1 .. sp + 3 : i \in 1 .. sp \/ i = sp + 1 \/ i = sp + 2 \/ i = sp + 3
      /\ fp' \in Pointers /\ Layout'
  BY <1>1, <1>4, <1>5, Pushed
<1>7. ctx' = <<"function">> /\ ctx' \in Seq(Kinds)
  BY <1>2 DEF PushFrame, Kinds
<1>8. TypeOK'
  BY <1>1, <1>2, <1>6, <1>7 DEF TypeOK, Cells
<1>9. saved.sp <= sp
  <2>1. saved = Nothing => saved.sp = 0
    BY DEF Nothing
  <2>. QED
    BY <1>1, <1>3, <2>1 DEF Interrupted
<1>10. Called(Here, Here', sp + 4)
  <2>1. Here' = Contexts(stack', saved.sp, sp + 3, ctx')
    BY <1>2, <1>6 DEF Here
  <2>2. /\ DOMAIN Here' = {m \in saved.sp + 1 .. sp + 3 : stack'[m].is = "ret"} \cup {sp + 3 + 1}
        /\ Here'[sp + 3 + 1] = ctx'
        /\ \A i \in DOMAIN Here' : i # sp + 3 + 1 => Here'[i] = stack'[i].ctx
    BY <2>1 DEF Contexts
  <2>3. /\ DOMAIN Here = {m \in saved.sp + 1 .. sp : stack[m].is = "ret"} \cup {sp + 1}
        /\ Here[sp + 1] = ctx
        /\ \A i \in DOMAIN Here : i # sp + 1 => Here[i] = stack[i].ctx
        /\ \A i \in DOMAIN Here : i \in Nat /\ i <= sp + 1
    BY <1>1, HereIs
  <2>4. \A m \in 1 .. sp + 3 : stack'[m].is = "ret" <=> (m \in 1 .. sp /\ stack[m].is = "ret") \/ m = sp + 1
    BY <1>3, <1>4, <1>6
  <2>5. \A m : m \in saved.sp + 1 .. sp + 3 <=> m \in 1 .. sp + 3 /\ m >= saved.sp + 1
    BY <1>3
  <2>6. \A m : m \in saved.sp + 1 .. sp <=> m \in 1 .. sp /\ m >= saved.sp + 1
    BY <1>3
  <2>7. sp + 1 \in 1 .. sp + 3 /\ sp + 1 >= saved.sp + 1 /\ sp + 3 + 1 = sp + 4 /\ sp + 4 > 2
        /\ \A m \in 1 .. sp : m \in 1 .. sp + 3
    BY <1>3, <1>9
  <2>8. DOMAIN Here' = DOMAIN Here \cup {sp + 4}
    BY <2>2, <2>3, <2>4, <2>5, <2>6, <2>7
  <2>9. \A i \in DOMAIN Here : i < sp + 4 /\ i # sp + 4
    BY <1>3, <2>3
  <2>10. \A i \in DOMAIN Here : Here'[i] = Here[i]
    <3>. TAKE i \in DOMAIN Here
    <3>1. Here'[i] = stack'[i].ctx
      BY <2>2, <2>7, <2>8, <2>9
    <3>2. CASE i = sp + 1
      BY <1>4, <1>6, <2>3, <3>1, <3>2
    <3>3. CASE i # sp + 1
      BY <1>6, <2>3, <2>6, <3>1, <3>3
    <3>. QED
      BY <3>2, <3>3
  <2>11. Here'[sp + 4] = <<"function">> /\ sp + 4 \in Nat
    BY <1>3, <1>7, <2>2, <2>7
  <2>. QED
    BY <2>7, <2>8, <2>9, <2>10, <2>11 DEF Called
<1>11. Coherent(Here, xp, ep, saved.ep)'
  <2>. DEFINE f == Here
              g == Here'
              t == sp + 4
              base == saved.ep
  <2>1. Coherent(f, xp, ep, base) /\ Called(f, g, t)
    BY <1>1, <1>10
  <2>. HIDE DEF f, g, t, base
  <2>2. Coherent(g, xp, ep, base)
    BY <2>1, CoherentCalled
  <2>. QED
    BY <1>2, <2>2 DEF g, base
<1>12. ASSUME NEW i \in 1 .. sp  PROVE  i \in 1 .. sp' /\ stack'[i].is = stack[i].is
  BY <1>3, <1>6
<1>13. Homed(xp)'
  BY <1>1, <1>2, <1>12 DEF Homed
<1>14. Interrupted'
  <2>1. CASE in_gc
    <3>1. /\ saved.sp >= 1 /\ sp >= saved.sp + 3
          /\ stack[saved.sp].is = "locals" /\ stack[saved.sp + 1].is = "stop"
          /\ stack[saved.sp + 2].is = "fp" /\ stack[saved.sp + 3].is = "locals"
          /\ \A i \in 1 .. sp : stack[i].is = "stop" => i = saved.sp + 1
          /\ saved.fp = TopFp(saved.sp)
          /\ Coherent(Contexts(stack, 0, saved.sp, saved.ctx), save_xp, saved.ep, 0)
          /\ Homed(save_xp)
      BY <1>1, <2>1 DEF Interrupted
    <3>2. /\ saved.sp \in 1 .. sp /\ saved.sp + 1 \in 1 .. sp
          /\ saved.sp + 2 \in 1 .. sp /\ saved.sp + 3 \in 1 .. sp
          /\ sp' >= saved.sp + 3
      <4>1. sp' = sp + 3 /\ saved.sp >= 1 /\ sp >= saved.sp + 3
        BY <1>6, <3>1
      <4>. QED
        BY <1>3, <4>1
    <3>3. Homed(save_xp)'
      BY <1>2, <1>12, <3>1 DEF Homed
    <3>4. Contexts(stack', 0, saved.sp, saved.ctx) = Contexts(stack, 0, saved.sp, saved.ctx)
      <4>0. \A i \in 0 + 1 .. saved.sp : i \in 1 .. sp
        BY <1>3, <3>1
      <4>1. \A i \in 0 + 1 .. saved.sp : stack'[i] = stack[i]
        BY <1>6, <4>0
      <4>. DEFINE s == stack
                  u == stack'
                  hi == saved.sp
                  c == saved.ctx
      <4>2. \A i \in 0 + 1 .. hi : u[i] = s[i]
        BY <4>1
      <4>3. hi \in Nat /\ 0 \in Nat
        BY <1>3
      <4>. HIDE DEF s, u, hi, c
      <4>4. Contexts(u, 0, hi, c) = Contexts(s, 0, hi, c)
        BY <4>2, <4>3, SameContexts
      <4>. QED
        BY <4>4 DEF s, u, hi, c
    <3>5. \A i \in 1 .. sp' : stack'[i].is = "stop" => i = saved.sp + 1
      BY <1>4, <1>6, <3>1
    <3>. QED
      BY <1>2, <1>12, <2>1, <3>1, <3>2, <3>3, <3>4, <3>5 DEF Interrupted
  <2>2. CASE ~ in_gc
    BY <1>1, <1>2, <1>4, <1>6, <2>2 DEF Interrupted
  <2>. QED
    BY <2>1, <2>2
<1>15. ~ Grows => Unmoved(xp)' /\ Unmoved(save_xp)'
  BY <1>1, <1>2 DEF IInv, Unmoved, Good
<1>. QED
  BY <1>1, <1>2, <1>6, <1>8, <1>11, <1>13, <1>14, <1>15 DEF IInv, Running, Grows

LEMMA StartDestructorStep ==
  ASSUME IInv, StartDestructor  PROVE  IInv'
<1>1. TypeOK /\ Running /\ Layout /\ Interrupted /\ Homed(xp) /\ ~ in_gc
      /\ Coherent(Here, xp, ep, saved.ep)
  BY DEF IInv, StartDestructor
<1>2. /\ UNCHANGED <<ep, moves, emoves, status>> /\ in_gc' = TRUE
      /\ PushFrame([RetCell(<< >>) EXCEPT !.is = "stop"], << >>)
      /\ save_xp' = xp /\ xp' = << >>
      /\ saved' = [ctx |-> ctx, fp |-> fp.cell, sp |-> sp, ep |-> ep]
  BY DEF StartDestructor
<1>3. /\ sp \in Nat /\ sp >= 1 /\ ctx \in Seq(Kinds) /\ ep \in Nat /\ fp \in Pointers
      /\ xp \in Seq(Handlers)
  BY <1>1, Types DEF Layout, TypeOK
<1>. DEFINE ret == [RetCell(<< >>) EXCEPT !.is = "stop"]
<1>4. ret \in Cells /\ ret.is = "stop"
  <2>1. << >> \in Seq(Kinds)
    BY EmptySeq
  <2>. QED
    BY <2>1 DEF RetCell, Cells, Pointers
<1>. DEFINE outer == << >>
<1>5. ret.is \in {"ret", "stop"} /\ PushFrame(ret, outer) /\ moves' = moves
  BY <1>2, <1>4
<1>. HIDE DEF ret, outer
<1>6. /\ sp' = sp + 3 /\ stack' \in Seq(Cells)
      /\ \A i \in 1 .. sp : stack'[i] = stack[i]
      /\ stack'[sp + 1] = ret /\ stack'[sp + 2].is = "fp" /\ stack'[sp + 3].is = "locals"
      /\ \A i \in 1 .. sp + 3 : i \in 1 .. sp \/ i = sp + 1 \/ i = sp + 2 \/ i = sp + 3
      /\ fp' \in Pointers /\ Layout'
  BY <1>1, <1>4, <1>5, Pushed
<1>7. ctx' = <<"function">> /\ ctx' \in Seq(Kinds)
  BY <1>2 DEF PushFrame, Kinds
<1>8. saved'.sp = sp /\ saved'.ep = ep /\ saved'.ctx = ctx /\ saved'.fp = fp.cell
      /\ saved' \in [ctx : Seq(Kinds), fp : Nat, sp : Nat, ep : Int]
  BY <1>2, <1>3 DEF Pointers
<1>9. TypeOK'
  <2>1. xp' \in Seq(Handlers)
    BY <1>2, EmptySeq
  <2>. QED
    BY <1>1, <1>2, <1>3, <1>6, <1>7, <1>8, <2>1 DEF TypeOK, Cells
<1>10. saved.sp = 0 /\ saved.ep = 0 /\ \A i \in 1 .. sp : stack[i].is # "stop"
  BY <1>1 DEF Interrupted, Nothing
<1>11. /\ DOMAIN Here' = {sp + 4} /\ Here'[sp + 4] = <<"function">>
  <2>1. Here' = Contexts(stack', sp, sp + 3, ctx')
    BY <1>6, <1>8 DEF Here
  <2>2. \A m \in sp + 1 .. sp + 3 : stack'[m].is # "ret"
    <3>. TAKE m \in sp + 1 .. sp + 3
    <3>1. m = sp + 1 \/ m = sp + 2 \/ m = sp + 3
      BY <1>3
    <3>. QED
      BY <1>4, <1>6, <3>1
  <2>3. DOMAIN Here' = {sp + 3 + 1} /\ Here'[sp + 3 + 1] = ctx'
    BY <2>1, <2>2 DEF Contexts
  <2>4. sp + 3 + 1 = sp + 4
    BY <1>3
  <2>. QED
    BY <1>7, <2>3, <2>4
<1>12. Coherent(Here, xp, ep, saved.ep)'
  <2>. DEFINE g == Here'
              e == ep
              t == sp + 4
  <2>1. t \in Nat /\ t > 2 /\ DOMAIN g = {t} /\ g[t] = <<"function">> /\ e \in Nat
    BY <1>3, <1>11
  <2>. HIDE DEF g, e, t
  <2>2. Len(g[t]) = 1 /\ g[t][1] = "function" /\ g[t] \in Seq(Kinds)
    BY <2>1 DEF Kinds
  <2>3. IsContexts(g) /\ ProperContexts(g)
        /\ \A i \in DOMAIN g : \A j \in 1 .. Len(g[i]) : g[i][j] \notin {"try", "for"}
    <3>1. ASSUME NEW i \in DOMAIN g, NEW j \in 1 .. Len(g[i])  PROVE  i = t /\ j = 1
      <4>1. i = t
        BY <2>1
      <4>2. j \in 1 .. 1
        BY <2>2, <4>1
      <4>. QED
        BY <4>1, <4>2
    <3>2. \A i \in DOMAIN g : \A j \in 1 .. Len(g[i]) : g[i][j] = "function" /\ i > 2
      BY <2>1, <2>2, <3>1
    <3>. QED
      BY <2>1, <2>2, <3>2 DEF IsContexts, ProperContexts
  <2>4. Coherent(g, << >>, e, e)
    BY <2>1, <2>3, CoherentNew
  <2>. QED
    BY <1>2, <1>8, <2>4 DEF g, e
<1>13. ASSUME NEW i \in 1 .. sp  PROVE  i \in 1 .. sp' /\ stack'[i].is = stack[i].is
  BY <1>3, <1>6
<1>14. Homed(xp)' /\ Unmoved(xp)'
  BY <1>2, EmptySeq DEF Homed, Unmoved
<1>15. Homed(save_xp)'
  BY <1>1, <1>2, <1>13 DEF Homed
<1>16. Contexts(stack', 0, sp, ctx) = Here
  <2>. DEFINE s == stack
              u == stack'
              hi == sp
              c == ctx
  <2>1. \A i \in 0 + 1 .. hi : u[i] = s[i]
    BY <1>3, <1>6
  <2>2. hi \in Nat /\ 0 \in Nat
    BY <1>3
  <2>. HIDE DEF s, u, hi, c
  <2>3. Contexts(u, 0, hi, c) = Contexts(s, 0, hi, c)
    BY <2>1, <2>2, SameContexts
  <2>. QED
    BY <1>10, <2>3 DEF s, u, hi, c, Here
<1>17. Interrupted'
  <2>1. Coherent(Contexts(stack, 0, saved.sp, saved.ctx), save_xp, saved.ep, 0)'
    BY <1>1, <1>2, <1>8, <1>10, <1>16
  <2>2. /\ saved'.sp >= 1 /\ sp' >= saved'.sp + 3
        /\ stack'[saved'.sp].is = "locals" /\ stack'[saved'.sp + 1].is = "stop"
        /\ stack'[saved'.sp + 2].is = "fp" /\ stack'[saved'.sp + 3].is = "locals"
    <3>1. sp \in 1 .. sp /\ stack[sp].is = "locals"
      BY <1>1, <1>3 DEF Layout
    <3>. QED
      BY <1>3, <1>4, <1>6, <1>8, <1>13, <3>1
  <2>3. \A i \in 1 .. sp' : stack'[i].is = "stop" => i = saved'.sp + 1
    BY <1>6, <1>8, <1>10
  <2>4. saved'.fp = TopFp(saved'.sp)
    BY <1>1, <1>8 DEF Layout
  <2>. QED
    BY <1>2, <1>15, <2>1, <2>2, <2>3, <2>4 DEF Interrupted
<1>18. ~ Grows => Unmoved(save_xp)'
  BY <1>1, <1>2 DEF IInv, Unmoved, Good
<1>. QED
  BY <1>1, <1>2, <1>6, <1>9, <1>12, <1>14, <1>17, <1>18 DEF IInv, Running, Grows

---------------------------------------------------------------------------
\* Returns and exceptions: the stack is cut behind the variables in cell n.

Popped(n) ==
  /\ n \in 1 .. sp /\ stack[n].is = "locals"
  /\ stack' \in Seq(Cells) /\ Len(stack') = n
  /\ \A i \in 1 .. n : stack'[i] = stack[i]
  /\ fp' = [cell |-> TopFp(n), moves |-> moves] /\ moves' = moves

LEMMA PoppedLayout ==
  ASSUME TypeOK, Layout, NEW n, Popped(n)
  PROVE  n \in Nat /\ sp' = n /\ Layout' /\ fp' \in Pointers
<1>1. sp \in Nat /\ moves \in Nat
  BY Types DEF TypeOK
<1>2. /\ n \in Nat /\ n >= 1 /\ n <= sp /\ stack[n].is = "locals" /\ sp' = n
      /\ \A i \in 1 .. n : stack'[i] = stack[i]
      /\ fp' = [cell |-> TopFp(n), moves |-> moves] /\ moves' = moves
  BY <1>1 DEF Popped, sp
<1>3. TopFp(n) \in Nat
  BY <1>2 DEF TopFp
<1>4. fp' \in Pointers
  BY <1>1, <1>2, <1>3 DEF Pointers
<1>5. ASSUME NEW i \in 2 .. n, stack'[i].is = "locals"
      PROVE  /\ i >= 4 /\ stack'[i - 3].is = "locals"
             /\ stack'[i - 2].is \in {"ret", "stop"} /\ stack'[i - 1].is = "fp"
             /\ stack'[i - 1].ptr = [cell |-> TopFp(i - 3), moves |-> moves]
  <2>1. i \in 2 .. sp /\ i \in 1 .. n
    BY <1>1, <1>2
  <2>2. /\ i >= 4 /\ stack[i - 3].is = "locals"
        /\ stack[i - 2].is \in {"ret", "stop"} /\ stack[i - 1].is = "fp"
        /\ stack[i - 1].ptr = [cell |-> TopFp(i - 3), moves |-> moves]
    BY <1>2, <1>5, <2>1 DEF Layout
  <2>3. i - 3 \in 1 .. n /\ i - 2 \in 1 .. n /\ i - 1 \in 1 .. n
    BY <1>2, <2>2
  <2>. QED
    BY <1>2, <2>2, <2>3
<1>6. stack'[1].is = "locals" /\ stack'[n].is = "locals"
  BY <1>1, <1>2 DEF Layout
<1>7. Layout'
  BY <1>2, <1>5, <1>6 DEF Layout
<1>. QED
  BY <1>2, <1>4, <1>7

\* The handlers of code that runs between lo and hi are for frames there.
LEMMA ChainWithin ==
  ASSUME NEW s, NEW lo \in Nat, NEW hi \in Nat, lo <= hi, NEW c, NEW x, NEW e, NEW base,
         Coherent(Contexts(s, lo, hi, c), x, e, base)
  PROVE  \A k \in 1 .. Len(x) :
           /\ x[k].sp.cell \in lo .. hi
           /\ x[k].sp.cell = hi \/ (x[k].sp.cell + 1 \in lo + 1 .. hi
                                      /\ s[x[k].sp.cell + 1].is = "ret")
<1>. DEFINE f == Contexts(s, lo, hi, c)
<1>1. DOMAIN f = {m \in lo + 1 .. hi : s[m].is = "ret"} \cup {hi + 1}
  BY DEF Contexts
<1>. HIDE DEF f
<1>2. x \in Seq(Handlers) /\ Describes(x, Tries(f))
  BY CoherentParts DEF f
<1>3. ASSUME NEW k \in 1 .. Len(x)
      PROVE  /\ x[k].sp.cell \in lo .. hi
             /\ x[k].sp.cell = hi \/ (x[k].sp.cell + 1 \in lo + 1 .. hi
                                        /\ s[x[k].sp.cell + 1].is = "ret")
  <2>. DEFINE h == x[k]
  <2>1. h \in Handlers /\ Place(h) \in Open(f, {"try"})
    BY <1>2, ElementOfSeq DEF Describes, Tries
  <2>. HIDE DEF h
  <2>2. Place(h) = <<h.sp.cell + 1, Len(h.ctx)>> /\ h.sp.cell \in Nat
    BY <2>1, PlaceType DEF Place
  <2>3. h.sp.cell + 1 \in DOMAIN f
    BY <2>1, <2>2, OpenPairs
  <2>4. h.sp.cell \in lo .. hi
        /\ (h.sp.cell = hi \/ (h.sp.cell + 1 \in lo + 1 .. hi /\ s[h.sp.cell + 1].is = "ret"))
    BY <1>1, <2>2, <2>3
  <2>. QED
    BY <2>4 DEF h
<1>. QED
  BY <1>3

\* When code that was interrupted by a destructor still is.
LEMMA PoppedInterrupted ==
  ASSUME TypeOK, Interrupted, NEW n, Popped(n), UNCHANGED <<save_xp, in_gc, saved>>,
         in_gc => n >= saved.sp + 3
  PROVE  Interrupted'
<1>1. sp \in Nat /\ saved.sp \in Nat
  BY Types
<1>2. n \in Nat /\ n <= sp /\ sp' = n /\ \A i \in 1 .. n : stack'[i] = stack[i]
  BY <1>1 DEF Popped, sp
<1>3. CASE ~ in_gc
  <2>1. /\ saved = Nothing /\ save_xp = << >>
        /\ \A i \in 1 .. sp : stack[i].is # "stop"
    BY <1>3 DEF Interrupted
  <2>2. \A i \in 1 .. sp' : stack'[i].is # "stop"
    BY <1>1, <1>2, <2>1
  <2>. QED
    BY <1>3, <2>1, <2>2 DEF Interrupted
<1>4. CASE in_gc
  <2>1. /\ saved.sp >= 1
        /\ stack[saved.sp].is = "locals" /\ stack[saved.sp + 1].is = "stop"
        /\ stack[saved.sp + 2].is = "fp" /\ stack[saved.sp + 3].is = "locals"
        /\ \A i \in 1 .. sp : stack[i].is = "stop" => i = saved.sp + 1
        /\ saved.fp = TopFp(saved.sp)
        /\ Coherent(Contexts(stack, 0, saved.sp, saved.ctx), save_xp, saved.ep, 0)
        /\ Homed(save_xp)
    BY <1>4 DEF Interrupted
  <2>2. n >= saved.sp + 3 /\ saved.sp >= 1
    BY <1>4, <2>1
  <2>3. /\ saved.sp \in 1 .. n /\ saved.sp + 1 \in 1 .. n
        /\ saved.sp + 2 \in 1 .. n /\ saved.sp + 3 \in 1 .. n
        /\ \A i \in 1 .. saved.sp : i \in 1 .. n
    BY <1>1, <1>2, <2>2
  <2>4. /\ stack'[saved.sp].is = "locals" /\ stack'[saved.sp + 1].is = "stop"
        /\ stack'[saved.sp + 2].is = "fp" /\ stack'[saved.sp + 3].is = "locals"
    BY <1>2, <2>1, <2>3
  <2>5. \A i \in 1 .. sp' : stack'[i].is = "stop" => i = saved.sp + 1
    BY <1>1, <1>2, <2>1
  <2>. DEFINE s == stack
              u == stack'
              hi == saved.sp
              c == saved.ctx
              e == saved.ep
  <2>6. /\ hi \in Nat /\ 0 \in Nat /\ 0 <= hi /\ \A i \in 0 + 1 .. hi : u[i] = s[i]
        /\ Coherent(Contexts(s, 0, hi, c), save_xp, e, 0)
    BY <1>1, <1>2, <2>1, <2>3
  <2>. HIDE DEF s, u, hi, c, e
  <2>7. Contexts(u, 0, hi, c) = Contexts(s, 0, hi, c)
    BY <2>6, SameContexts
  <2>8. \A k \in 1 .. Len(save_xp) : save_xp[k].sp.cell \in 0 .. hi
    BY <2>6, ChainWithin
  <2>9. Coherent(Contexts(stack, 0, saved.sp, saved.ctx), save_xp, saved.ep, 0)'
    BY <2>6, <2>7 DEF s, u, hi, c, e
  <2>10. Homed(save_xp)'
    <3>. SUFFICES ASSUME NEW k \in 1 .. Len(save_xp)
         PROVE  /\ save_xp[k].sp.cell \in 1 .. sp'
                /\ stack'[save_xp[k].sp.cell].is = "locals"
                /\ save_xp[k].fp.cell = TopFp(save_xp[k].sp.cell)
      BY DEF Homed
    <3>1. save_xp[k].sp.cell \in 0 .. saved.sp
      BY <2>8 DEF hi
    <3>2. /\ save_xp[k].sp.cell \in 1 .. sp
          /\ stack[save_xp[k].sp.cell].is = "locals"
          /\ save_xp[k].fp.cell = TopFp(save_xp[k].sp.cell)
      BY <2>1 DEF Homed
    <3>3. save_xp[k].sp.cell \in 1 .. n
      BY <1>1, <1>2, <2>2, <3>1, <3>2
    <3>. QED
      BY <1>2, <3>2, <3>3
  <2>. QED
    BY <1>2, <1>4, <2>1, <2>2, <2>4, <2>5, <2>9, <2>10 DEF Interrupted
<1>. QED
  BY <1>3, <1>4

Sub(y, x) == \A k \in 1 .. Len(y) : \E l \in 1 .. Len(x) : y[k] = x[l]

\* Handlers that are left have their frames where they were.
LEMMA PoppedHomed ==
  ASSUME TypeOK, NEW n, Popped(n), NEW x, Homed(x), Sub(xp', x), NEW lo \in Nat, lo <= n,
         NEW c, NEW e, NEW base, Coherent(Contexts(stack', lo, n, c), xp', e, base)
  PROVE  Homed(xp)'
<1>1. sp \in Nat
  BY Types
<1>2. n \in Nat /\ n <= sp /\ sp' = n /\ \A i \in 1 .. n : stack'[i] = stack[i]
  BY <1>1 DEF Popped, sp
<1>. DEFINE u == stack'
            y == xp'
<1>3. Coherent(Contexts(u, lo, n, c), y, e, base)
  OBVIOUS
<1>. HIDE DEF u, y
<1>4. \A k \in 1 .. Len(y) : y[k].sp.cell \in lo .. n
  BY <1>2, <1>3, ChainWithin
<1>. SUFFICES ASSUME NEW k \in 1 .. Len(y)
     PROVE  /\ y[k].sp.cell \in 1 .. sp'
            /\ stack'[y[k].sp.cell].is = "locals"
            /\ y[k].fp.cell = TopFp(y[k].sp.cell)
  BY DEF Homed, y
<1>5. PICK l \in 1 .. Len(x) : y[k] = x[l]
  BY DEF Sub, y
<1>6. /\ y[k].sp.cell \in 1 .. sp /\ stack[y[k].sp.cell].is = "locals"
      /\ y[k].fp.cell = TopFp(y[k].sp.cell)
  BY <1>5 DEF Homed
<1>7. y[k].sp.cell \in 1 .. n
  BY <1>1, <1>2, <1>4, <1>6
<1>. QED
  BY <1>2, <1>6, <1>7

LEMMA PoppedStep ==
  ASSUME IInv, Running, NEW n, Popped(n), n >= saved.sp, in_gc => n >= saved.sp + 3,
         UNCHANGED <<save_xp, in_gc, saved, emoves, status>>,
         ctx' \in Seq(Kinds), Sub(xp', xp),
         Coherent(Contexts(stack', saved.sp, n, ctx'), xp', ep', saved.ep)
  PROVE  IInv'
<1>1. TypeOK /\ Layout /\ Interrupted /\ Homed(xp) /\ saved.sp \in Nat
  BY Types DEF IInv
<1>2. n \in Nat /\ sp' = n /\ Layout' /\ fp' \in Pointers
  BY <1>1, PoppedLayout
<1>3. Interrupted'
  BY <1>1, PoppedInterrupted
<1>. DEFINE lo == saved.sp
            c == ctx'
            e == ep'
            base == saved.ep
<1>4. lo \in Nat /\ lo <= n /\ Coherent(Contexts(stack', lo, n, c), xp', e, base)
  BY <1>1, <1>2
<1>. HIDE DEF lo, c, e, base
<1>5. Homed(xp)'
  BY <1>1, <1>4, PoppedHomed
<1>6. xp' \in Seq(Handlers) /\ e \in Nat
  BY <1>4, CoherentParts
<1>7. stack' \in Seq(Cells) /\ moves' = moves
  BY DEF Popped
<1>8. TypeOK'
  BY <1>1, <1>2, <1>6, <1>7 DEF TypeOK, Cells, e
<1>9. Coherent(Here, xp, ep, saved.ep)'
  BY <1>2 DEF Here
<1>10. ~ Grows => Unmoved(xp)' /\ Unmoved(save_xp)'
  BY <1>7 DEF IInv, Unmoved, Good, Sub
<1>. QED
  BY <1>2, <1>3, <1>5, <1>8, <1>9, <1>10 DEF IInv, Running, Grows

\* The contexts that are left when the stack is cut and the innermost of them
\* goes back to its first m blocks.
LEMMA LevelUpTo ==
  ASSUME NEW s, NEW u, NEW lo \in Nat, NEW hi \in Nat, NEW c, NEW n \in lo .. hi,
         \A i \in lo + 1 .. n : u[i] = s[i],
         NEW f, f = Contexts(s, lo, hi, c), IsContexts(f), n + 1 \in DOMAIN f,
         NEW m \in 0 .. Len(f[n + 1])
  PROVE  UpTo(f, Contexts(u, lo, n, SubSeq(f[n + 1], 1, m)), <<n + 1, m + 1>>)
<1>. DEFINE t == n + 1
            b == f[t]
            d == SubSeq(b, 1, m)
            g == Contexts(u, lo, n, d)
<1>1. t \in Nat /\ b \in Seq(Kinds) /\ Len(b) \in Nat /\ m \in 0 .. Len(b) /\ m \in Nat
  BY LenProperties DEF IsContexts
<1>2. /\ DOMAIN f = {i \in lo + 1 .. hi : s[i].is = "ret"} \cup {hi + 1}
      /\ \A i \in DOMAIN f : i # hi + 1 => f[i] = s[i].ctx
  BY DEF Contexts
<1>3. /\ DOMAIN g = {i \in lo + 1 .. n : u[i].is = "ret"} \cup {n + 1}
      /\ g[n + 1] = d
      /\ \A i \in DOMAIN g : i # n + 1 => g[i] = u[i].ctx
  BY DEF Contexts
<1>. HIDE DEF g, b
<1>4. d \in Seq(Kinds) /\ Len(d) = m /\ \A j \in 1 .. m : d[j] = b[j]
  BY <1>1, Prefix
<1>. HIDE DEF d
<1>5. n \in Nat /\ n <= hi /\ \A i : i \in lo + 1 .. n => i \in lo + 1 .. hi /\ i # hi + 1 /\ i # n + 1
  OBVIOUS
<1>6. \A i \in DOMAIN g : i # t => i \in lo + 1 .. n /\ i \in DOMAIN f /\ g[i] = f[i]
  BY <1>2, <1>3, <1>5
<1>7. \A i \in DOMAIN f : f[i] \in Seq(Kinds) /\ Len(f[i]) \in Nat /\ i \in Nat
  BY LenProperties DEF IsContexts
<1>8. \A i \in DOMAIN f : i < t => i \in DOMAIN g
  BY <1>2, <1>3, <1>5, <1>7
<1>9. \A i \in DOMAIN g : i <= t
  BY <1>3, <1>5
<1>10. DOMAIN g \subseteq DOMAIN f
  BY <1>6
<1>11. ASSUME NEW i \in DOMAIN g
       PROVE  /\ g[i] \in Seq(Kinds) /\ Len(g[i]) <= Len(f[i])
              /\ \A j \in 1 .. Len(g[i]) : g[i][j] = f[i][j]
  <2>1. CASE i = t
    BY <1>1, <1>3, <1>4, <2>1 DEF b
  <2>2. CASE i # t
    BY <1>6, <1>7, <2>2
  <2>. QED
    BY <2>1, <2>2
<1>12. ASSUME NEW i \in DOMAIN f, NEW j \in 1 .. Len(f[i])
       PROVE  Before(<<i, j>>, <<t, m + 1>>) <=> i \in DOMAIN g /\ j <= Len(g[i])
  <2>1. i \in Nat /\ j \in Nat
    BY <1>7
  <2>2. CASE i = t
    BY <1>1, <1>3, <1>4, <2>1, <2>2 DEF Before
  <2>3. CASE i < t
    <3>1. i \in DOMAIN g /\ g[i] = f[i]
      BY <1>1, <1>6, <1>8, <2>3
    <3>. QED
      BY <1>1, <2>1, <2>3, <3>1 DEF Before
  <2>4. CASE i > t
    <3>1. i \notin DOMAIN g
      BY <1>1, <1>9, <2>1, <2>4
    <3>. QED
      BY <1>1, <2>1, <2>4, <3>1 DEF Before
  <2>. QED
    BY <1>1, <2>1, <2>2, <2>3, <2>4
<1>. QED
  BY <1>10, <1>11, <1>12 DEF UpTo, g, d, b

LEMMA CrashStep ==
  ASSUME IInv, Crash, Grows  PROVE  IInv'
  BY DEF IInv, Crash, TypeOK, Running, Grows

LEMMA EndStep ==
  ASSUME IInv, status' = "ended",
         UNCHANGED <<ctx, stack, fp, ep, xp, save_xp, in_gc, saved, moves, emoves>>
  PROVE  IInv'
  BY DEF IInv, TypeOK, Running, Grows

LEMMA Around ==
  ASSUME IInv, Running
  PROVE  saved.sp \in Nat /\ sp \in Nat /\ saved.sp <= sp
<1>1. saved.sp \in Nat /\ sp \in Nat
  BY Types DEF IInv
<1>2. saved = Nothing => saved.sp = 0
  BY DEF Nothing
<1>. QED
  BY <1>1, <1>2 DEF IInv, Interrupted

\* Below the frames of a destructor lies its own.
LEMMA AboveTheDestructor ==
  ASSUME IInv, Running, in_gc, NEW n, n \in saved.sp .. sp, stack[n].is = "locals",
         n # saved.sp
  PROVE  n >= saved.sp + 3
<1>1. saved.sp \in Nat /\ sp \in Nat
  BY Around
<1>2. stack[saved.sp + 1].is = "stop" /\ stack[saved.sp + 2].is = "fp"
  BY DEF IInv, Interrupted
<1>3. n # saved.sp + 1 /\ n # saved.sp + 2
  BY <1>2
<1>. QED
  BY <1>1, <1>3

\* An exception that finds its handler goes to the innermost try body that is
\* open, and cuts the stack where that is.
Unwound(n, m) ==
  /\ Popped(n) /\ n \in saved.sp .. sp /\ (in_gc => n >= saved.sp + 3)
  /\ n + 1 \in DOMAIN Here /\ Here[n + 1] \in Seq(Kinds)
  /\ m \in 1 .. Len(Here[n + 1]) /\ Here[n + 1][m] = "try"
  /\ \A q \in Tries(Here) : q = <<n + 1, m>> \/ Before(q, <<n + 1, m>>)
  /\ ctx' = Append(SubSeq(Here[n + 1], 1, m - 1), "catch") /\ ctx' \in Seq(Kinds)
  /\ UNCHANGED <<save_xp, in_gc, saved, moves, emoves, status>>

LEMMA RaiseUnwinds ==
  ASSUME IInv, Raise, Good(xp[1])
  PROVE  Unwound(xp[1].sp.cell, Len(xp[1].ctx))
<1>1. /\ TypeOK /\ Running /\ Homed(xp) /\ Coherent(Here, xp, ep, saved.ep)
      /\ xp \in Seq(Handlers) /\ xp # << >>
      /\ saved.sp \in Nat /\ sp \in Nat /\ saved.sp <= sp
  BY Around DEF IInv, Raise, TypeOK
<1>. DEFINE h == xp[1]
            n == h.sp.cell
            f == Here
            base == saved.ep
            p == Place(h)
            lo == saved.sp
            hi == sp
            c == ctx
<1>2. Head(xp) = h /\ Len(xp) \in Nat /\ 1 \in 1 .. Len(xp) /\ 1 \in 0 .. Len(xp)
      /\ Tail(xp) = SubSeq(xp, 1 + 1, Len(xp))
  <2>1. Len(xp) \in Nat /\ Len(xp) # 0
    BY <1>1, EmptySeq, LenProperties
  <2>2. 1 + 1 = 2 /\ 1 \in 1 .. Len(xp) /\ 1 \in 0 .. Len(xp)
    BY <2>1
  <2>3. Tail(xp) = SubSeq(xp, 2, Len(xp))
    BY <1>1, TailIsSubSeq
  <2>4. Head(xp) = xp[1]
    BY <1>1, HeadTailProperties
  <2>. QED
    BY <2>1, <2>2, <2>3, <2>4
<1>3. /\ h \in Handlers /\ h.fp \in Pointers
      /\ n \in 1 .. sp /\ stack[n].is = "locals" /\ h.fp.cell = TopFp(n)
  <2>1. h \in Handlers
    BY <1>1, <1>2, ElementOfSeq
  <2>2. h.fp \in Pointers
    BY <2>1 DEF Handlers
  <2>. QED
    BY <1>1, <1>2, <2>1, <2>2 DEF Homed
<1>4. Coherent(f, xp, ep, base) /\ f = Contexts(stack, lo, hi, c)
  BY <1>1 DEF Here
<1>5. lo \in Nat /\ hi \in Nat /\ lo <= hi /\ n \in 1 .. hi
  BY <1>1, <1>3
<1>6. \A i \in DOMAIN f : i \in Nat /\ i <= hi + 1
  BY <1>1, HereIs
<1>. HIDE DEF h, n, f, base, p, lo, hi, c
<1>7. /\ IsContexts(f) /\ Describes(xp, Tries(f)) /\ Catches(h, f, base)
      /\ IsFiniteSet(Fors(f)) /\ ep = base + Cardinality(Fors(f))
      /\ ep \in Nat /\ base \in Nat
  BY <1>2, <1>4, CoherentParts DEF h
<1>8. /\ Cardinality(Below(Fors(f), p)) \in Nat
      /\ h.ep.cell = base + Cardinality(Below(Fors(f), p))
      /\ h.ep.cell <= ep
  <2>1. Below(Fors(f), p) \in SUBSET Fors(f)
    BY DEF Below
  <2>2. /\ Cardinality(Below(Fors(f), p)) \in Nat /\ Cardinality(Fors(f)) \in Nat
        /\ Cardinality(Below(Fors(f), p)) <= Cardinality(Fors(f))
    BY <1>7, <2>1, FS_Subset, FS_CardinalityType
  <2>3. h.ep.cell = base + Cardinality(Below(Fors(f), p))
    BY <1>7 DEF Catches, p
  <2>. QED
    BY <1>7, <2>2, <2>3
<1>9. ~ ep < h.ep.cell /\ Good(h)
  BY <1>7, <1>8 DEF h
<1>10. /\ xp' = Tail(xp) /\ ctx' = h.ctx
       /\ stack' = [i \in 1 .. n |-> IF i <= sp THEN stack[i] ELSE Locals]
       /\ fp' = h.fp /\ ep' = h.ep.cell
       /\ UNCHANGED <<save_xp, in_gc, saved, moves, emoves, status>>
  BY <1>2, <1>9 DEF Raise, n
<1>11. Popped(n)
  <2>1. \A i \in 1 .. n : i \in 1 .. sp /\ i <= sp
    BY <1>1, <1>3
  <2>2. \A i \in 1 .. sp : stack[i] \in Cells
    BY <1>1, ElementOfSeq DEF TypeOK, Cells, sp
  <2>3. stack' = [i \in 1 .. n |-> stack[i]] /\ n \in Nat
    BY <1>1, <1>3, <1>10, <2>1
  <2>4. stack' \in Seq(Cells) /\ Len(stack') = n
    BY <2>1, <2>2, <2>3
  <2>5. fp' = [cell |-> TopFp(n), moves |-> moves]
    BY <1>3, <1>9, <1>10 DEF Good, Pointers
  <2>. QED
    BY <1>3, <1>10, <2>3, <2>4, <2>5 DEF Popped
<1>12. n \in lo .. hi /\ (n = hi \/ (n + 1 \in lo + 1 .. hi /\ stack[n + 1].is = "ret"))
  <2>. DEFINE s == stack
              x == xp
              e == ep
  <2>1. Coherent(Contexts(s, lo, hi, c), x, e, base) /\ lo \in Nat /\ hi \in Nat /\ lo <= hi
    BY <1>4, <1>5
  <2>. HIDE DEF s, x, e
  <2>2. \A k \in 1 .. Len(x) :
           /\ x[k].sp.cell \in lo .. hi
           /\ x[k].sp.cell = hi \/ (x[k].sp.cell + 1 \in lo + 1 .. hi
                                     /\ s[x[k].sp.cell + 1].is = "ret")
    BY <2>1, ChainWithin
  <2>. QED
    BY <1>2, <2>2 DEF n, h, x, s
<1>13. in_gc => n >= saved.sp + 3
  <2>. SUFFICES ASSUME in_gc PROVE n >= saved.sp + 3
    OBVIOUS
  <2>1. sp >= saved.sp + 3 /\ stack[saved.sp + 1].is = "stop"
    BY <1>1 DEF IInv, Interrupted
  <2>2. n # saved.sp
    BY <1>5, <1>12, <2>1 DEF hi, lo
  <2>. QED
    BY <1>1, <1>3, <1>12, <2>2, AboveTheDestructor DEF lo, hi
<1>. DEFINE t == n + 1
            m == Len(h.ctx)
            d == SubSeq(f[t], 1, m - 1)
<1>14. /\ p = <<t, m>> /\ t \in DOMAIN f /\ m \in 1 .. Len(f[t]) /\ f[t][m] = "try"
       /\ p \in Nat \X Nat /\ m \in Nat
  <2>1. p \in Tries(f)
    BY <1>2, <1>7 DEF Describes, p, h
  <2>2. p = <<n + 1, Len(h.ctx)>>
    BY DEF Place, p, n
  <2>3. p \in Nat \X Nat /\ Len(h.ctx) \in Nat
    BY <1>3, PlaceType DEF p
  <2>. QED
    BY <2>1, <2>2, <2>3, OpenPairs DEF Tries
<1>15. f[t] \in Seq(Kinds)
  BY <1>7, <1>14 DEF IsContexts
<1>16. ctx' = Append(d, "catch") /\ ctx' \in Seq(Kinds)
  <2>1. ctx' = Append(d, "catch")
    BY <1>7, <1>10 DEF Catches, n
  <2>2. h.ctx \in Seq(Kinds)
    BY <1>3, PlaceType
  <2>. QED
    BY <1>10, <2>1, <2>2
<1>17. \A k \in 1 .. Len(xp) : k > 1 => Before(Place(xp[k]), p)
  BY <1>2, <1>7 DEF Describes, p, h
<1>18. \A q \in Tries(f) : q = p \/ Before(q, p)
  <2>. TAKE q \in Tries(f)
  <2>1. PICK k \in 1 .. Len(xp) : q = Place(xp[k])
    BY <1>7 DEF Describes
  <2>2. k = 1 \/ k > 1
    BY <1>2
  <2>. QED
    BY <1>17, <2>1, <2>2 DEF p, h
<1>19. \A q \in Tries(f) : q = <<t, m>> \/ Before(q, <<t, m>>)
  BY <1>14, <1>18
<1>. HIDE DEF m
<1>20. Unwound(n, m)
  BY <1>10, <1>11, <1>12, <1>13, <1>14, <1>15, <1>16, <1>19 DEF Unwound, f, lo, hi
<1>. QED
  BY <1>20 DEF m, n, h

LEMMA RaiseStep ==
  ASSUME IInv, Raise  PROVE  IInv'
<1>1. /\ TypeOK /\ Running /\ Homed(xp) /\ Coherent(Here, xp, ep, saved.ep)
      /\ xp \in Seq(Handlers) /\ xp # << >>
      /\ saved.sp \in Nat /\ sp \in Nat /\ saved.sp <= sp
  BY Around DEF IInv, Raise, TypeOK
<1>. DEFINE h == xp[1]
            n == h.sp.cell
            f == Here
            base == saved.ep
            p == Place(h)
            lo == saved.sp
            hi == sp
            c == ctx
<1>2. Head(xp) = h /\ Len(xp) \in Nat /\ 1 \in 1 .. Len(xp) /\ 1 \in 0 .. Len(xp)
      /\ Tail(xp) = SubSeq(xp, 1 + 1, Len(xp))
  <2>1. Len(xp) \in Nat /\ Len(xp) # 0
    BY <1>1, EmptySeq, LenProperties
  <2>2. 1 + 1 = 2 /\ 1 \in 1 .. Len(xp) /\ 1 \in 0 .. Len(xp)
    BY <2>1
  <2>3. Tail(xp) = SubSeq(xp, 2, Len(xp))
    BY <1>1, TailIsSubSeq
  <2>4. Head(xp) = xp[1]
    BY <1>1, HeadTailProperties
  <2>. QED
    BY <2>1, <2>2, <2>3, <2>4
<1>3. /\ h \in Handlers /\ h.fp \in Pointers
      /\ n \in 1 .. sp /\ stack[n].is = "locals" /\ h.fp.cell = TopFp(n)
  <2>1. h \in Handlers
    BY <1>1, <1>2, ElementOfSeq
  <2>2. h.fp \in Pointers
    BY <2>1 DEF Handlers
  <2>. QED
    BY <1>1, <1>2, <2>1, <2>2 DEF Homed
<1>4. Coherent(f, xp, ep, base) /\ f = Contexts(stack, lo, hi, c)
  BY <1>1 DEF Here
<1>5. lo \in Nat /\ hi \in Nat /\ lo <= hi /\ n \in 1 .. hi
  BY <1>1, <1>3
<1>6. \A i \in DOMAIN f : i \in Nat /\ i <= hi + 1
  BY <1>1, HereIs
<1>. HIDE DEF h, n, f, base, p, lo, hi, c
<1>7. /\ IsContexts(f) /\ Describes(xp, Tries(f)) /\ Catches(h, f, base)
      /\ IsFiniteSet(Fors(f)) /\ ep = base + Cardinality(Fors(f))
      /\ ep \in Nat /\ base \in Nat
  BY <1>2, <1>4, CoherentParts DEF h
<1>8. /\ Cardinality(Below(Fors(f), p)) \in Nat
      /\ h.ep.cell = base + Cardinality(Below(Fors(f), p))
      /\ h.ep.cell <= ep
  <2>1. Below(Fors(f), p) \in SUBSET Fors(f)
    BY DEF Below
  <2>2. /\ Cardinality(Below(Fors(f), p)) \in Nat /\ Cardinality(Fors(f)) \in Nat
        /\ Cardinality(Below(Fors(f), p)) <= Cardinality(Fors(f))
    BY <1>7, <2>1, FS_Subset, FS_CardinalityType
  <2>3. h.ep.cell = base + Cardinality(Below(Fors(f), p))
    BY <1>7 DEF Catches, p
  <2>. QED
    BY <1>7, <2>2, <2>3
<1>9. CASE ~ Good(h)
  <2>1. ~ Grows => Good(h)
    BY <1>1, <1>2 DEF IInv, Unmoved, h
  <2>2. Crash
    BY <1>2, <1>9 DEF Raise
  <2>. QED
    BY <1>9, <2>1, <2>2, CrashStep
<1>10. CASE Good(h)
  <2>1. ~ ep < h.ep.cell
    BY <1>7, <1>8
  <2>2. /\ xp' = Tail(xp) /\ ctx' = h.ctx
        /\ stack' = [i \in 1 .. n |-> IF i <= sp THEN stack[i] ELSE Locals]
        /\ fp' = h.fp /\ ep' = h.ep.cell
        /\ UNCHANGED <<save_xp, in_gc, saved, moves, emoves, status>>
    BY <1>2, <1>10, <2>1 DEF Raise, n
  <2>0. Unwound(n, Len(h.ctx))
    BY <1>10, RaiseUnwinds DEF h, n
  <2>3. Popped(n)
    BY <2>0 DEF Unwound
  <2>4. \A i \in 1 .. n : stack'[i] = stack[i]
    BY <2>3 DEF Popped
  <2>5. n \in lo .. hi /\ (n = hi \/ (n + 1 \in lo + 1 .. hi /\ stack[n + 1].is = "ret"))
    <3>1. Coherent(Contexts(stack, lo, hi, c), xp, ep, base)
      BY <1>4
    <3>2. \A k \in 1 .. Len(xp) :
             /\ xp[k].sp.cell \in lo .. hi
             /\ xp[k].sp.cell = hi \/ (xp[k].sp.cell + 1 \in lo + 1 .. hi
                                        /\ stack[xp[k].sp.cell + 1].is = "ret")
      BY <1>5, <3>1, ChainWithin
    <3>. QED
      BY <1>2, <3>2 DEF n, h
  <2>6. in_gc => n >= saved.sp + 3
    BY <2>0 DEF Unwound
  <2>. DEFINE t == n + 1
              m == Len(h.ctx) - 1
              d == SubSeq(f[t], 1, m)
              s2 == stack'
              g == Contexts(s2, lo, n, d)
              g2 == Contexts(s2, lo, n, ctx')
              y == SubSeq(xp, 1 + 1, Len(xp))
  <2>7. /\ p = <<t, Len(h.ctx)>> /\ t \in DOMAIN f /\ Len(h.ctx) \in 1 .. Len(f[t])
        /\ p \in Nat \X Nat /\ Len(h.ctx) \in Nat
    <3>1. p \in Tries(f)
      BY <1>2, <1>7 DEF Describes, p, h
    <3>2. p = <<n + 1, Len(h.ctx)>>
      BY DEF Place, p, n
    <3>3. p \in Nat \X Nat /\ Len(h.ctx) \in Nat
      BY <1>3, PlaceType DEF p
    <3>. QED
      BY <3>1, <3>2, <3>3, OpenPairs DEF Tries
  <2>8. /\ f[t] \in Seq(Kinds) /\ Len(f[t]) \in Nat
        /\ m \in 0 .. Len(f[t]) /\ m + 1 = Len(h.ctx)
    BY <1>7, <2>7, LenProperties DEF IsContexts
  <2>9. d \in Seq(Kinds)
    <3>. DEFINE a == f[t]
    <3>1. a \in Seq(Kinds) /\ m \in 0 .. Len(a)
      BY <2>8
    <3>. HIDE DEF a, m
    <3>2. SubSeq(a, 1, m) \in Seq(Kinds)
      BY <3>1, Prefix
    <3>. QED
      BY <3>2 DEF a
  <2>10. ctx' = Append(d, "catch") /\ ctx' \in Seq(Kinds)
    BY <2>0 DEF Unwound, f
  <2>11. UpTo(f, g, p)
    <3>1. \A i \in lo + 1 .. n : s2[i] = stack[i]
      BY <1>5, <2>4
    <3>2. t \in DOMAIN f
      BY <2>7
    <3>3. p = <<t, m + 1>>
      BY <2>7, <2>8
    <3>. HIDE DEF m, s2
    <3>4. UpTo(f, Contexts(s2, lo, n, SubSeq(f[n + 1], 1, m)), <<n + 1, m + 1>>)
      BY <1>4, <1>5, <1>7, <2>5, <2>8, <3>1, <3>2, LevelUpTo
    <3>. QED
      BY <3>3, <3>4
  <2>12. \A k \in 1 .. Len(xp) : Before(Place(xp[k]), p) <=> k > 1
    <3>1. ~ Before(p, p)
      BY <2>7, BeforeOrder
    <3>2. \A k \in 1 .. Len(xp) : k > 1 => Before(Place(xp[k]), p)
      BY <1>2, <1>7 DEF Describes, p, h
    <3>3. \A k \in 1 .. Len(xp) : k > 1 \/ k = 1
      BY <1>2
    <3>. QED
      BY <3>1, <3>2, <3>3 DEF p, h
  <2>. DEFINE e == base + Cardinality(Below(Fors(f), p))
  <2>. HIDE DEF g
  <2>13. /\ Coherent(g, y, e, base)
         /\ Len(y) = Len(xp) - 1
         /\ \A k \in 1 .. Len(xp) - 1 : y[k] = xp[1 + k]
    <3>. DEFINE one == 1
    <3>1. /\ one \in 0 .. Len(xp) /\ p \in Nat \X Nat /\ Coherent(f, xp, ep, base)
          /\ UpTo(f, g, p)
          /\ \A k \in 1 .. Len(xp) : Before(Place(xp[k]), p) <=> k > one
      BY <1>2, <1>4, <2>7, <2>11, <2>12
    <3>. HIDE DEF t, m, d, s2, g2, y, e, one
    <3>2. /\ Coherent(g, SubSeq(xp, one + 1, Len(xp)),
                      base + Cardinality(Below(Fors(f), p)), base)
          /\ Len(SubSeq(xp, one + 1, Len(xp))) = Len(xp) - one
          /\ \A k \in 1 .. Len(xp) - one : SubSeq(xp, one + 1, Len(xp))[k] = xp[one + k]
      BY <3>1, CoherentUpTo
    <3>. QED
      BY <3>2 DEF one, y, e
  <2>14. Grown(g, g2, t, "catch")
    <3>1. /\ DOMAIN g = {i \in lo + 1 .. n : s2[i].is = "ret"} \cup {n + 1}
          /\ g[n + 1] = d
          /\ \A i \in DOMAIN g : i # n + 1 => g[i] = s2[i].ctx
      BY DEF Contexts, g
    <3>2. /\ DOMAIN g2 = {i \in lo + 1 .. n : s2[i].is = "ret"} \cup {n + 1}
          /\ g2[n + 1] = ctx'
          /\ \A i \in DOMAIN g2 : i # n + 1 => g2[i] = s2[i].ctx
      BY DEF Contexts
    <3>3. \A i \in DOMAIN g : i <= n + 1
      BY <1>5, <3>1
    <3>4. "catch" \in Kinds
      BY DEF Kinds
    <3>. HIDE DEF g2, d
    <3>. QED
      BY <2>10, <3>1, <3>2, <3>3, <3>4 DEF Grown
  <2>15. Coherent(g2, y, e, base)
    <3>. HIDE DEF g2, y, e, t
    <3>1. Coherent(g2, y, e + (IF "catch" = "for" THEN 1 ELSE 0), base)
      BY <2>13, <2>14, CoherentGrown
    <3>2. e \in Nat /\ (IF "catch" = "for" THEN 1 ELSE 0) = 0
      BY <2>13, CoherentParts
    <3>3. e + 0 = e
      BY <3>2
    <3>. QED
      BY <3>1, <3>2, <3>3
  <2>16. xp' = y /\ ep' = e
    BY <1>2, <1>8, <2>2
  <2>17. Sub(xp', xp)
    <3>1. \A k \in 1 .. Len(xp) - 1 : 1 + k \in 1 .. Len(xp)
      BY <1>2
    <3>. QED
      BY <2>13, <2>16, <3>1 DEF Sub
  <2>18. Coherent(Contexts(stack', saved.sp, n, ctx'), xp', ep', saved.ep)
    <3>. HIDE DEF y, e
    <3>. QED
      BY <2>15, <2>16 DEF base, lo
  <2>19. n >= saved.sp
    BY <1>5, <2>5 DEF lo
  <2>. QED
    BY <1>1, <2>2, <2>3, <2>6, <2>10, <2>17, <2>18, <2>19, PoppedStep
<1>. QED
  BY <1>9, <1>10

LEMMA CountNone ==
  ASSUME NEW c \in Seq(Kinds), NEW K
  PROVE  /\ IsFiniteSet({j \in 1 .. Len(c) : c[j] \in K})
         /\ Count(c, K) = Cardinality({j \in 1 .. Len(c) : c[j] \in K})
         /\ Count(c, K) \in Nat
         /\ Count(c, K) = 0 <=> \A j \in 1 .. Len(c) : c[j] \notin K
<1>. DEFINE S == {j \in 1 .. Len(c) : c[j] \in K}
<1>1. IsFiniteSet(S)
  <2>1. S \in SUBSET (1 .. Len(c)) /\ 1 \in Int /\ Len(c) \in Int
    BY LenProperties
  <2>. HIDE DEF S
  <2>2. IsFiniteSet(1 .. Len(c))
    BY <2>1, FS_Interval
  <2>. QED
    BY <2>1, <2>2, FS_Subset
<1>2. Count(c, K) = Cardinality(S)
  BY DEF Count, CountFrom
<1>3. S = {} <=> \A j \in 1 .. Len(c) : c[j] \notin K
  OBVIOUS
<1>. HIDE DEF S
<1>4. Cardinality(S) \in Nat /\ (Cardinality(S) = 0 <=> S = {})
  BY <1>1, FS_CardinalityType, FS_EmptySet
<1>5. IsFiniteSet(S) /\ Count(c, K) = Cardinality(S) /\ Count(c, K) \in Nat
      /\ (Count(c, K) = 0 <=> \A j \in 1 .. Len(c) : c[j] \notin K)
  BY <1>1, <1>2, <1>3, <1>4
<1>. QED
  BY <1>5 DEF S

\* What return finds when it comes to RESTORE and RET.
LEMMA ReturnFinds ==
  ASSUME Mild, IInv, NEW value \in BOOLEAN, Return(value)
  PROVE  /\ sp \in Nat /\ sp >= 4 /\ PointsToFrame(fp) /\ fp.cell = sp - 1
         /\ stack[sp - 3].is = "locals" /\ stack[sp - 2].is \in {"ret", "stop"}
         /\ stack[sp - 1].is = "fp" /\ stack[sp].is = "locals"
         /\ stack[sp - 1].ptr = [cell |-> TopFp(sp - 3), moves |-> moves]
         /\ Restores \in 0 .. Len(xp)
         /\ \A k \in 1 .. Len(xp) : Before(Place(xp[k]), <<sp + 1, 1>>) <=> k > Restores
         /\ ep \in Nat /\ Dropped(value) = CountFrom(ctx, 1, {"for"})
<1>1. /\ TypeOK /\ Running /\ Layout /\ Interrupted /\ Coherent(Here, xp, ep, saved.ep)
      /\ sp \in Nat /\ ctx \in Seq(Kinds) /\ xp \in Seq(Handlers) /\ ep \in Nat
      /\ Len(ctx) \in Nat /\ moves \in Nat
  BY Types DEF IInv, Return, TypeOK
<1>2. /\ Count(ctx, {"function"}) = 1
      /\ ~ Count(ctx, {"catch"}) > 0
      /\ Dropped(value) = Counters(ctx)
  BY DEF Return, Mild, Allowed
<1>3. /\ sp + 1 \in DOMAIN Here /\ Here[sp + 1] = ctx
      /\ \A i \in DOMAIN Here : i \in Nat /\ i <= sp + 1
  BY <1>1, HereIs
<1>. DEFINE f == Here
            t == sp + 1
            base == saved.ep
<1>4. Coherent(f, xp, ep, base) /\ t \in DOMAIN f /\ f[t] = ctx /\ t \in Nat
      /\ \A i \in DOMAIN f : i \in Nat /\ i <= t
  BY <1>1, <1>3
<1>. HIDE DEF f, base
<1>5. ProperContexts(f) /\ IsContexts(f) /\ Describes(xp, Tries(f))
  BY <1>4, CoherentParts
<1>6. sp >= 2
  <2>1. ~ Count(ctx, {"function"}) = 0
    BY <1>2
  <2>2. PICK j \in 1 .. Len(ctx) : ctx[j] \in {"function"}
    BY <1>1, <2>1, CountNone
  <2>3. t > 2
    BY <1>4, <1>5, <2>2 DEF ProperContexts
  <2>. QED
    BY <1>1, <2>3
<1>7. /\ sp >= 4 /\ stack[sp - 3].is = "locals" /\ stack[sp - 2].is \in {"ret", "stop"}
      /\ stack[sp - 1].is = "fp" /\ stack[sp].is = "locals"
      /\ stack[sp - 1].ptr = [cell |-> TopFp(sp - 3), moves |-> moves]
  <2>1. sp \in 2 .. sp /\ stack[sp].is = "locals"
    BY <1>1, <1>6 DEF Layout
  <2>. QED
    BY <1>1, <2>1 DEF Layout
<1>8. PointsToFrame(fp) /\ fp.cell = sp - 1
  <2>1. fp = [cell |-> sp - 1, moves |-> moves]
    BY <1>1, <1>7 DEF Layout, TopFp
  <2>2. sp - 1 \in 2 .. sp
    BY <1>1, <1>7
  <2>. QED
    BY <1>7, <2>1, <2>2 DEF PointsToFrame
<1>9. \A j \in 1 .. Len(ctx) : ctx[j] \notin {"catch"} /\ ctx[j] # "outer_try"
  <2>1. Count(ctx, {"catch"}) \in Nat
    BY <1>1, CountNone
  <2>2. Count(ctx, {"catch"}) = 0
    BY <1>2, <2>1
  <2>3. \A j \in 1 .. Len(ctx) : ctx[j] \notin {"catch"}
    BY <1>1, <2>2, CountNone
  <2>. QED
    BY <1>4, <1>5, <2>3 DEF ProperContexts
<1>. DEFINE K == {"try", "catch", "outer_try"}
            J == {j \in 1 .. Len(ctx) : ctx[j] \in K}
            T == Tries(f)
<1>10. IsFiniteSet(J) /\ Restores = Cardinality(J)
  BY <1>1, CountNone DEF Restores
<1>11. J \in SUBSET Nat /\ \A j \in Nat : <<t, j>> \in T <=> j \in J
  <2>1. \A j : <<t, j>> \in T <=> j \in 1 .. Len(ctx) /\ ctx[j] \in {"try"}
    BY <1>4, OpenPairs DEF Tries
  <2>. QED
    BY <1>1, <1>9, <2>1
<1>12. T \in SUBSET (Nat \X Nat)
  BY <1>5, OpenType DEF Tries, IsContexts
<1>13. \A q \in T : q[1] <= t /\ q[2] >= 1
  <2>. TAKE q \in T
  <2>1. q[1] \in DOMAIN f /\ q[2] \in 1 .. Len(f[q[1]])
    BY OpenPairs DEF Tries
  <2>. QED
    BY <1>4, <2>1
<1>14. /\ Cardinality(J) \in 0 .. Len(xp)
       /\ \A k \in 1 .. Len(xp) : Before(Place(xp[k]), <<t, 1>>) <=> k > Cardinality(J)
  <2>1. Describes(xp, T)
    BY <1>5
  <2>. HIDE DEF J, T, t
  <2>. QED
    BY <1>1, <1>4, <1>10, <1>11, <1>12, <1>13, <2>1, TopHandlers
<1>15. Dropped(value) = CountFrom(ctx, 1, {"for"})
  BY <1>2 DEF Counters, Count
<1>. HIDE DEF J
<1>. QED
  BY <1>1, <1>7, <1>8, <1>10, <1>14, <1>15

\* Then it cuts the stack.
LEMMA ReturnPops ==
  ASSUME Mild, IInv, NEW value \in BOOLEAN, Return(value)
  PROVE  /\ Popped(sp - 3) /\ ep' = ep - CountFrom(ctx, 1, {"for"})
         /\ UNCHANGED <<moves, emoves, status>>
         /\ IF stack[sp - 2].is = "stop" THEN in_gc /\ LeaveSubroutine
                                         ELSE RestoreAndGo(stack[sp - 2].ctx)
<1>1. TypeOK /\ Running /\ Interrupted
  BY DEF IInv, Return
<1>2. /\ sp \in Nat /\ sp >= 4 /\ PointsToFrame(fp) /\ fp.cell = sp - 1
      /\ stack[sp - 3].is = "locals"
      /\ stack[sp - 1].ptr = [cell |-> TopFp(sp - 3), moves |-> moves]
      /\ Restores \in 0 .. Len(xp)
      /\ Dropped(value) = CountFrom(ctx, 1, {"for"})
  BY ReturnFinds
<1>3. Len(xp) \in Nat
  BY <1>1, Types
<1>4. PointsToFrame(fp) /\ ~ Restores > Len(xp)
  BY <1>2, <1>3
<1>5. sp - 1 - 1 = sp - 2 /\ sp - 1 - 2 = sp - 3 /\ sp - 2 \in 1 .. sp
  BY <1>2
<1>6. /\ ep' = ep - Dropped(value)
      /\ stack' = SubSeq(stack, 1, fp.cell - 2)
      /\ fp' = stack[fp.cell].ptr
      /\ IF stack[fp.cell - 1].is = "stop" /\ in_gc
         THEN LeaveSubroutine ELSE RestoreAndGo(stack[fp.cell - 1].ctx)
      /\ status' = IF stack[fp.cell - 1].is = "stop" /\ ~ in_gc THEN "ended" ELSE status
      /\ UNCHANGED <<moves, emoves>>
  BY <1>4 DEF Return
<1>7. stack[sp - 2].is = "stop" => in_gc
  BY <1>1, <1>5 DEF Interrupted
<1>8. Popped(sp - 3)
  <2>. DEFINE n == sp - 3
              s == stack
  <2>0. s \in Seq(Cells)
    BY <1>1 DEF TypeOK, Cells
  <2>1. s \in Seq(Cells) /\ n \in 0 .. Len(s) /\ n \in 1 .. sp /\ s[n].is = "locals"
    <3>1. n \in 0 .. sp /\ n \in 1 .. sp /\ s[n].is = "locals"
      BY <1>2
    <3>. QED
      BY <2>0, <3>1 DEF sp
  <2>2. stack' = SubSeq(s, 1, n) /\ fp' = [cell |-> TopFp(n), moves |-> moves] /\ moves' = moves
    BY <1>2, <1>5, <1>6
  <2>. HIDE DEF n, s
  <2>3. stack' \in Seq(Cells) /\ Len(stack') = n /\ \A i \in 1 .. n : stack'[i] = s[i]
    BY <2>1, <2>2, Prefix
  <2>. QED
    BY <2>1, <2>2, <2>3 DEF Popped, n, s
<1>. QED
  BY <1>2, <1>5, <1>6, <1>7, <1>8

\* A function returns to the one that called it.
LEMMA ReturnToCaller ==
  ASSUME Mild, IInv, NEW value \in BOOLEAN, Return(value), stack[sp - 2].is # "stop"
  PROVE  IInv'
<1>1. /\ TypeOK /\ Running /\ Layout /\ Interrupted /\ Coherent(Here, xp, ep, saved.ep)
      /\ saved.sp \in Nat /\ sp \in Nat /\ saved.sp <= sp /\ Len(xp) \in Nat
  BY Around, Types DEF IInv, Return
<1>2. /\ sp >= 4 /\ stack[sp - 3].is = "locals" /\ stack[sp - 2].is = "ret"
      /\ stack[sp - 1].is = "fp" /\ stack[sp].is = "locals"
      /\ Restores \in 0 .. Len(xp) /\ ep \in Nat
      /\ \A k \in 1 .. Len(xp) : Before(Place(xp[k]), <<sp + 1, 1>>) <=> k > Restores
  BY ReturnFinds
<1>3. /\ Popped(sp - 3) /\ ep' = ep - CountFrom(ctx, 1, {"for"})
      /\ UNCHANGED <<moves, emoves, status>>
      /\ RestoreAndGo(stack[sp - 2].ctx)
  BY ReturnPops
<1>. DEFINE n == sp - 3
            r == Restores
            f == Here
            base == saved.ep
            lo == saved.sp
            hi == sp
            c == ctx
            t == sp - 2
            b == stack[t].ctx
            u == stack'
            y == SubSeq(xp, r + 1, Len(xp))
<1>4. ctx' = b /\ xp' = y /\ UNCHANGED <<save_xp, in_gc, saved>>
  BY <1>3 DEF RestoreAndGo, Restore
<1>5. n \in Nat /\ n >= 1 /\ t = n + 1 /\ n <= hi /\ hi \in Nat /\ lo \in Nat /\ hi = n + 3
      /\ t \in 1 .. sp
  BY <1>1, <1>2
<1>6. b \in Seq(Kinds)
  BY <1>1, <1>5, Types
<1>7. n >= lo /\ (in_gc => n >= saved.sp + 3)
  <2>1. CASE ~ in_gc
    BY <1>1, <1>5, <2>1 DEF Interrupted, Nothing
  <2>2. CASE in_gc
    <3>1. sp >= saved.sp + 3 /\ stack[saved.sp + 1].is = "stop"
      BY <1>1, <2>2 DEF Interrupted
    <3>. DEFINE m == saved.sp
    <3>5. m \in Nat /\ sp \in Nat /\ t = sp - 2 /\ n = sp - 3 /\ sp >= m + 3
      BY <1>1, <3>1
    <3>6. t # m + 1
      BY <1>2, <3>1
    <3>2. n >= saved.sp /\ t # saved.sp + 1
      <4>. HIDE DEF m, n, t
      <4>1. n >= m
        BY <3>5
      <4>. QED
        BY <4>1, <3>6 DEF m
    <3>3. n \in saved.sp .. sp /\ n # saved.sp /\ stack[n].is = "locals"
      BY <1>1, <1>2, <1>5, <3>2
    <3>4. n >= saved.sp + 3
      BY <1>1, <2>2, <3>3, AboveTheDestructor
    <3>. QED
      BY <3>2, <3>4
  <2>. QED
    BY <2>1, <2>2
<1>8. \A i \in 1 .. n : u[i] = stack[i]
  BY <1>3 DEF Popped
<1>9. /\ Coherent(f, xp, ep, base) /\ f = Contexts(stack, lo, hi, c)
  BY <1>1 DEF Here
<1>10. /\ DOMAIN f = {m \in lo + 1 .. hi : stack[m].is = "ret"} \cup {hi + 1}
       /\ f[hi + 1] = c
       /\ \A i \in DOMAIN f : i # hi + 1 => f[i] = stack[i].ctx
       /\ \A i \in DOMAIN f : i \in Nat /\ i <= hi + 1
       /\ hi + 1 \in Nat
  BY <1>1, HereIs
<1>. DEFINE d == f[t]
            M == Len(d)
            p == <<t, M + 1>>
            top == <<hi + 1, 1>>
<1>11. t \in DOMAIN f /\ d = b /\ t \in lo + 1 .. hi
  <2>1. t \in lo + 1 .. hi /\ stack[t].is = "ret" /\ t # hi + 1
    BY <1>2, <1>5, <1>7
  <2>. HIDE DEF f, t, lo, hi
  <2>. QED
    BY <1>10, <2>1
<1>12. \A k \in 1 .. Len(xp) : Before(Place(xp[k]), top) <=> k > r
  BY <1>2
<1>. HIDE DEF f, n, r, base, lo, hi, c, t, b, u
<1>13. d \in Seq(Kinds) /\ M \in Nat /\ M \in 0 .. M /\ p \in Nat \X Nat
  BY <1>5, <1>6, <1>11, LenProperties
<1>14. IsContexts(f) /\ Describes(xp, Tries(f)) /\ IsFiniteSet(Fors(f))
       /\ ep = base + Cardinality(Fors(f)) /\ base \in Nat
  BY <1>9, CoherentParts
<1>15. ASSUME NEW i \in DOMAIN f, NEW j \in 1 .. Len(f[i])
       PROVE  Before(<<i, j>>, p) <=> Before(<<i, j>>, top)
  <2>1. Len(f[i]) \in Nat /\ i \in Nat /\ j \in Nat /\ i <= hi + 1
    BY <1>10, <1>14, LenProperties DEF IsContexts
  <2>2. i = hi + 1 \/ i <= t
    <3>1. CASE i # hi + 1
      <4>1. i \in lo + 1 .. hi /\ stack[i].is = "ret"
        BY <1>10, <3>1
      <4>2. i # hi /\ i # hi - 1
        BY <1>2, <4>1 DEF hi
      <4>. QED
        BY <1>5, <4>1, <4>2
    <3>. QED
      BY <3>1
  <2>3. CASE i = hi + 1
    BY <1>5, <1>13, <2>1, <2>3 DEF Before
  <2>4. CASE i = t
    <3>1. j <= M /\ j < M + 1
      BY <1>13, <2>1, <2>4
    <3>2. i < hi + 1
      BY <1>5, <2>4
    <3>. QED
      BY <2>4, <3>1, <3>2 DEF Before
  <2>5. CASE i < t
    BY <1>5, <1>13, <2>1, <2>5 DEF Before
  <2>. QED
    BY <1>5, <2>1, <2>2, <2>3, <2>4, <2>5
<1>16. ASSUME NEW K, NEW q \in Open(f, K)
       PROVE  Before(q, p) <=> Before(q, top)
  <2>1. q = <<q[1], q[2]>> /\ q[1] \in DOMAIN f /\ q[2] \in 1 .. Len(f[q[1]])
    BY OpenPairs
  <2>. DEFINE i == q[1]
              j == q[2]
  <2>2. q = <<i, j>> /\ i \in DOMAIN f /\ j \in 1 .. Len(f[i])
    BY <2>1
  <2>. HIDE DEF i, j, p, top
  <2>. QED
    BY <1>15, <2>2
<1>17. \A k \in 1 .. Len(xp) : Before(Place(xp[k]), p) <=> k > r
  <2>1. \A k \in 1 .. Len(xp) : Place(xp[k]) \in Open(f, {"try"})
    BY <1>14 DEF Describes, Tries
  <2>. HIDE DEF p, top
  <2>. QED
    BY <1>12, <1>16, <2>1
<1>18. Below(Fors(f), p) = Below(Fors(f), top)
  <2>. HIDE DEF p, top
  <2>. QED
    BY <1>16 DEF Below, Fors
<1>19. /\ Cardinality(Below(Fors(f), top)) \in Nat
       /\ CountFrom(c, 1, {"for"}) \in Nat
       /\ Cardinality(Fors(f)) = Cardinality(Below(Fors(f), top)) + CountFrom(c, 1, {"for"})
  <2>. DEFINE tt == hi + 1
              zero == 0
  <2>1. /\ tt \in DOMAIN f /\ f[tt] = c /\ \A i \in DOMAIN f : i <= tt
        /\ zero \in 0 .. Len(f[tt]) /\ zero + 1 = 1
    <3>1. tt \in DOMAIN f /\ f[tt] = c /\ \A i \in DOMAIN f : i <= tt
      BY <1>10
    <3>2. Len(f[tt]) \in Nat
      BY <1>14, <3>1, LenProperties DEF IsContexts
    <3>. QED
      BY <3>1, <3>2
  <2>. HIDE DEF tt, zero
  <2>2. /\ Cardinality(Below(Fors(f), <<tt, zero + 1>>)) \in Nat
        /\ CountFrom(f[tt], zero + 1, {"for"}) \in Nat
        /\ Cardinality(Fors(f)) = Cardinality(Below(Fors(f), <<tt, zero + 1>>))
                                    + CountFrom(f[tt], zero + 1, {"for"})
    BY <1>14, <2>1, LevelCount
  <2>. QED
    BY <2>1, <2>2 DEF tt
<1>20. UpTo(f, Contexts(u, lo, n, SubSeq(d, 1, M)), p)
  <2>1. n \in lo .. hi /\ \A i \in lo + 1 .. n : u[i] = stack[i]
    BY <1>5, <1>7, <1>8
  <2>2. n + 1 \in DOMAIN f /\ f[n + 1] = d /\ M \in 0 .. Len(f[n + 1])
    BY <1>5, <1>11, <1>13
  <2>3. UpTo(f, Contexts(u, lo, n, SubSeq(f[n + 1], 1, M)), <<n + 1, M + 1>>)
    <3>. HIDE DEF M
    <3>. QED
      BY <1>5, <1>9, <1>14, <2>1, <2>2, LevelUpTo
  <2>. QED
    BY <1>5, <2>2, <2>3
<1>21. SubSeq(d, 1, M) = ctx'
  <2>. HIDE DEF d
  <2>1. SubSeq(d, 1, M) = d
    BY <1>13, SubSeqFull
  <2>. QED
    BY <1>4, <1>11, <2>1
<1>. DEFINE g == Contexts(u, lo, n, ctx')
<1>22. UpTo(f, g, p)
  BY <1>20, <1>21
<1>23. r \in 0 .. Len(xp) /\ r \in Nat
  BY <1>1, <1>2 DEF r
<1>. HIDE DEF g
<1>24. /\ Coherent(g, y, base + Cardinality(Below(Fors(f), p)), base)
       /\ Len(y) = Len(xp) - r
       /\ \A k \in 1 .. Len(xp) - r : y[k] = xp[r + k]
  <2>. HIDE DEF p
  <2>. QED
    BY <1>9, <1>13, <1>17, <1>22, <1>23, CoherentUpTo
<1>25. ep' = base + Cardinality(Below(Fors(f), p))
  <2>. HIDE DEF top, p
  <2>. QED
    BY <1>3, <1>14, <1>18, <1>19 DEF c
<1>26. Sub(xp', xp)
  <2>1. \A k \in 1 .. Len(xp) - r : r + k \in 1 .. Len(xp)
    BY <1>1, <1>23
  <2>. QED
    BY <1>4, <1>24, <2>1 DEF Sub
<1>27. Coherent(Contexts(stack', saved.sp, n, ctx'), xp', ep', saved.ep)
  <2>. HIDE DEF y, p
  <2>. QED
    BY <1>4, <1>24, <1>25 DEF g, u, lo, base
<1>28. Popped(n) /\ n >= saved.sp
  BY <1>3, <1>7 DEF n, lo
<1>. QED
  BY <1>1, <1>3, <1>4, <1>6, <1>7, <1>26, <1>27, <1>28, PoppedStep

\* A destructor returns to the code it interrupted.
LEMMA ReturnFromDestructor ==
  ASSUME Mild, IInv, NEW value \in BOOLEAN, Return(value), stack[sp - 2].is = "stop"
  PROVE  /\ IInv'
         /\ in_gc /\ fp'.cell = saved.fp /\ Len(stack') = saved.sp /\ ep' = saved.ep
<1>1. /\ TypeOK /\ Running /\ Layout /\ Interrupted /\ Coherent(Here, xp, ep, saved.ep)
      /\ saved.sp \in Nat /\ sp \in Nat
  BY Around DEF IInv, Return
<1>2. sp >= 4 /\ ep \in Nat
  BY ReturnFinds
<1>3. /\ Popped(sp - 3) /\ ep' = ep - CountFrom(ctx, 1, {"for"})
      /\ UNCHANGED <<moves, emoves, status>>
      /\ in_gc /\ LeaveSubroutine
  BY ReturnPops
<1>4. /\ saved.sp >= 1
      /\ stack[saved.sp + 1].is = "stop"
      /\ stack[saved.sp + 2].is = "fp" /\ stack[saved.sp + 3].is = "locals"
      /\ \A i \in 1 .. sp : stack[i].is = "stop" => i = saved.sp + 1
      /\ saved.fp = TopFp(saved.sp)
      /\ Coherent(Contexts(stack, 0, saved.sp, saved.ctx), save_xp, saved.ep, 0)
      /\ Homed(save_xp)
  BY <1>1, <1>3 DEF Interrupted
<1>5. sp - 2 = saved.sp + 1
  <2>1. sp - 2 \in 1 .. sp
    BY <1>1, <1>2
  <2>. QED
    BY <1>4, <2>1
<1>6. sp = saved.sp + 3 /\ sp - 3 = saved.sp
  BY <1>1, <1>5
<1>7. /\ xp' = save_xp /\ save_xp' = << >> /\ ctx' = saved.ctx
      /\ in_gc' = FALSE /\ saved' = Nothing
  BY <1>3 DEF LeaveSubroutine
<1>. DEFINE n == saved.sp
<1>8. Popped(n) /\ n \in Nat
  BY <1>1, <1>3, <1>6
<1>9. sp' = n /\ Layout' /\ fp' \in Pointers
  <2>. HIDE DEF n
  <2>. QED
    BY <1>1, <1>8, PoppedLayout
<1>10. /\ fp'.cell = saved.fp /\ Len(stack') = saved.sp
       /\ stack' \in Seq(Cells) /\ \A i \in 1 .. n : stack'[i] = stack[i]
  BY <1>4, <1>8 DEF Popped
<1>11. ep' = saved.ep
  <2>. DEFINE f == Here
              t == sp + 1
              base == saved.ep
              zero == 0
  <2>1. DOMAIN f = {t} /\ f[t] = ctx
    <3>1. DOMAIN Here = {m \in saved.sp + 1 .. sp : stack[m].is = "ret"} \cup {sp + 1}
          /\ Here[sp + 1] = ctx
      BY <1>1, HereIs
    <3>2. \A m \in saved.sp + 1 .. sp : m = saved.sp + 1 \/ m = saved.sp + 2 \/ m = saved.sp + 3
      BY <1>1, <1>6
    <3>3. \A m \in saved.sp + 1 .. sp : stack[m].is # "ret"
      BY <1>4, <3>2
    <3>. QED
      BY <3>1, <3>3
  <2>2. Coherent(f, xp, ep, base)
    BY <1>1
  <2>. HIDE DEF f, base
  <2>3. IsContexts(f) /\ IsFiniteSet(Fors(f)) /\ ep = base + Cardinality(Fors(f)) /\ base \in Nat
    BY <2>2, CoherentParts
  <2>4. t \in DOMAIN f /\ (\A i \in DOMAIN f : i <= t) /\ zero \in 0 .. Len(f[t])
        /\ zero + 1 = 1 /\ t \in Nat
    <3>1. t \in Nat /\ t \in DOMAIN f /\ \A i \in DOMAIN f : i <= t
      BY <1>1, <2>1
    <3>2. Len(f[t]) \in Nat
      BY <2>3, <3>1, LenProperties DEF IsContexts
    <3>. QED
      BY <3>1, <3>2
  <2>5. Below(Fors(f), <<t, 1>>) = {}
    <3>. SUFFICES ASSUME NEW q \in Fors(f), Before(q, <<t, 1>>) PROVE FALSE
      BY DEF Below
    <3>1. q[1] = t /\ q[2] \in 1 .. Len(f[q[1]])
      BY <2>1, OpenPairs DEF Fors
    <3>. QED
      BY <2>4, <3>1 DEF Before
  <2>. HIDE DEF t, zero
  <2>6. /\ CountFrom(f[t], zero + 1, {"for"}) \in Nat
        /\ Cardinality(Fors(f)) = Cardinality(Below(Fors(f), <<t, zero + 1>>))
                                    + CountFrom(f[t], zero + 1, {"for"})
    BY <2>3, <2>4, LevelCount
  <2>7. Cardinality(Fors(f)) = CountFrom(ctx, 1, {"for"}) /\ CountFrom(ctx, 1, {"for"}) \in Nat
    <3>1. zero + 1 = 1 /\ f[t] = ctx
      BY <2>1, <2>4
    <3>2. /\ CountFrom(ctx, 1, {"for"}) \in Nat
          /\ Cardinality(Fors(f)) = Cardinality({}) + CountFrom(ctx, 1, {"for"})
      BY <2>5, <2>6, <3>1
    <3>3. Cardinality({}) = 0
      BY FS_EmptySet
    <3>. QED
      BY <3>2, <3>3
  <2>. QED
    BY <1>3, <2>3, <2>7 DEF base
<1>. DEFINE s == stack
            u == stack'
            c == saved.ctx
            e == saved.ep
            x == save_xp
<1>12. Coherent(Contexts(s, 0, n, c), x, e, 0) /\ \A i \in 0 + 1 .. n : u[i] = s[i]
  BY <1>4, <1>10
<1>. HIDE DEF n, s, u, c, e, x
<1>13. Coherent(Contexts(u, 0, n, c), x, e, 0)
  <2>1. n \in Nat
    BY <1>8
  <2>2. Contexts(u, 0, n, c) = Contexts(s, 0, n, c)
    BY <1>12, <2>1, SameFromBelow
  <2>. QED
    BY <1>12, <2>2
<1>14. x \in Seq(Handlers) /\ e \in Nat
  BY <1>13, CoherentParts
<1>15. Coherent(Here, xp, ep, saved.ep)'
  BY <1>7, <1>9, <1>11, <1>13 DEF Here, Nothing, u, c, e, x
<1>16. Homed(xp)'
  <2>. DEFINE zero == 0
              y == xp'
              b == 0
  <2>1. zero \in Nat /\ zero <= n /\ Coherent(Contexts(stack', zero, n, c), xp', e, b) /\ Homed(x)
    BY <1>4, <1>7, <1>8, <1>13 DEF u, x
  <2>2. Sub(xp', x)
    BY <1>7 DEF Sub, x
  <2>. HIDE DEF zero, b, y
  <2>. QED
    BY <1>1, <1>8, <2>1, <2>2, PoppedHomed
<1>17. TypeOK'
  <2>1. ctx' \in Seq(Kinds)
    <3>1. saved \in [ctx : Seq(Kinds), fp : Nat, sp : Nat, ep : Int]
      BY <1>1 DEF TypeOK
    <3>. QED
      BY <1>7, <3>1
  <2>2. Nothing \in [ctx : Seq(Kinds), fp : Nat, sp : Nat, ep : Int] /\ << >> \in Seq(Handlers)
    <3>1. << >> \in Seq(Kinds) /\ << >> \in Seq(Handlers)
      BY EmptySeq
    <3>. QED
      BY <3>1 DEF Nothing
  <2>3. ep' \in Nat /\ xp' \in Seq(Handlers)
    BY <1>7, <1>11, <1>14 DEF e, x
  <2>. QED
    BY <1>1, <1>3, <1>7, <1>9, <1>10, <2>1, <2>2, <2>3 DEF TypeOK, Cells
<1>18. Interrupted'
  <2>1. \A i \in 1 .. sp' : stack'[i].is # "stop"
    <3>. TAKE i \in 1 .. sp'
    <3>1. i \in 1 .. sp /\ i # saved.sp + 1 /\ stack'[i] = stack[i]
      BY <1>1, <1>6, <1>8, <1>9, <1>10 DEF n
    <3>. QED
      BY <1>4, <3>1
  <2>. QED
    BY <1>7, <2>1 DEF Interrupted
<1>19. ~ Grows => Unmoved(xp)' /\ Unmoved(save_xp)'
  BY <1>1, <1>3, <1>7, EmptySeq DEF IInv, Unmoved, Good
<1>20. IInv'
  BY <1>1, <1>3, <1>9, <1>15, <1>16, <1>17, <1>18, <1>19 DEF IInv, Running, Grows
<1>. QED
  BY <1>3, <1>10, <1>11, <1>20

---------------------------------------------------------------------------
\* Stacks that move.

LEMMA LikeContexts ==
  ASSUME NEW s, NEW u, NEW lo \in Nat, NEW hi \in Nat, NEW c,
         \A i \in lo + 1 .. hi : u[i].is = s[i].is /\ u[i].ctx = s[i].ctx
  PROVE  Contexts(u, lo, hi, c) = Contexts(s, lo, hi, c)
<1>1. {m \in lo + 1 .. hi : s[m].is = "ret"} = {m \in lo + 1 .. hi : u[m].is = "ret"}
  OBVIOUS
<1>2. \A i \in {m \in lo + 1 .. hi : s[m].is = "ret"} : u[i].ctx = s[i].ctx
  OBVIOUS
<1>. QED
  BY <1>1, <1>2 DEF Contexts

\* Handlers with the same contexts that point to the same cells.
Alike(y, x) ==
  /\ y \in Seq(Handlers) /\ Len(y) = Len(x)
  /\ \A k \in 1 .. Len(x) :
       /\ y[k].ctx = x[k].ctx /\ y[k].fp.cell = x[k].fp.cell
       /\ y[k].sp.cell = x[k].sp.cell /\ y[k].ep.cell = x[k].ep.cell

LEMMA CoherentAlike ==
  ASSUME NEW f, NEW x, NEW e, NEW base, Coherent(f, x, e, base), NEW y, Alike(y, x)
  PROVE  Coherent(f, y, e, base)
<1>1. \A k \in 1 .. Len(x) : Place(y[k]) = Place(x[k])
  BY DEF Alike, Place
<1>2. Describes(x, Tries(f)) /\ \A k \in 1 .. Len(x) : Catches(x[k], f, base)
  BY CoherentParts
<1>3. Describes(y, Tries(f))
  BY <1>1, <1>2 DEF Describes, Alike
<1>4. \A k \in 1 .. Len(y) : Catches(y[k], f, base)
  <2>. TAKE k \in 1 .. Len(y)
  <2>1. k \in 1 .. Len(x) /\ Catches(x[k], f, base)
    BY <1>2 DEF Alike
  <2>. QED
    BY <1>1, <2>1 DEF Catches, Alike
<1>. QED
  BY <1>3, <1>4, CoherentParts DEF Alike

LEMMA MovedPointer ==
  ASSUME TypeOK, NEW p \in Pointers
  PROVE  /\ Moved(p) \in Pointers /\ Moved(p).cell = p.cell
         /\ EMoved(p) \in Pointers /\ EMoved(p).cell = p.cell
         /\ p.moves = moves => Moved(p).moves = moves + 1
         /\ p.moves = emoves => EMoved(p).moves = emoves + 1
<1>1. moves \in Nat /\ emoves \in Nat /\ moves + 1 \in Nat /\ emoves + 1 \in Nat
  BY DEF TypeOK
<1>. QED
  BY <1>1 DEF Moved, EMoved, Pointers

LEMMA ReallocCallStackStep ==
  ASSUME IInv, ReallocCallStack  PROVE  IInv'
<1>1. /\ TypeOK /\ Running /\ Layout /\ Interrupted /\ Homed(xp)
      /\ Coherent(Here, xp, ep, saved.ep)
      /\ saved.sp \in Nat /\ sp \in Nat /\ saved.sp <= sp /\ moves \in Nat
      /\ xp \in Seq(Handlers) /\ Len(xp) \in Nat /\ stack \in Seq(Cells)
      /\ fp \in Pointers
  BY Around, Types DEF IInv, ReallocCallStack, MayMove, TypeOK, Cells
<1>2. /\ in_gc => Grows
      /\ moves' = moves + 1 /\ fp' = Moved(fp)
      /\ stack' = [i \in 1 .. sp |->
                    IF stack[i].is = "fp" THEN [stack[i] EXCEPT !.ptr = Moved(@)]
                                          ELSE stack[i]]
      /\ xp' = [i \in 1 .. Len(xp) |-> [xp[i] EXCEPT !.fp = Moved(@), !.sp = Moved(@)]]
      /\ UNCHANGED <<ctx, ep, save_xp, in_gc, saved, emoves, status>>
  BY DEF ReallocCallStack, MayMove, Allowed, Grows
<1>3. ASSUME NEW i \in 1 .. sp
      PROVE  /\ stack'[i] \in Cells
             /\ stack'[i].is = stack[i].is /\ stack'[i].ctx = stack[i].ctx
             /\ stack[i].is = "fp" => stack'[i].ptr = Moved(stack[i].ptr)
  <2>1. stack[i] \in Cells /\ stack[i].ptr \in Pointers
    <3>1. stack[i] \in Cells
      BY <1>1, ElementOfSeq DEF sp
    <3>. QED
      BY <3>1 DEF Cells
  <2>2. Moved(stack[i].ptr) \in Pointers
    BY <1>1, <2>1, MovedPointer
  <2>3. stack'[i] = IF stack[i].is = "fp" THEN [stack[i] EXCEPT !.ptr = Moved(@)] ELSE stack[i]
    BY <1>2
  <2>. QED
    BY <2>1, <2>2, <2>3 DEF Cells
<1>4. stack' \in Seq(Cells) /\ sp' = sp
  <2>. DEFINE e(i) == IF stack[i].is = "fp" THEN [stack[i] EXCEPT !.ptr = Moved(@)]
                                            ELSE stack[i]
  <2>1. \A i \in 1 .. sp : e(i) \in Cells
    BY <1>2, <1>3
  <2>2. stack' = [i \in 1 .. sp |-> e(i)]
    BY <1>2
  <2>. HIDE DEF e
  <2>3. stack' \in Seq(Cells) /\ Len(stack') = sp
    BY <1>1, <2>1, <2>2
  <2>. QED
    BY <2>3 DEF sp
<1>5. ASSUME NEW k \in 1 .. Len(xp)
      PROVE  /\ xp'[k] \in Handlers
             /\ xp'[k].ctx = xp[k].ctx /\ xp'[k].fp.cell = xp[k].fp.cell
             /\ xp'[k].sp.cell = xp[k].sp.cell /\ xp'[k].ep.cell = xp[k].ep.cell
             /\ Good(xp[k]) => Good(xp[k])'
  <2>. DEFINE h == xp[k]
  <2>1. h \in Handlers
    BY <1>1, ElementOfSeq
  <2>2. xp'[k] = [h EXCEPT !.fp = Moved(@), !.sp = Moved(@)]
    BY <1>2
  <2>. HIDE DEF h
  <2>3. h.fp \in Pointers /\ h.sp \in Pointers
    BY <2>1 DEF Handlers
  <2>4. /\ Moved(h.fp) \in Pointers /\ Moved(h.fp).cell = h.fp.cell
        /\ Moved(h.sp) \in Pointers /\ Moved(h.sp).cell = h.sp.cell
        /\ h.fp.moves = moves => Moved(h.fp).moves = moves + 1
        /\ h.sp.moves = moves => Moved(h.sp).moves = moves + 1
    <3>. DEFINE p == h.fp
                q == h.sp
    <3>1. p \in Pointers /\ q \in Pointers
      BY <2>3
    <3>. HIDE DEF p, q
    <3>2. /\ Moved(p) \in Pointers /\ Moved(p).cell = p.cell
          /\ p.moves = moves => Moved(p).moves = moves + 1
      BY <1>1, <3>1, MovedPointer
    <3>3. /\ Moved(q) \in Pointers /\ Moved(q).cell = q.cell
          /\ q.moves = moves => Moved(q).moves = moves + 1
      BY <1>1, <3>1, MovedPointer
    <3>. QED
      BY <3>2, <3>3 DEF p, q
  <2>5. /\ xp'[k] \in Handlers /\ xp'[k].ctx = h.ctx /\ xp'[k].ep = h.ep
        /\ xp'[k].fp = Moved(h.fp) /\ xp'[k].sp = Moved(h.sp)
    BY <2>1, <2>2, <2>4 DEF Handlers
  <2>. QED
    BY <1>2, <2>4, <2>5 DEF Good, h
<1>6. Alike(xp', xp)
  <2>1. xp' \in Seq(Handlers) /\ Len(xp') = Len(xp)
    <3>. DEFINE e(i) == [xp[i] EXCEPT !.fp = Moved(@), !.sp = Moved(@)]
    <3>1. \A i \in 1 .. Len(xp) : e(i) \in Handlers
      BY <1>2, <1>5
    <3>2. xp' = [i \in 1 .. Len(xp) |-> e(i)]
      BY <1>2
    <3>. HIDE DEF e
    <3>. QED
      BY <1>1, <3>1, <3>2
  <2>. QED
    BY <1>5, <2>1 DEF Alike
<1>7. Coherent(Here, xp, ep, saved.ep)'
  <2>. DEFINE s == stack
              u == stack'
              lo == saved.sp
              hi == sp
              c == ctx
              f == Here
              base == saved.ep
              y == xp'
  <2>1. \A i \in lo + 1 .. hi : u[i].is = s[i].is /\ u[i].ctx = s[i].ctx
    <3>1. \A i \in lo + 1 .. hi : i \in 1 .. sp
      BY <1>1
    <3>. QED
      BY <1>3, <3>1
  <2>2. /\ lo \in Nat /\ hi \in Nat /\ f = Contexts(s, lo, hi, c)
        /\ Coherent(f, xp, ep, base) /\ Alike(y, xp)
    BY <1>1, <1>6 DEF Here
  <2>. HIDE DEF s, u, lo, hi, c, f, base, y
  <2>3. Contexts(u, lo, hi, c) = f
    BY <2>1, <2>2, LikeContexts
  <2>4. Coherent(f, y, ep, base)
    BY <2>2, CoherentAlike
  <2>. QED
    BY <1>2, <1>4, <2>3, <2>4 DEF Here, u, lo, hi, c, base, y
<1>8. TypeOK'
  <2>1. fp' \in Pointers
    BY <1>1, <1>2, MovedPointer
  <2>2. xp' \in Seq(Handlers) /\ moves' \in Nat
    <3>1. moves \in Nat /\ moves' = moves + 1
      BY <1>1, <1>2
    <3>2. moves' \in Nat
      BY <3>1
    <3>. QED
      BY <1>6, <3>2 DEF Alike
  <2>. QED
    BY <1>1, <1>2, <1>4, <2>1, <2>2 DEF TypeOK, Cells
<1>9. Layout'
  <2>1. fp = [cell |-> TopFp(sp), moves |-> moves]
    BY <1>1 DEF Layout
  <2>2. fp' = [cell |-> TopFp(sp), moves |-> moves + 1]
    <3>1. fp.cell = TopFp(sp) /\ fp.moves = moves
      BY <2>1
    <3>2. fp' \in Pointers /\ fp'.cell = fp.cell /\ fp'.moves = moves + 1
      BY <1>1, <1>2, <3>1, MovedPointer
    <3>3. fp' = [cell |-> fp'.cell, moves |-> fp'.moves]
      BY <3>2 DEF Pointers
    <3>. QED
      BY <3>1, <3>2, <3>3
  <2>3. 1 \in 1 .. sp /\ sp \in 1 .. sp
    BY <1>1 DEF Layout
  <2>4. ASSUME NEW i \in 2 .. sp, stack'[i].is = "locals"
        PROVE  /\ i >= 4 /\ stack'[i - 3].is = "locals"
               /\ stack'[i - 2].is \in {"ret", "stop"} /\ stack'[i - 1].is = "fp"
               /\ stack'[i - 1].ptr = [cell |-> TopFp(i - 3), moves |-> moves + 1]
    <3>1. i \in 1 .. sp
      BY <1>1
    <3>2. /\ i >= 4 /\ stack[i - 3].is = "locals"
          /\ stack[i - 2].is \in {"ret", "stop"} /\ stack[i - 1].is = "fp"
          /\ stack[i - 1].ptr = [cell |-> TopFp(i - 3), moves |-> moves]
      BY <1>1, <1>3, <2>4, <3>1 DEF Layout
    <3>3. i - 3 \in 1 .. sp /\ i - 2 \in 1 .. sp /\ i - 1 \in 1 .. sp
      BY <1>1, <3>1, <3>2
    <3>4. stack[i - 1] \in Cells
      BY <1>1, <3>3, ElementOfSeq DEF sp
    <3>5. stack[i - 1].ptr \in Pointers
      BY <3>4 DEF Cells
    <3>6. Moved(stack[i - 1].ptr) = [cell |-> TopFp(i - 3), moves |-> moves + 1]
      <4>. DEFINE p == stack[i - 1].ptr
      <4>1. p \in Pointers /\ p.cell = TopFp(i - 3) /\ p.moves = moves
        BY <3>2, <3>5
      <4>. HIDE DEF p
      <4>2. /\ Moved(p) \in Pointers /\ Moved(p).cell = p.cell /\ Moved(p).moves = moves + 1
        BY <1>1, <4>1, MovedPointer
      <4>3. Moved(p) = [cell |-> Moved(p).cell, moves |-> Moved(p).moves]
        BY <4>2 DEF Pointers
      <4>. QED
        BY <4>1, <4>2, <4>3 DEF p
    <3>. QED
      BY <1>3, <3>2, <3>3, <3>6
  <2>5. stack'[1].is = "locals" /\ stack'[sp].is = "locals" /\ sp >= 1
    BY <1>1, <1>3, <2>3 DEF Layout
  <2>6. sp' = sp /\ moves' = moves + 1
    BY <1>2, <1>4
  <2>. QED
    BY <2>2, <2>4, <2>5, <2>6 DEF Layout
<1>10. Homed(xp)'
  <2>. SUFFICES ASSUME NEW k \in 1 .. Len(xp')
       PROVE  /\ xp'[k].sp.cell \in 1 .. sp' /\ stack'[xp'[k].sp.cell].is = "locals"
              /\ xp'[k].fp.cell = TopFp(xp'[k].sp.cell)
    BY DEF Homed
  <2>1. k \in 1 .. Len(xp)
    BY <1>6 DEF Alike
  <2>2. /\ xp[k].sp.cell \in 1 .. sp /\ stack[xp[k].sp.cell].is = "locals"
        /\ xp[k].fp.cell = TopFp(xp[k].sp.cell)
    BY <1>1, <2>1 DEF Homed
  <2>. QED
    BY <1>3, <1>4, <1>5, <2>1, <2>2
<1>11. Interrupted'
  <2>1. CASE ~ in_gc
    BY <1>1, <1>2, <1>3, <1>4, <2>1 DEF Interrupted
  <2>2. CASE in_gc
    <3>1. /\ saved.sp >= 1 /\ sp >= saved.sp + 3
          /\ stack[saved.sp].is = "locals" /\ stack[saved.sp + 1].is = "stop"
          /\ stack[saved.sp + 2].is = "fp" /\ stack[saved.sp + 3].is = "locals"
          /\ \A i \in 1 .. sp : stack[i].is = "stop" => i = saved.sp + 1
          /\ saved.fp = TopFp(saved.sp)
          /\ Coherent(Contexts(stack, 0, saved.sp, saved.ctx), save_xp, saved.ep, 0)
          /\ Homed(save_xp)
      BY <1>1, <2>2 DEF Interrupted
    <3>2. saved.sp >= 1 /\ sp >= saved.sp + 3
      BY <3>1
    <3>3. /\ saved.sp \in 1 .. sp /\ saved.sp + 1 \in 1 .. sp
          /\ saved.sp + 2 \in 1 .. sp /\ saved.sp + 3 \in 1 .. sp
      BY <1>1, <3>2
    <3>. DEFINE s == stack
                u == stack'
                hi == saved.sp
                c == saved.ctx
                zero == 0
    <3>4. /\ hi \in Nat /\ zero \in Nat
          /\ \A i \in zero + 1 .. hi : u[i].is = s[i].is /\ u[i].ctx = s[i].ctx
      <4>1. \A i \in zero + 1 .. hi : i \in 1 .. sp
        BY <1>1
      <4>. QED
        BY <1>1, <1>3, <4>1
    <3>. HIDE DEF s, u, hi, c, zero
    <3>5. Contexts(u, zero, hi, c) = Contexts(s, zero, hi, c)
      BY <3>4, LikeContexts
    <3>6. Coherent(Contexts(stack, 0, saved.sp, saved.ctx), save_xp, saved.ep, 0)'
      BY <1>2, <3>1, <3>5 DEF s, u, hi, c, zero
    <3>7. Homed(save_xp)'
      BY <1>2, <1>3, <1>4, <3>1 DEF Homed
    <3>8. \A i \in 1 .. sp' : stack'[i].is = "stop" => i = saved.sp + 1
      BY <1>3, <1>4, <3>1
    <3>9. /\ stack'[saved.sp].is = "locals" /\ stack'[saved.sp + 1].is = "stop"
          /\ stack'[saved.sp + 2].is = "fp" /\ stack'[saved.sp + 3].is = "locals"
      BY <1>3, <3>1, <3>3
    <3>. QED
      BY <1>2, <1>4, <2>2, <3>1, <3>2, <3>6, <3>7, <3>8, <3>9 DEF Interrupted
  <2>. QED
    BY <2>1, <2>2
<1>12. ~ Grows => Unmoved(xp)' /\ Unmoved(save_xp)'
  <2>. SUFFICES ASSUME ~ Grows PROVE Unmoved(xp)' /\ Unmoved(save_xp)'
    OBVIOUS
  <2>1. save_xp' = << >>
    BY <1>1, <1>2 DEF Interrupted
  <2>2. Unmoved(xp)'
    BY <1>1, <1>5, <1>6 DEF IInv, Unmoved, Alike
  <2>. QED
    BY <2>1, <2>2, EmptySeq DEF Unmoved
<1>. QED
  BY <1>1, <1>2, <1>7, <1>8, <1>9, <1>10, <1>11, <1>12 DEF IInv, Running, Grows

LEMMA ReallocEvalStackStep ==
  ASSUME IInv, ReallocEvalStack  PROVE  IInv'
<1>1. /\ TypeOK /\ Running /\ Layout /\ Interrupted /\ Homed(xp)
      /\ Coherent(Here, xp, ep, saved.ep) /\ emoves \in Nat
      /\ xp \in Seq(Handlers) /\ Len(xp) \in Nat
  BY Types DEF IInv, ReallocEvalStack, MayMove, TypeOK
<1>2. /\ in_gc => Grows
      /\ emoves' = emoves + 1
      /\ xp' = [i \in 1 .. Len(xp) |-> [xp[i] EXCEPT !.ep = EMoved(@)]]
      /\ UNCHANGED <<ctx, stack, fp, ep, save_xp, in_gc, saved, moves, status>>
  BY DEF ReallocEvalStack, MayMove, Allowed, Grows
<1>3. ASSUME NEW k \in 1 .. Len(xp)
      PROVE  /\ xp'[k] \in Handlers
             /\ xp'[k].ctx = xp[k].ctx /\ xp'[k].fp.cell = xp[k].fp.cell
             /\ xp'[k].sp.cell = xp[k].sp.cell /\ xp'[k].ep.cell = xp[k].ep.cell
             /\ Good(xp[k]) => Good(xp[k])'
  <2>. DEFINE h == xp[k]
  <2>1. h \in Handlers
    BY <1>1, ElementOfSeq
  <2>2. xp'[k] = [h EXCEPT !.ep = EMoved(@)]
    BY <1>2
  <2>. HIDE DEF h
  <2>3. h.ep \in Pointers
    BY <2>1 DEF Handlers
  <2>4. /\ EMoved(h.ep) \in Pointers /\ EMoved(h.ep).cell = h.ep.cell
        /\ h.ep.moves = emoves => EMoved(h.ep).moves = emoves + 1
    <3>. DEFINE p == h.ep
    <3>1. p \in Pointers
      BY <2>3
    <3>. HIDE DEF p
    <3>2. /\ EMoved(p) \in Pointers /\ EMoved(p).cell = p.cell
          /\ p.moves = emoves => EMoved(p).moves = emoves + 1
      BY <1>1, <3>1, MovedPointer
    <3>. QED
      BY <3>2 DEF p
  <2>5. /\ xp'[k] \in Handlers /\ xp'[k].ctx = h.ctx /\ xp'[k].ep = EMoved(h.ep)
        /\ xp'[k].fp = h.fp /\ xp'[k].sp = h.sp
    BY <2>1, <2>2, <2>4 DEF Handlers
  <2>. QED
    BY <1>2, <2>4, <2>5 DEF Good, h
<1>4. Alike(xp', xp)
  <2>1. xp' \in Seq(Handlers) /\ Len(xp') = Len(xp)
    <3>. DEFINE e(i) == [xp[i] EXCEPT !.ep = EMoved(@)]
    <3>1. \A i \in 1 .. Len(xp) : e(i) \in Handlers
      BY <1>2, <1>3
    <3>2. xp' = [i \in 1 .. Len(xp) |-> e(i)]
      BY <1>2
    <3>. HIDE DEF e
    <3>. QED
      BY <1>1, <3>1, <3>2
  <2>. QED
    BY <1>3, <2>1 DEF Alike
<1>5. Here' = Here
  BY <1>2 DEF Here, sp
<1>6. Coherent(Here, xp, ep, saved.ep)'
  <2>. DEFINE f == Here
              base == saved.ep
              y == xp'
  <2>1. Coherent(f, xp, ep, base) /\ Alike(y, xp)
    BY <1>1, <1>4
  <2>. HIDE DEF f, base, y
  <2>2. Coherent(f, y, ep, base)
    BY <2>1, CoherentAlike
  <2>. QED
    BY <1>2, <1>5, <2>2 DEF f, base, y
<1>7. TypeOK'
  BY <1>1, <1>2, <1>4 DEF TypeOK, Alike
<1>8. Layout' /\ Interrupted'
  BY <1>1, <1>2 DEF Layout, Interrupted, sp, Homed
<1>9. Homed(xp)'
  <2>. SUFFICES ASSUME NEW k \in 1 .. Len(xp')
       PROVE  /\ xp'[k].sp.cell \in 1 .. sp' /\ stack'[xp'[k].sp.cell].is = "locals"
              /\ xp'[k].fp.cell = TopFp(xp'[k].sp.cell)
    BY DEF Homed
  <2>1. k \in 1 .. Len(xp) /\ sp' = sp /\ stack' = stack
    BY <1>2, <1>4 DEF Alike, sp
  <2>2. /\ xp[k].sp.cell \in 1 .. sp /\ stack[xp[k].sp.cell].is = "locals"
        /\ xp[k].fp.cell = TopFp(xp[k].sp.cell)
    BY <1>1, <2>1 DEF Homed
  <2>. QED
    BY <1>3, <2>1, <2>2
<1>10. ~ Grows => Unmoved(xp)' /\ Unmoved(save_xp)'
  <2>. SUFFICES ASSUME ~ Grows PROVE Unmoved(xp)' /\ Unmoved(save_xp)'
    OBVIOUS
  <2>1. save_xp' = << >>
    BY <1>1, <1>2 DEF Interrupted
  <2>2. Unmoved(xp)'
    BY <1>1, <1>3, <1>4 DEF IInv, Unmoved, Alike
  <2>. QED
    BY <2>1, <2>2, EmptySeq DEF Unmoved
<1>. QED
  BY <1>1, <1>2, <1>6, <1>7, <1>8, <1>9, <1>10 DEF IInv, Running, Grows

---------------------------------------------------------------------------
\* The invariant holds.

LEMMA InitIInv ==
  ASSUME Init  PROVE  IInv
<1>1. << >> \in Seq(Kinds) /\ << >> \in Seq(Handlers) /\ Len(<< >>) = 0
  BY EmptySeq
<1>2. Locals \in Cells /\ Locals.is = "locals"
  BY <1>1 DEF Locals, Cells, Pointers
<1>3. /\ ctx = << >> /\ stack = <<Locals>> /\ fp = [cell |-> 1, moves |-> 0] /\ ep = 0
      /\ xp = << >> /\ save_xp = << >> /\ in_gc = FALSE /\ saved = Nothing
      /\ moves = 0 /\ emoves = 0 /\ status = "running"
  BY DEF Init
<1>4. stack \in Seq(Cells) /\ sp = 1 /\ stack[1] = Locals
  BY <1>2, <1>3 DEF sp
<1>5. saved.sp = 0 /\ saved.ep = 0 /\ saved \in [ctx : Seq(Kinds), fp : Nat, sp : Nat, ep : Int]
  BY <1>1, <1>3 DEF Nothing
<1>6. TypeOK
  BY <1>1, <1>3, <1>4, <1>5 DEF TypeOK, Cells, Pointers
<1>7. Layout
  BY <1>2, <1>3, <1>4 DEF Layout, TopFp
<1>8. Interrupted
  BY <1>2, <1>3, <1>4 DEF Interrupted
<1>9. Coherent(Here, xp, ep, saved.ep)
  <2>. DEFINE f == Here
              e == 0
  <2>1. DOMAIN f = {2} /\ f[2] = << >>
    <3>1. DOMAIN f = {m \in 0 + 1 .. 1 : stack[m].is = "ret"} \cup {1 + 1} /\ f[1 + 1] = ctx
      BY <1>4, <1>5 DEF Here, Contexts
    <3>2. \A m \in 0 + 1 .. 1 : stack[m].is # "ret"
      BY <1>2, <1>4
    <3>. QED
      BY <1>3, <3>1, <3>2
  <2>2. e \in Nat /\ ep = e /\ saved.ep = e
    BY <1>3, <1>5
  <2>. HIDE DEF f, e
  <2>3. IsContexts(f) /\ ProperContexts(f)
        /\ \A i \in DOMAIN f : \A j \in 1 .. Len(f[i]) : f[i][j] \notin {"try", "for"}
    <3>1. \A i \in DOMAIN f : f[i] = << >> /\ Len(f[i]) = 0 /\ i \in Nat
      BY <1>1, <2>1
    <3>2. \A j : j \notin 1 .. 0
      OBVIOUS
    <3>3. IsContexts(f)
      BY <1>1, <3>1 DEF IsContexts
    <3>4. ProperContexts(f)
      BY <3>1, <3>2 DEF ProperContexts
    <3>5. \A i \in DOMAIN f : \A j \in 1 .. Len(f[i]) : f[i][j] \notin {"try", "for"}
      BY <3>1, <3>2
    <3>. QED
      BY <3>3, <3>4, <3>5
  <2>4. Coherent(f, << >>, e, e)
    BY <2>2, <2>3, CoherentNew
  <2>. QED
    BY <1>3, <2>2, <2>4 DEF f
<1>10. Homed(xp) /\ Unmoved(xp) /\ Unmoved(save_xp)
  BY <1>1, <1>3 DEF Homed, Unmoved
<1>. QED
  BY <1>3, <1>6, <1>7, <1>8, <1>9, <1>10 DEF IInv

LEMMA ReturnStep ==
  ASSUME Mild, IInv, NEW value \in BOOLEAN, Return(value)  PROVE  IInv'
BY ReturnToCaller, ReturnFromDestructor

LEMMA NextIInv ==
  ASSUME Mild, IInv, [Next]_vars  PROVE  IInv'
<1>1. CASE UNCHANGED vars
  <2>1. sp' = sp /\ Here' = Here
    BY <1>1 DEF vars, sp, Here
  <2>2. TypeOK' = TypeOK
    BY <1>1 DEF vars, TypeOK
  <2>3. Layout' = Layout /\ Interrupted' = Interrupted
    BY <1>1, <2>1 DEF vars, Layout, Interrupted, Homed
  <2>4. /\ Coherent(Here, xp, ep, saved.ep)' = Coherent(Here, xp, ep, saved.ep)
        /\ Homed(xp)' = Homed(xp) /\ Unmoved(xp)' = Unmoved(xp)
        /\ Unmoved(save_xp)' = Unmoved(save_xp) /\ status' = status
    BY <1>1, <2>1 DEF vars, Homed, Unmoved, Good
  <2>. QED
    BY <2>2, <2>3, <2>4 DEF IInv, Running, Grows
<1>2. ASSUME NEW b \in Loops, EnterLoop(b)  PROVE  IInv'
  BY <1>2, EnterLoopStep
<1>3. ASSUME NEW b \in Loops, LeaveLoop(b)  PROVE  IInv'
  BY <1>3, LeaveLoopStep
<1>4. ASSUME NEW i \in 1 .. Len(ctx), Break(i) \/ Continue(i)  PROVE  IInv'
  <2>1. CASE Break(i)
    BY <2>1, JumpStep DEF Break
  <2>2. CASE Continue(i)
    BY <2>2, JumpStep DEF Continue
  <2>. QED
    BY <1>4, <2>1, <2>2
<1>5. CASE EnterTry
  BY <1>5, EnterTryStep
<1>6. CASE LeaveTry
  BY <1>6, LeaveTryStep
<1>7. CASE LeaveCatch
  BY <1>7, LeaveCatchStep
<1>8. CASE Raise
  BY <1>8, RaiseStep
<1>9. CASE RaiseUnhandled
  BY <1>9, EndStep DEF RaiseUnhandled
<1>10. ASSUME NEW outer, Call(outer)  PROVE  IInv'
  BY <1>10, CallStep
<1>11. ASSUME NEW value \in BOOLEAN, Return(value)  PROVE  IInv'
  BY <1>11, ReturnStep
<1>12. CASE StartDestructor
  BY <1>12, StartDestructorStep
<1>13. ~ DestructorRaises
  BY DEF DestructorRaises, Mild
<1>14. CASE ReallocCallStack
  BY <1>14, ReallocCallStackStep
<1>15. CASE ReallocEvalStack
  BY <1>15, ReallocEvalStackStep
<1>16. CASE EndProgram
  BY <1>16, EndStep DEF EndProgram
<1>17. CASE Stopped
  BY <1>1, <1>17 DEF Stopped
<1>. QED
  BY <1>1, <1>2, <1>3, <1>4, <1>5, <1>6, <1>7, <1>8, <1>9, <1>10, <1>11, <1>12, <1>13,
     <1>14, <1>15, <1>16, <1>17 DEF Next

\* The contexts of the code that is under way, its handlers and the height of
\* the evaluation stack agree at every point of a program, and those of a
\* program that a destructor has interrupted do so until that is done.
THEOREM Invariance ==
  ASSUME Mild  PROVE  Spec => []IInv
<1>1. Init => IInv
  BY InitIInv
<1>2. IInv /\ [Next]_vars => IInv'
  BY NextIInv
<1>. QED
  BY <1>1, <1>2, PTL DEF Spec

\* Every register has a value of its type.
THEOREM Typing ==
  ASSUME Mild  PROVE  Spec => []TypeOK
<1>1. IInv => TypeOK
  BY DEF IInv
<1>. QED
  BY <1>1, Invariance, PTL

\* xp has a handler for every try body that is open, in their order, and no
\* other: calls, returns, jumps, exceptions and destructors keep it so.
THEOREM HandlersAreOpenTries ==
  ASSUME Mild  PROVE  Spec => []XpDescribesOpenTries
<1>1. IInv => XpDescribesOpenTries
  BY CoherentParts DEF IInv, XpDescribesOpenTries, Tries
<1>. QED
  BY <1>1, Invariance, PTL

\* The evaluation stack holds the counters of the loops that are open and no
\* others.
THEOREM CountersAreOpenLoops ==
  ASSUME Mild  PROVE  Spec => []EvalStackIsBalanced
<1>1. IInv => EvalStackIsBalanced
  BY CoherentParts DEF IInv, EvalStackIsBalanced, Fors
<1>. QED
  BY <1>1, Invariance, PTL

\* fp points to the saved frame pointer nearest to the top of the stack,
\* however often the stack has moved.
THEOREM FramePointer ==
  ASSUME Mild  PROVE  Spec => []FpIsTheTopFrame
<1>1. IInv => FpIsTheTopFrame
  <2>. SUFFICES ASSUME IInv, Running
       PROVE  \/ fp.cell = 1 /\ \A i \in 1 .. sp : stack[i].is # "fp"
              \/ PointsToFrame(fp) /\ \A i \in fp.cell + 1 .. sp : stack[i].is # "fp"
    BY DEF FpIsTheTopFrame
  <2>1. Layout /\ sp \in Nat /\ moves \in Nat
    BY Types DEF IInv, TypeOK
  <2>2. fp = [cell |-> TopFp(sp), moves |-> moves] /\ sp >= 1
        /\ stack[1].is = "locals" /\ stack[sp].is = "locals"
    BY <2>1 DEF Layout
  <2>3. CASE sp = 1
    BY <2>2, <2>3 DEF TopFp
  <2>4. CASE sp # 1
    <3>1. sp \in 2 .. sp /\ fp = [cell |-> sp - 1, moves |-> moves]
      BY <2>1, <2>2, <2>4 DEF TopFp
    <3>2. sp >= 4 /\ stack[sp - 1].is = "fp"
      BY <2>1, <2>2, <3>1 DEF Layout
    <3>3. sp - 1 \in 2 .. sp /\ \A i \in sp - 1 + 1 .. sp : i = sp
      BY <2>1, <3>2
    <3>. QED
      BY <2>2, <3>1, <3>2, <3>3 DEF PointsToFrame
  <2>. QED
    BY <2>3, <2>4
<1>. QED
  BY <1>1, Invariance, PTL

\* A destructor that ends leaves fp, sp and ep as they were when it began,
\* even if the stacks have moved in between.
THEOREM Transparency ==
  ASSUME Mild  PROVE  Spec => DestructorIsTransparent
<1>1. ASSUME IInv, [Next]_vars, in_gc, ~ in_gc'
      PROVE  fp'.cell = saved.fp /\ Len(stack') = saved.sp /\ ep' = saved.ep
  <2>1. in_gc' # in_gc
    BY <1>1
  <2>2. Next /\ ~ UNCHANGED vars
    BY <1>1, <2>1 DEF vars
  <2>3. \E value \in BOOLEAN : Return(value)
    BY <1>1, <2>1, <2>2
       DEF Next, EnterLoop, LeaveLoop, Break, Continue, Jump, EnterTry, LeaveTry, LeaveCatch,
           Raise, RaiseUnhandled, Call, StartDestructor, DestructorRaises, ReallocCallStack,
           ReallocEvalStack, EndProgram, Stopped, Crash, Mild, vars
  <2>4. PICK value \in BOOLEAN : Return(value)
    BY <2>3
  <2>5. stack[sp - 2].is = "stop"
    <3>. SUFFICES ASSUME stack[sp - 2].is # "stop" PROVE FALSE
      OBVIOUS
    <3>1. RestoreAndGo(stack[sp - 2].ctx)
      BY <1>1, <2>4, ReturnPops
    <3>. QED
      BY <2>1, <3>1 DEF RestoreAndGo
  <2>. QED
    BY <1>1, <2>4, <2>5, ReturnFromDestructor
<1>2. IInv /\ [Next]_vars =>
        [in_gc /\ ~ in_gc' => /\ fp'.cell = saved.fp
                              /\ Len(stack') = saved.sp
                              /\ ep' = saved.ep]_vars
  BY <1>1
<1>. QED
  BY <1>2, Invariance, PTL DEF Spec, DestructorIsTransparent

\* No handler of xp has a pointer into a stack that has moved since.
THEOREM HandlersStayGood ==
  ASSUME Uses = {}  PROVE  Spec => []NoStaleHandler
<1>1. Mild /\ ~ Grows
  BY DEF Mild, Grows
<1>2. IInv => NoStaleHandler
  BY <1>1 DEF IInv, NoStaleHandler, Unmoved
<1>. QED
  BY <1>1, <1>2, Invariance, PTL

\* No exception goes to a handler that is not good, no return takes a frame
\* or a handler that is not there.
THEOREM NothingRunsWild ==
  ASSUME Uses = {}  PROVE  Spec => []NoWildAccess
<1>1. Mild /\ ~ Grows
  BY DEF Mild, Grows
<1>2. IInv => NoWildAccess
  BY <1>1 DEF IInv, NoWildAccess
<1>. QED
  BY <1>1, <1>2, Invariance, PTL

---------------------------------------------------------------------------
\* The program as the source sees it.

\* Above the variables of the program there are K frames.
Frames3(K) ==
  /\ K \in Nat /\ sp = 3 * K + 1
  /\ \A i \in 1 .. sp : stack[i].is = "locals" => \E k \in 0 .. K : i = 3 * k + 1
  /\ \A k \in 0 .. K : stack[3 * k + 1].is = "locals"
  /\ \A k \in 1 .. K : stack[3 * k - 1].is \in {"ret", "stop"} /\ stack[3 * k].is = "fp"
  /\ \A i \in 1 .. sp : stack[i].is = "ret" => \E k \in 1 .. K : i = 3 * k - 1

LEMMA FramesOfThree ==
  ASSUME TypeOK, Layout  PROVE  \E K \in Nat : Frames3(K)
<1>. DEFINE L(i) == stack[i].is = "locals"
            T(i) == \E k \in Nat : i = 3 * k + 1
            Odd == {i \in Nat : i \in 1 .. sp /\ L(i) /\ ~ T(i)}
<1>1. /\ sp \in Nat /\ sp >= 1 /\ L(1) /\ L(sp)
      /\ \A i \in 2 .. sp : L(i) => /\ i >= 4 /\ L(i - 3)
                                    /\ stack[i - 2].is \in {"ret", "stop"}
                                    /\ stack[i - 1].is = "fp"
  BY Types DEF Layout
<1>. HIDE DEF L
<1>2. \A i \in Nat : T(i) => T(i + 3)
  <2>. SUFFICES ASSUME NEW k \in Nat PROVE \E m \in Nat : (3 * k + 1) + 3 = 3 * m + 1
    OBVIOUS
  <2>1. (3 * k + 1) + 3 = 3 * (k + 1) + 1 /\ k + 1 \in Nat
    OBVIOUS
  <2>. QED
    BY <2>1
<1>3. T(1)
  <2>1. 1 = 3 * 0 + 1
    OBVIOUS
  <2>. QED
    BY <2>1
<1>4. Odd = {}
  <2>. SUFFICES ASSUME Odd # {} PROVE FALSE
    OBVIOUS
  <2>1. PICK i \in Odd : \A j \in Odd : i <= j
    BY LeastNatural
  <2>2. i # 1
    BY <1>3, <2>1
  <2>3. i >= 4 /\ L(i - 3) /\ i - 3 \in 1 .. sp /\ i - 3 \in Nat /\ (i - 3) + 3 = i
    BY <1>1, <2>1, <2>2
  <2>. HIDE DEF T
  <2>4. T(i - 3)
    BY <2>1, <2>3
  <2>. QED
    BY <1>2, <2>1, <2>3, <2>4
<1>5. \A i \in 1 .. sp : L(i) => T(i)
  BY <1>4
<1>6. PICK K \in Nat : sp = 3 * K + 1
  BY <1>1, <1>5
<1>. DEFINE Gaps == {d \in Nat : d <= K /\ ~ L(3 * (K - d) + 1)}
<1>7. Gaps = {}
  <2>. SUFFICES ASSUME Gaps # {} PROVE FALSE
    OBVIOUS
  <2>1. PICK d \in Gaps : \A e \in Gaps : d <= e
    BY LeastNatural
  <2>2. d # 0
    BY <1>1, <1>6, <2>1
  <2>3. d - 1 \in Nat /\ d - 1 <= K /\ d - 1 \notin Gaps
    BY <2>1, <2>2
  <2>4. L(3 * (K - (d - 1)) + 1)
    BY <2>3
  <2>5. 3 * (K - (d - 1)) + 1 = (3 * (K - d) + 1) + 3 /\ 3 * (K - d) + 1 \in 1 .. sp
        /\ 3 * (K - (d - 1)) + 1 \in 2 .. sp
    BY <1>6, <2>1, <2>2
  <2>. DEFINE i == 3 * (K - (d - 1)) + 1
  <2>6. L(i) /\ i \in 2 .. sp /\ i - 3 = 3 * (K - d) + 1
    BY <2>4, <2>5
  <2>. HIDE DEF i
  <2>7. L(i - 3)
    BY <1>1, <2>6
  <2>. QED
    BY <2>1, <2>6, <2>7
<1>8. \A k \in 0 .. K : L(3 * k + 1)
  <2>. SUFFICES ASSUME NEW k \in 0 .. K PROVE L(3 * k + 1)
    OBVIOUS
  <2>1. K - k \in Nat /\ K - k <= K /\ K - (K - k) = k
    OBVIOUS
  <2>. QED
    BY <1>7, <2>1
<1>9. \A k \in 1 .. K : stack[3 * k - 1].is \in {"ret", "stop"} /\ stack[3 * k].is = "fp"
  <2>. SUFFICES ASSUME NEW k \in 1 .. K
       PROVE  stack[3 * k - 1].is \in {"ret", "stop"} /\ stack[3 * k].is = "fp"
    OBVIOUS
  <2>. DEFINE i == 3 * k + 1
  <2>1. i \in 2 .. sp /\ L(i) /\ i - 2 = 3 * k - 1 /\ i - 1 = 3 * k
    BY <1>6, <1>8
  <2>. HIDE DEF i
  <2>2. stack[i - 2].is \in {"ret", "stop"} /\ stack[i - 1].is = "fp"
    BY <1>1, <2>1
  <2>. QED
    BY <2>1, <2>2
<1>10. \A i \in 1 .. sp : L(i) => \E k \in 0 .. K : i = 3 * k + 1
  <2>. SUFFICES ASSUME NEW i \in 1 .. sp, L(i) PROVE \E k \in 0 .. K : i = 3 * k + 1
    OBVIOUS
  <2>1. PICK k \in Nat : i = 3 * k + 1
    BY <1>5
  <2>2. k <= K
    BY <1>6, <2>1
  <2>. QED
    BY <2>1, <2>2
<1>11. \A i \in 1 .. sp : stack[i].is = "ret" => \E k \in 1 .. K : i = 3 * k - 1
  <2>. SUFFICES ASSUME NEW i \in 1 .. sp, stack[i].is = "ret"
       PROVE  \E k \in 1 .. K : i = 3 * k - 1
    OBVIOUS
  <2>1. \/ \E k \in 0 .. K : i = 3 * k + 1
        \/ \E k \in 1 .. K : i = 3 * k
        \/ \E k \in 1 .. K : i = 3 * k - 1
    <3>. DEFINE q == i \div 3
    <3>1. q \in Nat /\ (i = 3 * q \/ i = 3 * q + 1 \/ i = 3 * (q + 1) - 1)
      OBVIOUS
    <3>. HIDE DEF q
    <3>2. CASE i = 3 * q
      <4>1. q \in 1 .. K
        BY <1>6, <3>1, <3>2
      <4>. QED
        BY <3>2, <4>1
    <3>3. CASE i = 3 * q + 1
      <4>1. q \in 0 .. K
        BY <1>6, <3>1, <3>3
      <4>. QED
        BY <3>3, <4>1
    <3>4. CASE i = 3 * (q + 1) - 1
      <4>1. q + 1 \in 1 .. K
        BY <1>6, <3>1, <3>4
      <4>. QED
        BY <3>4, <4>1
    <3>. QED
      BY <3>1, <3>2, <3>3, <3>4
  <2>2. ~ \E k \in 0 .. K : i = 3 * k + 1
    BY <1>8 DEF L
  <2>3. ~ \E k \in 1 .. K : i = 3 * k
    BY <1>9
  <2>. QED
    BY <2>1, <2>2, <2>3
<1>. QED
  BY <1>6, <1>8, <1>9, <1>10, <1>11 DEF L, Frames3

\* The context of each, when n = 3 * N + 1 cells of the stack hold their frames.
Under(s, N, c) == [k \in 1 .. N + 1 |-> IF k = N + 1 THEN c ELSE s[3 * k - 1].ctx]

Plain(c) == c = << >> \/ c[1] # "outer_try"

LEMMA BodiesAre ==
  ASSUME NEW s, NEW N \in Nat, NEW n, n = 3 * N + 1, NEW c, Plain(c), c \in Seq(Kinds),
         \A k \in 1 .. N : Plain(s[3 * k - 1].ctx) /\ s[3 * k - 1].ctx \in Seq(Kinds)
  PROVE  Bodies(s, n, c) = Under(s, N, c)
<1>1. (n + 2) \div 3 = N + 1
  OBVIOUS
<1>2. \A k \in 1 .. N + 1 : 3 * k - 1 > n <=> k = N + 1
  OBVIOUS
<1>3. \A d \in Seq(Kinds) : Plain(d) => Body(d) = d
  <2>. SUFFICES ASSUME NEW d \in Seq(Kinds), Plain(d), d # << >> PROVE Head(d) # "outer_try"
    BY DEF Body
  <2>1. Head(d) = d[1]
    BY HeadTailProperties
  <2>. QED
    BY <2>1 DEF Plain
<1>4. \A k \in 1 .. N + 1 : Body(IF 3 * k - 1 > n THEN c ELSE s[3 * k - 1].ctx)
                              = IF k = N + 1 THEN c ELSE s[3 * k - 1].ctx
  <2>. TAKE k \in 1 .. N + 1
  <2>1. CASE k = N + 1
    BY <1>2, <1>3, <2>1
  <2>2. CASE k # N + 1
    <3>1. k \in 1 .. N /\ ~ 3 * k - 1 > n
      BY <1>2, <2>2
    <3>. QED
      BY <1>3, <2>2, <3>1
  <2>. QED
    BY <2>1, <2>2
<1>. QED
  BY <1>1, <1>4 DEF Bodies, Under

LEMMA SameBodies ==
  ASSUME NEW s, NEW u, NEW n \in Nat, NEW c, \A i \in 1 .. n : u[i].ctx = s[i].ctx
  PROVE  Bodies(u, n, c) = Bodies(s, n, c)
<1>1. \A k \in 1 .. (n + 2) \div 3 : 3 * k - 1 > n \/ 3 * k - 1 \in 1 .. n
  OBVIOUS
<1>2. \A k \in 1 .. (n + 2) \div 3 : ~ 3 * k - 1 > n => u[3 * k - 1].ctx = s[3 * k - 1].ctx
  BY <1>1
<1>3. \A k \in 1 .. (n + 2) \div 3 :
        (IF 3 * k - 1 > n THEN c ELSE u[3 * k - 1].ctx)
          = (IF 3 * k - 1 > n THEN c ELSE s[3 * k - 1].ctx)
  BY <1>2
<1>. QED
  BY <1>3, Zenon DEF Bodies

\* Outside of destructors: the contexts of the functions, one in every frame.
LEMMA ProgramIs ==
  ASSUME IInv, Running, ~ in_gc
  PROVE  \E K \in Nat :
           /\ Frames3(K)
           /\ \A k \in 1 .. K + 1 : 3 * k - 1 \in DOMAIN Here
           /\ \A k \in 1 .. K + 1 : /\ Here[3 * k - 1] = Under(stack, K, ctx)[k]
                                    /\ Here[3 * k - 1] \in Seq(Kinds) /\ Plain(Here[3 * k - 1])
           /\ ProgramBodies = Under(stack, K, ctx)
<1>1. /\ TypeOK /\ Layout /\ saved = Nothing /\ \A i \in 1 .. sp : stack[i].is # "stop"
      /\ Coherent(Here, xp, ep, saved.ep)
  BY DEF IInv, Interrupted
<1>2. PICK K \in Nat : Frames3(K)
  BY <1>1, FramesOfThree
<1>3. sp = 3 * K + 1 /\ saved.sp = 0
  BY <1>1, <1>2 DEF Frames3, Nothing
<1>4. \A k \in 1 .. K : 3 * k - 1 \in 1 .. sp /\ stack[3 * k - 1].is = "ret"
  <2>. TAKE k \in 1 .. K
  <2>1. 3 * k - 1 \in 1 .. sp
    BY <1>3
  <2>. QED
    BY <1>1, <1>2, <2>1 DEF Frames3
<1>5. /\ DOMAIN Here = {m \in saved.sp + 1 .. sp : stack[m].is = "ret"} \cup {sp + 1}
      /\ Here[sp + 1] = ctx
      /\ \A i \in DOMAIN Here : i # sp + 1 => Here[i] = stack[i].ctx
  BY <1>1, HereIs
<1>6. \A i \in DOMAIN Here : Here[i] \in Seq(Kinds) /\ Plain(Here[i])
  <2>1. IsContexts(Here) /\ ProperContexts(Here)
    BY <1>1, CoherentParts
  <2>. TAKE i \in DOMAIN Here
  <2>. DEFINE d == Here[i]
  <2>2. d \in Seq(Kinds) /\ \A j \in 1 .. Len(d) : d[j] # "outer_try"
    BY <2>1 DEF IsContexts, ProperContexts
  <2>. HIDE DEF d
  <2>3. d # << >> => 1 \in 1 .. Len(d)
    <3>1. d # << >> => Len(d) # 0 /\ Len(d) \in Nat
      BY <2>2, EmptySeq, LenProperties
    <3>. QED
      BY <3>1
  <2>. QED
    BY <2>2, <2>3 DEF Plain, d
<1>7. ASSUME NEW k \in 1 .. K + 1
      PROVE  3 * k - 1 \in DOMAIN Here /\ Here[3 * k - 1] = Under(stack, K, ctx)[k]
  <2>1. CASE k = K + 1
    BY <1>3, <1>5, <2>1 DEF Under
  <2>2. CASE k # K + 1
    <3>1. k \in 1 .. K /\ 3 * k - 1 # sp + 1 /\ saved.sp + 1 = 1
      BY <1>3, <2>2
    <3>2. 3 * k - 1 \in DOMAIN Here
      BY <1>4, <1>5, <3>1
    <3>. QED
      BY <1>5, <2>2, <3>1, <3>2 DEF Under
  <2>. QED
    BY <2>1, <2>2
<1>8. ctx \in Seq(Kinds) /\ Plain(ctx)
  BY <1>5, <1>6
<1>9. \A k \in 1 .. K : Plain(stack[3 * k - 1].ctx) /\ stack[3 * k - 1].ctx \in Seq(Kinds)
  <2>. TAKE k \in 1 .. K
  <2>1. k \in 1 .. K + 1 /\ k # K + 1
    OBVIOUS
  <2>2. Under(stack, K, ctx)[k] = stack[3 * k - 1].ctx
    BY <2>1 DEF Under
  <2>. QED
    BY <1>6, <1>7, <2>1, <2>2
<1>10. Bodies(stack, sp, ctx) = Under(stack, K, ctx)
  <2>. DEFINE n == sp
              s == stack
              c == ctx
  <2>1. n = 3 * K + 1 /\ Plain(c) /\ c \in Seq(Kinds)
        /\ \A k \in 1 .. K : Plain(s[3 * k - 1].ctx) /\ s[3 * k - 1].ctx \in Seq(Kinds)
    BY <1>3, <1>8, <1>9
  <2>. HIDE DEF n, s, c
  <2>2. Bodies(s, n, c) = Under(s, K, c)
    BY <2>1, BodiesAre
  <2>. QED
    BY <2>2 DEF n, s, c
<1>. QED
  BY <1>2, <1>6, <1>7, <1>10 DEF ProgramBodies

\* The same, for the steps: K calls are under way.
Functions(K) ==
  /\ K \in Nat /\ sp = 3 * K + 1
  /\ ProgramBodies \in Seq(Seq(Kinds)) /\ Len(ProgramBodies) = K + 1
  /\ \A k \in 1 .. K + 1 : /\ ProgramBodies[k] \in Seq(Kinds) /\ Plain(ProgramBodies[k])
                           /\ 3 * k - 1 \in DOMAIN Here /\ Here[3 * k - 1] = ProgramBodies[k]
  /\ ProgramBodies[K + 1] = ctx
  /\ \A k \in 1 .. K : stack[3 * k - 1].ctx = ProgramBodies[k]
  /\ \A i \in 1 .. sp : stack[i].is = "locals" => \E k \in 0 .. K : i = 3 * k + 1

LEMMA FunctionsAre ==
  ASSUME IInv, Running, ~ in_gc  PROVE  \E K \in Nat : Functions(K)
<1>1. PICK K \in Nat :
           /\ Frames3(K)
           /\ \A k \in 1 .. K + 1 : 3 * k - 1 \in DOMAIN Here
           /\ \A k \in 1 .. K + 1 : /\ Here[3 * k - 1] = Under(stack, K, ctx)[k]
                                    /\ Here[3 * k - 1] \in Seq(Kinds) /\ Plain(Here[3 * k - 1])
           /\ ProgramBodies = Under(stack, K, ctx)
  BY ProgramIs
<1>. DEFINE B == ProgramBodies
<1>2. /\ B = [k \in 1 .. K + 1 |-> IF k = K + 1 THEN ctx ELSE stack[3 * k - 1].ctx]
      /\ \A k \in 1 .. K + 1 : B[k] \in Seq(Kinds)
  BY <1>1 DEF Under
<1>. HIDE DEF B
<1>3. \A k \in 1 .. K + 1 : B[k] = IF k = K + 1 THEN ctx ELSE stack[3 * k - 1].ctx
  BY <1>2
<1>4. B \in Seq(Seq(Kinds)) /\ Len(B) = K + 1
  <2>1. B = [k \in 1 .. K + 1 |-> B[k]] /\ K + 1 \in Nat
    BY <1>2
  <2>. QED
    BY <1>2, <2>1
<1>5. B[K + 1] = ctx /\ \A k \in 1 .. K : B[k] = stack[3 * k - 1].ctx
  <2>1. K + 1 \in 1 .. K + 1 /\ \A k \in 1 .. K : k \in 1 .. K + 1 /\ k # K + 1
    OBVIOUS
  <2>. QED
    BY <1>3, <2>1
<1>. QED
  BY <1>1, <1>4, <1>5 DEF Functions, Frames3, B

\* The first N of the functions B, and then one with the blocks c.
Becoming(B, N, c) == [k \in 1 .. N + 1 |-> IF k = N + 1 THEN c ELSE B[k]]

LEMMA ProgramBecomes ==
  ASSUME NEW K, Functions(K), NEW N \in 0 .. K + 1, sp' = 3 * N + 1,
         \A k \in 1 .. N : stack'[3 * k - 1].ctx = ProgramBodies[k],
         ctx' \in Seq(Kinds), Plain(ctx'), ~ in_gc'
  PROVE  ProgramBodies' = Becoming(ProgramBodies, N, ctx')
<1>. DEFINE n == sp'
            s == stack'
            c == ctx'
            B == ProgramBodies
<1>1. N \in Nat /\ n = 3 * N + 1 /\ Plain(c) /\ c \in Seq(Kinds)
  BY DEF Functions
<1>2. \A k \in 1 .. N : k \in 1 .. K + 1 /\ k # N + 1
  BY DEF Functions
<1>3. \A k \in 1 .. N : Plain(s[3 * k - 1].ctx) /\ s[3 * k - 1].ctx \in Seq(Kinds)
  BY <1>2 DEF Functions
<1>4. ProgramBodies' = Bodies(s, n, c)
  BY DEF ProgramBodies
<1>5. \A k \in 1 .. N : s[3 * k - 1].ctx = B[k]
  OBVIOUS
<1>. HIDE DEF n, s, c, B
<1>6. Bodies(s, n, c) = Under(s, N, c)
  BY <1>1, <1>3, BodiesAre
<1>7. \A k \in 1 .. N + 1 : (IF k = N + 1 THEN c ELSE s[3 * k - 1].ctx)
                              = (IF k = N + 1 THEN c ELSE B[k])
  <2>1. \A k \in 1 .. N + 1 : k = N + 1 \/ k \in 1 .. N
    BY <1>1
  <2>. QED
    BY <1>5, <2>1
<1>8. Under(s, N, c) = Becoming(B, N, c)
  BY <1>7 DEF Under, Becoming
<1>. QED
  BY <1>4, <1>6, <1>8 DEF B, c

LEMMA LastBecomes ==
  ASSUME NEW S, NEW B \in Seq(S), NEW K \in Nat, Len(B) = K + 1, NEW c
  PROVE  Becoming(B, K, c) = [B EXCEPT ![K + 1] = c]
<1>1. B = [k \in 1 .. K + 1 |-> B[k]]
  OBVIOUS
<1>. QED
  BY <1>1 DEF Becoming

LEMMA OneMore ==
  ASSUME NEW S, NEW B \in Seq(S), NEW K \in Nat, Len(B) = K + 1, NEW c
  PROVE  Becoming(B, K + 1, c) = Append(B, c)
<1>1. B = [k \in 1 .. K + 1 |-> B[k]] /\ (K + 1) + 1 = Len(B) + 1
  OBVIOUS
<1>. QED
  BY <1>1 DEF Becoming

LEMMA SomeAndOne ==
  ASSUME NEW S, NEW B \in Seq(S), NEW N \in 0 .. Len(B), NEW c \in S
  PROVE  Becoming(B, N, c) = Append(SubSeq(B, 1, N), c)
<1>. DEFINE a == SubSeq(B, 1, N)
<1>1. a \in Seq(S) /\ Len(a) = N /\ \A k \in 1 .. N : a[k] = B[k]
  BY Prefix
<1>2. Len(B) \in Nat /\ N \in Nat
  OBVIOUS
<1>. HIDE DEF a
<1>. DEFINE b == Append(a, c)
<1>3. /\ b \in Seq(S) /\ Len(b) = N + 1
      /\ \A k \in 1 .. N + 1 : b[k] = IF k = N + 1 THEN c ELSE a[k]
  BY <1>1, <1>2
<1>. HIDE DEF b
<1>4. b = [k \in 1 .. N + 1 |-> b[k]]
  BY <1>3
<1>5. \A k \in 1 .. N + 1 : (IF k = N + 1 THEN c ELSE a[k]) = (IF k = N + 1 THEN c ELSE B[k])
  <2>1. \A k \in 1 .. N + 1 : k = N + 1 \/ k \in 1 .. N
    BY <1>2
  <2>. QED
    BY <1>1, <2>1
<1>. QED
  BY <1>3, <1>4, <1>5 DEF Becoming, a, b

LEMMA OneLess ==
  ASSUME NEW S, NEW B \in Seq(S), NEW K \in Nat, Len(B) = K + 1, K >= 1
  PROVE  Becoming(B, K - 1, B[K]) = SubSeq(B, 1, K)
<1>. DEFINE a == SubSeq(B, 1, K)
<1>1. a \in Seq(S) /\ Len(a) = K /\ \A k \in 1 .. K : a[k] = B[k]
  <2>1. K \in 0 .. Len(B)
    OBVIOUS
  <2>. QED
    BY <2>1, Prefix
<1>. HIDE DEF a
<1>2. a = [k \in 1 .. K |-> a[k]] /\ K - 1 + 1 = K
  BY <1>1
<1>3. \A k \in 1 .. K : a[k] = (IF k = K THEN B[K] ELSE B[k])
  BY <1>1
<1>. QED
  BY <1>2, <1>3 DEF Becoming, a

LEMMA PlainGrows ==
  ASSUME NEW c \in Seq(Kinds), Plain(c), NEW b \in Kinds, b # "outer_try"
  PROVE  Append(c, b) \in Seq(Kinds) /\ Plain(Append(c, b))
<1>1. CASE c = << >>
  <2>1. Append(c, b)[1] = b
    BY <1>1
  <2>. QED
    BY <2>1 DEF Plain
<1>2. CASE c # << >>
  <2>1. Len(c) \in Nat /\ Len(c) # 0
    BY <1>2, EmptySeq
  <2>2. Append(c, b)[1] = c[1]
    BY <2>1
  <2>. QED
    BY <1>2, <2>2 DEF Plain
<1>. QED
  BY <1>1, <1>2

LEMMA PlainPrefix ==
  ASSUME NEW c \in Seq(Kinds), Plain(c), NEW m \in 0 .. Len(c)
  PROVE  SubSeq(c, 1, m) \in Seq(Kinds) /\ Plain(SubSeq(c, 1, m))
<1>. DEFINE a == SubSeq(c, 1, m)
<1>1. a \in Seq(Kinds) /\ Len(a) = m /\ \A j \in 1 .. m : a[j] = c[j]
  BY Prefix
<1>2. m \in Nat /\ Len(c) \in Nat
  OBVIOUS
<1>. HIDE DEF a
<1>3. CASE m = 0
  BY <1>1, <1>3 DEF Plain, a
<1>4. CASE m # 0
  <2>1. 1 \in 1 .. m /\ Len(c) # 0
    BY <1>2, <1>4
  <2>2. a[1] = c[1] /\ c # << >>
    BY <1>1, <2>1
  <2>. QED
    BY <1>1, <2>2 DEF Plain, a
<1>. QED
  BY <1>3, <1>4

---------------------------------------------------------------------------
\* Every step is one of the source, or none.

LEMMA StepWithin ==
  ASSUME NEW K, Functions(K), UNCHANGED <<stack, status>>, ~ in_gc',
         ctx' \in Seq(Kinds), Plain(ctx')
  PROVE  Source!Becomes(ctx') /\ Source!Body = ctx /\ UNCHANGED Running
<1>. DEFINE B == ProgramBodies
            c == ctx'
            S == Seq(Kinds)
<1>1. /\ K \in Nat /\ sp' = 3 * K + 1 /\ B \in Seq(S) /\ Len(B) = K + 1 /\ B[K + 1] = ctx
      /\ K \in 0 .. K + 1 /\ \A k \in 1 .. K : stack'[3 * k - 1].ctx = B[k]
  BY DEF Functions, sp
<1>2. ProgramBodies' = Becoming(B, K, c)
  BY <1>1, ProgramBecomes
<1>. HIDE DEF B, c, S
<1>3. Becoming(B, K, c) = [B EXCEPT ![K + 1] = c]
  BY <1>1, LastBecomes
<1>. QED
  BY <1>1, <1>2, <1>3 DEF Source!Becomes, Source!Body, B, c, Running

LEMMA EnterFollows ==
  ASSUME NEW K, Functions(K), Running, UNCHANGED <<stack, status, in_gc>>, ~ in_gc,
         NEW b \in {"for", "while", "try"}, ctx' = Append(ctx, b)
  PROVE  Source!Next
<1>1. ctx \in Seq(Kinds) /\ Plain(ctx) /\ b \in Kinds /\ b # "outer_try"
  BY DEF Functions, Kinds, Loops
<1>2. ctx' \in Seq(Kinds) /\ Plain(ctx')
  BY <1>1, PlainGrows
<1>3. Source!Becomes(Append(Source!Body, b)) /\ UNCHANGED Running
  BY <1>2, StepWithin
<1>. QED
  BY <1>3 DEF Source!Next, Source!Step, Source!Enter

LEMMA LeaveFollows ==
  ASSUME NEW K, Functions(K), TypeOK, Running, UNCHANGED <<stack, status, in_gc>>, ~ in_gc,
         NEW b \in {"for", "while", "try", "catch"}, InBlock(b), ctx' = Front(ctx)
  PROVE  Source!Next
<1>1. ctx \in Seq(Kinds) /\ Plain(ctx)
  BY DEF Functions
<1>2. /\ Len(ctx) \in Nat /\ ctx[Len(ctx)] = b /\ Len(ctx) - 1 \in 0 .. Len(ctx)
      /\ Front(ctx) = SubSeq(ctx, 1, Len(ctx) - 1) /\ ctx # << >>
  BY LastBlock DEF InBlock
<1>. DEFINE m == Len(ctx) - 1
<1>3. ctx' \in Seq(Kinds) /\ Plain(ctx')
  <2>1. m \in 0 .. Len(ctx) /\ ctx' = SubSeq(ctx, 1, m)
    BY <1>2
  <2>. HIDE DEF m
  <2>. QED
    BY <1>1, <2>1, PlainPrefix
<1>4. Source!Becomes(SubSeq(Source!Body, 1, Len(Source!Body) - 1)) /\ UNCHANGED Running
      /\ Source!Body # << >> /\ Source!Body[Len(Source!Body)] = b
  BY <1>2, <1>3, StepWithin
<1>. QED
  BY <1>4 DEF Source!Next, Source!Step, Source!Leave

LEMMA JumpFollows ==
  ASSUME NEW K, Functions(K), NEW i \in 1 .. Len(ctx), NEW n \in {i - 1, i}, Jump(i, n), ~ in_gc
  PROVE  Source!Next
<1>1. ctx \in Seq(Kinds) /\ Plain(ctx) /\ ctx[i] \in {"for", "while"} /\ Running
      /\ UNCHANGED <<stack, status, in_gc>> /\ ctx' = SubSeq(ctx, 1, n)
  <2>1. ctx \in Seq(Kinds) /\ Plain(ctx)
    BY DEF Functions
  <2>2. /\ ctx[i] \in {"for", "while"} /\ Running
        /\ UNCHANGED <<stack, status, in_gc>> /\ ctx' = SubSeq(ctx, 1, n)
    BY DEF Jump, Loops
  <2>. QED
    BY <2>1, <2>2
<1>2. n \in 0 .. Len(ctx)
  BY <1>1
<1>3. ctx' \in Seq(Kinds) /\ Plain(ctx')
  BY <1>1, <1>2, PlainPrefix
<1>4. Source!Becomes(SubSeq(Source!Body, 1, n)) /\ UNCHANGED Running
      /\ i \in 1 .. Len(Source!Body) /\ Source!Body[i] \in {"for", "while"}
  BY <1>1, <1>3, StepWithin
<1>5. Source!Jump
  BY <1>4 DEF Source!Jump
<1>. QED
  BY <1>1, <1>4, <1>5 DEF Source!Next, Source!Step

LEMMA CallFollows ==
  ASSUME Mild, IInv, NEW K, Functions(K), NEW outer, Call(outer), ~ in_gc
  PROVE  Source!Next
<1>1. /\ TypeOK /\ Layout /\ Running
      /\ UNCHANGED <<in_gc, moves, status>> /\ PushFrame(RetCell(ctx), outer) /\ outer = << >>
  BY DEF IInv, Call, Allowed, Mild
<1>. DEFINE ret == RetCell(ctx)
            B == ProgramBodies
            S == Seq(Kinds)
            c == <<"function">>
<1>2. /\ K \in Nat /\ sp = 3 * K + 1 /\ B \in Seq(S) /\ Len(B) = K + 1
      /\ B[K + 1] = ctx /\ ctx \in Seq(Kinds)
      /\ \A k \in 1 .. K : stack[3 * k - 1].ctx = B[k]
  BY DEF Functions
<1>3. ret \in Cells /\ ret.is = "ret" /\ ret.ctx = ctx
  BY <1>2 DEF RetCell, Cells, Pointers
<1>4. ret.is \in {"ret", "stop"} /\ PushFrame(ret, outer) /\ moves' = moves
  BY <1>1, <1>3
<1>5. ctx' = c
  BY <1>1 DEF PushFrame
<1>. HIDE DEF ret, B, S, c
<1>6. sp' = sp + 3 /\ (\A i \in 1 .. sp : stack'[i] = stack[i]) /\ stack'[sp + 1] = ret
  BY <1>1, <1>3, <1>4, Pushed
<1>7. \A k \in 1 .. K + 1 : stack'[3 * k - 1].ctx = B[k]
  <2>. TAKE k \in 1 .. K + 1
  <2>1. CASE k = K + 1
    <3>1. 3 * k - 1 = sp + 1
      BY <1>2, <2>1
    <3>. QED
      BY <1>2, <1>3, <1>6, <2>1, <3>1
  <2>2. CASE k # K + 1
    <3>1. k \in 1 .. K /\ 3 * k - 1 \in 1 .. sp
      BY <1>2, <2>2
    <3>. QED
      BY <1>2, <1>6, <3>1
  <2>. QED
    BY <2>1, <2>2
<1>8. c \in Seq(Kinds) /\ Plain(c)
  BY DEF c, Kinds, Plain
<1>9. ProgramBodies' = Append(B, c)
  <2>. DEFINE N == K + 1
  <2>1. N \in 0 .. K + 1 /\ sp' = 3 * N + 1
    BY <1>2, <1>6
  <2>2. \A k \in 1 .. N : stack'[3 * k - 1].ctx = ProgramBodies[k]
    BY <1>7 DEF B
  <2>3. ctx' \in Seq(Kinds) /\ Plain(ctx') /\ ~ in_gc'
    BY <1>1, <1>5, <1>8
  <2>. HIDE DEF N
  <2>4. ProgramBodies' = Becoming(ProgramBodies, N, ctx')
    BY <2>1, <2>2, <2>3, ProgramBecomes
  <2>5. Becoming(B, K + 1, c) = Append(B, c)
    BY <1>2, OneMore
  <2>. QED
    BY <1>5, <2>4, <2>5 DEF B, N
<1>10. Source!Call /\ UNCHANGED Running
  BY <1>1, <1>9 DEF Source!Call, B, c, Running
<1>. QED
  BY <1>1, <1>10 DEF Source!Next, Source!Step

LEMMA ReturnFollows ==
  ASSUME Mild, IInv, NEW K, Functions(K), NEW value \in BOOLEAN, Return(value), ~ in_gc
  PROVE  Source!Next
<1>1. Running /\ sp \in Nat /\ sp >= 4 /\ stack[sp - 2].is # "stop"
  <2>1. Running /\ Interrupted
    BY DEF IInv, Return
  <2>2. sp \in Nat /\ sp >= 4 /\ sp - 2 \in 1 .. sp
    BY ReturnFinds
  <2>. QED
    BY <2>1, <2>2 DEF Interrupted
<1>2. Popped(sp - 3) /\ status' = status /\ ctx' = stack[sp - 2].ctx /\ ~ in_gc'
  BY <1>1, ReturnPops DEF RestoreAndGo
<1>. DEFINE B == ProgramBodies
            S == Seq(Kinds)
<1>3. /\ K \in Nat /\ sp = 3 * K + 1 /\ B \in Seq(S) /\ Len(B) = K + 1
      /\ \A k \in 1 .. K + 1 : B[k] \in Seq(Kinds) /\ Plain(B[k])
      /\ \A k \in 1 .. K : stack[3 * k - 1].ctx = B[k]
  BY DEF Functions
<1>. HIDE DEF B, S
<1>4. K >= 1 /\ sp - 3 = 3 * (K - 1) + 1 /\ sp - 2 = 3 * K - 1 /\ K \in 1 .. K
      /\ K - 1 \in 0 .. K + 1 /\ K \in 1 .. K + 1
  BY <1>1, <1>3
<1>5. ctx' = B[K]
  BY <1>2, <1>3, <1>4
<1>6. sp' = 3 * (K - 1) + 1 /\ \A i \in 1 .. 3 * (K - 1) + 1 : stack'[i] = stack[i]
  BY <1>2, <1>4 DEF Popped, sp
<1>7. \A k \in 1 .. K - 1 : stack'[3 * k - 1].ctx = B[k]
  <2>. TAKE k \in 1 .. K - 1
  <2>1. k \in 1 .. K /\ 3 * k - 1 \in 1 .. 3 * (K - 1) + 1
    BY <1>3
  <2>. QED
    BY <1>3, <1>6, <2>1
<1>8. ProgramBodies' = SubSeq(B, 1, K)
  <2>. DEFINE N == K - 1
  <2>1. N \in 0 .. K + 1 /\ sp' = 3 * N + 1 /\ ctx' \in Seq(Kinds) /\ Plain(ctx')
        /\ \A k \in 1 .. N : stack'[3 * k - 1].ctx = ProgramBodies[k]
    BY <1>3, <1>4, <1>5, <1>6, <1>7 DEF B
  <2>. HIDE DEF N
  <2>2. ProgramBodies' = Becoming(ProgramBodies, N, ctx')
    BY <1>2, <2>1, ProgramBecomes
  <2>3. Becoming(B, K - 1, B[K]) = SubSeq(B, 1, K)
    BY <1>3, <1>4, OneLess
  <2>. QED
    BY <1>5, <2>2, <2>3 DEF B, N
<1>9. Source!Return /\ UNCHANGED Running
  <2>1. Len(B) > 1 /\ Len(B) - 1 = K
    BY <1>3, <1>4
  <2>. QED
    BY <1>2, <1>8, <2>1 DEF Source!Return, B, Running
<1>. QED
  BY <1>1, <1>9 DEF Source!Next, Source!Step

\* The try bodies of the source are those of the interpreter.
LEMMA TriesAre ==
  ASSUME NEW K, Functions(K), NEW k \in 1 .. K + 1, NEW from \in Nat, from >= 1
  PROVE  /\ \A j : j \in Source!TriesIn(k, from) <=>
                     j \in from .. Len(ProgramBodies[k]) /\ ProgramBodies[k][j] = "try"
         /\ \A j \in Source!TriesIn(k, from) : <<3 * k - 1, j>> \in Tries(Here)
<1>1. 3 * k - 1 \in DOMAIN Here /\ Here[3 * k - 1] = ProgramBodies[k]
      /\ ProgramBodies[k] \in Seq(Kinds)
  BY DEF Functions
<1>2. \A j : j \in Source!TriesIn(k, from) <=>
               j \in from .. Len(ProgramBodies[k]) /\ ProgramBodies[k][j] = "try"
  BY DEF Source!TriesIn
<1>3. \A j \in from .. Len(ProgramBodies[k]) : j \in 1 .. Len(ProgramBodies[k])
  BY <1>1
<1>4. \A i, j : <<i, j>> \in Tries(Here) <=>
                  i \in DOMAIN Here /\ j \in 1 .. Len(Here[i]) /\ Here[i][j] \in {"try"}
  BY OpenPairs DEF Tries
<1>5. \A j \in Source!TriesIn(k, from) : <<3 * k - 1, j>> \in Tries(Here)
  BY <1>1, <1>2, <1>3, <1>4
<1>. QED
  BY <1>2, <1>5

LEMMA RaiseFollows ==
  ASSUME IInv, NEW K, Functions(K), Raise, Good(xp[1]), ~ in_gc
  PROVE  Source!Next
<1>. DEFINE n == xp[1].sp.cell
            m == Len(xp[1].ctx)
            B == ProgramBodies
            S == Seq(Kinds)
<1>1. Unwound(n, m) /\ Running
  BY RaiseUnwinds DEF Raise
<1>2. /\ K \in Nat /\ sp = 3 * K + 1 /\ B \in Seq(S) /\ Len(B) = K + 1
      /\ \A k \in 1 .. K + 1 : B[k] \in Seq(Kinds) /\ Plain(B[k])
                               /\ Here[3 * k - 1] = B[k]
      /\ \A k \in 1 .. K : stack[3 * k - 1].ctx = B[k]
      /\ \A i \in 1 .. sp : stack[i].is = "locals" => \E k \in 0 .. K : i = 3 * k + 1
  BY DEF Functions
<1>. HIDE DEF n, m, B, S
<1>3. /\ Popped(n) /\ m \in 1 .. Len(Here[n + 1]) /\ Here[n + 1][m] = "try"
      /\ \A q \in Tries(Here) : q = <<n + 1, m>> \/ Before(q, <<n + 1, m>>)
      /\ ctx' = Append(SubSeq(Here[n + 1], 1, m - 1), "catch") /\ ctx' \in Seq(Kinds)
      /\ UNCHANGED <<in_gc, status>>
  BY <1>1 DEF Unwound
<1>4. PICK N \in 0 .. K : n = 3 * N + 1
  BY <1>2, <1>3 DEF Popped
<1>. DEFINE i == N + 1
            c == ctx'
<1>5. i \in 1 .. K + 1 /\ n + 1 = 3 * i - 1 /\ i - 1 = N
  BY <1>2, <1>4
<1>. HIDE DEF i
<1>6. m \in 1 .. Len(B[i]) /\ B[i][m] = "try" /\ m \in Nat
      /\ c = Append(SubSeq(B[i], 1, m - 1), "catch")
  <2>1. Here[n + 1] = B[i]
    BY <1>2, <1>5
  <2>. HIDE DEF c
  <2>. QED
    BY <1>3, <2>1 DEF c
<1>7. Plain(c)
  <2>. DEFINE a == B[i]
              l == m - 1
  <2>1. a \in Seq(Kinds) /\ Plain(a) /\ l \in 0 .. Len(a) /\ "catch" \in Kinds
    <3>1. Len(a) \in Nat /\ a \in Seq(Kinds) /\ Plain(a)
      BY <1>2, <1>5
    <3>. QED
      BY <1>6, <3>1 DEF Kinds
  <2>2. c = Append(SubSeq(a, 1, l), "catch")
    BY <1>6
  <2>. HIDE DEF a, l, c
  <2>3. SubSeq(a, 1, l) \in Seq(Kinds) /\ Plain(SubSeq(a, 1, l))
    BY <2>1, PlainPrefix
  <2>. QED
    BY <2>1, <2>2, <2>3, PlainGrows
<1>8. sp' = 3 * N + 1 /\ \A j \in 1 .. 3 * N + 1 : stack'[j] = stack[j]
  BY <1>3, <1>4 DEF Popped, sp
<1>9. \A k \in 1 .. N : stack'[3 * k - 1].ctx = B[k]
  <2>. TAKE k \in 1 .. N
  <2>1. k \in 1 .. K /\ 3 * k - 1 \in 1 .. 3 * N + 1
    BY <1>2
  <2>. QED
    BY <1>2, <1>8, <2>1
<1>10. ProgramBodies' = Append(SubSeq(B, 1, i - 1), c)
  <2>1. N \in 0 .. K + 1 /\ \A k \in 1 .. N : stack'[3 * k - 1].ctx = ProgramBodies[k]
    BY <1>2, <1>9 DEF B
  <2>2. ProgramBodies' = Becoming(ProgramBodies, N, ctx')
    BY <1>3, <1>7, <1>8, <2>1, ProgramBecomes
  <2>3. N \in 0 .. Len(B) /\ c \in S
    BY <1>2, <1>3 DEF S
  <2>. HIDE DEF c
  <2>4. Becoming(B, N, c) = Append(SubSeq(B, 1, N), c)
    BY <1>2, <2>3, SomeAndOne
  <2>. QED
    BY <1>5, <2>2, <2>4 DEF B, c
<1>11. m \in Source!TriesIn(i, 1)
  BY <1>5, <1>6, TriesAre DEF B
<1>12. ASSUME NEW k \in 1 .. K + 1, NEW from \in Nat, from >= 1,
              (k = i /\ from > m) \/ k > i,
              NEW j \in Source!TriesIn(k, from)
       PROVE  FALSE
  <2>1. <<3 * k - 1, j>> \in Tries(Here) /\ j \in from .. Len(B[k])
    BY <1>12, TriesAre DEF B
  <2>2. <<3 * k - 1, j>> = <<n + 1, m>> \/ Before(<<3 * k - 1, j>>, <<n + 1, m>>)
    BY <1>3, <2>1
  <2>3. 3 * k - 1 <= 3 * i - 1 /\ (3 * k - 1 = 3 * i - 1 => j <= m)
    <3>1. <<3 * k - 1, j>>[1] = 3 * k - 1 /\ <<3 * k - 1, j>>[2] = j
          /\ <<n + 1, m>>[1] = 3 * i - 1 /\ <<n + 1, m>>[2] = m
      BY <1>5
    <3>2. j \in Int /\ m \in Int
      BY <1>6, <2>1
    <3>. QED
      BY <1>5, <2>2, <3>1, <3>2 DEF Before
  <2>. QED
    BY <1>5, <1>6, <1>12, <2>1, <2>3
<1>13. Source!TriesIn(i, m + 1) = {}
  BY <1>5, <1>6, <1>12
<1>14. \A k \in i + 1 .. Len(B) : Source!TriesIn(k, 1) = {}
  <2>. TAKE k \in i + 1 .. Len(B)
  <2>1. k \in 1 .. K + 1 /\ k > i
    BY <1>2, <1>5
  <2>. QED
    BY <1>12, <2>1
<1>15. Source!Raise /\ UNCHANGED Running
  <2>1. i \in 1 .. Len(B)
    BY <1>2, <1>5
  <2>2. ProgramBodies' = Append(SubSeq(B, 1, i - 1), Append(SubSeq(B[i], 1, m - 1), "catch"))
    BY <1>6, <1>10
  <2>. QED
    BY <1>3, <1>11, <1>13, <1>14, <2>1, <2>2 DEF Source!Raise, B, Running
<1>. QED
  BY <1>1, <1>15 DEF Source!Next, Source!Step

\* What is not the program itself is the body of a function.
Heads(B) == \A k \in 2 .. Len(B) : B[k] # << >> /\ B[k][1] = "function"
Headed == Heads(ProgramBodies)

LEMMA EndFollows ==
  ASSUME IInv, Headed, NEW K, Functions(K), RaiseUnhandled \/ EndProgram
  PROVE  Source!Next
<1>. DEFINE B == ProgramBodies
<1>1. /\ Running /\ ~ in_gc /\ status' = "ended"
      /\ UNCHANGED <<ctx, stack, in_gc, saved>> /\ (xp = << >> \/ ctx = << >>)
  BY DEF RaiseUnhandled, EndProgram
<1>2. UNCHANGED ProgramBodies
  BY <1>1 DEF ProgramBodies, sp, Bodies
<1>3. ~ Running'
  BY <1>1 DEF Running
<1>4. K \in Nat /\ Len(B) = K + 1 /\ B[K + 1] = ctx
  BY DEF Functions
<1>5. CASE xp = << >>
  <2>1. Tries(Here) = {}
    <3>1. Describes(xp, Tries(Here))
      BY <1>1, CoherentParts DEF IInv
    <3>2. \A k \in 1 .. Len(xp) : FALSE
      BY <1>5
    <3>. QED
      BY <3>1, <3>2 DEF Describes
  <2>2. \A k \in 1 .. Len(B) : Source!TriesIn(k, 1) = {}
    <3>. TAKE k \in 1 .. Len(B)
    <3>1. k \in 1 .. K + 1
      BY <1>4
    <3>. QED
      BY <2>1, <3>1, TriesAre
  <2>. QED
    BY <1>1, <1>2, <1>3, <2>2 DEF Source!End, Source!Next
<1>6. CASE ctx = << >>
  <2>1. K = 0
    <3>. SUFFICES ASSUME K # 0 PROVE FALSE
      OBVIOUS
    <3>1. K + 1 \in 2 .. Len(B)
      BY <1>4
    <3>. QED
      BY <1>4, <1>6, <3>1 DEF Headed, Heads
  <2>2. \A k \in 1 .. Len(B) : Source!TriesIn(k, 1) = {}
    <3>. TAKE k \in 1 .. Len(B)
    <3>1. k \in 1 .. K + 1 /\ k = K + 1
      BY <1>4, <2>1
    <3>2. \A j : j \in Source!TriesIn(k, 1) => j \in 1 .. Len(B[k])
      BY <3>1, TriesAre
    <3>3. B[k] = << >>
      BY <1>4, <1>6, <3>1
    <3>. QED
      BY <3>2, <3>3
  <2>. QED
    BY <1>1, <1>2, <1>3, <2>2 DEF Source!End, Source!Next
<1>. QED
  BY <1>1, <1>5, <1>6

LEMMA HeadedBecomes ==
  ASSUME Headed, NEW c, Source!Becomes(c), ProgramBodies \in Seq(Seq(Kinds)),
         Len(ProgramBodies) >= 2 => c # << >> /\ c[1] = "function"
  PROVE  Headed'
<1>. DEFINE B == ProgramBodies
            C == ProgramBodies'
<1>1. /\ Heads(B) /\ C = [B EXCEPT ![Len(B)] = c] /\ B \in Seq(Seq(Kinds))
      /\ Len(B) >= 2 => c # << >> /\ c[1] = "function"
  BY DEF Headed, Source!Becomes
<1>. HIDE DEF B, C
<1>2. Len(C) = Len(B) /\ Len(B) \in Nat
      /\ \A k \in 1 .. Len(B) : C[k] = IF k = Len(B) THEN c ELSE B[k]
  BY <1>1
<1>3. ASSUME NEW k \in 2 .. Len(B)  PROVE  C[k] # << >> /\ C[k][1] = "function"
  <2>1. k \in 1 .. Len(B) /\ Len(B) >= 2
    BY <1>2
  <2>2. B[k] # << >> /\ B[k][1] = "function"
    BY <1>1 DEF Heads
  <2>. QED
    BY <1>1, <1>2, <2>1, <2>2
<1>4. Heads(C)
  BY <1>2, <1>3 DEF Heads
<1>. QED
  BY <1>4 DEF Headed, C

LEMMA HeadedStep ==
  ASSUME Headed, Source!Step, ProgramBodies \in Seq(Seq(Kinds)), Len(ProgramBodies) >= 1
  PROVE  Headed'
<1>. DEFINE B == ProgramBodies
            C == ProgramBodies'
            b == B[Len(B)]
<1>1. Source!Body = b
  BY DEF Source!Body
<1>2. Heads(B) /\ B \in Seq(Seq(Kinds)) /\ Len(B) \in Nat /\ Len(B) >= 1
  BY DEF Headed
<1>. HIDE DEF B, C, b
<1>3. /\ b \in Seq(Kinds) /\ Len(b) \in Nat
      /\ Len(B) >= 2 => b # << >> /\ Len(b) # 0 /\ b[1] = "function"
  <2>1. Len(B) \in 1 .. Len(B) /\ (Len(B) >= 2 => Len(B) \in 2 .. Len(B))
    BY <1>2
  <2>2. b \in Seq(Kinds)
    BY <1>2, <2>1, ElementOfSeq DEF b
  <2>3. Len(b) \in Nat
    BY <2>2
  <2>. QED
    BY <1>2, <2>1, <2>2, <2>3, EmptySeq DEF Heads, b
<1>4. ASSUME NEW kind \in Kinds, Source!Becomes(Append(b, kind))  PROVE  Headed'
  <2>. DEFINE a == Append(b, kind)
  <2>1. Len(a) # 0 /\ (Len(b) # 0 => a[1] = b[1])
    BY <1>3
  <2>2. a # << >>
    BY <2>1, EmptySeq
  <2>. HIDE DEF a
  <2>3. Len(B) >= 2 => a # << >> /\ a[1] = "function"
    BY <1>3, <2>1, <2>2
  <2>. QED
    BY <1>2, <1>4, <2>3, HeadedBecomes DEF B, a
<1>5. ASSUME NEW m \in 0 .. Len(b), Len(B) >= 2 => m >= 1, Source!Becomes(SubSeq(b, 1, m))
      PROVE  Headed'
  <2>. DEFINE a == SubSeq(b, 1, m)
  <2>1. Len(a) = m /\ \A j \in 1 .. m : a[j] = b[j]
    BY <1>3, Prefix
  <2>. HIDE DEF a
  <2>2. Len(B) >= 2 => a # << >> /\ a[1] = "function"
    <3>. SUFFICES ASSUME Len(B) >= 2 PROVE a # << >> /\ a[1] = "function"
      OBVIOUS
    <3>1. 1 \in 1 .. m /\ m # 0 /\ m \in Nat
      BY <1>3, <1>5
    <3>2. a # << >>
      BY <2>1, <3>1, EmptySeq
    <3>. QED
      BY <1>3, <2>1, <3>1, <3>2
  <2>. QED
    BY <1>2, <1>5, <2>2, HeadedBecomes DEF B, a
<1>6. CASE Source!Enter
  <2>1. {"for", "while", "try"} \subseteq Kinds
    BY DEF Kinds, Loops
  <2>. QED
    BY <1>1, <1>4, <1>6, <2>1 DEF Source!Enter
<1>7. CASE Source!Leave
  <2>1. b # << >> /\ b[Len(b)] # "function" /\ Source!Becomes(SubSeq(b, 1, Len(b) - 1))
    BY <1>1, <1>7 DEF Source!Leave
  <2>. DEFINE m == Len(b) - 1
  <2>2. Len(b) # 0 /\ m \in 0 .. Len(b)
    BY <1>3, <2>1, EmptySeq
  <2>3. Len(B) >= 2 => m >= 1
    <3>. SUFFICES ASSUME Len(B) >= 2 PROVE m >= 1
      OBVIOUS
    <3>1. Len(b) # 1
      BY <1>3, <2>1
    <3>2. Len(b) \in Nat /\ Len(b) # 0
      BY <1>3, <2>1, EmptySeq
    <3>. DEFINE l == Len(b)
    <3>3. l \in Nat /\ l # 0 /\ l # 1
      BY <3>1, <3>2
    <3>. HIDE DEF l
    <3>4. l - 1 >= 1
      BY <3>3
    <3>. QED
      BY <3>4 DEF l
  <2>4. Source!Becomes(SubSeq(b, 1, m))
    BY <2>1
  <2>. HIDE DEF m
  <2>. QED
    BY <1>5, <2>2, <2>3, <2>4
<1>8. CASE Source!Jump
  <2>1. PICK i \in 1 .. Len(b), n \in Int : n \in {i - 1, i} /\
          b[i] \in {"for", "while"} /\ Source!Becomes(SubSeq(b, 1, n))
    BY <1>1, <1>8 DEF Source!Jump
  <2>0. Len(b) \in Nat
    BY <1>3
  <2>2. n \in 0 .. Len(b)
    BY <2>0, <2>1
  <2>3. Len(B) >= 2 => n >= 1
    <3>1. Len(B) >= 2 => i # 1
      BY <1>3, <2>1
    <3>. QED
      BY <2>0, <2>1, <3>1
  <2>. QED
    BY <1>5, <2>1, <2>2, <2>3
<1>9. CASE Source!Call
  <2>1. C = Append(B, <<"function">>)
    BY <1>9 DEF Source!Call, B, C
  <2>2. Len(C) = Len(B) + 1 /\ C[Len(B) + 1] = <<"function">>
        /\ \A k \in 1 .. Len(B) : C[k] = B[k]
    BY <1>2, <2>1
  <2>3. \A k \in 2 .. Len(C) : k = Len(B) + 1 \/ (k \in 2 .. Len(B) /\ k \in 1 .. Len(B))
    BY <1>2, <2>2
  <2>4. <<"function">> # << >> /\ <<"function">>[1] = "function"
    OBVIOUS
  <2>5. ASSUME NEW k \in 2 .. Len(C)  PROVE  C[k] # << >> /\ C[k][1] = "function"
    BY <1>2, <2>2, <2>3, <2>4 DEF Heads
  <2>. QED
    BY <2>5 DEF Headed, Heads, C
<1>10. CASE Source!Return
  <2>. DEFINE m == Len(B) - 1
              S == Seq(Kinds)
  <2>1. m \in 0 .. Len(B) /\ C = SubSeq(B, 1, m) /\ B \in Seq(S)
    BY <1>2, <1>10 DEF Source!Return, B, C
  <2>. HIDE DEF S, m
  <2>2. Len(C) = m /\ \A k \in 1 .. m : C[k] = B[k]
    BY <2>1, Prefix
  <2>3. \A k \in 2 .. m : k \in 1 .. m /\ k \in 2 .. Len(B)
    BY <1>2, <2>1
  <2>. QED
    BY <1>2, <2>2, <2>3 DEF Headed, Heads, C
<1>11. CASE Source!Raise
  <2>1. PICK i \in 1 .. Len(B) : \E j \in Source!TriesIn(i, 1) :
          C = Append(SubSeq(B, 1, i - 1), Append(SubSeq(B[i], 1, j - 1), "catch"))
    BY <1>11 DEF Source!Raise, B, C
  <2>0. PICK j \in Source!TriesIn(i, 1) :
          C = Append(SubSeq(B, 1, i - 1), Append(SubSeq(B[i], 1, j - 1), "catch"))
    BY <2>1
  <2>. DEFINE a == B[i]
              m == i - 1
              l == j - 1
              S == Seq(Kinds)
  <2>2. a \in Seq(Kinds) /\ j \in 1 .. Len(a) /\ a[j] = "try"
        /\ (i >= 2 => a[1] = "function")
    <3>1. B[i] \in Seq(Kinds) /\ (i >= 2 => B[i][1] = "function")
      BY <1>2, ElementOfSeq DEF Heads
    <3>2. j \in 1 .. Len(B[i]) /\ B[i][j] = "try"
      BY DEF Source!TriesIn, B
    <3>. QED
      BY <3>1, <3>2
  <2>3. m \in 0 .. Len(B) /\ B \in Seq(S) /\ l \in 0 .. Len(a) /\ (i >= 2 => l >= 1)
        /\ m \in Nat /\ l \in Nat /\ m + 1 = i
    <3>1. Len(a) \in Nat
      BY <2>2
    <3>2. i >= 2 => j # 1
      BY <2>2
    <3>. HIDE DEF a
    <3>. QED
      BY <1>2, <2>2, <3>1, <3>2
  <2>. DEFINE x == SubSeq(B, 1, m)
              y == SubSeq(a, 1, l)
              z == Append(y, "catch")
  <2>4. C = Append(x, z)
    BY <2>0
  <2>. HIDE DEF a, m, l, S
  <2>5. x \in Seq(S) /\ Len(x) = m /\ \A k \in 1 .. m : x[k] = B[k]
    BY <2>3, Prefix
  <2>6. y \in Seq(Kinds) /\ Len(y) = l /\ \A k \in 1 .. l : y[k] = a[k]
    BY <2>2, <2>3, Prefix
  <2>. HIDE DEF x, y
  <2>7. i >= 2 => z # << >> /\ z[1] = "function"
    BY <2>2, <2>3, <2>6
  <2>. HIDE DEF z
  <2>8. Len(C) = m + 1 /\ C[m + 1] = z /\ \A k \in 1 .. m : C[k] = B[k]
    BY <2>3, <2>4, <2>5
  <2>9. ASSUME NEW k \in 2 .. Len(C)  PROVE  C[k] # << >> /\ C[k][1] = "function"
    <3>1. CASE k = m + 1
      BY <2>3, <2>7, <2>8, <3>1
    <3>2. CASE k # m + 1
      <4>1. k \in 1 .. m /\ k \in 2 .. Len(B)
        BY <1>2, <2>3, <2>8, <3>2
      <4>. QED
        BY <1>2, <2>8, <4>1 DEF Heads
    <3>. QED
      BY <3>1, <3>2
  <2>. QED
    BY <2>9 DEF Headed, Heads, C
<1>. QED
  BY <1>6, <1>7, <1>8, <1>9, <1>10, <1>11 DEF Source!Step

LEMMA ReallocKeeps ==
  ASSUME TypeOK, ReallocCallStack
  PROVE  sp' = sp /\ \A i \in 1 .. sp : stack'[i].ctx = stack[i].ctx
<1>1. stack' = [i \in 1 .. sp |->
                  IF stack[i].is = "fp" THEN [stack[i] EXCEPT !.ptr = Moved(@)] ELSE stack[i]]
  BY DEF ReallocCallStack
<1>2. sp \in Nat
  BY Types
<1>3. sp' = sp
  BY <1>1, <1>2 DEF sp
<1>4. ASSUME NEW i \in 1 .. sp  PROVE  stack'[i].ctx = stack[i].ctx
  <2>1. stack[i] \in Cells
    BY ElementOfSeq DEF TypeOK, Cells, sp
  <2>. DEFINE cell == stack[i]
  <2>. HIDE DEF cell
  <2>2. [cell EXCEPT !.ptr = Moved(@)].ctx = cell.ctx
    BY <2>1 DEF Cells, cell
  <2>3. stack'[i] = IF cell.is = "fp" THEN [cell EXCEPT !.ptr = Moved(@)] ELSE cell
    BY <1>1 DEF cell
  <2>. QED
    BY <2>2, <2>3 DEF cell
<1>. QED
  BY <1>3, <1>4

\* While a destructor runs, the source stands still.
LEMMA DestructorHides ==
  ASSUME Uses = {}, IInv, IInv', Next, in_gc
  PROVE  UNCHANGED <<ProgramBodies, Running>>
<1>1. Mild /\ ~ Grows /\ TypeOK /\ status' # "crashed" /\ status # "crashed"
  BY DEF Mild, Grows, IInv
<1>2. CASE Stopped
  <2>1. UNCHANGED <<stack, ctx, in_gc, saved, status>>
    BY <1>2 DEF Stopped, vars
  <2>. QED
    BY <2>1 DEF ProgramBodies, Bodies, sp, Running
<1>. SUFFICES ASSUME ~ Stopped PROVE UNCHANGED <<ProgramBodies, Running>>
  BY <1>2
<1>3. Running
  BY DEF Next, EnterLoop, LeaveLoop, Break, Continue, Jump, EnterTry, LeaveTry, LeaveCatch,
         Raise, RaiseUnhandled, Call, Return, StartDestructor, DestructorRaises,
         ReallocCallStack, ReallocEvalStack, MayMove, EndProgram
<1>4. /\ sp \in Nat /\ saved.sp \in Nat /\ sp >= saved.sp + 3
  BY <1>1, <1>3, Around DEF IInv, Interrupted
<1>. DEFINE n == saved.sp
            c == saved.ctx
            s == stack
            u == stack'
<1>5. ASSUME Bodies(u, n, c) = Bodies(s, n, c),
             \/ in_gc' /\ saved' = saved
             \/ ~ in_gc' /\ sp' = n /\ ctx' = c
      PROVE  UNCHANGED ProgramBodies
  <2>1. ProgramBodies = Bodies(s, n, c)
    BY DEF ProgramBodies
  <2>2. ProgramBodies' = Bodies(u, n, c)
    BY <1>5 DEF ProgramBodies
  <2>. QED
    BY <1>5, <2>1, <2>2
<1>6. ASSUME \A i \in 1 .. n : u[i].ctx = s[i].ctx
      PROVE  Bodies(u, n, c) = Bodies(s, n, c)
  <2>. HIDE DEF n, c, s, u
  <2>1. n \in Nat
    BY <1>4 DEF n
  <2>. QED
    BY <1>6, <2>1, SameBodies
<1>. HIDE DEF n, c, s, u
<1>7. ASSUME UNCHANGED <<stack, in_gc, saved, status>>
      PROVE  UNCHANGED <<ProgramBodies, Running>>
  <2>1. \A i \in 1 .. n : u[i].ctx = s[i].ctx
    BY <1>7 DEF u, s
  <2>. QED
    BY <1>5, <1>6, <1>7, <2>1 DEF Running
<1>8. ASSUME NEW k, Popped(k), k >= n + 3, UNCHANGED <<in_gc, saved, status>>
      PROVE  UNCHANGED <<ProgramBodies, Running>>
  <2>1. \A i \in 1 .. n : i \in 1 .. k
    BY <1>4, <1>8 DEF Popped, n
  <2>2. \A i \in 1 .. n : u[i].ctx = s[i].ctx
    BY <1>8, <2>1 DEF Popped, u, s
  <2>. QED
    BY <1>5, <1>6, <1>8, <2>2 DEF Running
<1>9. ASSUME NEW b \in Loops, EnterLoop(b) \/ LeaveLoop(b)
      PROVE  UNCHANGED <<ProgramBodies, Running>>
  BY <1>7, <1>9 DEF EnterLoop, LeaveLoop
<1>10. ASSUME NEW i \in 1 .. Len(ctx), Break(i) \/ Continue(i)
       PROVE  UNCHANGED <<ProgramBodies, Running>>
  BY <1>7, <1>10 DEF Break, Continue, Jump
<1>11. CASE EnterTry \/ LeaveTry \/ LeaveCatch
  BY <1>1, <1>7, <1>11 DEF EnterTry, LeaveTry, LeaveCatch, Crash
<1>12. CASE Raise
  <2>1. Good(xp[1])
    <3>1. Len(xp) \in Nat /\ Len(xp) # 0
      BY <1>1, <1>12, Types, EmptySeq DEF Raise, TypeOK
    <3>2. 1 \in 1 .. Len(xp)
      BY <3>1
    <3>. QED
      BY <1>1, <1>3, <3>2 DEF IInv, Unmoved
  <2>. DEFINE k == xp[1].sp.cell
              m == Len(xp[1].ctx)
  <2>2. Unwound(k, m)
    BY <1>12, <2>1, RaiseUnwinds
  <2>. HIDE DEF k, m
  <2>3. Popped(k) /\ k >= n + 3 /\ UNCHANGED <<in_gc, saved, status>>
    BY <2>2 DEF Unwound, n
  <2>. QED
    BY <1>8, <2>3
<1>13. ASSUME NEW outer, Call(outer)  PROVE  UNCHANGED <<ProgramBodies, Running>>
  <2>1. UNCHANGED <<in_gc, saved, status>> /\ \A i \in 1 .. sp : stack'[i] = stack[i]
    <3>1. UNCHANGED <<in_gc, saved, status>> /\ PushFrame(RetCell(ctx), outer)
      BY <1>13 DEF Call
    <3>. QED
      BY <3>1 DEF PushFrame, sp
  <2>2. \A i \in 1 .. n : i \in 1 .. sp
    BY <1>4 DEF n
  <2>3. \A i \in 1 .. n : u[i].ctx = s[i].ctx
    BY <2>1, <2>2 DEF u, s
  <2>. QED
    BY <1>5, <1>6, <2>1, <2>3 DEF Running
<1>14. ASSUME NEW value \in BOOLEAN, Return(value)
       PROVE  UNCHANGED <<ProgramBodies, Running>>
  <2>1. Popped(sp - 3) /\ UNCHANGED status
    BY <1>1, <1>14, ReturnPops
  <2>2. CASE stack[sp - 2].is = "stop"
    <3>1. Len(stack') = saved.sp /\ LeaveSubroutine
      BY <1>1, <1>14, <2>2, ReturnPops, ReturnFromDestructor
    <3>2. sp' = n /\ ctx' = c /\ ~ in_gc' /\ sp - 3 = n
      BY <1>4, <2>1, <3>1 DEF sp, n, c, LeaveSubroutine, Popped
    <3>3. \A i \in 1 .. n : u[i].ctx = s[i].ctx
      BY <2>1, <3>2 DEF Popped, u, s
    <3>. QED
      BY <1>5, <1>6, <2>1, <3>2, <3>3 DEF Running
  <2>3. CASE stack[sp - 2].is # "stop"
    <3>1. UNCHANGED <<in_gc, saved>>
      BY <1>1, <1>14, <2>3, ReturnPops DEF RestoreAndGo
    <3>2. saved.sp >= 1 /\ stack[saved.sp + 1].is = "stop" /\ stack[sp - 3].is = "locals"
          /\ sp >= 4
      BY <1>1, <1>3, <1>14, ReturnFinds DEF IInv, Interrupted
    <3>3. sp - 3 # saved.sp
      <4>1. sp - 3 = saved.sp => sp - 2 = saved.sp + 1
        BY <1>4
      <4>. QED
        BY <2>3, <3>2, <4>1
    <3>4. sp - 3 \in saved.sp .. sp
      BY <1>4, <3>2
    <3>5. sp - 3 >= n + 3
      BY <1>3, <3>2, <3>3, <3>4, AboveTheDestructor DEF n
    <3>. QED
      BY <1>8, <2>1, <3>1, <3>5
  <2>. QED
    BY <2>2, <2>3
<1>15. CASE ReallocCallStack
  <2>1. UNCHANGED <<in_gc, saved, status>> /\ \A i \in 1 .. sp : stack'[i].ctx = stack[i].ctx
    BY <1>1, <1>15, ReallocKeeps DEF ReallocCallStack
  <2>2. \A i \in 1 .. n : i \in 1 .. sp
    BY <1>4 DEF n
  <2>3. \A i \in 1 .. n : u[i].ctx = s[i].ctx
    BY <2>1, <2>2 DEF u, s
  <2>. QED
    BY <1>5, <1>6, <2>1, <2>3 DEF Running
<1>16. CASE ReallocEvalStack
  BY <1>7, <1>16 DEF ReallocEvalStack
<1>17. ~ (RaiseUnhandled \/ StartDestructor \/ DestructorRaises \/ EndProgram)
  BY DEF RaiseUnhandled, StartDestructor, DestructorRaises, EndProgram
<1>. QED
  BY <1>9, <1>10, <1>11, <1>12, <1>13, <1>14, <1>15, <1>16, <1>17 DEF Next

\* Outside of destructors, every step is one of the source, except that one
\* may start, and the stacks may move.
LEMMA NextFollows ==
  ASSUME Uses = {}, IInv, IInv', Headed, Next, ~ in_gc
  PROVE  Source!Next \/ UNCHANGED <<ProgramBodies, Running>>
<1>1. Mild /\ ~ Grows /\ TypeOK /\ status' # "crashed" /\ status # "crashed"
  BY DEF Mild, Grows, IInv
<1>2. CASE Stopped
  <2>1. UNCHANGED <<stack, ctx, in_gc, saved, status>>
    BY <1>2 DEF Stopped, vars
  <2>. QED
    BY <2>1 DEF ProgramBodies, Bodies, sp, Running
<1>. SUFFICES ASSUME ~ Stopped PROVE Source!Next \/ UNCHANGED <<ProgramBodies, Running>>
  BY <1>2
<1>3. Running
  BY DEF Next, EnterLoop, LeaveLoop, Break, Continue, Jump, EnterTry, LeaveTry, LeaveCatch,
         Raise, RaiseUnhandled, Call, Return, StartDestructor, DestructorRaises,
         ReallocCallStack, ReallocEvalStack, MayMove, EndProgram
<1>4. PICK K \in Nat : Functions(K)
  BY <1>3, FunctionsAre
<1>5. ASSUME NEW b \in Loops, EnterLoop(b)  PROVE  Source!Next
  <2>1. b \in {"for", "while", "try"} /\ ctx' = Append(ctx, b)
        /\ UNCHANGED <<stack, status, in_gc>>
    BY <1>5 DEF EnterLoop, EnterBlock, Loops
  <2>. QED
    BY <1>3, <1>4, <2>1, EnterFollows
<1>6. ASSUME NEW b \in Loops, LeaveLoop(b)  PROVE  Source!Next
  <2>1. b \in {"for", "while", "try", "catch"} /\ ctx' = Front(ctx) /\ InBlock(b)
        /\ UNCHANGED <<stack, status, in_gc>>
    BY <1>6 DEF LeaveLoop, Loops
  <2>. QED
    BY <1>1, <1>3, <1>4, <2>1, LeaveFollows
<1>7. ASSUME NEW i \in 1 .. Len(ctx), Break(i) \/ Continue(i)  PROVE  Source!Next
  BY <1>4, <1>7, JumpFollows DEF Break, Continue
<1>8. CASE EnterTry
  <2>1. ctx' = Append(ctx, "try") /\ UNCHANGED <<stack, status, in_gc>>
    BY <1>8 DEF EnterTry, EnterBlock
  <2>. QED
    BY <1>3, <1>4, <2>1, EnterFollows
<1>9. CASE LeaveTry
  <2>1. ctx' = Front(ctx) /\ InBlock("try") /\ UNCHANGED <<stack, status, in_gc>>
    BY <1>1, <1>9 DEF LeaveTry, Crash
  <2>. QED
    BY <1>1, <1>3, <1>4, <2>1, LeaveFollows
<1>10. CASE LeaveCatch
  <2>1. ctx' = Front(ctx) /\ InBlock("catch") /\ UNCHANGED <<stack, status, in_gc>>
    BY <1>10 DEF LeaveCatch
  <2>. QED
    BY <1>1, <1>3, <1>4, <2>1, LeaveFollows
<1>11. CASE Raise
  <2>1. Good(xp[1])
    <3>1. Len(xp) \in Nat /\ Len(xp) # 0
      BY <1>1, <1>11, Types, EmptySeq DEF Raise, TypeOK
    <3>2. 1 \in 1 .. Len(xp)
      BY <3>1
    <3>. QED
      BY <1>1, <1>3, <3>2 DEF IInv, Unmoved
  <2>. QED
    BY <1>4, <1>11, <2>1, RaiseFollows
<1>12. CASE RaiseUnhandled \/ EndProgram
  BY <1>4, <1>12, EndFollows
<1>13. ASSUME NEW outer, Call(outer)  PROVE  Source!Next
  BY <1>1, <1>4, <1>13, CallFollows
<1>14. ASSUME NEW value \in BOOLEAN, Return(value)  PROVE  Source!Next
  BY <1>1, <1>4, <1>14, ReturnFollows
<1>. DEFINE n == sp
            c == ctx
            s == stack
            u == stack'
<1>15. ASSUME \A i \in 1 .. n : u[i].ctx = s[i].ctx
       PROVE  Bodies(u, n, c) = Bodies(s, n, c)
  <2>1. n \in Nat
    BY <1>1, Types
  <2>. HIDE DEF n, c, s, u
  <2>. QED
    BY <1>15, <2>1, SameBodies
<1>16. ProgramBodies = Bodies(s, n, c)
  BY DEF ProgramBodies
<1>17. CASE StartDestructor
  <2>1. in_gc' /\ saved'.sp = n /\ saved'.ctx = c /\ UNCHANGED status
        /\ \A i \in 1 .. sp : stack'[i] = stack[i]
    BY <1>17 DEF StartDestructor, PushFrame, sp
  <2>2. ProgramBodies' = Bodies(u, n, c)
    BY <2>1 DEF ProgramBodies
  <2>. QED
    BY <1>15, <1>16, <2>1, <2>2 DEF Running
<1>18. CASE ReallocCallStack
  <2>1. UNCHANGED <<in_gc, ctx, status>> /\ sp' = sp
        /\ \A i \in 1 .. sp : stack'[i].ctx = stack[i].ctx
    BY <1>1, <1>18, ReallocKeeps DEF ReallocCallStack
  <2>2. ProgramBodies' = Bodies(u, n, c)
    BY <2>1 DEF ProgramBodies
  <2>. QED
    BY <1>15, <1>16, <2>1, <2>2 DEF Running
<1>19. CASE ReallocEvalStack
  <2>1. UNCHANGED <<in_gc, ctx, stack, status>>
    BY <1>19 DEF ReallocEvalStack
  <2>. QED
    BY <2>1 DEF ProgramBodies, Bodies, sp, Running
<1>20. ~ DestructorRaises
  BY DEF DestructorRaises
<1>. QED
  BY <1>5, <1>6, <1>7, <1>8, <1>9, <1>10, <1>11, <1>12, <1>13, <1>14, <1>17, <1>18, <1>19,
     <1>20 DEF Next

LEMMA StepFollows ==
  ASSUME Uses = {}, IInv, IInv', Headed, [Next]_vars
  PROVE  Source!Next \/ UNCHANGED <<ProgramBodies, Running>>
<1>1. CASE UNCHANGED vars
  <2>1. UNCHANGED <<stack, ctx, in_gc, saved, status>>
    BY <1>1 DEF vars
  <2>. QED
    BY <2>1 DEF ProgramBodies, Bodies, sp, Running
<1>. QED
  BY <1>1, DestructorHides, NextFollows

LEMMA NextHeaded ==
  ASSUME Uses = {}, IInv, IInv', Headed, [Next]_vars  PROVE  Headed'
<1>1. CASE UNCHANGED ProgramBodies
  BY <1>1 DEF Headed
<1>2. CASE Source!Step /\ Running /\ ~ in_gc
  <2>1. PICK K \in Nat : Functions(K)
    BY <1>2, FunctionsAre
  <2>2. ProgramBodies \in Seq(Seq(Kinds)) /\ Len(ProgramBodies) >= 1
    BY <2>1 DEF Functions
  <2>. QED
    BY <1>2, <2>2, HeadedStep
<1>3. CASE in_gc
  <2>1. CASE UNCHANGED vars
    BY <1>1, <2>1 DEF vars, ProgramBodies, Bodies, sp
  <2>. QED
    BY <1>1, <1>3, <2>1, DestructorHides
<1>4. CASE ~ in_gc
  <2>1. UNCHANGED ProgramBodies \/ (Running /\ Source!Step)
    BY StepFollows DEF Source!Next, Source!End
  <2>. QED
    BY <1>1, <1>2, <1>4, <2>1
<1>. QED
  BY <1>3, <1>4

\* Whatever the stacks, the handlers and the destructors do, the program takes
\* the steps that its source text allows, and no others.
THEOREM Implementation ==
  ASSUME Uses = {}  PROVE  Spec => FollowsTheSource
<1>1. Mild
  BY DEF Mild
<1>2. Init => Source!Init /\ Headed
  <2>. SUFFICES ASSUME Init PROVE Source!Init /\ Headed
    OBVIOUS
  <2>1. ProgramBodies = << << >> >> /\ Running
    <3>1. sp = 1 /\ ctx = << >> /\ ~ in_gc
      BY DEF Init, sp
    <3>2. (1 + 2) \div 3 = 1 /\ \A k \in 1 .. 1 : 3 * k - 1 > 1
      OBVIOUS
    <3>3. Bodies(stack, 1, << >>) = [k \in 1 .. 1 |-> << >>]
      BY <3>2 DEF Bodies, Body
    <3>4. [k \in 1 .. 1 |-> << >>] = << << >> >>
      OBVIOUS
    <3>. QED
      BY <3>1, <3>3, <3>4 DEF ProgramBodies, Init, Running
  <2>. QED
    BY <2>1 DEF Source!Init, Headed, Heads
<1>3. IInv /\ IInv' /\ Headed /\ [Next]_vars => Headed'
  BY NextHeaded
<1>4. IInv /\ IInv' /\ Headed /\ [Next]_vars => [Source!Next]_<<ProgramBodies, Running>>
  BY StepFollows
<1>5. Spec => []IInv
  BY <1>1, Invariance
<1>. QED
  BY <1>2, <1>3, <1>4, <1>5, PTL DEF Spec, FollowsTheSource, Source!Spec
=============================================================================
