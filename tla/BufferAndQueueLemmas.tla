------------------------ MODULE BufferAndQueueLemmas ------------------------
(***************************************************************************)
(* What the operators of LinearBuffer and IoContext do, for all values:    *)
(* what the member functions make of a well-formed buffer, and what        *)
(* posting, running, aborting and concatenating do to a queue of handlers. *)
(* Before them, facts about numbers, recursion and sequences.              *)
(***************************************************************************)
EXTENDS LinearBuffer, IoContext,
        SequenceTheorems, FunctionTheorems, FiniteSetTheorems,
        WellFoundedInduction, TLAPS

-----------------------------------------------------------------------------
(***************************************************************************)
(* Numbers, recursion and sequences.                                       *)
(***************************************************************************)
\* Every set of numbers that is not empty has a least element.
LEMMA NatMin ==
    ASSUME NEW T \in SUBSET Nat, T # {}
    PROVE  \E x \in T : \A y \in T : x <= y
  <1> DEFINE R == {ss \in Nat \X Nat : ss[1] < ss[2]}
  <1>1. IsWellFoundedOn(R, Nat)
    BY NatLessThanWellFounded DEF OpToRel
  <1>2. \E x \in T : \A y \in T : ~ (<<y, x>> \in R)
    BY <1>1, WFMin
  <1>3. \A x, y \in Nat : <<y, x>> \notin R => x <= y
    OBVIOUS
  <1> HIDE DEF R
  <1>4. QED
    BY <1>2, <1>3

\* Induction on the numbers from m to n, for a set of numbers instead of a predicate.
LEMMA UpTo ==
    ASSUME NEW m \in Nat, NEW n \in Nat, NEW T,
           m \in T, \A i \in m .. n - 1 : i \in T => i + 1 \in T
    PROVE  \A i \in m .. n : i \in T
  <1> DEFINE F == {i \in m .. n : i \notin T}
  <1>1. SUFFICES ASSUME F # {} PROVE FALSE
    OBVIOUS
  <1>2. F \in SUBSET Nat
    OBVIOUS
  <1>3. PICK x \in F : \A y \in F : x <= y
    BY <1>1, <1>2, NatMin
  <1>4. x \in m .. n /\ x \notin T /\ x # m
    BY <1>3
  <1>5. x - 1 \in m .. n - 1 /\ x - 1 \notin F
    BY <1>3, <1>4
  <1>6. x - 1 \in T /\ (x - 1) + 1 = x
    BY <1>5
  <1>7. QED
    BY <1>4, <1>5, <1>6

\* A function that is defined by recursion on the numbers from m to n exists, if each step
\* (given as a function, G) stays within a set of values.
ByRecursion(f, m, n, x, G) ==
    \A i \in m .. n : f[i] = IF i = m THEN x ELSE G[<<i, f[i - 1]>>]

LEMMA RecursionExists ==
    ASSUME NEW S, NEW m \in Nat, NEW n \in Nat, NEW x \in S,
           NEW G, \A i \in m + 1 .. n : \A v \in S : G[<<i, v>>] \in S
    PROVE  \E f \in [m .. n -> S] : ByRecursion(f, m, n, x, G)
  <1> USE DEF ByRecursion
  <1> DEFINE Rec(f, k) == \A i \in m .. k : f[i] = IF i = m THEN x ELSE G[<<i, f[i - 1]>>]
             T == {k \in Nat : m + k <= n => \E f \in [m .. m + k -> S] : Rec(f, m + k)}
  <1>1. 0 \in T
    <2> DEFINE f == [i \in m .. m |-> x]
    <2>1. f \in [m .. m -> S] /\ Rec(f, m) /\ m + 0 = m
      OBVIOUS
    <2> HIDE DEF f, Rec
    <2>2. QED
      BY <2>1
  <1>2. ASSUME NEW k \in Nat, k \in T PROVE k + 1 \in T
    <2>1. SUFFICES ASSUME m + (k + 1) <= n
                   PROVE  \E f \in [m .. m + (k + 1) -> S] : Rec(f, m + (k + 1))
      OBVIOUS
    <2>2. PICK f \in [m .. m + k -> S] : Rec(f, m + k)
      BY <1>2, <2>1
    <2> DEFINE l == m + (k + 1)
               g == [i \in m .. l |-> IF i = l THEN G[<<l, f[m + k]>>] ELSE f[i]]
    <2>3. l \in m + 1 .. n /\ l \in Nat /\ l = m + k + 1
      BY <2>1
    <2>4. G[<<l, f[m + k]>>] \in S
      <3>1. f[m + k] \in S
        OBVIOUS
      <3>2. QED
        BY <2>3, <3>1
    <2>5. g \in [m .. l -> S]
      BY <2>3, <2>4
    <2>6. Rec(g, l)
      <3>1. SUFFICES ASSUME NEW i \in m .. l
                     PROVE  g[i] = IF i = m THEN x ELSE G[<<i, g[i - 1]>>]
        OBVIOUS
      <3>2. CASE i = l
        <4>1. i # m /\ i - 1 = m + k /\ i - 1 \in m .. l /\ i - 1 # l
          BY <2>3, <3>2
        <4>2. g[i - 1] = f[m + k]
          BY <4>1
        <4>3. g[i] = G[<<l, f[m + k]>>]
          BY <3>2
        <4> HIDE DEF g, l
        <4>4. QED
          BY <3>2, <4>1, <4>2, <4>3
      <3>3. CASE i # l
        <4>1. i \in m .. m + k
          BY <2>3, <3>3
        <4>2. g[i] = f[i]
          BY <3>3
        <4>3. i # m => i - 1 \in m .. l /\ i - 1 # l
          BY <2>3, <3>3, <4>1
        <4>4. i # m => g[i - 1] = f[i - 1]
          BY <4>3
        <4> HIDE DEF g, l
        <4>5. QED
          BY <2>2, <4>1, <4>2, <4>4
      <3>4. QED
        BY <3>2, <3>3
    <2> HIDE DEF g, Rec
    <2>7. QED
      BY <2>5, <2>6
  <1> HIDE DEF T
  <1>3. \A k \in 0 .. n : k \in T
    BY <1>1, <1>2, UpTo
  <1>4. CASE m <= n
    <2>1. n - m \in 0 .. n /\ m + (n - m) = n
      BY <1>4
    <2>2. n - m \in T
      BY <1>3, <2>1
    <2>3. PICK f \in [m .. n -> S] : Rec(f, n)
      BY <2>1, <2>2 DEF T
    <2>4. QED
      BY <2>3
  <1>5. CASE ~ (m <= n)
    <2>1. m .. n = {}
      BY <1>5
    <2> DEFINE f == [i \in {} |-> x]
    <2>2. f \in [m .. n -> S]
      BY <2>1
    <2>3. QED
      BY <2>1, <2>2
  <1>6. QED
    BY <1>4, <1>5

\* A sequence cut where it was put together.
LEMMA CutConcat ==
    ASSUME NEW A, NEW x \in Seq(A), NEW y \in Seq(A)
    PROVE  SubSeq(x \o y, 1, Len(x)) = x /\ SubSeq(x \o y, Len(x) + 1, Len(x \o y)) = y
  <1> DEFINE s == x \o y
             n == Len(x)
             l == Len(s)
             p == SubSeq(s, 1, n)
             q == SubSeq(s, n + 1, l)
  <1>1. n \in Nat /\ Len(y) \in Nat
    BY LenProperties
  <1>2. /\ s \in Seq(A) /\ l = n + Len(y)
        /\ \A i \in 1 .. n + Len(y) : s[i] = IF i <= n THEN x[i] ELSE y[i - n]
    BY ConcatProperties
  <1> HIDE DEF s
  <1>3. \A i \in 1 .. l : s[i] \in A
    BY <1>2, ElementOfSeq
  <1> HIDE DEF n, l
  <1>4. p \in Seq(A) /\ Len(p) = n /\ \A i \in 1 .. n : p[i] = s[i]
    <2>1. \A i \in 1 .. n : s[i] \in A
      BY <1>1, <1>2, <1>3
    <2>2. /\ p \in Seq(A) /\ Len(p) = (IF 1 <= n THEN n - 1 + 1 ELSE 0)
          /\ \A i \in 1 .. n - 1 + 1 : p[i] = s[1 + i - 1]
      BY <1>1, <2>1, SubSeqProperties
    <2> HIDE DEF p
    <2>3. QED
      BY <1>1, <2>2
  <1>5. q \in Seq(A) /\ Len(q) = Len(y) /\ \A i \in 1 .. Len(y) : q[i] = s[n + i]
    <2>1. (\A i \in n + 1 .. l : s[i] \in A) /\ n + 1 \in Int /\ l \in Int
      BY <1>1, <1>2, <1>3
    <2>2. /\ q \in Seq(A) /\ Len(q) = (IF n + 1 <= l THEN l - (n + 1) + 1 ELSE 0)
          /\ \A i \in 1 .. l - (n + 1) + 1 : q[i] = s[(n + 1) + i - 1]
      BY <2>1, SubSeqProperties
    <2> HIDE DEF q
    <2>3. QED
      BY <1>1, <1>2, <2>2
  <1> HIDE DEF p, q
  <1>6. p = x
    <2>1. Len(p) = Len(x)
      BY <1>4 DEF n
    <2>2. \A i \in 1 .. Len(p) : p[i] = x[i]
      <3>1. SUFFICES ASSUME NEW i \in 1 .. Len(p) PROVE p[i] = x[i]
        OBVIOUS
      <3>2. i \in 1 .. n + Len(y) /\ i <= n /\ i \in 1 .. n
        BY <1>1, <1>4
      <3>3. QED
        BY <1>2, <1>4, <3>2
    <2>3. QED
      BY <1>4, <2>1, <2>2, SeqEqual
  <1>7. q = y
    <2>1. \A i \in 1 .. Len(q) : q[i] = y[i]
      <3>1. SUFFICES ASSUME NEW i \in 1 .. Len(q) PROVE q[i] = y[i]
        OBVIOUS
      <3>2. n + i \in 1 .. n + Len(y) /\ ~ (n + i <= n) /\ (n + i) - n = i /\ i \in 1 .. Len(y)
        BY <1>1, <1>5
      <3>3. QED
        BY <1>2, <1>5, <3>2
    <2>2. QED
      BY <1>5, <2>1, SeqEqual
  <1>8. QED
    BY <1>6, <1>7 DEF p, q, n, l, s

\* Three parts are put together in either order.
Associates(x, u, z) == (x \o u) \o z = x \o (u \o z)

LEMMA AllAssociate ==
    ASSUME NEW A, NEW x \in Seq(A), NEW u \in Seq(A), NEW z \in Seq(A)
    PROVE  Associates(x, u, z)
  BY ConcatAssociative DEF Associates

\* A sequence behind another: how long the two are, and where the elements are.
InPlace(x, y, z) ==
    /\ \A i \in 1 .. Len(x) : z[i] = x[i]
    /\ \A j \in 1 .. Len(y) : z[Len(x) + j] = y[j]

LEMMA ConcatLength ==
    ASSUME NEW A, NEW x \in Seq(A), NEW y \in Seq(A)
    PROVE  x \o y \in Seq(A) /\ Len(x \o y) = Len(x) + Len(y)
  BY ConcatProperties

LEMMA ConcatElements ==
    ASSUME NEW A, NEW x \in Seq(A), NEW y \in Seq(A)
    PROVE  InPlace(x, y, x \o y)
  <1>1. Len(x) \in Nat /\ Len(y) \in Nat
    OBVIOUS
  <1>2. \A i \in 1 .. Len(x) + Len(y) :
            (x \o y)[i] = IF i <= Len(x) THEN x[i] ELSE y[i - Len(x)]
    BY ConcatProperties
  <1>3. \A i \in 1 .. Len(x) : (x \o y)[i] = x[i]
    BY <1>1, <1>2
  <1>4. ASSUME NEW j \in 1 .. Len(y) PROVE (x \o y)[Len(x) + j] = y[j]
    <2>1. /\ Len(x) + j \in 1 .. Len(x) + Len(y)
          /\ ~ (Len(x) + j <= Len(x)) /\ (Len(x) + j) - Len(x) = j
      BY <1>1
    <2>2. QED
      BY <1>2, <2>1
  <1>5. QED
    BY <1>3, <1>4 DEF InPlace

\* Three distinct values make a set of three elements, five a set of five.
LEMMA ThreeElements ==
    ASSUME NEW a, NEW b, NEW c, a # b, c \notin {a, b}
    PROVE  IsFiniteSet({a, b, c}) /\ Cardinality({a, b, c}) = 3
  <1>1. IsFiniteSet({a}) /\ Cardinality({a}) = 1
    BY FS_Singleton
  <1>2. IsFiniteSet({a} \cup {b}) /\ Cardinality({a} \cup {b}) = 2
    BY <1>1, FS_AddElement
  <1>3. {a} \cup {b} = {a, b} /\ {a, b} \cup {c} = {a, b, c}
    OBVIOUS
  <1>4. /\ IsFiniteSet({a, b} \cup {c})
        /\ Cardinality({a, b} \cup {c}) = 3
    BY <1>2, <1>3, FS_AddElement
  <1>5. QED
    BY <1>3, <1>4

LEMMA FiveElements ==
    ASSUME NEW a, NEW b, NEW c, NEW d, NEW e,
           a # b, c \notin {a, b}, d \notin {a, b, c}, e \notin {a, b, c, d}
    PROVE  IsFiniteSet({a, b, c, d, e}) /\ Cardinality({a, b, c, d, e}) = 5
  <1>1. IsFiniteSet({a, b, c}) /\ Cardinality({a, b, c}) = 3
    BY ThreeElements
  <1>2. IsFiniteSet({a, b, c} \cup {d}) /\ Cardinality({a, b, c} \cup {d}) = 4
    BY <1>1, FS_AddElement
  <1>3. /\ {a, b, c} \cup {d} = {a, b, c, d}
        /\ {a, b, c, d} \cup {e} = {a, b, c, d, e}
    OBVIOUS
  <1>4. /\ IsFiniteSet({a, b, c, d} \cup {e})
        /\ Cardinality({a, b, c, d} \cup {e}) = 5
    BY <1>2, <1>3, FS_AddElement
  <1>5. QED
    BY <1>3, <1>4

-----------------------------------------------------------------------------
(***************************************************************************)
(* Buffers.                                                                *)
(***************************************************************************)
AnyByte(Byte) == Byte \cup {Blank}

Cells(Byte, Capacity) == [0 .. Capacity - 1 -> Byte \cup {Blank}]

\* m bytes to be written.
Run(Byte, m) == [1 .. m -> Byte]

\* Building a buffer from its parts, and taking it apart.
LEMMA BufferParts ==
    ASSUME NEW Byte, NEW Capacity
    PROVE
    /\ \A m \in Cells(Byte, Capacity), h, t, z \in Nat :
          [cap |-> Capacity, mem |-> m, head |-> h, tail |-> t, size |-> z]
             \in Buffer(Byte, Capacity)
    /\ \A b \in Buffer(Byte, Capacity) :
          /\ b.cap = Capacity /\ b.mem \in Cells(Byte, Capacity)
          /\ b.head \in Nat /\ b.tail \in Nat /\ b.size \in Nat
  BY DEF Buffer, Cells

LEMMA CellType ==
    ASSUME NEW Byte, NEW Capacity, NEW b \in Buffer(Byte, Capacity), NEW i \in 0 .. Capacity - 1
    PROVE  b.mem[i] \in AnyByte(Byte)
  <1>1. b.mem \in Cells(Byte, Capacity)
    BY BufferParts
  <1>2. QED
    BY <1>1 DEF Cells, AnyByte

\* In a well-formed buffer the space up to the end of the array is never more than
\* the free space in total, so get_write_head always hands out all of it: its
\* comparison of the two can only go one way.
LEMMA WriteHeadIsSpaceToEnd ==
    ASSUME NEW Byte, NEW Capacity \in Nat, NEW b \in Buffer(Byte, Capacity), WellFormed(b)
    PROVE  get_write_head(b) =
              Region(IF b.head < Capacity THEN b.head ELSE NullPtr, Capacity - b.head)
  BY BufferParts DEF WellFormed, get_write_head, Region

\* An accepted commit moves the write head; the new cells join the readable ones.
LEMMA CommitParts ==
    ASSUME NEW Byte, NEW Capacity \in Nat, NEW b \in Buffer(Byte, Capacity), WellFormed(b),
           NEW n \in Nat, n <= Capacity - b.head
    PROVE  /\ commit(b, n) = Indices(b, b.head + n, b.tail, b.size + n)
           /\ commit(b, n) \in Buffer(Byte, Capacity)
           /\ WellFormed(commit(b, n))
  <1>1. get_write_head(b).len = Capacity - b.head
    BY WriteHeadIsSpaceToEnd DEF Region
  <1>2. commit(b, n) = Indices(b, b.head + n, b.tail, b.size + n)
    BY <1>1, BufferParts DEF commit
  <1>3. b.head + n \in Nat /\ b.tail \in Nat /\ b.size + n \in Nat
    BY BufferParts
  <1>4. WellFormed(Indices(b, b.head + n, b.tail, b.size + n))
    BY <1>3, BufferParts DEF WellFormed, Indices
  <1>5. Indices(b, b.head + n, b.tail, b.size + n) \in Buffer(Byte, Capacity)
    BY <1>3, BufferParts DEF Indices
  <1>6. QED
    BY <1>2, <1>4, <1>5

\* A commit of more than the write head offers is refused and changes nothing.
LEMMA CommitRefused ==
    ASSUME NEW Byte, NEW Capacity \in Nat, NEW b \in Buffer(Byte, Capacity), WellFormed(b),
           NEW n \in Nat, n > Capacity - b.head
    PROVE  commit(b, n) = b
  BY WriteHeadIsSpaceToEnd DEF commit, Region

\* An accepted consume moves the read head, or resets both when nothing is left.
LEMMA ConsumeParts ==
    ASSUME NEW Byte, NEW Capacity \in Nat, NEW b \in Buffer(Byte, Capacity), WellFormed(b), NEW n \in Nat, n <= b.size
    PROVE  /\ consume(b, n) = IF n = b.size
                              THEN Indices(b, 0, 0, 0)
                              ELSE Indices(b, b.head, b.tail + n, b.size - n)
           /\ consume(b, n) \in Buffer(Byte, Capacity)
           /\ WellFormed(consume(b, n))
  <1> DEFINE taken == Indices(b, b.head, b.tail + n, b.size - n)
  <1>1. b.head \in Nat /\ b.tail + n \in Nat /\ b.size - n \in Nat
    BY BufferParts
  <1>2. consume(b, n) = reset_if_empty(taken)
    BY BufferParts DEF consume
  <1>3. CASE n = b.size
    <2>1. taken.size = 0
      BY <1>1, <1>3 DEF Indices
    <2>2. reset_if_empty(taken) = Indices(b, 0, 0, 0)
      BY <2>1, BufferParts DEF reset_if_empty, Indices
    <2>3. WellFormed(Indices(b, 0, 0, 0)) /\ Indices(b, 0, 0, 0) \in Buffer(Byte, Capacity)
      BY BufferParts DEF WellFormed, Indices
    <2>4. QED
      BY <1>2, <1>3, <2>2, <2>3
  <1>4. CASE n # b.size
    <2>1. taken.size # 0
      BY <1>1, <1>4, BufferParts DEF Indices
    <2>2. reset_if_empty(taken) = taken
      BY <2>1 DEF reset_if_empty
    <2>3. WellFormed(taken) /\ taken \in Buffer(Byte, Capacity)
      BY <1>1, <2>1, BufferParts DEF WellFormed, Indices
    <2>4. QED
      BY <1>2, <1>4, <2>2, <2>3
  <1>5. QED
    BY <1>3, <1>4

\* Accepted or refused, commit and consume keep a buffer well formed.
LEMMA CommitKeeps ==
    ASSUME NEW Byte, NEW Capacity \in Nat, NEW b \in Buffer(Byte, Capacity), WellFormed(b),
           NEW n \in Nat
    PROVE  commit(b, n) \in Buffer(Byte, Capacity) /\ WellFormed(commit(b, n))
  <1>1. CASE n <= Capacity - b.head
    BY <1>1, CommitParts
  <1>2. CASE ~ (n <= Capacity - b.head)
    <2>1. n > Capacity - b.head
      BY <1>2, BufferParts
    <2>2. QED
      BY <2>1, CommitRefused
  <1>3. QED
    BY <1>1, <1>2

LEMMA ConsumeKeeps ==
    ASSUME NEW Byte, NEW Capacity \in Nat, NEW b \in Buffer(Byte, Capacity), WellFormed(b),
           NEW n \in Nat
    PROVE  consume(b, n) \in Buffer(Byte, Capacity) /\ WellFormed(consume(b, n))
  <1>1. CASE n <= b.size
    BY <1>1, ConsumeParts
  <1>2. CASE ~ (n <= b.size)
    <2>1. n > b.size
      BY <1>2, BufferParts
    <2>2. QED
      BY <2>1 DEF consume
  <1>3. QED
    BY <1>1, <1>2

\* Cell i after the m bytes of s are written at ptr.
CellAfter(b, ptr, m, s, i) ==
    IF i \in ptr .. ptr + m - 1 THEN s[i - ptr + 1] ELSE b.mem[i]

\* Writing through a pointer changes array cells only.
LEMMA FillParts ==
    ASSUME NEW Byte, NEW Capacity \in Nat, NEW b \in Buffer(Byte, Capacity), NEW ptr \in Int,
           NEW m \in Nat, NEW s \in Run(Byte, m)
    PROVE  /\ fill(b, ptr, s) \in Buffer(Byte, Capacity)
           /\ fill(b, ptr, s).head = b.head
           /\ fill(b, ptr, s).tail = b.tail
           /\ fill(b, ptr, s).size = b.size
           /\ \A i \in 0 .. Capacity - 1 :
                 fill(b, ptr, s).mem[i] = CellAfter(b, ptr, m, s, i)
  <1>1. s \in [1 .. m -> Byte] /\ Len(s) = m
    BY DEF Run
  <1>2. b.mem \in Cells(Byte, Capacity) /\ DOMAIN b.mem = 0 .. Capacity - 1
    BY BufferParts DEF Cells
  <1> DEFINE g == [i \in 0 .. Capacity - 1 |->
                      IF i \in ptr .. ptr + m - 1 THEN s[i - ptr + 1] ELSE b.mem[i]]
  <1>3. fill(b, ptr, s) = [cap |-> Capacity, mem |-> g, head |-> b.head,
                           tail |-> b.tail, size |-> b.size]
    BY <1>1, <1>2, BufferParts DEF fill
  <1>4. \A i \in 0 .. Capacity - 1 : g[i] \in Byte \cup {Blank}
    <2>1. SUFFICES ASSUME NEW i \in 0 .. Capacity - 1 PROVE g[i] \in Byte \cup {Blank}
      OBVIOUS
    <2>2. b.mem[i] \in Byte \cup {Blank}
      BY <1>2 DEF Cells
    <2>3. i \in ptr .. ptr + m - 1 => s[i - ptr + 1] \in Byte
      BY <1>1
    <2>4. QED
      BY <2>2, <2>3
  <1>5. g \in Cells(Byte, Capacity)
    BY <1>4 DEF Cells
  <1> HIDE DEF g
  <1>6. QED
    <2>1. fill(b, ptr, s).mem = g
      BY <1>3
    <2>2. \A i \in 0 .. Capacity - 1 :
             g[i] = CellAfter(b, ptr, m, s, i)
      BY DEF g, CellAfter
    <2>3. QED
      BY <1>3, <1>5, <2>1, <2>2, BufferParts

\* The cells of x are those of b, with s in place of the m from ptr on.
Filled(Capacity, b, ptr, m, s, x) ==
    \A i \in 0 .. Capacity - 1 : x.mem[i] = CellAfter(b, ptr, m, s, i)

LEMMA FillCells ==
    ASSUME NEW Byte, NEW Capacity \in Nat, NEW b \in Buffer(Byte, Capacity), NEW ptr \in Int,
           NEW m \in Nat, NEW s \in Run(Byte, m)
    PROVE  /\ fill(b, ptr, s).tail = b.tail
           /\ Filled(Capacity, b, ptr, m, s, fill(b, ptr, s))
  BY FillParts DEF Filled

LEMMA FillKeeps ==
    ASSUME NEW Byte, NEW Capacity \in Nat, NEW b \in Buffer(Byte, Capacity), WellFormed(b),
           NEW ptr \in Int, NEW m \in Nat, NEW s \in Run(Byte, m)
    PROVE  fill(b, ptr, s) \in Buffer(Byte, Capacity) /\ WellFormed(fill(b, ptr, s))
  BY FillParts, BufferParts DEF WellFormed

LEMMA ContentsParts ==
    ASSUME NEW Byte, NEW Capacity \in Nat, NEW b \in Buffer(Byte, Capacity), WellFormed(b)
    PROVE  /\ Contents(b) \in Seq(AnyByte(Byte))
           /\ Len(Contents(b)) = b.size
           /\ \A i \in 1 .. b.size : Contents(b)[i] = b.mem[b.tail + i - 1]
  <1>1. Contents(b) = [i \in 1 .. b.size |-> b.mem[b.tail + i - 1]]
    BY DEF Contents, BytesAt
  <1>3. b.size \in Nat /\ b.tail \in Nat /\ b.tail + b.size <= Capacity
    BY BufferParts DEF WellFormed
  <1>2. ASSUME NEW i \in 1 .. b.size PROVE b.mem[b.tail + i - 1] \in AnyByte(Byte)
    <2>1. b.tail + i - 1 \in 0 .. Capacity - 1
      BY <1>3
    <2>2. QED
      BY <2>1, CellType
  <1>4. Contents(b) \in [1 .. b.size -> AnyByte(Byte)]
    BY <1>1, <1>2
  <1>5. Contents(b) \in Seq(AnyByte(Byte)) /\ Len(Contents(b)) = b.size
    BY <1>3, <1>4
  <1>6. \A i \in 1 .. b.size : Contents(b)[i] = b.mem[b.tail + i - 1]
    BY <1>1
  <1>7. QED
    BY <1>5, <1>6

\* Bytes taken from inside the array are bytes.
LEMMA BytesAtType ==
    ASSUME NEW Byte, NEW Capacity \in Nat, NEW b \in Buffer(Byte, Capacity),
           NEW ptr \in Nat, NEW k \in Nat, ptr + k <= Capacity
    PROVE  BytesAt(b, ptr, k) \in Seq(AnyByte(Byte)) /\ Len(BytesAt(b, ptr, k)) = k
  <1>1. BytesAt(b, ptr, k) = [i \in 1 .. k |-> b.mem[ptr + i - 1]]
    BY DEF BytesAt
  <1>2. ASSUME NEW i \in 1 .. k PROVE b.mem[ptr + i - 1] \in AnyByte(Byte)
    <2>1. ptr + i - 1 \in 0 .. Capacity - 1
      OBVIOUS
    <2>2. QED
      BY <2>1, CellType
  <1>3. BytesAt(b, ptr, k) \in [1 .. k -> AnyByte(Byte)]
    BY <1>1, <1>2
  <1>4. QED
    BY <1>3

LEMMA CommitAppends ==
    ASSUME NEW Byte, NEW Capacity \in Nat, NEW b \in Buffer(Byte, Capacity), WellFormed(b),
           NEW n \in Nat, n <= Capacity - b.head, NEW s \in Run(Byte, n)
    PROVE  Contents(commit(fill(b, b.head, s), n)) = Contents(b) \o s
  <1> DEFINE f == fill(b, b.head, s)
             c == commit(f, n)
  <1>1. b.head \in Int /\ b.tail \in Nat /\ b.size \in Nat /\ b.head = b.tail + b.size
    BY BufferParts DEF WellFormed
  <1>2. /\ f \in Buffer(Byte, Capacity)
        /\ f.head = b.head /\ f.tail = b.tail /\ f.size = b.size
        /\ \A i \in 0 .. Capacity - 1 :
              f.mem[i] = CellAfter(b, b.head, n, s, i)
    <2>1. b.head \in Int
      BY <1>1
    <2>2. f \in Buffer(Byte, Capacity) /\ f.head = b.head /\ f.tail = b.tail /\ f.size = b.size
      BY <2>1, FillParts
    <2>3. \A i \in 0 .. Capacity - 1 : f.mem[i] = CellAfter(b, b.head, n, s, i)
      BY <2>1, FillParts
    <2>4. QED
      BY <2>2, <2>3
  <1> HIDE DEF f
  <1>3. WellFormed(f)
    <2>1. f.cap = b.cap
      BY <1>2, BufferParts
    <2>2. QED
      BY <1>2, <2>1 DEF WellFormed
  <1>4. /\ c = Indices(f, f.head + n, f.tail, f.size + n)
        /\ c \in Buffer(Byte, Capacity) /\ WellFormed(c)
    BY <1>2, <1>3, CommitParts
  <1>5. c.tail = b.tail /\ c.size = b.size + n /\ c.mem = f.mem
    BY <1>2, <1>4 DEF Indices
  <1> HIDE DEF c
  <1>6. s \in Seq(AnyByte(Byte)) /\ Len(s) = n
    BY DEF AnyByte, Run
  <1>7. Contents(b) \in Seq(AnyByte(Byte)) /\ Len(Contents(b)) = b.size
    BY ContentsParts
  <1>8. Contents(c) \in Seq(AnyByte(Byte)) /\ Len(Contents(c)) = b.size + n
    BY <1>4, <1>5, ContentsParts
  <1>9. ASSUME NEW i \in 1 .. b.size + n
        PROVE  Contents(c)[i] = (Contents(b) \o s)[i]
    <2>0. i \in Int /\ 1 <= i /\ i <= b.size + n
      BY <1>1
    <2>1. Contents(c)[i] = f.mem[b.tail + i - 1]
      BY <1>4, <1>5, ContentsParts
    <2>2. b.tail + i - 1 \in 0 .. Capacity - 1
      BY <1>1
    <2>3. CASE i <= b.size
      <3>1. f.mem[b.tail + i - 1] = b.mem[b.tail + i - 1]
        <4>1. b.tail + i - 1 \notin b.head .. b.head + n - 1
          BY <1>1, <2>0, <2>3
        <4>2. f.mem[b.tail + i - 1] = CellAfter(b, b.head, n, s, b.tail + i - 1)
          BY <1>2, <2>2
        <4>3. QED
          BY <4>1, <4>2 DEF CellAfter
      <3>2. Contents(b)[i] = b.mem[b.tail + i - 1]
        BY <2>3, <1>1, ContentsParts
      <3>3. (Contents(b) \o s)[i] = Contents(b)[i]
        BY <1>1, <1>6, <1>7, <2>3
      <3>4. QED
        BY <2>1, <3>1, <3>2, <3>3
    <2>4. CASE ~ (i <= b.size)
      <3>1. f.mem[b.tail + i - 1] = s[(b.tail + i - 1) - b.head + 1]
        <4>1. b.tail + i - 1 \in b.head .. b.head + n - 1
          BY <1>1, <2>0, <2>4
        <4>2. f.mem[b.tail + i - 1] = CellAfter(b, b.head, n, s, b.tail + i - 1)
          BY <1>2, <2>2
        <4>3. QED
          BY <4>1, <4>2 DEF CellAfter
      <3>2. (b.tail + i - 1) - b.head + 1 = i - b.size
        BY <1>1
      <3>3. (Contents(b) \o s)[i] = s[i - b.size]
        <4> DEFINE k == Contents(b)
        <4>1. k \in Seq(AnyByte(Byte)) /\ Len(k) = b.size
          BY <1>7
        <4> HIDE DEF k
        <4>2. i \in 1 .. Len(k) + Len(s) /\ ~ (i <= Len(k))
          BY <1>1, <1>6, <2>0, <2>4, <4>1
        <4>3. (k \o s)[i] = s[i - Len(k)]
          BY <1>6, <4>1, <4>2, ConcatProperties
        <4>4. QED
          BY <4>1, <4>3 DEF k
      <3>4. QED
        BY <2>1, <3>1, <3>2, <3>3
    <2>5. QED
      BY <1>1, <2>0, <2>3, <2>4
  <1>10. /\ Contents(b) \o s \in Seq(AnyByte(Byte))
         /\ Len(Contents(b) \o s) = b.size + n
    BY <1>6, <1>7, ConcatLength
  <1>11. Contents(c) = Contents(b) \o s
    BY <1>8, <1>9, <1>10, SeqEqual
  <1>12. QED
    BY <1>11 DEF c, f

LEMMA ReadIsPrefix ==
    ASSUME NEW Byte, NEW Capacity \in Nat, NEW b \in Buffer(Byte, Capacity), WellFormed(b),
           NEW n \in Nat, n <= b.size
    PROVE  /\ BytesAt(b, b.tail, n) = SubSeq(Contents(b), 1, n)
           /\ BytesAt(b, b.tail, n) \in Seq(AnyByte(Byte))
  <1> DEFINE k == BytesAt(b, b.tail, n)
             r == SubSeq(Contents(b), 1, n)
  <1>1. b.tail \in Nat /\ b.size \in Nat
    BY BufferParts
  <1>2. /\ Contents(b) \in Seq(AnyByte(Byte)) /\ Len(Contents(b)) = b.size
        /\ \A i \in 1 .. b.size : Contents(b)[i] = b.mem[b.tail + i - 1]
    BY ContentsParts
  <1>3. \A i \in 1 .. n : i \in 1 .. b.size
    BY <1>1
  <1>4. \A i \in 1 .. n : Contents(b)[i] \in AnyByte(Byte) /\ b.mem[b.tail + i - 1] = Contents(b)[i]
    BY <1>2, <1>3, ElementOfSeq
  <1>5. k \in Seq(AnyByte(Byte)) /\ Len(k) = n /\ \A i \in 1 .. n : k[i] = Contents(b)[i]
    BY <1>4 DEF BytesAt
  <1>6. /\ r \in Seq(AnyByte(Byte))
        /\ Len(r) = IF 1 <= n THEN n - 1 + 1 ELSE 0
        /\ \A i \in 1 .. n - 1 + 1 : r[i] = Contents(b)[1 + i - 1]
    BY <1>1, <1>2, <1>4, SubSeqProperties
  <1> HIDE DEF k, r
  <1>7. Len(r) = n /\ \A i \in 1 .. n : r[i] = Contents(b)[i]
    BY <1>6
  <1>8. k = r
    BY <1>5, <1>6, <1>7, SeqEqual
  <1>9. QED
    BY <1>5, <1>8 DEF k, r

LEMMA ConsumeCutsPrefix ==
    ASSUME NEW Byte, NEW Capacity \in Nat, NEW b \in Buffer(Byte, Capacity), WellFormed(b), NEW n \in Nat, n <= b.size
    PROVE  Contents(consume(b, n)) = SubSeq(Contents(b), n + 1, Len(Contents(b)))
  <1> DEFINE c == consume(b, n)
             r == SubSeq(Contents(b), n + 1, Len(Contents(b)))
  <1>1. b.tail \in Nat /\ b.size \in Nat
    BY BufferParts
  <1>2. /\ c = IF n = b.size THEN Indices(b, 0, 0, 0)
               ELSE Indices(b, b.head, b.tail + n, b.size - n)
        /\ c \in Buffer(Byte, Capacity) /\ WellFormed(c)
    BY ConsumeParts
  <1> HIDE DEF c
  <1>3. c.size = b.size - n /\ c.mem = b.mem /\ (n # b.size => c.tail = b.tail + n)
    BY <1>1, <1>2 DEF Indices
  <1>4. /\ Contents(b) \in Seq(AnyByte(Byte)) /\ Len(Contents(b)) = b.size
        /\ \A i \in 1 .. b.size : Contents(b)[i] = b.mem[b.tail + i - 1]
    BY ContentsParts
  <1>5. \A i \in n + 1 .. b.size : Contents(b)[i] \in AnyByte(Byte)
    BY <1>1, <1>4, ElementOfSeq
  <1>6. /\ r \in Seq(AnyByte(Byte))
        /\ Len(r) = IF n + 1 <= b.size THEN b.size - (n + 1) + 1 ELSE 0
        /\ \A i \in 1 .. b.size - (n + 1) + 1 : r[i] = Contents(b)[(n + 1) + i - 1]
    BY <1>1, <1>4, <1>5, SubSeqProperties
  <1> HIDE DEF r
  <1>7. Contents(c) \in Seq(AnyByte(Byte)) /\ Len(Contents(c)) = b.size - n
    BY <1>2, <1>3, ContentsParts
  <1>8. Len(r) = b.size - n
    BY <1>1, <1>6
  <1>9. ASSUME NEW i \in 1 .. b.size - n
        PROVE  Contents(c)[i] = r[i]
    <2>1. n # b.size /\ i \in 1 .. c.size
      BY <1>1, <1>3
    <2>2. Contents(c)[i] = b.mem[(b.tail + n) + i - 1]
      BY <1>2, <1>3, <2>1, ContentsParts
    <2>3. r[i] = Contents(b)[n + i]
      BY <1>1, <1>6
    <2>4. Contents(b)[n + i] = b.mem[b.tail + (n + i) - 1]
      <3>1. n + i \in 1 .. b.size
        BY <1>1
      <3>2. QED
        BY <1>4, <3>1
    <2>5. (b.tail + n) + i - 1 = b.tail + (n + i) - 1
      BY <1>1
    <2>6. QED
      BY <2>2, <2>3, <2>4, <2>5
  <1>10. Contents(c) = r
    BY <1>6, <1>7, <1>8, <1>9, SeqEqual
  <1>11. QED
    BY <1>10 DEF c, r

-----------------------------------------------------------------------------
(***************************************************************************)
(* Queues of handlers.                                                     *)
(***************************************************************************)
LEMMA QueuedEmpty ==
    ASSUME NEW fn
    PROVE  ~ Queued(<< >>, fn) /\ AtMostOnce(<< >>, fn)
  BY DEF Queued, AtMostOnce

LEMMA QueuedAppend ==
    ASSUME NEW H, NEW q \in Seq(H), NEW h \in H, NEW fn
    PROVE  /\ Append(q, h) \in Seq(H)
           /\ Append(q, h) # << >>
           /\ Queued(Append(q, h), fn) <=> Queued(q, fn) \/ h.fn = fn
           /\ AtMostOnce(q, fn) /\ ~ (h.fn = fn /\ Queued(q, fn)) =>
                 AtMostOnce(Append(q, h), fn)
  <1> DEFINE a == Append(q, h)
  <1>1. /\ a \in Seq(H) /\ a # << >> /\ Len(a) = Len(q) + 1 /\ Len(q) \in Nat
        /\ DOMAIN a = 1 .. Len(a) /\ DOMAIN q = 1 .. Len(q)
        /\ a[Len(a)] = h
    BY AppendProperties
  <1>2. \A i \in 1 .. Len(q) : a[i] = q[i] /\ i \in 1 .. Len(a)
    BY <1>1
  <1>3. \A i \in 1 .. Len(a) : i = Len(a) \/ (i \in 1 .. Len(q) /\ a[i] = q[i])
    BY <1>1
  <1>4. Len(a) \in 1 .. Len(a)
    BY <1>1
  <1> HIDE DEF a
  <1>5. Queued(q, fn) => Queued(a, fn)
    BY <1>1, <1>2 DEF Queued
  <1>6. h.fn = fn => Queued(a, fn)
    BY <1>1, <1>4 DEF Queued
  <1>7. Queued(a, fn) => Queued(q, fn) \/ h.fn = fn
    BY <1>1, <1>3 DEF Queued
  <1>8. ASSUME AtMostOnce(q, fn), ~ (h.fn = fn /\ Queued(q, fn))
        PROVE  AtMostOnce(a, fn)
    <2>1. CASE h.fn # fn
      BY <1>1, <1>3, <1>8, <2>1 DEF AtMostOnce
    <2>2. CASE ~ Queued(q, fn)
      BY <1>1, <1>3, <2>2 DEF AtMostOnce, Queued
    <2>3. QED
      BY <1>8, <2>1, <2>2
  <1>9. QED
    BY <1>1, <1>5, <1>6, <1>7, <1>8 DEF a

LEMMA QueuedTail ==
    ASSUME NEW H, NEW q \in Seq(H), q # << >>, NEW fn
    PROVE  /\ Tail(q) \in Seq(H) /\ Head(q) \in H
           /\ Queued(q, fn) <=> Head(q).fn = fn \/ Queued(Tail(q), fn)
           /\ AtMostOnce(q, fn) => AtMostOnce(Tail(q), fn)
           /\ AtMostOnce(q, fn) /\ Head(q).fn = fn => ~ Queued(Tail(q), fn)
  <1>1. /\ Tail(q) \in Seq(H) /\ Head(q) \in H /\ Head(q) = q[1]
        /\ Len(q) \in Nat /\ Len(q) >= 1
        /\ Len(Tail(q)) = Len(q) - 1
        /\ \A i \in 1 .. Len(q) - 1 : Tail(q)[i] = q[i + 1]
    BY HeadTailProperties
  <1>2. Queued(Tail(q), fn) => Queued(q, fn)
    BY <1>1 DEF Queued
  <1>3. Head(q).fn = fn => Queued(q, fn)
    BY <1>1 DEF Queued
  <1>4. Queued(q, fn) => Head(q).fn = fn \/ Queued(Tail(q), fn)
    <2>1. SUFFICES ASSUME NEW i \in 1 .. Len(q), q[i].fn = fn, i # 1
                   PROVE  Queued(Tail(q), fn)
      BY <1>1 DEF Queued
    <2>2. i - 1 \in 1 .. Len(q) - 1 /\ (i - 1) + 1 = i
      BY <1>1, <2>1
    <2>3. i - 1 \in DOMAIN Tail(q) /\ Tail(q)[i - 1] = q[i]
      <3>1. DOMAIN Tail(q) = 1 .. Len(Tail(q))
        BY <1>1
      <3>2. QED
        BY <1>1, <2>2, <3>1
    <2>4. QED
      BY <2>1, <2>3 DEF Queued
  <1>5. AtMostOnce(q, fn) => AtMostOnce(Tail(q), fn)
    <2>1. SUFFICES ASSUME AtMostOnce(q, fn),
                          NEW i \in 1 .. Len(Tail(q)), NEW j \in 1 .. Len(Tail(q)),
                          Tail(q)[i].fn = fn, Tail(q)[j].fn = fn
                   PROVE  i = j
      BY <1>1 DEF AtMostOnce
    <2>2. /\ i + 1 \in 1 .. Len(q) /\ q[i + 1].fn = fn
          /\ j + 1 \in 1 .. Len(q) /\ q[j + 1].fn = fn
      BY <1>1, <2>1
    <2>3. i + 1 = j + 1
      BY <2>1, <2>2 DEF AtMostOnce
    <2>4. QED
      BY <1>1, <2>3
  <1>6. AtMostOnce(q, fn) /\ Head(q).fn = fn => ~ Queued(Tail(q), fn)
    <2>1. SUFFICES ASSUME AtMostOnce(q, fn), Head(q).fn = fn,
                          NEW i \in 1 .. Len(Tail(q)), Tail(q)[i].fn = fn
                   PROVE  FALSE
      BY <1>1 DEF Queued
    <2>2. i + 1 \in 1 .. Len(q) /\ q[i + 1].fn = fn /\ 1 \in 1 .. Len(q) /\ q[1].fn = fn
      BY <1>1, <2>1
    <2>3. i + 1 = 1
      BY <2>1, <2>2 DEF AtMostOnce
    <2>4. QED
      BY <1>1, <2>3
  <1>7. QED
    BY <1>1, <1>2, <1>3, <1>4, <1>5, <1>6

LEMMA QueuedConcat ==
    ASSUME NEW H, NEW q \in Seq(H), NEW r \in Seq(H), NEW fn
    PROVE  /\ q \o r \in Seq(H)
           /\ Queued(q \o r, fn) <=> Queued(q, fn) \/ Queued(r, fn)
           /\ AtMostOnce(q, fn) /\ AtMostOnce(r, fn) /\ ~ (Queued(q, fn) /\ Queued(r, fn)) =>
                 AtMostOnce(q \o r, fn)
  <1>1. /\ q \o r \in Seq(H) /\ Len(q \o r) = Len(q) + Len(r)
        /\ Len(q) \in Nat /\ Len(r) \in Nat
    BY ConcatProperties
  <1>2. \A i \in 1 .. Len(q) : (q \o r)[i] = q[i] /\ i \in 1 .. Len(q \o r)
    BY <1>1
  <1>3. \A i \in 1 .. Len(r) : (q \o r)[Len(q) + i] = r[i] /\ Len(q) + i \in 1 .. Len(q \o r)
    BY <1>1
  <1>4. \A i \in 1 .. Len(q \o r) :
           \/ i \in 1 .. Len(q) /\ (q \o r)[i] = q[i]
           \/ i - Len(q) \in 1 .. Len(r) /\ (q \o r)[i] = r[i - Len(q)]
    BY <1>1
  <1>5. Queued(q \o r, fn) <=> Queued(q, fn) \/ Queued(r, fn)
    <2> DEFINE c == q \o r
    <2>1. DOMAIN c = 1 .. Len(c) /\ DOMAIN q = 1 .. Len(q) /\ DOMAIN r = 1 .. Len(r)
      BY <1>1
    <2>2. Queued(c, fn) => Queued(q, fn) \/ Queued(r, fn)
      <3>1. SUFFICES ASSUME NEW i \in 1 .. Len(c), c[i].fn = fn
                     PROVE  Queued(q, fn) \/ Queued(r, fn)
        BY <2>1 DEF Queued
      <3>2. CASE i \in 1 .. Len(q) /\ c[i] = q[i]
        BY <2>1, <3>1, <3>2 DEF Queued
      <3>3. CASE i - Len(q) \in 1 .. Len(r) /\ c[i] = r[i - Len(q)]
        BY <2>1, <3>1, <3>3 DEF Queued
      <3>4. QED
        BY <1>4, <3>1, <3>2, <3>3
    <2>3. Queued(q, fn) => Queued(c, fn)
      BY <1>2, <2>1 DEF Queued
    <2>4. ASSUME NEW i \in 1 .. Len(r), r[i].fn = fn
          PROVE  Queued(c, fn)
      <3>1. Len(q) + i \in DOMAIN c /\ c[Len(q) + i].fn = fn
        BY <1>3, <2>1, <2>4
      <3>2. QED
        BY <3>1 DEF Queued
    <2>5. Queued(r, fn) => Queued(c, fn)
      BY <2>1, <2>4 DEF Queued
    <2>6. QED
      BY <2>2, <2>3, <2>5
  <1>6. ASSUME AtMostOnce(q, fn), AtMostOnce(r, fn), ~ (Queued(q, fn) /\ Queued(r, fn))
        PROVE  AtMostOnce(q \o r, fn)
    <2>1. SUFFICES ASSUME NEW i \in 1 .. Len(q \o r), NEW j \in 1 .. Len(q \o r),
                          (q \o r)[i].fn = fn, (q \o r)[j].fn = fn
                   PROVE  i = j
      BY <1>1 DEF AtMostOnce
    <2>2. CASE Queued(q, fn)
      <3>1. \A k \in 1 .. Len(r) : r[k].fn # fn
        BY <1>6, <2>2 DEF Queued
      <3>2. i \in 1 .. Len(q) /\ q[i].fn = fn /\ j \in 1 .. Len(q) /\ q[j].fn = fn
        BY <1>4, <2>1, <3>1
      <3>3. QED
        BY <1>6, <3>2 DEF AtMostOnce
    <2>3. CASE ~ Queued(q, fn)
      <3>1. \A k \in 1 .. Len(q) : q[k].fn # fn
        BY <2>3 DEF Queued
      <3>2. /\ i - Len(q) \in 1 .. Len(r) /\ r[i - Len(q)].fn = fn
            /\ j - Len(q) \in 1 .. Len(r) /\ r[j - Len(q)].fn = fn
        BY <1>4, <2>1, <3>1
      <3>3. i - Len(q) = j - Len(q)
        BY <1>6, <3>2 DEF AtMostOnce
      <3>4. QED
        BY <1>1, <3>3
    <2>4. QED
      BY <2>2, <2>3
  <1>7. QED
    BY <1>1, <1>5, <1>6

LEMMA QueuedAborted ==
    ASSUME NEW R, NEW ops \in Seq(R), NEW g, NEW fn
    PROVE  /\ Aborted(ops, g) \in Seq({Handler(g, "aborted", 0)})
           /\ ops = << >> => Aborted(ops, g) = << >>
           /\ Queued(Aborted(ops, g), fn) <=> g = fn /\ ops # << >>
           /\ Len(ops) <= 1 => AtMostOnce(Aborted(ops, g), fn)
  <1>1. /\ Aborted(ops, g) \in [1 .. Len(ops) -> {Handler(g, "aborted", 0)}]
        /\ Len(ops) \in Nat
    BY DEF Aborted
  <1>2. /\ Aborted(ops, g) \in Seq({Handler(g, "aborted", 0)})
        /\ Len(Aborted(ops, g)) = Len(ops)
        /\ \A i \in 1 .. Len(ops) : Aborted(ops, g)[i].fn = g
    BY <1>1 DEF Handler
  <1>3. ops = << >> <=> Len(ops) = 0
    BY EmptySeq
  <1>4. ops = << >> => Aborted(ops, g) = << >>
    BY <1>2, <1>3, EmptySeq
  <1>5. Queued(Aborted(ops, g), fn) <=> g = fn /\ ops # << >>
    BY <1>1, <1>2, <1>3 DEF Queued
  <1>6. Len(ops) <= 1 => AtMostOnce(Aborted(ops, g), fn)
    BY <1>1, <1>2 DEF AtMostOnce
  <1>7. QED
    BY <1>2, <1>4, <1>5, <1>6
-----------------------------------------------------------------------------
(***************************************************************************)
(* Positions and single handlers.                                          *)
(***************************************************************************)

\* A handler of fn has nothing behind it.
Ends(q, fn) == \A i \in DOMAIN q : q[i].fn = fn => i = Len(q)

\* The handler h is in q.
HasHandler(q, h) == \E i \in DOMAIN q : q[i] = h

\* k cancelled operations become ready.
Cancelled(k, fn) == [i \in 1 .. k |-> Handler(fn, "aborted", 0)]

LEMMA EndsAppend ==
    ASSUME NEW H, NEW q \in Seq(H), NEW h \in H, NEW fn, ~ Queued(q, fn)
    PROVE  Ends(Append(q, h), fn)
  <1>1. /\ Append(q, h) \in Seq(H) /\ Len(Append(q, h)) = Len(q) + 1 /\ Len(q) \in Nat
        /\ \A i \in 1 .. Len(q) : Append(q, h)[i] = q[i]
    BY AppendProperties
  <1>2. \A i \in 1 .. Len(q) : q[i].fn # fn
    BY DEF Queued
  <1>3. DOMAIN Append(q, h) = 1 .. Len(q) + 1
    BY <1>1
  <1>4. QED
    BY <1>1, <1>2, <1>3 DEF Ends

LEMMA EndsTail ==
    ASSUME NEW H, NEW q \in Seq(H), q # << >>, NEW fn, Ends(q, fn)
    PROVE  Ends(Tail(q), fn) /\ (Head(q).fn = fn => Tail(q) = << >>)
  <1>1. /\ Tail(q) \in Seq(H) /\ Head(q) = q[1]
        /\ Len(q) \in Nat /\ Len(q) >= 1
        /\ Len(Tail(q)) = Len(q) - 1
        /\ \A i \in 1 .. Len(q) - 1 : Tail(q)[i] = q[i + 1]
    BY HeadTailProperties
  <1>2. DOMAIN Tail(q) = 1 .. Len(q) - 1 /\ DOMAIN q = 1 .. Len(q)
    BY <1>1
  <1>3. Ends(Tail(q), fn)
    <2>1. SUFFICES ASSUME NEW i \in 1 .. Len(q) - 1, Tail(q)[i].fn = fn
                   PROVE  i = Len(q) - 1
      BY <1>1, <1>2 DEF Ends
    <2>2. i + 1 \in DOMAIN q /\ q[i + 1].fn = fn
      BY <1>1, <1>2, <2>1
    <2>3. i + 1 = Len(q)
      BY <2>2 DEF Ends
    <2>4. i \in Nat /\ Len(q) \in Nat
      BY LenProperties
    <2>5. QED
      BY <2>3, <2>4
  <1>4. Head(q).fn = fn => Tail(q) = << >>
    <2>1. SUFFICES ASSUME Head(q).fn = fn PROVE Tail(q) = << >>
      OBVIOUS
    <2>2. 1 \in DOMAIN q /\ q[1].fn = fn
      BY <1>1, <1>2, <2>1
    <2>3. Len(q) = 1
      BY <2>2 DEF Ends
    <2>4. Len(Tail(q)) = 0
      BY <1>1, <2>3
    <2>5. QED
      BY <1>1, <2>4, EmptySeq
  <1>5. QED
    BY <1>3, <1>4

LEMMA EndsNotQueued == \A q, fn : ~ Queued(q, fn) => Ends(q, fn)
  BY DEF Queued, Ends

LEMMA HasHandlerEmpty == \A h : ~ HasHandler(<< >>, h)
  BY DEF HasHandler

LEMMA HasHandlerQueued == \A q, h : HasHandler(q, h) => Queued(q, h.fn)
  BY DEF HasHandler, Queued

LEMMA HasHandlerAppend ==
    ASSUME NEW H, NEW q \in Seq(H), NEW h \in H, NEW g
    PROVE  HasHandler(Append(q, h), g) <=> HasHandler(q, g) \/ h = g
  <1>1. /\ Append(q, h) \in Seq(H) /\ Len(Append(q, h)) = Len(q) + 1 /\ Len(q) \in Nat
        /\ \A i \in 1 .. Len(q) : Append(q, h)[i] = q[i]
        /\ Append(q, h)[Len(q) + 1] = h
    BY AppendProperties
  <1>2. DOMAIN Append(q, h) = 1 .. Len(q) + 1 /\ DOMAIN q = 1 .. Len(q)
    BY <1>1
  <1>3. \A i \in 1 .. Len(q) + 1 : i \in 1 .. Len(q) \/ i = Len(q) + 1
    BY <1>1
  <1>4. \A i \in 1 .. Len(q) : i \in 1 .. Len(q) + 1
    BY <1>1
  <1>5. Len(q) + 1 \in 1 .. Len(q) + 1
    BY <1>1
  <1>6. QED
    BY <1>1, <1>2, <1>3, <1>4, <1>5 DEF HasHandler

LEMMA HasHandlerTail ==
    ASSUME NEW H, NEW q \in Seq(H), q # << >>, NEW g
    PROVE  HasHandler(q, g) <=> Head(q) = g \/ HasHandler(Tail(q), g)
  <1>1. /\ Tail(q) \in Seq(H) /\ Head(q) = q[1]
        /\ Len(q) \in Nat /\ Len(q) >= 1
        /\ Len(Tail(q)) = Len(q) - 1
        /\ \A i \in 1 .. Len(q) - 1 : Tail(q)[i] = q[i + 1]
    BY HeadTailProperties
  <1>2. DOMAIN Tail(q) = 1 .. Len(q) - 1 /\ DOMAIN q = 1 .. Len(q)
    BY <1>1
  <1>3. \A i \in 1 .. Len(q) - 1 : i + 1 \in 1 .. Len(q)
    BY <1>1
  <1>4. \A i \in 1 .. Len(q) : i = 1 \/ (i - 1 \in 1 .. Len(q) - 1 /\ Tail(q)[i - 1] = q[i])
    BY <1>1
  <1>5. HasHandler(Tail(q), g) => HasHandler(q, g)
    BY <1>1, <1>2, <1>3 DEF HasHandler
  <1>6. Head(q) = g => HasHandler(q, g)
    BY <1>1, <1>2 DEF HasHandler
  <1>7. HasHandler(q, g) => Head(q) = g \/ HasHandler(Tail(q), g)
    BY <1>1, <1>2, <1>4 DEF HasHandler
  <1>8. QED
    BY <1>5, <1>6, <1>7

LEMMA HasHandlerConcat ==
    ASSUME NEW H, NEW q \in Seq(H), NEW r \in Seq(H), NEW g
    PROVE  HasHandler(q \o r, g) <=> HasHandler(q, g) \/ HasHandler(r, g)
  <1> DEFINE c == q \o r
  <1>1. /\ c \in Seq(H) /\ Len(c) = Len(q) + Len(r)
        /\ Len(q) \in Nat /\ Len(r) \in Nat
    BY ConcatProperties
  <1>2. DOMAIN c = 1 .. Len(c) /\ DOMAIN q = 1 .. Len(q) /\ DOMAIN r = 1 .. Len(r)
    BY <1>1
  <1>3. \A i \in 1 .. Len(q) : c[i] = q[i] /\ i \in 1 .. Len(c)
    BY <1>1
  <1>4. \A i \in 1 .. Len(r) : c[Len(q) + i] = r[i] /\ Len(q) + i \in 1 .. Len(c)
    BY <1>1
  <1>5. \A i \in 1 .. Len(c) :
           \/ i \in 1 .. Len(q) /\ c[i] = q[i]
           \/ i - Len(q) \in 1 .. Len(r) /\ c[i] = r[i - Len(q)]
    BY <1>1
  <1> HIDE DEF c
  <1>6. HasHandler(q, g) => HasHandler(c, g)
    BY <1>2, <1>3 DEF HasHandler
  <1>7. HasHandler(r, g) => HasHandler(c, g)
    BY <1>2, <1>4 DEF HasHandler
  <1>8. HasHandler(c, g) => HasHandler(q, g) \/ HasHandler(r, g)
    BY <1>2, <1>5 DEF HasHandler
  <1>9. QED
    BY <1>6, <1>7, <1>8 DEF c

LEMMA CancelledFacts ==
    ASSUME NEW k \in Nat, NEW g
    PROVE  /\ Cancelled(k, g) \in Seq({Handler(g, "aborted", 0)})
           /\ k = 0 => Cancelled(k, g) = << >>
           /\ \A fn : Queued(Cancelled(k, g), fn) <=> g = fn /\ k > 0
           /\ \A fn : k <= 1 => AtMostOnce(Cancelled(k, g), fn)
           /\ \A h : HasHandler(Cancelled(k, g), h) <=> h = Handler(g, "aborted", 0) /\ k > 0
  <1>1. Cancelled(k, g) \in [1 .. k -> {Handler(g, "aborted", 0)}]
    BY DEF Cancelled
  <1>2. /\ Cancelled(k, g) \in Seq({Handler(g, "aborted", 0)})
        /\ Len(Cancelled(k, g)) = k /\ DOMAIN Cancelled(k, g) = 1 .. k
        /\ \A i \in 1 .. k : /\ Cancelled(k, g)[i].fn = g
                              /\ Cancelled(k, g)[i] = Handler(g, "aborted", 0)
    BY <1>1 DEF Handler
  <1>3. k = 0 => Cancelled(k, g) = << >>
    BY <1>2, EmptySeq
  <1>4. k > 0 => 1 \in 1 .. k
    OBVIOUS
  <1>5. \A i \in 1 .. k : k > 0
    OBVIOUS
  <1>6. \A fn : Queued(Cancelled(k, g), fn) <=> g = fn /\ k > 0
    BY <1>2, <1>4, <1>5 DEF Queued
  <1>7. k <= 1 => \A fn : AtMostOnce(Cancelled(k, g), fn)
    BY <1>2 DEF AtMostOnce
  <1>8. \A h : HasHandler(Cancelled(k, g), h) <=> h = Handler(g, "aborted", 0) /\ k > 0
    BY <1>2, <1>4, <1>5 DEF HasHandler
  <1>9. QED
    BY <1>2, <1>3, <1>6, <1>7, <1>8

\* Appending one handler to an empty queue.
LEMMA SingleHandler ==
    ASSUME NEW H, NEW h \in H
    PROVE  /\ <<h>> \in Seq(H)
           /\ \A fn : Queued(<<h>>, fn) <=> h.fn = fn
           /\ \A fn : AtMostOnce(<<h>>, fn)
           /\ \A g : HasHandler(<<h>>, g) <=> h = g
  <1>1. <<h>> \in Seq(H) /\ DOMAIN <<h>> = {1} /\ <<h>>[1] = h
    OBVIOUS
  <1>2. QED
    BY <1>1 DEF Queued, AtMostOnce, HasHandler
-----------------------------------------------------------------------------
(***************************************************************************)
(* The same facts for every function at once, as the steps of a component  *)
(* need them: a handler becomes ready, the io thread takes one, several    *)
(* become ready.                                                           *)
(***************************************************************************)
LEMMA AppendFacts ==
    ASSUME NEW H, NEW q \in Seq(H), NEW h \in H
    PROVE  /\ Append(q, h) \in Seq(H) /\ Append(q, h) # << >>
           /\ \A fn : Queued(Append(q, h), fn) <=> Queued(q, fn) \/ h.fn = fn
           /\ \A fn : AtMostOnce(q, fn) /\ ~ (h.fn = fn /\ Queued(q, fn)) =>
                         AtMostOnce(Append(q, h), fn)
           /\ \A fn : ~ Queued(q, fn) => Ends(Append(q, h), fn)
           /\ \A g : HasHandler(Append(q, h), g) <=> HasHandler(q, g) \/ h = g
  <1>1. Append(q, h) \in Seq(H) /\ Append(q, h) # << >>
    BY QueuedAppend
  <1>2. ASSUME NEW fn
        PROVE  /\ Queued(Append(q, h), fn) <=> Queued(q, fn) \/ h.fn = fn
               /\ AtMostOnce(q, fn) /\ ~ (h.fn = fn /\ Queued(q, fn)) =>
                     AtMostOnce(Append(q, h), fn)
    BY QueuedAppend
  <1>3. ASSUME NEW fn, ~ Queued(q, fn)
        PROVE  Ends(Append(q, h), fn)
    BY <1>3, EndsAppend
  <1>4. ASSUME NEW g
        PROVE  HasHandler(Append(q, h), g) <=> HasHandler(q, g) \/ h = g
    BY HasHandlerAppend
  <1>5. QED
    BY <1>1, <1>2, <1>3, <1>4

LEMMA TailFacts ==
    ASSUME NEW H, NEW q \in Seq(H), q # << >>
    PROVE  /\ Tail(q) \in Seq(H) /\ Head(q) \in H
           /\ \A fn : Queued(q, fn) <=> Head(q).fn = fn \/ Queued(Tail(q), fn)
           /\ \A fn : AtMostOnce(q, fn) => AtMostOnce(Tail(q), fn)
           /\ \A fn : AtMostOnce(q, fn) /\ Head(q).fn = fn => ~ Queued(Tail(q), fn)
           /\ \A fn : Ends(q, fn) => Ends(Tail(q), fn)
           /\ \A fn : Ends(q, fn) /\ Head(q).fn = fn => Tail(q) = << >>
           /\ \A g : HasHandler(q, g) <=> Head(q) = g \/ HasHandler(Tail(q), g)
  <1>1. Tail(q) \in Seq(H) /\ Head(q) \in H
    BY QueuedTail
  <1>2. ASSUME NEW fn
        PROVE  /\ Queued(q, fn) <=> Head(q).fn = fn \/ Queued(Tail(q), fn)
               /\ AtMostOnce(q, fn) => AtMostOnce(Tail(q), fn)
               /\ AtMostOnce(q, fn) /\ Head(q).fn = fn => ~ Queued(Tail(q), fn)
    BY QueuedTail
  <1>3. ASSUME NEW fn, Ends(q, fn)
        PROVE  Ends(Tail(q), fn) /\ (Head(q).fn = fn => Tail(q) = << >>)
    BY <1>3, EndsTail
  <1>4. ASSUME NEW g
        PROVE  HasHandler(q, g) <=> Head(q) = g \/ HasHandler(Tail(q), g)
    BY HasHandlerTail
  <1>5. QED
    BY <1>1, <1>2, <1>3, <1>4

LEMMA ConcatFacts ==
    ASSUME NEW H, NEW q \in Seq(H), NEW r \in Seq(H)
    PROVE  /\ q \o r \in Seq(H)
           /\ r = << >> => q \o r = q
           /\ \A fn : Queued(q \o r, fn) <=> Queued(q, fn) \/ Queued(r, fn)
           /\ \A fn : AtMostOnce(q, fn) /\ AtMostOnce(r, fn) /\ ~ (Queued(q, fn) /\ Queued(r, fn)) =>
                         AtMostOnce(q \o r, fn)
           /\ \A g : HasHandler(q \o r, g) <=> HasHandler(q, g) \/ HasHandler(r, g)
  <1>1. q \o r \in Seq(H)
    BY QueuedConcat
  <1>2. r = << >> => q \o r = q
    OBVIOUS
  <1>3. ASSUME NEW fn
        PROVE  /\ Queued(q \o r, fn) <=> Queued(q, fn) \/ Queued(r, fn)
               /\ AtMostOnce(q, fn) /\ AtMostOnce(r, fn) /\ ~ (Queued(q, fn) /\ Queued(r, fn)) =>
                     AtMostOnce(q \o r, fn)
    BY QueuedConcat
  <1>4. ASSUME NEW g
        PROVE  HasHandler(q \o r, g) <=> HasHandler(q, g) \/ HasHandler(r, g)
    BY HasHandlerConcat
  <1>5. QED
    BY <1>1, <1>2, <1>3, <1>4

LEMMA EmptyFacts ==
    /\ \A fn : ~ Queued(<< >>, fn) /\ AtMostOnce(<< >>, fn) /\ Ends(<< >>, fn)
    /\ \A g : ~ HasHandler(<< >>, g)
  BY DEF Queued, AtMostOnce, Ends, HasHandler

LEMMA OnlyHandler ==
    ASSUME NEW H, NEW q \in Seq(H), q # << >>, Tail(q) = << >>
    PROVE  \A i \in DOMAIN q : q[i] = Head(q)
  <1>1. SUFFICES ASSUME NEW i \in 1 .. Len(q), i # 1
                 PROVE  FALSE
    OBVIOUS
  <1>2. \A t : t = Tail(q) => i - 1 \in DOMAIN t
    BY <1>1
  <1>3. i - 1 \in DOMAIN << >>
    BY <1>2, Zenon
  <1>4. QED
    BY <1>3

LEMMA CancelledIn ==
    ASSUME NEW H, NEW k \in Nat, NEW fn, Handler(fn, "aborted", 0) \in H
    PROVE  Cancelled(k, fn) \in Seq(H)
  BY DEF Cancelled
-----------------------------------------------------------------------------
(***************************************************************************)
(* Counting handlers.                                                      *)
(***************************************************************************)
LEMMA HowManyType ==
    ASSUME NEW H, NEW q \in Seq(H), NEW fn
    PROVE  /\ IsFiniteSet({i \in DOMAIN q : q[i].fn = fn})
           /\ HowMany(q, fn) \in Nat
  <1>1. Len(q) \in Nat /\ DOMAIN q = 1 .. Len(q)
    OBVIOUS
  <1>2. IsFiniteSet(1 .. Len(q))
    BY <1>1, FS_Interval
  <1>3. IsFiniteSet({i \in 1 .. Len(q) : q[i].fn = fn})
    BY <1>2, FS_Subset
  <1>4. QED
    BY <1>1, <1>3, FS_CardinalityType DEF HowMany

LEMMA HowManyEmpty == \A fn : HowMany(<< >>, fn) = 0
  <1> TAKE fn
  <1>1. {i \in DOMAIN << >> : << >>[i].fn = fn} = {}
    OBVIOUS
  <1>2. QED
    BY <1>1, FS_EmptySet DEF HowMany

LEMMA HowManyAppend ==
    ASSUME NEW H, NEW q \in Seq(H), NEW h \in H, NEW fn
    PROVE  HowMany(Append(q, h), fn) = HowMany(q, fn) + (IF h.fn = fn THEN 1 ELSE 0)
  <1> DEFINE a == Append(q, h)
             S == {i \in DOMAIN q : q[i].fn = fn}
             T == {i \in DOMAIN a : a[i].fn = fn}
             n == Len(q) + 1
  <1>1. Len(q) \in Nat /\ DOMAIN q = 1 .. Len(q) /\ DOMAIN a = 1 .. n
    BY AppendProperties
  <1>2. a[n] = h /\ \A i \in 1 .. Len(q) : a[i] = q[i]
    BY AppendProperties
  <1>3. \A i \in 1 .. n : i = n \/ i \in 1 .. Len(q)
    BY <1>1
  <1>4. n \notin 1 .. Len(q) /\ n \in 1 .. n /\ \A i \in 1 .. Len(q) : i \in 1 .. n
    BY <1>1
  <1> HIDE DEF a, n
  <1>5. T = IF h.fn = fn THEN S \cup {n} ELSE S
    BY <1>1, <1>2, <1>3, <1>4
  <1>6. n \notin S /\ IsFiniteSet(S) /\ Cardinality(S) \in Nat
    BY <1>1, <1>4, HowManyType DEF HowMany
  <1>7. HowMany(a, fn) = Cardinality(T) /\ HowMany(q, fn) = Cardinality(S)
    BY DEF HowMany
  <1> HIDE DEF S, T
  <1>8. Cardinality(S \cup {n}) = Cardinality(S) + 1
    BY <1>6, FS_AddElement
  <1>9. QED
    BY <1>5, <1>6, <1>7, <1>8 DEF a

LEMMA HowManyTail ==
    ASSUME NEW H, NEW q \in Seq(H), q # << >>, NEW fn
    PROVE  HowMany(q, fn) = HowMany(Tail(q), fn) + (IF Head(q).fn = fn THEN 1 ELSE 0)
  <1> DEFINE t == Tail(q)
             S == {i \in DOMAIN q : q[i].fn = fn}
             R == S \ {1}
             T == {i \in DOMAIN t : t[i].fn = fn}
             shift == [i \in T |-> i + 1]
  <1>1. /\ t \in Seq(H) /\ Head(q) = q[1]
        /\ Len(q) \in Nat /\ Len(q) >= 1 /\ Len(t) = Len(q) - 1
        /\ \A i \in 1 .. Len(q) - 1 : t[i] = q[i + 1]
    BY HeadTailProperties
  <1>2. DOMAIN t = 1 .. Len(q) - 1 /\ DOMAIN q = 1 .. Len(q)
    BY <1>1
  <1> HIDE DEF t
  <1>3. \A i \in T : i \in Nat /\ i + 1 \in R
    BY <1>1, <1>2
  <1>4. \A j \in R : j - 1 \in T /\ (j - 1) + 1 = j
    BY <1>1, <1>2
  <1>5. IsFiniteSet(S) /\ Cardinality(S) \in Nat /\ IsFiniteSet(T)
    BY <1>1, HowManyType DEF HowMany
  <1>6. HowMany(t, fn) = Cardinality(T) /\ HowMany(q, fn) = Cardinality(S)
    BY DEF HowMany
  <1>7. 1 \in S <=> Head(q).fn = fn
    BY <1>1, <1>2
  <1> HIDE DEF S, T
  <1>8. shift \in Bijection(T, R)
    <2>1. shift \in [T -> R]
      BY <1>3
    <2>2. \A x, y \in T : shift[x] = shift[y] => x = y
      BY <1>3
    <2>3. \A j \in R : \E i \in T : shift[i] = j
      BY <1>4
    <2>4. QED
      BY <2>1, <2>2, <2>3, Fun_IsBij
  <1>9. Cardinality(R) = Cardinality(T)
    BY <1>5, <1>8, FS_Bijection DEF ExistsBijection
  <1>10. Cardinality(R) = IF 1 \in S THEN Cardinality(S) - 1 ELSE Cardinality(S)
    BY <1>5, FS_RemoveElement
  <1>11. QED
    BY <1>5, <1>6, <1>7, <1>9, <1>10 DEF t
-----------------------------------------------------------------------------
(***************************************************************************)
(* What a step does to a queue, told by functions instead of positions: r  *)
(* is q with one more handler of every function in F; r is q without its   *)
(* first handler, which is one of fn.                                      *)
(***************************************************************************)
Adds(q, r, F) ==
    /\ \A g : Queued(r, g) <=> Queued(q, g) \/ g \in F
    /\ \A g : AtMostOnce(q, g) /\ ~ (g \in F /\ Queued(q, g)) => AtMostOnce(r, g)
    /\ \A g : HowMany(r, g) = HowMany(q, g) + (IF g \in F THEN 1 ELSE 0)

Takes(q, r, fn) ==
    /\ \A g : Queued(q, g) <=> g = fn \/ Queued(r, g)
    /\ \A g : AtMostOnce(q, g) => AtMostOnce(r, g)
    /\ AtMostOnce(q, fn) => ~ Queued(r, fn)
    /\ \A g : HowMany(q, g) = HowMany(r, g) + (IF g = fn THEN 1 ELSE 0)

LEMMA AddsNone ==
    ASSUME NEW H, NEW q \in Seq(H)
    PROVE  q \o << >> = q /\ Adds(q, q, {})
  <1>1. \A g : HowMany(q, g) \in Nat
    BY HowManyType
  <1>2. QED
    BY <1>1 DEF Adds

LEMMA AddsOne ==
    ASSUME NEW H, NEW q \in Seq(H), NEW h \in H
    PROVE  /\ Append(q, h) \in Seq(H) /\ q \o <<h>> = Append(q, h)
           /\ Adds(q, Append(q, h), {h.fn})
  <1>1. Append(q, h) \in Seq(H) /\ q \o <<h>> = Append(q, h)
    OBVIOUS
  <1>2. \A g : Queued(Append(q, h), g) <=> Queued(q, g) \/ g \in {h.fn}
    BY AppendFacts
  <1>3. \A g : AtMostOnce(q, g) /\ ~ (g \in {h.fn} /\ Queued(q, g)) =>
                 AtMostOnce(Append(q, h), g)
    BY AppendFacts
  <1>4. \A g : HowMany(Append(q, h), g) = HowMany(q, g) + (IF g \in {h.fn} THEN 1 ELSE 0)
    BY HowManyAppend
  <1>5. QED
    BY <1>1, <1>2, <1>3, <1>4 DEF Adds

LEMMA AddsBoth ==
    ASSUME NEW H, NEW q \in Seq(H), NEW r \in Seq(H), NEW s \in Seq(H), NEW F, NEW G,
           Adds(q, r, F), Adds(r, s, G), F \cap G = {}
    PROVE  Adds(q, s, F \cup G)
  <1>1. \A g : Queued(s, g) <=> Queued(q, g) \/ g \in F \cup G
    BY DEF Adds
  <1>2. \A g : AtMostOnce(q, g) /\ ~ (g \in F \cup G /\ Queued(q, g)) => AtMostOnce(s, g)
    BY DEF Adds
  <1>3. ASSUME NEW g
        PROVE  HowMany(s, g) = HowMany(q, g) + (IF g \in F \cup G THEN 1 ELSE 0)
    <2>1. HowMany(q, g) \in Nat
      BY HowManyType
    <2>2. /\ HowMany(r, g) = HowMany(q, g) + (IF g \in F THEN 1 ELSE 0)
          /\ HowMany(s, g) = HowMany(r, g) + (IF g \in G THEN 1 ELSE 0)
      BY DEF Adds
    <2>3. QED
      BY <2>1, <2>2
  <1>4. QED
    BY <1>1, <1>2, <1>3 DEF Adds

LEMMA TakesHead ==
    ASSUME NEW H, NEW q \in Seq(H), q # << >>
    PROVE  Tail(q) \in Seq(H) /\ Head(q) \in H /\ Takes(q, Tail(q), Head(q).fn)
  <1>1. Tail(q) \in Seq(H) /\ Head(q) \in H
    BY TailFacts
  <1>2. /\ \A g : Queued(q, g) <=> g = Head(q).fn \/ Queued(Tail(q), g)
        /\ \A g : AtMostOnce(q, g) => AtMostOnce(Tail(q), g)
        /\ AtMostOnce(q, Head(q).fn) => ~ Queued(Tail(q), Head(q).fn)
    BY TailFacts
  <1>3. \A g : HowMany(q, g) = HowMany(Tail(q), g) + (IF g = Head(q).fn THEN 1 ELSE 0)
    BY HowManyTail
  <1>4. QED
    BY <1>1, <1>2, <1>3 DEF Takes

\* Some handler in q is one of S.
Waiting(q, S) == \E h \in S : HasHandler(q, h)

LEMMA WaitingEmpty == \A S : ~ Waiting(<< >>, S)
  BY EmptyFacts DEF Waiting

LEMMA WaitingAppend ==
    ASSUME NEW H, NEW q \in Seq(H), NEW h \in H, NEW S
    PROVE  Waiting(Append(q, h), S) <=> Waiting(q, S) \/ h \in S
  <1>1. \A g : HasHandler(Append(q, h), g) <=> HasHandler(q, g) \/ h = g
    BY AppendFacts
  <1>2. QED
    BY <1>1 DEF Waiting

LEMMA WaitingTail ==
    ASSUME NEW H, NEW q \in Seq(H), q # << >>, NEW S
    PROVE  Waiting(q, S) <=> Head(q) \in S \/ Waiting(Tail(q), S)
  <1>1. \A g : HasHandler(q, g) <=> Head(q) = g \/ HasHandler(Tail(q), g)
    BY TailFacts
  <1>2. QED
    BY <1>1 DEF Waiting

LEMMA WaitingConcat ==
    ASSUME NEW H, NEW q \in Seq(H), NEW r \in Seq(H), NEW S
    PROVE  Waiting(q \o r, S) <=> Waiting(q, S) \/ Waiting(r, S)
  <1>1. \A g : HasHandler(q \o r, g) <=> HasHandler(q, g) \/ HasHandler(r, g)
    BY ConcatFacts
  <1>2. QED
    BY <1>1 DEF Waiting

LEMMA WaitingCancelled ==
    ASSUME NEW k \in Nat, NEW fn, NEW S, Handler(fn, "aborted", 0) \notin S
    PROVE  ~ Waiting(Cancelled(k, fn), S)
  BY CancelledFacts DEF Waiting

LEMMA WaitingQueued ==
    ASSUME NEW q, NEW S, NEW fn, \A h \in S : h.fn = fn, Waiting(q, S)
    PROVE  Queued(q, fn)
  BY HasHandlerQueued DEF Waiting
-----------------------------------------------------------------------------
(***************************************************************************)
(* The order of handlers.                                                  *)
(***************************************************************************)

\* Behind a handler of fn there are only handlers of the functions in F.
Follows(q, fn, F) == \A i, j \in DOMAIN q : i < j /\ q[i].fn = fn => q[j].fn \in F

LEMMA FollowsNotQueued == \A q, fn, F : ~ Queued(q, fn) => Follows(q, fn, F)
  BY DEF Queued, Follows

LEMMA FollowsAppend ==
    ASSUME NEW H, NEW q \in Seq(H), NEW h \in H, NEW fn, NEW F, Follows(q, fn, F),
           Queued(q, fn) => h.fn \in F
    PROVE  Follows(Append(q, h), fn, F)
  <1> DEFINE a == Append(q, h)
  <1>1. /\ a \in Seq(H) /\ Len(a) = Len(q) + 1 /\ Len(q) \in Nat
        /\ \A i \in 1 .. Len(q) : a[i] = q[i]
        /\ a[Len(q) + 1] = h
    BY AppendProperties
  <1>2. DOMAIN a = 1 .. Len(q) + 1 /\ DOMAIN q = 1 .. Len(q)
    BY <1>1
  <1> HIDE DEF a
  <1>3. ASSUME NEW i \in 1 .. Len(q) + 1, NEW j \in 1 .. Len(q) + 1, i < j, a[i].fn = fn
        PROVE  a[j].fn \in F
    <2>1. i \in 1 .. Len(q) /\ a[i] = q[i]
      BY <1>1, <1>3
    <2>2. CASE j \in 1 .. Len(q)
      <3>1. a[j] = q[j]
        BY <1>1, <2>2
      <3>2. QED
        BY <1>2, <1>3, <2>1, <2>2, <3>1 DEF Follows
    <2>3. CASE j = Len(q) + 1
      <3>1. Queued(q, fn)
        BY <1>2, <1>3, <2>1 DEF Queued
      <3>2. QED
        BY <1>1, <2>3, <3>1
    <2>4. QED
      BY <1>1, <1>3, <2>2, <2>3
  <1>4. Follows(a, fn, F)
    BY <1>2, <1>3 DEF Follows
  <1>5. QED
    BY <1>4 DEF a

LEMMA FollowsTail ==
    ASSUME NEW H, NEW q \in Seq(H), q # << >>, NEW fn, NEW F, Follows(q, fn, F)
    PROVE  /\ Follows(Tail(q), fn, F)
           /\ Head(q).fn = fn => \A h : HasHandler(Tail(q), h) => h.fn \in F
  <1> DEFINE t == Tail(q)
  <1>1. /\ t \in Seq(H) /\ Head(q) = q[1]
        /\ Len(q) \in Nat /\ Len(q) >= 1
        /\ Len(t) = Len(q) - 1
        /\ \A i \in 1 .. Len(q) - 1 : t[i] = q[i + 1]
    BY HeadTailProperties
  <1>2. DOMAIN t = 1 .. Len(q) - 1 /\ DOMAIN q = 1 .. Len(q)
    BY <1>1
  <1> HIDE DEF t
  <1>3. ASSUME NEW i \in 1 .. Len(q) - 1
        PROVE  t[i] = q[i + 1] /\ i + 1 \in DOMAIN q /\ i \in Nat /\ 1 < i + 1
    BY <1>1, <1>2
  <1>4. ASSUME NEW i \in DOMAIN t, NEW j \in DOMAIN t, i < j, t[i].fn = fn
        PROVE  t[j].fn \in F
    <2>1. /\ t[i] = q[i + 1] /\ i + 1 \in DOMAIN q /\ t[j] = q[j + 1] /\ j + 1 \in DOMAIN q
          /\ i \in Nat /\ j \in Nat
      BY <1>2, <1>3
    <2>2. i + 1 < j + 1
      BY <1>4, <2>1
    <2>3. QED
      BY <1>4, <2>1, <2>2 DEF Follows
  <1>5. ASSUME q[1].fn = fn, NEW h, HasHandler(t, h)
        PROVE  h.fn \in F
    <2>1. PICK i \in DOMAIN t : t[i] = h
      BY <1>5 DEF HasHandler
    <2>2. t[i] = q[i + 1] /\ i + 1 \in DOMAIN q /\ 1 < i + 1 /\ 1 \in DOMAIN q
      BY <1>1, <1>2, <1>3
    <2>3. QED
      BY <1>5, <2>1, <2>2 DEF Follows
  <1>6. Follows(t, fn, F)
    BY <1>4 DEF Follows
  <1>7. QED
    BY <1>1, <1>5, <1>6 DEF t
=============================================================================
