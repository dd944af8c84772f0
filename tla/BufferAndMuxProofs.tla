------------------------- MODULE BufferAndMuxProofs -------------------------
(***************************************************************************)
(* Theorems about the two modules built on LinearBuffer alone.             *)
(*                                                                         *)
(* SerializationMux, for every size of a byte, of the buffers and of the   *)
(* fields: as long as nothing has gone wrong, the bytes on the way are     *)
(* the frames of the records accepted and not yet delivered.  First what   *)
(* FlattenSeq does; then Serializer, the patching of a header, Deserializer*)
(* and read_header, each on any buffer; then the invariant.                *)
(*                                                                         *)
(* LinearBufferSpec, for every capacity and every set of byte values: the  *)
(* inductive invariant and the refinement of ByteQueue.                    *)
(***************************************************************************)
EXTENDS SerializationMux, LinearBufferSpec, BufferAndQueueLemmas

-----------------------------------------------------------------------------
(***************************************************************************)
(* Flattening.                                                             *)
(***************************************************************************)
\* The function FlattenSeq is defined by.
Flattening(f, s) ==
    \A i \in 1 .. Len(s) : f[i] = IF i = 1 THEN s[i] ELSE f[i - 1] \o s[i]

\* FlattenSeq is the last value of such a function.
LEMMA FlattenFunction ==
    ASSUME NEW A, NEW s \in Seq(Seq(A)), s # << >>
    PROVE  \E f \in [1 .. Len(s) -> Seq(A)] : Flattening(f, s) /\ FlattenSeq(s) = f[Len(s)]
  <1> DEFINE Eq(f) == f = [i \in 1 .. Len(s) |-> IF i = 1 THEN s[i] ELSE f[i - 1] \o s[i]]
             G == [p \in (1 + 1 .. Len(s)) \X Seq(A) |-> p[2] \o s[p[1]]]
  <1>1. Len(s) \in Nat /\ Len(s) # 0 /\ \A i \in 1 .. Len(s) : s[i] \in Seq(A)
    BY EmptySeq, ElementOfSeq
  <1>3. ASSUME NEW i \in 1 + 1 .. Len(s), NEW w \in Seq(A)
        PROVE  G[<<i, w>>] = w \o s[i] /\ w \o s[i] \in Seq(A)
    <2>1. i \in 1 .. Len(s)
      BY <1>1
    <2>2. w \o s[i] \in Seq(A)
      BY <1>1, <2>1, ConcatProperties
    <2>3. QED
      BY <2>2
  <1> HIDE DEF G
  <1>4. s[1] \in Seq(A) /\ 1 \in Nat
    BY <1>1
  <1>5. PICK f \in [1 .. Len(s) -> Seq(A)] :
             \A i \in 1 .. Len(s) : f[i] = IF i = 1 THEN s[1] ELSE G[<<i, f[i - 1]>>]
    <2>1. 1 \in Nat /\ Len(s) \in Nat /\ s[1] \in Seq(A)
      BY <1>1, <1>4
    <2> DEFINE D == (1 + 1 .. Len(s)) \X Seq(A)
               V == Seq(A)
               n == Len(s)
               x == s[1]
               m == 1
    <2>2. m \in Nat /\ n \in Nat /\ x \in V /\ \A i \in m + 1 .. n : \A v \in V : G[<<i, v>>] \in V
      BY <1>3, <2>1
    <2> HIDE DEF V, n, x, m
    <2>3. \E f \in [m .. n -> V] :
             ByRecursion(f, m, n, x, G)
      BY <2>2, RecursionExists
    <2>4. QED
      BY <2>3 DEF V, n, x, m, ByRecursion
  <1>6. Eq(f)
    <2>1. \A i \in 1 .. Len(s) : i # 1 => i \in 1 + 1 .. Len(s) /\ i - 1 \in 1 .. Len(s)
      BY <1>1
    <2>2. \A i \in 1 .. Len(s) : i # 1 => G[<<i, f[i - 1]>>] = f[i - 1] \o s[i]
      BY <1>3, <2>1
    <2>3. \A i \in 1 .. Len(s) : f[i] = IF i = 1 THEN s[i] ELSE f[i - 1] \o s[i]
      BY <1>5, <2>2
    <2>4. QED
      BY <2>3
  <1> DEFINE g == CHOOSE h : Eq(h)
  <1>7. Eq(g)
    BY <1>6
  <1>8. FlattenSeq(s) = g[Len(s)]
    BY <1>1 DEF FlattenSeq
  <1> HIDE DEF g
  <1>9. Flattening(g, s) /\ DOMAIN g = 1 .. Len(s)
    BY <1>7 DEF Flattening
  <1>10. \A k \in 1 .. Len(s) : k \in {j \in Nat : g[j] \in Seq(A)}
    <2> DEFINE T == {j \in Nat : g[j] \in Seq(A)}
    <2>1. 1 \in T
      <3>1. 1 \in 1 .. Len(s)
        BY <1>1
      <3>2. g[1] = s[1]
        BY <1>9, <3>1 DEF Flattening
      <3>3. QED
        BY <1>4, <3>2
    <2>2. ASSUME NEW k \in 1 .. Len(s) - 1, k \in T PROVE k + 1 \in T
      <3>1. k + 1 \in 1 .. Len(s) /\ k + 1 # 1 /\ (k + 1) - 1 = k
        BY <1>1
      <3>2. g[k + 1] = g[k] \o s[k + 1]
        BY <1>9, <3>1 DEF Flattening
      <3>3. g[k + 1] \in Seq(A)
        BY <1>1, <2>2, <3>1, <3>2, ConcatProperties
      <3>4. QED
        BY <3>1, <3>3
    <2> HIDE DEF T
    <2>3. QED
      BY <1>1, <2>1, <2>2, UpTo DEF T
  <1>11. ASSUME NEW i \in 1 .. Len(s) PROVE g[i] \in Seq(A)
    BY <1>10
  <1>12. g \in [1 .. Len(s) -> Seq(A)]
    <2>1. g = [i \in 1 .. Len(s) |-> g[i]]
      BY <1>7
    <2>2. QED
      BY <1>11, <2>1
  <1>13. QED
    BY <1>8, <1>9, <1>12

\* What FlattenSeq makes of no sequence, of a sequence of sequences, of one more behind
\* the others, and of a single one.
LEMMA FlattenEmpty == FlattenSeq(<< >>) = << >>
  BY DEF FlattenSeq

LEMMA FlattenType ==
    ASSUME NEW A, NEW s \in Seq(Seq(A))
    PROVE  FlattenSeq(s) \in Seq(A) /\ Len(FlattenSeq(s)) \in Nat
  <1>1. FlattenSeq(s) \in Seq(A)
    <2>1. CASE s = << >>
      BY <2>1, FlattenEmpty, EmptySeq
    <2>2. CASE s # << >>
      <3>1. Len(s) \in 1 .. Len(s)
        BY <2>2, EmptySeq
      <3>2. PICK f \in [1 .. Len(s) -> Seq(A)] : Flattening(f, s) /\ FlattenSeq(s) = f[Len(s)]
        BY <2>2, FlattenFunction
      <3>3. QED
        BY <3>1, <3>2
    <2>3. QED
      BY <2>1, <2>2
  <1>2. QED
    BY <1>1, LenProperties

\* The function for a sequence is that for its beginning, as far as that goes.
LEMMA FlatteningsAgree ==
    ASSUME NEW A, NEW s \in Seq(Seq(A)), NEW t \in Seq(Seq(A)), NEW n \in Nat \ {0},
           n <= Len(s), n <= Len(t), \A i \in 1 .. n : s[i] = t[i],
           NEW f, NEW g, Flattening(f, s), Flattening(g, t)
    PROVE  f[n] = g[n]
  <1> DEFINE T == {k \in 1 .. n : f[k] = g[k]}
  <1>1. Len(s) \in Nat /\ Len(t) \in Nat
    BY LenProperties
  <1>2. 1 \in T
    <2>1. 1 \in 1 .. Len(s) /\ 1 \in 1 .. Len(t) /\ 1 \in 1 .. n
      BY <1>1
    <2>2. f[1] = s[1] /\ g[1] = t[1]
      BY <2>1 DEF Flattening
    <2>3. QED
      BY <2>1, <2>2
  <1>3. ASSUME NEW k \in 1 .. n - 1, k \in T PROVE k + 1 \in T
    <2>1. /\ k + 1 \in 1 .. Len(s) /\ k + 1 \in 1 .. Len(t) /\ k + 1 \in 1 .. n
          /\ k + 1 # 1 /\ (k + 1) - 1 = k
      BY <1>1
    <2>2. f[k + 1] = f[k] \o s[k + 1] /\ g[k + 1] = g[k] \o t[k + 1]
      BY <2>1 DEF Flattening
    <2>3. f[k] = g[k]
      BY <1>3
    <2>4. QED
      BY <2>1, <2>2, <2>3
  <1> HIDE DEF T
  <1>4. \A k \in 1 .. n : k \in T
    BY <1>2, <1>3, UpTo
  <1>5. n \in 1 .. n
    OBVIOUS
  <1>6. QED
    BY <1>4, <1>5 DEF T

LEMMA FlattenAppend ==
    ASSUME NEW A, NEW s \in Seq(Seq(A)), NEW x \in Seq(A)
    PROVE  FlattenSeq(Append(s, x)) = FlattenSeq(s) \o x
  <1> DEFINE t == Append(s, x)
  <1>1. /\ t \in Seq(Seq(A)) /\ t # << >> /\ Len(t) = Len(s) + 1 /\ Len(s) \in Nat
        /\ \A i \in 1 .. Len(s) : t[i] = s[i]
        /\ t[Len(t)] = x
    BY AppendProperties, LenProperties
  <1> HIDE DEF t
  <1>2. PICK g \in [1 .. Len(t) -> Seq(A)] : Flattening(g, t) /\ FlattenSeq(t) = g[Len(t)]
    BY <1>1, FlattenFunction
  <1>3. CASE s = << >>
    <2>1. Len(t) = 1
      BY <1>1, <1>3
    <2>2. FlattenSeq(t) = x
      BY <1>1, <1>2, <2>1 DEF Flattening
    <2>3. QED
      BY <1>3, <2>2, FlattenEmpty, ConcatEmptySeq DEF t
  <1>4. CASE s # << >>
    <2>1. PICK f \in [1 .. Len(s) -> Seq(A)] : Flattening(f, s) /\ FlattenSeq(s) = f[Len(s)]
      BY <1>4, FlattenFunction
    <2>2. Len(s) \in Nat \ {0}
      BY <1>4, EmptySeq
    <2>3. f[Len(s)] = g[Len(s)]
      <3>1. Len(s) <= Len(s) /\ Len(s) <= Len(t) /\ \A i \in 1 .. Len(s) : s[i] = t[i]
        BY <1>1
      <3>2. QED
        <4> DEFINE n == Len(s)
        <4>1. n \in Nat \ {0} /\ n <= Len(s) /\ n <= Len(t) /\ \A i \in 1 .. n : s[i] = t[i]
          BY <2>2, <3>1
        <4>2. t \in Seq(Seq(A)) /\ Flattening(f, s) /\ Flattening(g, t)
          BY <1>1, <1>2, <2>1
        <4> HIDE DEF n
        <4>3. f[n] = g[n]
          BY <4>1, <4>2, FlatteningsAgree
        <4>4. QED
          BY <4>3 DEF n
    <2>4. Len(t) \in 1 .. Len(t) /\ Len(t) # 1 /\ Len(t) - 1 = Len(s)
      BY <1>1, <2>2
    <2>5. g[Len(t)] = g[Len(s)] \o x
      BY <1>1, <1>2, <2>4 DEF Flattening
    <2>6. QED
      BY <1>2, <2>1, <2>3, <2>5 DEF t
  <1>5. QED
    BY <1>3, <1>4

LEMMA FlattenOne ==
    ASSUME NEW A, NEW x \in Seq(A)
    PROVE  FlattenSeq(<<x>>) = x
  <1>1. << >> \in Seq(Seq(A)) /\ Append(<< >>, x) = <<x>>
    OBVIOUS
  <1>2. QED
    <2>1. FlattenSeq(Append(<< >>, x)) = FlattenSeq(<< >>) \o x
      BY <1>1, FlattenAppend
    <2>2. QED
      BY <1>1, <2>1, FlattenEmpty, ConcatEmptySeq

\* The beginning of a sequence and one element more.
LEMMA FlattenNext ==
    ASSUME NEW A, NEW s \in Seq(Seq(A)), NEW i \in 0 .. Len(s) - 1
    PROVE  /\ FlattenSeq(SubSeq(s, 1, i + 1)) = FlattenSeq(SubSeq(s, 1, i)) \o s[i + 1]
           /\ SubSeq(s, 1, i) \in Seq(Seq(A)) /\ s[i + 1] \in Seq(A)
  <1>1. Len(s) \in Nat /\ i \in Nat /\ i + 1 \in 1 .. Len(s)
    BY LenProperties
  <1>2. \A j \in 1 .. Len(s) : s[j] \in Seq(A)
    BY ElementOfSeq
  <1>3. /\ SubSeq(s, 1, i) \in Seq(Seq(A)) /\ Len(SubSeq(s, 1, i)) = i
        /\ \A j \in 1 .. i : SubSeq(s, 1, i)[j] = s[j]
    BY <1>1, <1>2, SubSeqProperties
  <1>4. SubSeq(s, 1, i + 1) = SubSeq(s, 1, i) \o <<s[i + 1]>>
    <2>1. 1 \in 1 .. Len(s) /\ i + 1 \in 1 .. Len(s) /\ (i + 1) - 1 = i
      BY <1>1
    <2>2. QED
      BY <2>1, SubSeqRecursiveSecond
  <1>5. SubSeq(s, 1, i + 1) = Append(SubSeq(s, 1, i), s[i + 1])
    BY <1>1, <1>2, <1>3, <1>4, AppendIsConcat
  <1>6. QED
    BY <1>1, <1>2, <1>3, <1>5, FlattenAppend

\* What the beginning flattens to is the beginning of the whole.
LEMMA FlattenBegins ==
    ASSUME NEW A, NEW s \in Seq(Seq(A)), NEW i \in 0 .. Len(s)
    PROVE  \E w \in Seq(A) : FlattenSeq(s) = FlattenSeq(SubSeq(s, 1, i)) \o w
  <1> DEFINE P(k) == FlattenSeq(SubSeq(s, 1, k))
             T == {k \in i .. Len(s) : \E w \in Seq(A) : P(k) = P(i) \o w}
  <1>1. Len(s) \in Nat /\ i \in Nat /\ i <= Len(s) /\ \A j \in 1 .. Len(s) : s[j] \in Seq(A)
    BY LenProperties, ElementOfSeq
  <1>2. \A j \in 0 .. Len(s) : P(j) \in Seq(A)
    <2>1. SUFFICES ASSUME NEW j \in 0 .. Len(s) PROVE P(j) \in Seq(A)
      OBVIOUS
    <2>2. SubSeq(s, 1, j) \in Seq(Seq(A))
      BY <1>1, SubSeqProperties
    <2>3. QED
      BY <2>2, FlattenType
  <1>3. \A k \in 0 .. Len(s) - 1 : P(k + 1) = P(k) \o s[k + 1]
    BY FlattenNext
  <1>4. P(Len(s)) = FlattenSeq(s)
    BY SubSeqFull
  <1> HIDE DEF P
  <1>5. i \in T
    <2>1. P(i) = P(i) \o << >>
      BY <1>1, <1>2, ConcatEmptySeq
    <2>2. << >> \in Seq(A) /\ i \in i .. Len(s)
      BY <1>1
    <2>3. QED
      BY <2>1, <2>2
  <1>6. ASSUME NEW k \in i .. Len(s) - 1, k \in T PROVE k + 1 \in T
    <2>1. k \in 0 .. Len(s) - 1 /\ k + 1 \in i .. Len(s) /\ k + 1 \in 1 .. Len(s)
      BY <1>1
    <2>2. PICK w \in Seq(A) : P(k) = P(i) \o w
      BY <1>6
    <2>3. P(k + 1) = (P(i) \o w) \o s[k + 1]
      BY <1>3, <2>1, <2>2
    <2>4. s[k + 1] \in Seq(A) /\ P(i) \in Seq(A)
      BY <1>1, <1>2, <2>1
    <2>5. (P(i) \o w) \o s[k + 1] = P(i) \o (w \o s[k + 1])
      <3> DEFINE p == P(i)
                 x == s[k + 1]
      <3>1. p \in Seq(A) /\ x \in Seq(A)
        BY <2>4
      <3> HIDE DEF p, x
      <3>2. Associates(p, w, x)
        BY <3>1, AllAssociate
      <3>3. QED
        BY <3>2 DEF p, x, Associates
    <2>6. w \o s[k + 1] \in Seq(A)
      BY <2>4, ConcatProperties
    <2>7. QED
      BY <2>1, <2>3, <2>5, <2>6
  <1> HIDE DEF T
  <1>7. \A k \in i .. Len(s) : k \in T
    BY <1>1, <1>5, <1>6, UpTo
  <1>8. Len(s) \in T
    BY <1>1, <1>7
  <1>9. PICK w \in Seq(A) : P(Len(s)) = P(i) \o w
    BY <1>8 DEF T
  <1>10. QED
    BY <1>4, <1>9 DEF P

\* The first element of what is flattened comes first.
LEMMA FlattenCons ==
    ASSUME NEW A, NEW s \in Seq(Seq(A)), s # << >>
    PROVE  /\ FlattenSeq(s) = s[1] \o FlattenSeq(Tail(s))
           /\ s[1] \in Seq(A) /\ Tail(s) \in Seq(Seq(A))
  <1> DEFINE t == Tail(s)
             P(k) == FlattenSeq(SubSeq(s, 1, k))
             Q(k) == FlattenSeq(SubSeq(t, 1, k))
             T == {k \in 0 .. Len(t) : P(k + 1) = s[1] \o Q(k)}
  <1>1. Len(s) \in Nat /\ Len(s) # 0 /\ \A j \in 1 .. Len(s) : s[j] \in Seq(A)
    BY LenProperties, ElementOfSeq, EmptySeq
  <1>2. /\ t \in Seq(Seq(A)) /\ Len(t) = Len(s) - 1
        /\ \A j \in 1 .. Len(t) : t[j] = s[j + 1]
    BY HeadTailProperties
  <1> HIDE DEF t
  <1>3. \A j \in 0 .. Len(t) : Q(j) \in Seq(A)
    <2>1. SUFFICES ASSUME NEW j \in 0 .. Len(t) PROVE Q(j) \in Seq(A)
      OBVIOUS
    <2>2. \A i \in 1 .. Len(t) : t[i] \in Seq(A)
      BY <1>2, ElementOfSeq
    <2>3. SubSeq(t, 1, j) \in Seq(Seq(A))
      BY <1>1, <1>2, <2>2, SubSeqProperties
    <2>4. QED
      BY <2>3, FlattenType
  <1>4. \A k \in 0 .. Len(s) - 1 : P(k + 1) = P(k) \o s[k + 1]
    BY FlattenNext
  <1>5. \A k \in 0 .. Len(t) - 1 : Q(k + 1) = Q(k) \o t[k + 1]
    BY <1>2, FlattenNext
  <1>6. P(Len(s)) = FlattenSeq(s) /\ Q(Len(t)) = FlattenSeq(t)
    BY <1>2, SubSeqFull
  <1>7. P(0) = << >> /\ Q(0) = << >>
    <2>1. SubSeq(s, 1, 0) = << >> /\ SubSeq(t, 1, 0) = << >>
      BY SubSeqEmpty
    <2>2. QED
      BY <2>1, FlattenEmpty
  <1> HIDE DEF P, Q
  <1>8. s[1] \in Seq(A)
    BY <1>1
  <1>9. 0 \in T
    <2>1. 0 \in 0 .. Len(s) - 1 /\ 0 + 1 = 1 /\ 0 \in 0 .. Len(t)
      BY <1>1, <1>2
    <2>2. P(1) = << >> \o s[1]
      BY <1>4, <1>7, <2>1
    <2>3. s[1] = << >> \o s[1] /\ s[1] = s[1] \o << >>
      BY <1>8, ConcatEmptySeq
    <2>4. P(0 + 1) = s[1] \o Q(0)
      BY <1>7, <2>1, <2>2, <2>3
    <2>5. QED
      BY <2>1, <2>4
  <1>10. ASSUME NEW k \in 0 .. Len(t) - 1, k \in T PROVE k + 1 \in T
    <2>1. /\ k + 1 \in 0 .. Len(s) - 1 /\ k + 1 \in 1 .. Len(t) /\ k + 1 \in 0 .. Len(t)
          /\ k \in 0 .. Len(t)
      BY <1>1, <1>2
    <2>2. P((k + 1) + 1) = P(k + 1) \o s[(k + 1) + 1]
      BY <1>4, <2>1
    <2>3. Q(k + 1) = Q(k) \o t[k + 1]
      BY <1>5
    <2>4. P(k + 1) = s[1] \o Q(k)
      BY <1>10
    <2>5. t[k + 1] = s[(k + 1) + 1] /\ t[k + 1] \in Seq(A)
      BY <1>2, <2>1, ElementOfSeq
    <2>6. Q(k) \in Seq(A)
      BY <1>3, <2>1
    <2>7. (s[1] \o Q(k)) \o t[k + 1] = s[1] \o (Q(k) \o t[k + 1])
      <3> DEFINE f == s[1]
                 q == Q(k)
                 x == t[k + 1]
      <3>1. f \in Seq(A) /\ q \in Seq(A) /\ x \in Seq(A)
        BY <1>8, <2>5, <2>6
      <3> HIDE DEF f, q, x
      <3>2. Associates(f, q, x)
        BY <3>1, AllAssociate
      <3>3. QED
        BY <3>2 DEF f, q, x, Associates
    <2>8. P((k + 1) + 1) = s[1] \o Q(k + 1)
      BY <2>2, <2>3, <2>4, <2>5, <2>7
    <2>9. QED
      BY <2>1, <2>8
  <1> HIDE DEF T
  <1>11. \A k \in 0 .. Len(t) : k \in T
    <2>1. Len(t) \in Nat /\ 0 \in Nat
      BY <1>1, <1>2
    <2>2. QED
      BY <1>9, <1>10, <2>1, UpTo
  <1>12. Len(t) \in T /\ Len(t) + 1 = Len(s)
    <2>1. Len(t) \in 0 .. Len(t)
      BY <1>1, <1>2
    <2>2. QED
      BY <1>1, <1>2, <1>11, <2>1
  <1>13. P(Len(t) + 1) = s[1] \o Q(Len(t))
    BY <1>12 DEF T
  <1>14. QED
    BY <1>2, <1>6, <1>8, <1>12, <1>13 DEF t

-----------------------------------------------------------------------------
(***************************************************************************)
(* Serializer: what is written behind the readable bytes.                  *)
(***************************************************************************)
\* An array cell that was never written holds the byte 0.
LEMMA BytesAreCells == AnyByte(Bytes) = Bytes /\ Blank \in Bytes
  BY MuxAssumption DEF AnyByte, Bytes, Blank

\* A Serializer on a well-formed buffer.
Serializers(cap) ==
    {ser \in [buffer : Buffer(Bytes, cap), bytes_written : Nat] : WellFormed(ser.buffer)}

\* A field is written as a whole or left out.
LEMMA FieldWrittenOrNot ==
    ASSUME NEW cap \in Nat, NEW ser \in Serializers(cap), NEW bytes \in Seq(Bytes), bytes # << >>
    PROVE  /\ serialize_value(ser, bytes) \in Serializers(cap)
           /\ \/ serialize_value(ser, bytes) = ser
              \/ /\ serialize_value(ser, bytes).bytes_written = ser.bytes_written + Len(bytes)
                 /\ serialize_value(ser, bytes).buffer.tail = ser.buffer.tail
                 /\ Contents(serialize_value(ser, bytes).buffer) = Contents(ser.buffer) \o bytes
  <1> DEFINE b == ser.buffer
             n == Len(bytes)
             c == commit(fill(b, b.head, bytes), n)
  <1>1. b \in Buffer(Bytes, cap) /\ WellFormed(b) /\ ser.bytes_written \in Nat
    BY DEF Serializers
  <1>2. n \in Nat \ {0} /\ bytes \in Run(Bytes, n)
    <2>1. n \in Nat \ {0}
      BY EmptySeq
    <2>2. bytes \in [1 .. n -> Bytes]
      BY LenProperties
    <2>3. QED
      BY <2>1, <2>2 DEF Run
  <1>3. get_write_head(b) = Region(IF b.head < cap THEN b.head ELSE NullPtr, cap - b.head)
    BY <1>1, WriteHeadIsSpaceToEnd
  <1>4. b.head \in Nat /\ b.tail \in Nat
    BY <1>1, BufferParts
  <1>5. CASE n <= cap - b.head
    <2>1. b.head < cap /\ b.head # NullPtr
      BY <1>2, <1>4, <1>5 DEF NullPtr
    <2>2. get_write_head(b).ptr = b.head /\ get_write_head(b).len = cap - b.head
      BY <1>3, <2>1 DEF Region
    <2>3. serialize_value(ser, bytes) = [buffer |-> c, bytes_written |-> ser.bytes_written + n]
      BY <1>5, <2>1, <2>2 DEF serialize_value
    <2> DEFINE f == fill(b, b.head, bytes)
    <2>4. f \in Buffer(Bytes, cap) /\ WellFormed(f)
      BY <1>1, <1>2, <1>4, FillKeeps
    <2>5. f.head = b.head /\ f.tail = b.tail
      <3> DEFINE ptr == b.head
      <3>1. ptr \in Int
        BY <1>4
      <3> HIDE DEF ptr, b, n
      <3>2. fill(b, ptr, bytes).head = b.head /\ fill(b, ptr, bytes).tail = b.tail
        BY <1>1, <1>2, <3>1, FillParts
      <3>3. QED
        BY <3>2 DEF ptr
    <2>6. Contents(c) = Contents(b) \o bytes
      BY <1>1, <1>2, <1>5, CommitAppends
    <2> HIDE DEF f
    <2>7. commit(f, n) = Indices(f, f.head + n, f.tail, f.size + n)
          /\ commit(f, n) \in Buffer(Bytes, cap) /\ WellFormed(commit(f, n))
      BY <1>2, <1>5, <2>4, <2>5, CommitParts
    <2>8. commit(f, n).tail = b.tail
      BY <2>5, <2>7 DEF Indices
    <2>9. c = commit(f, n)
      BY DEF f
    <2>10. ser.bytes_written + n \in Nat
      BY <1>1, <1>2
    <2> HIDE DEF c, n, b
    <2>11. QED
      BY <2>3, <2>6, <2>7, <2>8, <2>9, <2>10 DEF Serializers, n, b
  <1>6. CASE ~ (n <= cap - b.head)
    <2>1. ~ (get_write_head(b).len >= n)
      BY <1>2, <1>3, <1>4, <1>6 DEF Region
    <2>2. serialize_value(ser, bytes) = ser
      BY <2>1 DEF serialize_value
    <2>3. QED
      BY <2>2
  <1>7. QED
    BY <1>5, <1>6

\* The function Serialized is defined by.
LEMMA SerializedFunction ==
    ASSUME NEW cap \in Nat, NEW b \in Buffer(Bytes, cap), WellFormed(b),
           NEW fields \in Seq(Seq(Bytes) \ {<< >>})
    PROVE  \E g : /\ Serialized(b, fields) = g[Len(fields)]
                  /\ g[0] = [buffer |-> b, bytes_written |-> 0]
                  /\ \A i \in 1 .. Len(fields) : g[i] = serialize_value(g[i - 1], fields[i])
  <1> DEFINE n == Len(fields)
             S == Serializers(cap)
             x == [buffer |-> b, bytes_written |-> 0]
             G == [p \in Nat \X S |-> serialize_value(p[2], fields[p[1]])]
             Eq(f) == f = [i \in 0 .. n |-> IF i = 0 THEN x ELSE serialize_value(f[i - 1], fields[i])]
             m == 0
  <1>1. n \in Nat /\ \A i \in 1 .. n : fields[i] \in Seq(Bytes) /\ fields[i] # << >>
    <2>1. \A i \in 1 .. n : fields[i] \in Seq(Bytes) \ {<< >>}
      BY ElementOfSeq
    <2>2. QED
      BY <2>1, LenProperties
  <1>2. x \in S
    BY DEF Serializers
  <1>3. \A i \in m + 1 .. n : \A v \in S : G[<<i, v>>] = serialize_value(v, fields[i])
    BY <1>1
  <1>4. \A i \in m + 1 .. n : \A v \in S : serialize_value(v, fields[i]) \in S
    <2>1. SUFFICES ASSUME NEW i \in m + 1 .. n, NEW v \in S PROVE serialize_value(v, fields[i]) \in S
      OBVIOUS
    <2> DEFINE bytes == fields[i]
    <2>2. bytes \in Seq(Bytes) /\ bytes # << >>
      BY <1>1
    <2> HIDE DEF bytes
    <2>3. serialize_value(v, bytes) \in S
      BY <2>2, FieldWrittenOrNot
    <2>4. QED
      BY <2>3 DEF bytes
  <1> HIDE DEF G, S, x, n
  <1>5. \A i \in m + 1 .. n : \A v \in S : G[<<i, v>>] \in S
    BY <1>3, <1>4
  <1>6. m \in Nat
    OBVIOUS
  <1> HIDE DEF m
  <1>7. PICK f \in [m .. n -> S] : ByRecursion(f, m, n, x, G)
    BY <1>1, <1>2, <1>5, <1>6, RecursionExists
  <1>8. Eq(f)
    <2>1. f \in [0 .. n -> S] /\ \A i \in 0 .. n : f[i] = IF i = 0 THEN x ELSE G[<<i, f[i - 1]>>]
      BY <1>7 DEF ByRecursion, m
    <2>2. \A i \in 0 .. n : i # 0 => i \in 0 + 1 .. n /\ i - 1 \in 0 .. n
      BY <1>1
    <2>3. \A i \in 0 .. n : i # 0 => G[<<i, f[i - 1]>>] = serialize_value(f[i - 1], fields[i])
      BY <1>3, <2>1, <2>2 DEF m
    <2>4. \A i \in 0 .. n : f[i] = IF i = 0 THEN x ELSE serialize_value(f[i - 1], fields[i])
      BY <2>1, <2>3
    <2>5. QED
      BY <2>1, <2>4
  <1> DEFINE g == CHOOSE h : Eq(h)
  <1>9. Eq(g)
    BY <1>8
  <1>10. Serialized(b, fields) = g[n]
    BY DEF Serialized, n, x
  <1> HIDE DEF g
  <1>11. g[0] = x /\ \A i \in 1 .. n : g[i] = serialize_value(g[i - 1], fields[i])
    BY <1>1, <1>9
  <1>12. QED
    BY <1>10, <1>11 DEF n, x

\* What a new Serializer on b has written after all its fields: what is new in the buffer
\* are the bytes it counts, and if it counts all of them, they are the fields in order.
Written(ser, b, payload) ==
    /\ ser.buffer.tail = b.tail
    /\ ser.bytes_written <= Len(payload)
    /\ \E w \in Seq(Bytes) : /\ Contents(ser.buffer) = Contents(b) \o w
                             /\ Len(w) = ser.bytes_written
                             /\ ser.bytes_written = Len(payload) => w = payload

\* What holds after the fields before the i-th holds after the i-th: it is written behind
\* them, or left out and never counted, so that the count falls short for good.
LEMMA WrittenNext ==
    ASSUME NEW cap \in Nat, NEW ser \in Serializers(cap), NEW b \in Buffer(Bytes, cap),
           WellFormed(b), NEW payload \in Seq(Bytes), Written(ser, b, payload),
           NEW bytes \in Seq(Bytes), bytes # << >>
    PROVE  /\ Written(serialize_value(ser, bytes), b, payload \o bytes)
           /\ serialize_value(ser, bytes) \in Serializers(cap)
  <1> DEFINE new == serialize_value(ser, bytes)
             more == payload \o bytes
             k == Contents(b)
  <1>1. PICK w \in Seq(Bytes) : /\ Contents(ser.buffer) = k \o w
                                /\ Len(w) = ser.bytes_written
                                /\ ser.bytes_written = Len(payload) => w = payload
    BY DEF Written
  <1>2. /\ ser.bytes_written \in Nat /\ ser.bytes_written <= Len(payload)
        /\ ser.buffer.tail = b.tail
    BY DEF Serializers, Written
  <1>3. Len(payload) \in Nat /\ Len(bytes) \in Nat \ {0}
    BY EmptySeq, LenProperties
  <1>4. more \in Seq(Bytes) /\ Len(more) = Len(payload) + Len(bytes)
    BY ConcatProperties
  <1>5. k \in Seq(Bytes)
    BY ContentsParts, BytesAreCells
  <1>6. /\ new \in Serializers(cap)
        /\ \/ new = ser
           \/ /\ new.bytes_written = ser.bytes_written + Len(bytes)
              /\ new.buffer.tail = ser.buffer.tail
              /\ Contents(new.buffer) = Contents(ser.buffer) \o bytes
    BY FieldWrittenOrNot
  <1> HIDE DEF new, more, k
  <1>7. CASE new = ser
    <2>1. new.bytes_written <= Len(more) /\ new.bytes_written # Len(more)
      BY <1>2, <1>3, <1>4, <1>7
    <2>2. QED
      BY <1>1, <1>2, <1>6, <1>7, <2>1 DEF Written, new, more, k
  <1>8. CASE new # ser
    <2>1. /\ new.bytes_written = ser.bytes_written + Len(bytes)
          /\ new.buffer.tail = b.tail
          /\ Contents(new.buffer) = (k \o w) \o bytes
      BY <1>1, <1>2, <1>6, <1>8
    <2>2. (k \o w) \o bytes = k \o (w \o bytes)
      <3>1. Associates(k, w, bytes)
        BY <1>5, AllAssociate
      <3>2. QED
        BY <3>1 DEF Associates
    <2>3. w \o bytes \in Seq(Bytes) /\ Len(w \o bytes) = Len(w) + Len(bytes)
      BY ConcatProperties
    <2>4. new.bytes_written <= Len(more) /\ Len(w \o bytes) = new.bytes_written
      BY <1>1, <1>2, <1>3, <1>4, <2>1, <2>3
    <2>5. new.bytes_written = Len(more) => w \o bytes = more
      <3>1. new.bytes_written = Len(more) => ser.bytes_written = Len(payload)
        BY <1>2, <1>3, <1>4, <2>1
      <3>2. QED
        BY <1>1, <3>1 DEF more
    <2>6. QED
      BY <1>6, <2>1, <2>2, <2>3, <2>4, <2>5 DEF Written, new, more, k
  <1>9. QED
    BY <1>7, <1>8

\* What a new Serializer makes of all fields of a record (Serializer::operator&).
LEMMA SerializedWrites ==
    ASSUME NEW cap \in Nat, NEW b \in Buffer(Bytes, cap), WellFormed(b),
           NEW fields \in Seq(Seq(Bytes) \ {<< >>})
    PROVE  /\ Serialized(b, fields) \in Serializers(cap)
           /\ Written(Serialized(b, fields), b, FlattenSeq(fields))
  <1>1. PICK g : /\ Serialized(b, fields) = g[Len(fields)]
                 /\ g[0] = [buffer |-> b, bytes_written |-> 0]
                 /\ \A i \in 1 .. Len(fields) : g[i] = serialize_value(g[i - 1], fields[i])
    BY SerializedFunction
  <1> DEFINE P(i) == FlattenSeq(SubSeq(fields, 1, i))
             n == Len(fields)
             T == {i \in 0 .. n : g[i] \in Serializers(cap) /\ Written(g[i], b, P(i))}
  <1>2. /\ n \in Nat /\ fields \in Seq(Seq(Bytes))
        /\ \A i \in 1 .. n : fields[i] \in Seq(Bytes) /\ fields[i] # << >>
    <2>1. \A i \in 1 .. n : fields[i] \in Seq(Bytes) \ {<< >>}
      BY ElementOfSeq
    <2>2. fields \in Seq(Seq(Bytes))
      BY SeqMonotonic
    <2>3. QED
      BY <2>1, <2>2, LenProperties
  <1>3. /\ \A i \in 0 .. n - 1 : P(i + 1) = P(i) \o fields[i + 1]
        /\ \A i \in 0 .. n - 1 : P(i) \in Seq(Bytes)
    <2>1. SUFFICES ASSUME NEW i \in 0 .. n - 1
                   PROVE  P(i + 1) = P(i) \o fields[i + 1] /\ P(i) \in Seq(Bytes)
      OBVIOUS
    <2>2. P(i + 1) = P(i) \o fields[i + 1] /\ SubSeq(fields, 1, i) \in Seq(Seq(Bytes))
      BY <1>2, FlattenNext
    <2>3. QED
      BY <2>2, FlattenType
  <1>4. P(0) = << >> /\ P(n) = FlattenSeq(fields)
    <2>1. SubSeq(fields, 1, 0) = << >> /\ SubSeq(fields, 1, Len(fields)) = fields
      BY <1>2, SubSeqEmpty, SubSeqFull
    <2>2. QED
      BY <2>1, FlattenEmpty
  <1> HIDE DEF P
  <1>5. 0 \in T
    <2>1. g[0] \in Serializers(cap) /\ g[0].buffer = b /\ g[0].bytes_written = 0
      BY <1>1 DEF Serializers
    <2>2. Contents(b) = Contents(b) \o << >>
      BY ContentsParts, BytesAreCells, ConcatEmptySeq
    <2>3. << >> \in Seq(Bytes) /\ Len(<< >>) = 0
      OBVIOUS
    <2>4. Written(g[0], b, << >>)
      <3> DEFINE ser == g[0]
                 none == << >>
      <3>1. ser.buffer = b /\ ser.bytes_written = 0 /\ Contents(b) = Contents(b) \o none
            /\ none \in Seq(Bytes) /\ Len(none) = 0
        BY <2>1, <2>2, <2>3
      <3> HIDE DEF ser, none
      <3>2. Written(ser, b, none)
        <4>1. ser.bytes_written <= Len(none) /\ ser.buffer.tail = b.tail
          BY <3>1
        <4>2. /\ none \in Seq(Bytes) /\ Contents(ser.buffer) = Contents(b) \o none
              /\ Len(none) = ser.bytes_written
          BY <3>1
        <4>3. \E w \in Seq(Bytes) : /\ Contents(ser.buffer) = Contents(b) \o w
                                    /\ Len(w) = ser.bytes_written
                                    /\ ser.bytes_written = Len(none) => w = none
          BY <4>2, Zenon
        <4>4. QED
          BY <4>1, <4>3, Zenon DEF Written
      <3>3. QED
        BY <3>2 DEF ser, none
    <2>5. 0 \in 0 .. n
      BY <1>2
    <2>6. QED
      BY <1>4, <2>1, <2>4, <2>5
  <1>6. ASSUME NEW i \in 0 .. n - 1, i \in T PROVE i + 1 \in T
    <2> DEFINE ser == g[i]
               payload == P(i)
               bytes == fields[i + 1]
    <2>1. /\ ser \in Serializers(cap) /\ Written(ser, b, payload)
          /\ payload \in Seq(Bytes) /\ P(i + 1) = payload \o bytes
      BY <1>3, <1>6
    <2>2. i + 1 \in 1 .. n /\ i + 1 \in 0 .. n /\ (i + 1) - 1 = i
      BY <1>2
    <2>3. bytes \in Seq(Bytes) /\ bytes # << >> /\ g[i + 1] = serialize_value(ser, bytes)
      BY <1>1, <1>2, <2>2
    <2> HIDE DEF ser, payload, bytes
    <2>4. /\ Written(serialize_value(ser, bytes), b, payload \o bytes)
          /\ serialize_value(ser, bytes) \in Serializers(cap)
      BY <2>1, <2>3, WrittenNext
    <2>5. QED
      BY <2>1, <2>2, <2>3, <2>4
  <1> HIDE DEF T, n
  <1>7. \A i \in 0 .. n : i \in T
    BY <1>2, <1>5, <1>6, UpTo
  <1>8. n \in T
    BY <1>2, <1>7
  <1>9. QED
    BY <1>1, <1>4, <1>8 DEF T, n

-----------------------------------------------------------------------------
(***************************************************************************)
(* The header of a frame, and the bytes that are written twice.            *)
(***************************************************************************)
\* Both size bytes are bytes, and say the size, if it is not too large.
LEMMA SizeOfTwoBytes ==
    ASSUME NEW n \in 0 .. max_payload_size
    PROVE  /\ n % ByteSize \in Bytes /\ n \div ByteSize \in Bytes
           /\ (n \div ByteSize) % ByteSize = n \div ByteSize
           /\ (n % ByteSize) + (n \div ByteSize) * ByteSize = n
  <1> DEFINE q == n \div ByteSize
             r == n % ByteSize
             B == ByteSize
  <1>1. B \in Nat /\ B > 1 /\ n \in Nat /\ n <= B * B - 1
    BY MuxAssumption DEF max_payload_size
  <1>2. q \in Int /\ r \in 0 .. B - 1 /\ n = B * q + r
    BY <1>1
  <1> HIDE DEF q, r, B
  <1>3. q >= 0
    <2>1. SUFFICES ASSUME q <= -1 PROVE FALSE
      BY <1>2
    <2>2. B * q <= -B
      BY <1>1, <1>2, <2>1
    <2>3. QED
      BY <1>1, <1>2, <2>2
  <1>4. q < B
    <2>1. SUFFICES ASSUME q >= B PROVE FALSE
      BY <1>1, <1>2
    <2>2. B * q >= B * B
      BY <1>1, <1>2, <2>1
    <2>3. QED
      BY <1>1, <1>2, <2>2
  <1>5. q % B = q
    BY <1>1, <1>2, <1>3, <1>4
  <1>6. B * q = q * B
    BY <1>1, <1>2
  <1>7. QED
    BY <1>1, <1>2, <1>3, <1>4, <1>5, <1>6 DEF q, r, B, Bytes

\* l is k, with z in place of what follows its first n elements.
Overwritten(l, k, n, z) ==
    /\ Len(l) = Len(k)
    /\ \A i \in 1 .. Len(k) : l[i] = IF i > n /\ i <= n + Len(z) THEN z[i - n] ELSE k[i]

\* Readable bytes are overwritten.
LEMMA OverwriteCells ==
    ASSUME NEW cap \in Nat, NEW c \in Buffer(Bytes, cap), WellFormed(c),
           NEW n \in Nat, NEW z \in Seq(Bytes), n + Len(z) <= c.size
    PROVE  /\ fill(c, c.tail + n, z) \in Buffer(Bytes, cap)
           /\ WellFormed(fill(c, c.tail + n, z))
           /\ Contents(fill(c, c.tail + n, z)) \in Seq(Bytes)
           /\ Overwritten(Contents(fill(c, c.tail + n, z)), Contents(c), n, z)
  <1> DEFINE m == Len(z)
             ptr == c.tail + n
             f == fill(c, ptr, z)
             t == c.tail
             size == c.size
  <1>1. t \in Nat /\ size \in Nat /\ c.head \in Nat /\ c.head = t + size /\ c.head <= cap
    BY BufferParts DEF WellFormed
  <1>2. ptr \in Int /\ ptr = t + n
    BY <1>1
  <1>10. m \in Nat /\ z \in Run(Bytes, m)
    BY LenProperties DEF Run
  <1> HIDE DEF ptr, m
  <1>3. f \in Buffer(Bytes, cap) /\ f.head = c.head /\ f.tail = t /\ f.size = size
    BY <1>2, <1>10, FillParts
  <1>4. \A i \in 0 .. cap - 1 : f.mem[i] = CellAfter(c, ptr, m, z, i)
    <2>1. Filled(cap, c, ptr, m, z, f)
      BY <1>2, <1>10, FillCells
    <2>2. QED
      BY <2>1 DEF Filled
  <1>5. WellFormed(f)
    BY <1>2, <1>10, FillKeeps
  <1> HIDE DEF f
  <1>6. \A i \in 1 .. size : Contents(c)[i] = c.mem[t + i - 1]
    BY ContentsParts
  <1>7. /\ Contents(f) \in Seq(Bytes) /\ Len(Contents(f)) = size
        /\ \A i \in 1 .. size : Contents(f)[i] = f.mem[t + i - 1]
    BY <1>3, <1>5, ContentsParts, BytesAreCells
  <1> HIDE DEF t, size
  <1>8. ASSUME NEW i \in 1 .. size
        PROVE  Contents(f)[i] = IF i > n /\ i <= n + m THEN z[i - n] ELSE Contents(c)[i]
    <2>1. i \in Int /\ 1 <= i /\ i <= size /\ t + i - 1 \in 0 .. cap - 1
      BY <1>1
    <2>2. Contents(f)[i] = CellAfter(c, ptr, m, z, t + i - 1)
      BY <1>4, <1>7, <2>1
    <2>3. Contents(c)[i] = c.mem[t + i - 1]
      BY <1>6
    <2>4. CASE i > n /\ i <= n + m
      <3>1. t + i - 1 \in ptr .. ptr + m - 1 /\ (t + i - 1) - ptr + 1 = i - n
        BY <1>1, <1>2, <1>10, <2>1, <2>4
      <3>2. QED
        BY <2>2, <2>4, <3>1 DEF CellAfter
    <2>5. CASE ~ (i > n /\ i <= n + m)
      <3>1. t + i - 1 \notin ptr .. ptr + m - 1
        BY <1>1, <1>2, <1>10, <2>1, <2>5
      <3>2. QED
        BY <2>2, <2>3, <2>5, <3>1 DEF CellAfter
    <2>6. QED
      BY <2>4, <2>5
  <1>11. Len(Contents(c)) = size
    BY ContentsParts DEF size
  <1>12. Overwritten(Contents(f), Contents(c), n, z)
    BY <1>7, <1>8, <1>11 DEF Overwritten, m
  <1>9. QED
    BY <1>3, <1>5, <1>7, <1>12 DEF f, ptr, t

\* The middle of a sequence is replaced.
LEMMA ReplaceMiddle ==
    ASSUME NEW A, NEW a \in Seq(A), NEW x \in Seq(A), NEW d \in Seq(A), NEW z \in Seq(A),
           Len(z) = Len(x), NEW l \in Seq(A), Overwritten(l, (a \o x) \o d, Len(a), z)
    PROVE  l = (a \o z) \o d
  <1> DEFINE ax == a \o x
             az == a \o z
             k == ax \o d
             r == az \o d
  <1>1. Len(a) \in Nat /\ Len(z) \in Nat /\ Len(d) \in Nat
    BY LenProperties
  <1>2. /\ ax \in Seq(A) /\ Len(ax) = Len(a) + Len(z)
        /\ \A i \in 1 .. Len(a) + Len(z) : ax[i] = IF i <= Len(a) THEN a[i] ELSE x[i - Len(a)]
    <2>1. /\ ax \in Seq(A) /\ Len(ax) = Len(a) + Len(x)
          /\ \A i \in 1 .. Len(a) + Len(x) : ax[i] = IF i <= Len(a) THEN a[i] ELSE x[i - Len(a)]
      BY ConcatProperties
    <2> HIDE DEF ax
    <2>2. QED
      BY <2>1
  <1>3. /\ az \in Seq(A) /\ Len(az) = Len(a) + Len(z)
        /\ \A i \in 1 .. Len(a) + Len(z) : az[i] = IF i <= Len(a) THEN a[i] ELSE z[i - Len(a)]
    BY ConcatProperties
  <1> HIDE DEF ax, az
  <1>4. /\ k \in Seq(A) /\ Len(k) = Len(ax) + Len(d)
        /\ \A i \in 1 .. Len(ax) + Len(d) : k[i] = IF i <= Len(ax) THEN ax[i] ELSE d[i - Len(ax)]
    <2>1. ax \in Seq(A)
      BY <1>2
    <2>2. QED
      BY <2>1, ConcatProperties
  <1>5. /\ r \in Seq(A) /\ Len(r) = Len(az) + Len(d)
        /\ \A i \in 1 .. Len(az) + Len(d) : r[i] = IF i <= Len(az) THEN az[i] ELSE d[i - Len(az)]
    <2>1. az \in Seq(A)
      BY <1>3
    <2>2. QED
      BY <2>1, ConcatProperties
  <1>6. /\ Len(l) = Len(k)
        /\ \A i \in 1 .. Len(l) : l[i] = IF i > Len(a) /\ i <= Len(a) + Len(z) THEN z[i - Len(a)]
                                         ELSE k[i]
    BY DEF ax, Overwritten
  <1> HIDE DEF k, r
  <1>7. ASSUME NEW i \in 1 .. Len(l) PROVE l[i] = r[i]
    <2>1. i \in Int /\ 1 <= i /\ i <= Len(a) + Len(z) + Len(d)
      BY <1>1, <1>2, <1>4, <1>6
    <2>2. CASE i <= Len(a)
      <3>1. l[i] = k[i] /\ k[i] = ax[i] /\ ax[i] = a[i]
        BY <1>1, <1>2, <1>4, <1>6, <2>1, <2>2
      <3>2. r[i] = az[i] /\ az[i] = a[i]
        BY <1>1, <1>3, <1>5, <2>1, <2>2
      <3>3. QED
        BY <3>1, <3>2
    <2>3. CASE i > Len(a) /\ i <= Len(a) + Len(z)
      <3>1. l[i] = z[i - Len(a)]
        BY <1>6, <2>3
      <3>2. r[i] = az[i] /\ az[i] = z[i - Len(a)]
        BY <1>1, <1>3, <1>5, <2>1, <2>3
      <3>3. QED
        BY <3>1, <3>2
    <2>4. CASE i > Len(a) + Len(z)
      <3>1. l[i] = k[i] /\ k[i] = d[i - (Len(a) + Len(z))]
        BY <1>1, <1>2, <1>4, <1>6, <2>1, <2>4
      <3>2. r[i] = d[i - (Len(a) + Len(z))]
        BY <1>1, <1>3, <1>5, <2>1, <2>4
      <3>3. QED
        BY <3>1, <3>2
    <2>5. QED
      BY <1>1, <2>1, <2>2, <2>3, <2>4
  <1>8. Len(l) = Len(r)
    BY <1>2, <1>3, <1>4, <1>5, <1>6
  <1>9. l = r
    BY <1>5, <1>7, <1>8, SeqEqual
  <1>10. QED
    BY <1>9 DEF r, az

\* A sequence in three parts, and a buffer with such contents.
Parts(l, a, x, d) == l = (a \o x) \o d
Holds(c, cap, a, x, d) ==
    c \in Buffer(Bytes, cap) /\ WellFormed(c) /\ Parts(Contents(c), a, x, d)

\* Bytes written over the part x of the contents replace that part and nothing else.
LEMMA OverwriteContents ==
    ASSUME NEW cap \in Nat, NEW c,
           NEW a \in Seq(Bytes), NEW x \in Seq(Bytes), NEW d \in Seq(Bytes),
           Holds(c, cap, a, x, d), NEW z \in Seq(Bytes), Len(z) = Len(x)
    PROVE  Holds(fill(c, c.tail + Len(a), z), cap, a, z, d)
  <1> DEFINE k == (a \o x) \o d
             n == Len(a)
             m == Len(z)
             f == fill(c, c.tail + n, z)
  <1>1. n \in Nat /\ m \in Nat /\ Len(d) \in Nat /\ z \in Run(Bytes, m)
    BY LenProperties DEF Run
  <1>2. Len(k) = n + m + Len(d)
    BY <1>1, ConcatProperties
  <1>0. c \in Buffer(Bytes, cap) /\ WellFormed(c) /\ Contents(c) = k
    BY DEF Holds, Parts
  <1>3. Contents(c) = k /\ Len(k) = c.size
    BY <1>0, ContentsParts
  <1> HIDE DEF k, n, m
  <1>4. n + m <= c.size
    BY <1>1, <1>2, <1>3
  <1>5. /\ f \in Buffer(Bytes, cap) /\ WellFormed(f)
        /\ Contents(f) \in Seq(Bytes) /\ Overwritten(Contents(f), Contents(c), n, z)
    BY <1>0, <1>1, <1>4, OverwriteCells DEF m
  <1> HIDE DEF f
  <1> DEFINE l == Contents(f)
  <1>6. l \in Seq(Bytes) /\ Overwritten(l, (a \o x) \o d, Len(a), z)
    BY <1>3, <1>5 DEF k, n, m
  <1> HIDE DEF l
  <1>7. l = (a \o z) \o d
    BY <1>6, ReplaceMiddle
  <1>8. QED
    BY <1>5, <1>7 DEF l, f, n, Holds, Parts

-----------------------------------------------------------------------------
(***************************************************************************)
(* The invariant: the bytes on the way are the frames of the records that  *)
(* are accepted and not yet delivered.                                     *)
(***************************************************************************)
\* The records a user can hand over or be given.
AnyRecord == [type : 0 .. Len(FieldSizes) - 1, fields : Seq(Seq(Bytes))]

\* The fields of a record are as many and as wide as its type says.
Shaped(fields, widths) ==
    /\ fields \in Seq(Seq(Bytes) \ {<< >>})
    /\ Len(fields) = Len(widths)
    /\ \A i \in 1 .. Len(widths) : Len(fields[i]) = widths[i]

\* A record whose size the header can say.
Framed(r) ==
    /\ Shaped(r.fields, FieldSizes[r.type + 1])
    /\ Len(FlattenSeq(r.fields)) <= max_payload_size

\* The frames of the records behind the first n.
Pending(records, n) == [i \in 1 .. Len(records) - n |-> Frame(records[n + i])]

\* The types of the variables; both buffers are well formed.
TypeInv ==
    /\ out \in Buffer(Bytes, OutCapacity) /\ WellFormed(out)
    /\ in \in Buffer(Bytes, InCapacity) /\ WellFormed(in)
    /\ calls \in 0 .. MaxRecords
    /\ accepted \in Seq(AnyRecord) /\ Len(accepted) <= calls
    /\ delivered \in Seq(AnyRecord)
    /\ slips \subseteq Slips

\* The bytes i before the bytes o are the frames of the records which are accepted and
\* not yet delivered.
Delivers(i, o, acc, del) ==
    /\ Len(del) <= Len(acc)
    /\ del = SubSeq(acc, 1, Len(del))
    /\ \A n \in 1 .. Len(acc) : Framed(acc[n])
    /\ i \o o = FlattenSeq(Pending(acc, Len(del)))

\* The inductive form of InStep.
StepInv == slips = {} => Delivers(Contents(in), Contents(out), accepted, delivered)

\* Something that went wrong goes back to a serialize that did.
CauseInv == slips # {} => slips \cap {"truncated", "too_large", "header_taken"} # {}

\* The inductive invariant.
Inv == TypeInv /\ StepInv /\ CauseInv

-----------------------------------------------------------------------------
\* The sizes of the fields of a type, and a type that is a byte.
LEMMA WidthsType ==
    ASSUME NEW type \in 0 .. Len(FieldSizes) - 1
    PROVE  /\ FieldSizes[type + 1] \in Seq(Nat \ {0})
           /\ type \in Bytes /\ type \in Nat
  <1>1. Len(FieldSizes) \in Nat /\ Len(FieldSizes) <= ByteSize - 1 /\ ByteSize \in Nat
    BY MuxAssumption, LenProperties DEF max_types
  <1>2. type + 1 \in 1 .. Len(FieldSizes)
    BY <1>1
  <1>3. FieldSizes[type + 1] \in Seq(Nat \ {0})
    BY <1>2, MuxAssumption, ElementOfSeq
  <1>4. type \in Nat /\ type \in Bytes
    BY <1>1 DEF Bytes
  <1>5. QED
    BY <1>3, <1>4

\* The fields of a record are sequences of bytes.
LEMMA ShapedType ==
    ASSUME NEW widths, NEW fields, Shaped(fields, widths)
    PROVE  fields \in Seq(Seq(Bytes)) /\ FlattenSeq(fields) \in Seq(Bytes)
           /\ Len(FlattenSeq(fields)) \in Nat
  <1>1. fields \in Seq(Seq(Bytes))
    BY SeqMonotonic DEF Shaped
  <1>2. QED
    BY <1>1, FlattenType

\* The values the model serializes are as wide as their type says.
LEMMA FieldsOfShaped ==
    ASSUME NEW type \in 0 .. Len(FieldSizes) - 1, NEW n \in Nat
    PROVE  /\ Shaped(FieldsOf(type, n), FieldSizes[type + 1])
           /\ FieldsOf(type, n) \in Seq(Seq(Bytes) \ {<< >>})
  <1> DEFINE widths == FieldSizes[type + 1]
             F(i) == [j \in 1 .. widths[i] |-> (n + i + j) % ByteSize]
  <1>1. widths \in Seq(Nat \ {0})
    BY WidthsType
  <1>2. /\ DOMAIN widths = 1 .. Len(widths) /\ Len(widths) \in Nat
        /\ \A i \in 1 .. Len(widths) : widths[i] \in Nat \ {0}
    BY <1>1, LenProperties, ElementOfSeq
  <1>3. FieldsOf(type, n) = [i \in 1 .. Len(widths) |-> F(i)]
    BY <1>2 DEF FieldsOf
  <1>4. ASSUME NEW i \in 1 .. Len(widths)
        PROVE  F(i) \in Seq(Bytes) \ {<< >>} /\ Len(F(i)) = widths[i]
    <2> DEFINE k == widths[i]
    <2>1. k \in Nat \ {0} /\ i \in Nat
      BY <1>2
    <2> HIDE DEF k
    <2>2. \A j \in 1 .. k : (n + i + j) % ByteSize \in Bytes
      BY <2>1, MuxAssumption DEF Bytes
    <2> DEFINE s == [j \in 1 .. k |-> (n + i + j) % ByteSize]
    <2>3. s \in [1 .. k -> Bytes]
      BY <2>2
    <2> HIDE DEF s
    <2>4. s \in Seq(Bytes) /\ Len(s) = k
      BY <2>1, <2>3
    <2>5. s # << >>
      BY <2>1, <2>4
    <2>6. QED
      BY <2>4, <2>5 DEF s, k
  <1> HIDE DEF F, widths
  <1> DEFINE f == [i \in 1 .. Len(widths) |-> F(i)]
  <1>5. f \in [1 .. Len(widths) -> Seq(Bytes) \ {<< >>}]
    BY <1>4
  <1>6. f \in Seq(Seq(Bytes) \ {<< >>}) /\ Len(f) = Len(widths)
    BY <1>2, <1>5
  <1>7. \A i \in 1 .. Len(widths) : Len(f[i]) = widths[i]
    BY <1>4
  <1> HIDE DEF f
  <1>8. Shaped(f, widths)
    BY <1>6, <1>7 DEF Shaped
  <1>9. QED
    BY <1>3, <1>6, <1>8 DEF f, widths

\* A frame is the header and the payload.
LEMMA FrameParts ==
    ASSUME NEW r \in AnyRecord, Framed(r)
    PROVE  LET n == Len(FlattenSeq(r.fields))
               header == <<r.type, n % ByteSize, n \div ByteSize>>
           IN  /\ header \in Seq(Bytes) /\ Len(header) = header_size
               /\ (n % ByteSize) + (n \div ByteSize) * ByteSize = n
               /\ FlattenSeq(r.fields) \in Seq(Bytes)
               /\ Frame(r) = header \o FlattenSeq(r.fields)
               /\ Frame(r) \in Seq(Bytes)
  <1> DEFINE p == FlattenSeq(r.fields)
             n == Len(p)
             header == <<r.type, n % ByteSize, n \div ByteSize>>
  <1>1. p \in Seq(Bytes) /\ n \in Nat /\ n <= max_payload_size
    BY ShapedType DEF Framed
  <1>2. Frame(r) = header \o p
    BY DEF Frame
  <1> HIDE DEF p
  <1>3. n \in 0 .. max_payload_size
    BY <1>1, MuxAssumption DEF max_payload_size
  <1> HIDE DEF n
  <1>4. n % ByteSize \in Bytes /\ n \div ByteSize \in Bytes
        /\ (n % ByteSize) + (n \div ByteSize) * ByteSize = n
    BY <1>3, SizeOfTwoBytes
  <1>5. r.type \in Bytes
    BY WidthsType DEF AnyRecord
  <1>6. header \in Seq(Bytes) /\ Len(header) = header_size
    BY <1>4, <1>5 DEF header_size
  <1> HIDE DEF header
  <1>7. header \o p \in Seq(Bytes)
    BY <1>1, <1>6, ConcatProperties
  <1>8. QED
    BY <1>1, <1>2, <1>4, <1>6, <1>7 DEF p, n, header

\* The frames of the records behind the first n are sequences of bytes.
LEMMA PendingType ==
    ASSUME NEW records \in Seq(AnyRecord), NEW n \in Nat, n <= Len(records),
           \A i \in 1 .. Len(records) : Framed(records[i])
    PROVE  Pending(records, n) \in Seq(Seq(Bytes)) /\ Len(Pending(records, n)) = Len(records) - n
  <1>1. Len(records) \in Nat /\ \A i \in 1 .. Len(records) : records[i] \in AnyRecord
    BY LenProperties, ElementOfSeq
  <1> DEFINE k == Len(records) - n
  <1>2. k \in Nat
    BY <1>1
  <1>3. ASSUME NEW i \in 1 .. k PROVE Frame(records[n + i]) \in Seq(Bytes)
    <2>1. n + i \in 1 .. Len(records)
      BY <1>1
    <2>2. records[n + i] \in AnyRecord /\ Framed(records[n + i])
      BY <1>1, <2>1
    <2>3. QED
      BY <2>2, FrameParts
  <1>4. Pending(records, n) = [i \in 1 .. k |-> Frame(records[n + i])]
    BY DEF Pending
  <1> DEFINE f == [i \in 1 .. k |-> Frame(records[n + i])]
  <1>5. f \in [1 .. k -> Seq(Bytes)]
    BY <1>3
  <1> HIDE DEF k, f
  <1>6. f \in Seq(Seq(Bytes)) /\ Len(f) = k
    BY <1>2, <1>5
  <1>7. QED
    BY <1>4, <1>6 DEF k, f

\* An accepted record adds its frame behind the others, a delivered one takes the first
\* frame away.
LEMMA PendingAppend ==
    ASSUME NEW records \in Seq(AnyRecord), NEW n \in Nat, n <= Len(records), NEW r \in AnyRecord,
           \A i \in 1 .. Len(records) : Framed(records[i]), Framed(r)
    PROVE  Pending(Append(records, r), n) = Append(Pending(records, n), Frame(r))
  <1> DEFINE more == Append(records, r)
             p == Pending(records, n)
             q == Pending(more, n)
             l == Append(p, Frame(r))
  <1>1. /\ more \in Seq(AnyRecord) /\ Len(more) = Len(records) + 1 /\ Len(records) \in Nat
        /\ \A i \in 1 .. Len(records) : more[i] = records[i]
        /\ more[Len(records) + 1] = r
    BY AppendProperties, LenProperties
  <1> HIDE DEF more
  <1>2. \A i \in 1 .. Len(more) : Framed(more[i])
    <2>1. \A i \in 1 .. Len(more) : i \in 1 .. Len(records) \/ i = Len(records) + 1
      BY <1>1
    <2>2. QED
      BY <1>1, <2>1
  <1>3. p \in Seq(Seq(Bytes)) /\ Len(p) = Len(records) - n
    BY PendingType
  <1>4. q \in Seq(Seq(Bytes)) /\ Len(q) = Len(records) + 1 - n
    <2>1. n <= Len(more)
      BY <1>1
    <2>2. q \in Seq(Seq(Bytes)) /\ Len(q) = Len(more) - n
      BY <1>1, <1>2, <2>1, PendingType
    <2>3. QED
      BY <1>1, <2>2
  <1>5. Frame(r) \in Seq(Bytes)
    BY FrameParts
  <1>6. /\ l \in Seq(Seq(Bytes)) /\ Len(l) = Len(p) + 1
        /\ \A i \in 1 .. Len(p) : l[i] = p[i]
        /\ l[Len(p) + 1] = Frame(r)
    BY <1>3, <1>5, AppendProperties
  <1>7. \A i \in 1 .. Len(records) - n : p[i] = Frame(records[n + i])
    BY DEF Pending
  <1>8. \A i \in 1 .. Len(more) - n : q[i] = Frame(more[n + i])
    BY DEF Pending
  <1> HIDE DEF p, q, l
  <1>9. ASSUME NEW i \in 1 .. Len(q) PROVE q[i] = l[i]
    <2>1. i \in 1 .. Len(more) - n /\ q[i] = Frame(more[n + i])
      BY <1>1, <1>4, <1>8
    <2>2. CASE i <= Len(records) - n
      <3>1. i \in 1 .. Len(records) - n /\ n + i \in 1 .. Len(records) /\ i \in 1 .. Len(p)
        BY <1>1, <1>3, <2>1, <2>2
      <3>2. QED
        BY <1>1, <1>6, <1>7, <2>1, <3>1
    <2>3. CASE ~ (i <= Len(records) - n)
      <3>1. n + i = Len(records) + 1 /\ i = Len(p) + 1
        BY <1>1, <1>3, <1>4, <2>1, <2>3
      <3>2. QED
        BY <1>1, <1>6, <2>1, <3>1
    <2>4. QED
      BY <2>2, <2>3
  <1>10. Len(q) = Len(l)
    BY <1>1, <1>3, <1>4, <1>6
  <1>11. q = l
    BY <1>4, <1>6, <1>9, <1>10, SeqEqual
  <1>12. QED
    BY <1>11 DEF q, l, p, more

LEMMA PendingTail ==
    ASSUME NEW records \in Seq(AnyRecord), NEW n \in Nat, n < Len(records),
           \A i \in 1 .. Len(records) : Framed(records[i])
    PROVE  /\ Pending(records, n) # << >>
           /\ Pending(records, n)[1] = Frame(records[n + 1])
           /\ Tail(Pending(records, n)) = Pending(records, n + 1)
           /\ records[n + 1] \in AnyRecord /\ Framed(records[n + 1])
  <1> DEFINE p == Pending(records, n)
             q == Pending(records, n + 1)
             t == Tail(p)
  <1>1. Len(records) \in Nat
    BY LenProperties
  <1>2. p \in Seq(Seq(Bytes)) /\ Len(p) = Len(records) - n
    BY <1>1, PendingType
  <1>3. q \in Seq(Seq(Bytes)) /\ Len(q) = Len(records) - (n + 1)
    <2>1. n + 1 \in Nat /\ n + 1 <= Len(records)
      BY <1>1
    <2>2. QED
      BY <2>1, PendingType
  <1>4. \A i \in 1 .. Len(records) - n : p[i] = Frame(records[n + i])
    BY DEF Pending
  <1>5. \A i \in 1 .. Len(records) - (n + 1) : q[i] = Frame(records[(n + 1) + i])
    BY DEF Pending
  <1> HIDE DEF p, q
  <1>6. p # << >> /\ 1 \in 1 .. Len(records) - n /\ n + 1 \in 1 .. Len(records)
    <2>1. Len(p) # 0
      BY <1>1, <1>2
    <2>2. QED
      BY <1>1, <2>1
  <1>7. /\ t \in Seq(Seq(Bytes)) /\ Len(t) = Len(p) - 1
        /\ \A i \in 1 .. Len(t) : t[i] = p[i + 1]
    BY <1>2, <1>6, HeadTailProperties
  <1> HIDE DEF t
  <1>8. Len(t) = Len(q)
    BY <1>1, <1>2, <1>3, <1>7
  <1>9. ASSUME NEW i \in 1 .. Len(t) PROVE t[i] = q[i]
    <2>1. i + 1 \in 1 .. Len(records) - n /\ i \in 1 .. Len(records) - (n + 1)
          /\ n + (i + 1) = (n + 1) + i
      BY <1>1, <1>2, <1>7
    <2>2. t[i] = p[i + 1] /\ p[i + 1] = Frame(records[n + (i + 1)])
      BY <1>4, <1>7, <2>1
    <2>3. q[i] = Frame(records[(n + 1) + i])
      BY <1>5, <2>1
    <2>4. QED
      BY <2>1, <2>2, <2>3
  <1>10. t = q
    BY <1>3, <1>7, <1>8, <1>9, SeqEqual
  <1>11. records[n + 1] \in AnyRecord /\ Framed(records[n + 1])
    BY <1>6, ElementOfSeq
  <1>12. QED
    BY <1>4, <1>6, <1>10, <1>11 DEF t, p, q

-----------------------------------------------------------------------------
(***************************************************************************)
(* A frame as serialize writes it: header, payload, and the size patched.  *)
(***************************************************************************)
\* A header: the type and the two size bytes.
Header(type, low, high) == <<type, low, high>>

\* A header behind a sequence k: its first byte, and the two size bytes behind that one.
HeaderBehind(A, k, t, u, v) ==
    /\ k \o Header(t, u, v) = (k \o <<t>>) \o <<u, v>>
    /\ k \o <<t>> \in Seq(A) /\ Len(k \o <<t>>) = Len(k) + 1
    /\ <<u, v>> \in Seq(A) /\ Len(<<u, v>>) = 2 /\ Header(t, u, v) \in Seq(A)

LEMMA HeaderParts ==
    ASSUME NEW A, NEW k \in Seq(A), NEW t \in A, NEW u \in A, NEW v \in A
    PROVE  HeaderBehind(A, k, t, u, v)
  <1> DEFINE a == <<t>>
             x == <<u, v>>
  <1>1. a \in Seq(A) /\ x \in Seq(A) /\ Len(a) = 1 /\ Len(x) = 2
    OBVIOUS
  <1>2. Header(t, u, v) = a \o x
    BY DEF Header
  <1>3. Header(t, u, v) \in Seq(A)
    BY DEF Header
  <1> HIDE DEF a, x
  <1>4. k \o (a \o x) = (k \o a) \o x
    <2>1. a \in Seq(A) /\ x \in Seq(A)
      BY <1>1
    <2>2. Associates(k, a, x)
      BY <2>1, AllAssociate
    <2>3. QED
      BY <2>2 DEF Associates
  <1>5. k \o a \in Seq(A) /\ Len(k \o a) = Len(k) + Len(a)
    BY <1>1, ConcatProperties
  <1>6. QED
    BY <1>1, <1>2, <1>3, <1>4, <1>5 DEF a, x, HeaderBehind

\* c is b with the bytes s written behind the readable ones.
Appended(c, b, s) == c.tail = b.tail /\ Contents(c) = Contents(b) \o s

\* A header committed where there is room for it.
LEMMA HeaderCommitted ==
    ASSUME NEW cap \in Nat, NEW b \in Buffer(Bytes, cap), WellFormed(b),
           get_write_head(b).ptr # NullPtr, get_write_head(b).len >= header_size,
           NEW header \in Seq(Bytes), Len(header) = header_size
    PROVE  LET c == commit(fill(b, get_write_head(b).ptr, header), header_size)
           IN  /\ get_write_head(b).ptr = b.head
               /\ c \in Buffer(Bytes, cap) /\ WellFormed(c) /\ Appended(c, b, header)
  <1> DEFINE ptr == b.head
             n == header_size
             f == fill(b, ptr, header)
  <1>1. b.head \in Nat /\ b.tail \in Nat /\ n \in Nat /\ n = 3
    BY BufferParts DEF header_size
  <1>2. get_write_head(b) = Region(IF b.head < cap THEN b.head ELSE NullPtr, cap - b.head)
    BY WriteHeadIsSpaceToEnd
  <1>3. get_write_head(b).ptr = ptr /\ n <= cap - b.head
    BY <1>1, <1>2 DEF Region
  <1>4. header \in Run(Bytes, n)
    <2>1. header \in [1 .. n -> Bytes]
      BY LenProperties
    <2>2. QED
      BY <2>1 DEF Run
  <1>5. Contents(commit(f, n)) = Contents(b) \o header
    <2>1. n \in Nat /\ n <= cap - b.head
      BY <1>1, <1>3
    <2> HIDE DEF n
    <2>2. Contents(commit(fill(b, b.head, header), n)) = Contents(b) \o header
      BY <1>4, <2>1, CommitAppends
    <2>3. QED
      BY <2>2
  <1>6. ptr \in Int
    BY <1>1
  <1> HIDE DEF ptr, n
  <1>7. /\ fill(b, ptr, header) \in Buffer(Bytes, cap) /\ WellFormed(fill(b, ptr, header))
        /\ fill(b, ptr, header).head = b.head /\ fill(b, ptr, header).tail = b.tail
    BY <1>1, <1>4, <1>6, FillKeeps, FillParts
  <1> HIDE DEF f
  <1>8. f \in Buffer(Bytes, cap) /\ WellFormed(f) /\ f.head = b.head /\ f.tail = b.tail
    BY <1>7 DEF f
  <1>9. /\ commit(f, n) = Indices(f, f.head + n, f.tail, f.size + n)
        /\ commit(f, n) \in Buffer(Bytes, cap) /\ WellFormed(commit(f, n))
    BY <1>1, <1>3, <1>8, CommitParts
  <1>10. commit(f, n).tail = b.tail
    BY <1>8, <1>9 DEF Indices
  <1>11. QED
    BY <1>3, <1>5, <1>9, <1>10 DEF f, n, ptr, Appended

\* d is b with a header and w behind its contents.
Patched(d, cap, b, header, w) ==
    /\ d \in Buffer(Bytes, cap) /\ WellFormed(d)
    /\ Contents(d) = Contents(b) \o (header \o w)

\* The size bytes of the header behind the contents of b, written again.
LEMMA HeaderPatched ==
    ASSUME NEW cap \in Nat, NEW b \in Buffer(Bytes, cap), WellFormed(b),
           NEW type \in Bytes, NEW u \in Bytes, NEW v \in Bytes, NEW lo \in Bytes, NEW hi \in Bytes,
           NEW start, Appended(start, b, Header(type, u, v)),
           NEW c \in Buffer(Bytes, cap), WellFormed(c),
           NEW w \in Seq(Bytes), Appended(c, start, w)
    PROVE  Patched(fill(c, b.head + 1, <<lo, hi>>), cap, b, Header(type, lo, hi), w)
  <1> DEFINE k == Contents(b)
             z == <<lo, hi>>
             x == <<u, v>>
             a == k \o <<type>>
             h == Header(type, lo, hi)
             d == fill(c, b.head + 1, z)
  <1>1. k \in Seq(Bytes) /\ Len(k) = b.size
    BY ContentsParts, BytesAreCells
  <1>2. Contents(c) = (k \o Header(type, u, v)) \o w
    BY DEF Appended
  <1> HIDE DEF k
  <1>3. /\ k \o Header(type, u, v) = a \o x /\ a \in Seq(Bytes) /\ Len(a) = Len(k) + 1
        /\ x \in Seq(Bytes) /\ Len(x) = 2
    <2>1. k \in Seq(Bytes)
      BY <1>1
    <2>2. HeaderBehind(Bytes, k, type, u, v)
      BY <2>1, HeaderParts
    <2>3. QED
      BY <2>2 DEF HeaderBehind
  <1>4. k \o h = a \o z /\ z \in Seq(Bytes) /\ Len(z) = 2 /\ h \in Seq(Bytes)
    <2>1. k \in Seq(Bytes)
      BY <1>1
    <2>2. HeaderBehind(Bytes, k, type, lo, hi)
      BY <2>1, HeaderParts
    <2>3. QED
      BY <2>2 DEF HeaderBehind
  <1>5. Contents(c) = (a \o x) \o w
    BY <1>2, <1>3
  <1>6. b.head + 1 = c.tail + Len(a)
    <2>1. b.head \in Nat /\ b.tail \in Nat /\ b.size \in Nat /\ b.head = b.tail + b.size
      BY BufferParts DEF WellFormed
    <2>2. c.tail = b.tail
      BY DEF Appended
    <2>3. QED
      BY <1>1, <1>3, <2>1, <2>2
  <1> HIDE DEF a, x, z, h
  <1>7. /\ fill(c, c.tail + Len(a), z) \in Buffer(Bytes, cap)
        /\ WellFormed(fill(c, c.tail + Len(a), z))
        /\ Contents(fill(c, c.tail + Len(a), z)) = (a \o z) \o w
    <2>1. a \in Seq(Bytes) /\ x \in Seq(Bytes) /\ z \in Seq(Bytes) /\ Len(z) = Len(x)
      BY <1>3, <1>4
    <2>2. Holds(c, cap, a, x, w)
      BY <1>5 DEF Holds, Parts
    <2>3. Holds(fill(c, c.tail + Len(a), z), cap, a, z, w)
      BY <2>1, <2>2, OverwriteContents
    <2>4. QED
      BY <2>3 DEF Holds, Parts
  <1>8. d = fill(c, c.tail + Len(a), z)
    BY <1>6
  <1> HIDE DEF d
  <1>9. Contents(d) = (k \o h) \o w
    BY <1>4, <1>7, <1>8
  <1>10. (k \o h) \o w = k \o (h \o w)
    <2>1. k \in Seq(Bytes) /\ h \in Seq(Bytes)
      BY <1>1, <1>4
    <2>2. Associates(k, h, w)
      BY <2>1, AllAssociate
    <2>3. QED
      BY <2>2 DEF Associates
  <1>11. d \in Buffer(Bytes, cap) /\ WellFormed(d)
    BY <1>7, <1>8
  <1>12. QED
    BY <1>9, <1>10, <1>11 DEF d, k, h, z, Patched

\* A header with its size patched, and the payload: the frame, if nothing was left out.
LEMMA FramePatched ==
    ASSUME NEW cap \in Nat, NEW b \in Buffer(Bytes, cap), WellFormed(b),
           NEW type \in Bytes, NEW payload \in Seq(Bytes),
           NEW start, Appended(start, b, Header(type, 0, 0)),
           NEW ser \in Serializers(cap), Written(ser, start, payload),
           ser.bytes_written <= max_payload_size
    PROVE  LET n == ser.bytes_written
               d == fill(ser.buffer, b.head + 1, SizeBytes(n))
           IN  /\ d \in Buffer(Bytes, cap) /\ WellFormed(d)
               /\ n = Len(payload) =>
                     Contents(d) = Contents(b) \o (Header(type, n % ByteSize, n \div ByteSize) \o payload)
  <1> DEFINE n == ser.bytes_written
             c == ser.buffer
             lo == n % ByteSize
             hi == n \div ByteSize
             zero == 0
  <1>1. c \in Buffer(Bytes, cap) /\ WellFormed(c) /\ n \in Nat
    BY DEF Serializers
  <1>2. PICK w \in Seq(Bytes) : Appended(c, start, w) /\ (n = Len(payload) => w = payload)
    BY DEF Written, Appended
  <1>3. n \in 0 .. max_payload_size
    BY <1>1, MuxAssumption DEF max_payload_size
  <1> HIDE DEF n, c
  <1>4. lo \in Bytes /\ hi \in Bytes /\ SizeBytes(n) = <<lo, hi>>
    BY <1>3, SizeOfTwoBytes DEF SizeBytes
  <1>5. zero \in Bytes /\ Appended(start, b, Header(type, zero, zero))
    BY MuxAssumption DEF Bytes
  <1> HIDE DEF lo, hi, zero
  <1>6. Patched(fill(c, b.head + 1, <<lo, hi>>), cap, b, Header(type, lo, hi), w)
    BY <1>1, <1>2, <1>4, <1>5, HeaderPatched
  <1>7. QED
    BY <1>2, <1>4, <1>6 DEF Patched, lo, hi, c, n

-----------------------------------------------------------------------------
(***************************************************************************)
(* A record more, a record less, and the initial state.                    *)
(***************************************************************************)
\* The frame of an accepted record is written behind the bytes.
LEMMA DeliversAppended ==
    ASSUME NEW i \in Seq(Bytes), NEW o \in Seq(Bytes), NEW acc \in Seq(AnyRecord),
           NEW del \in Seq(AnyRecord), Delivers(i, o, acc, del),
           NEW r \in AnyRecord, Framed(r)
    PROVE  Delivers(i, o \o Frame(r), Append(acc, r), del)
  <1> DEFINE n == Len(del)
             more == Append(acc, r)
             f == Frame(r)
             p == Pending(acc, n)
             q == FlattenSeq(p)
  <1>1. /\ n \in Nat /\ Len(acc) \in Nat /\ n <= Len(acc)
        /\ del = SubSeq(acc, 1, n)
        /\ \A k \in 1 .. Len(acc) : Framed(acc[k])
        /\ i \o o = q
    BY LenProperties DEF Delivers
  <1>2. more \in Seq(AnyRecord) /\ Len(more) = Len(acc) + 1
        /\ (\A k \in 1 .. Len(acc) : more[k] = acc[k]) /\ more[Len(acc) + 1] = r
    BY AppendProperties
  <1>3. Pending(more, n) = Append(p, f)
    BY <1>1, PendingAppend
  <1>4. p \in Seq(Seq(Bytes)) /\ f \in Seq(Bytes)
    BY <1>1, PendingType, FrameParts
  <1> HIDE DEF p, f, more, n
  <1>5. FlattenSeq(Append(p, f)) = q \o f
    BY <1>4, FlattenAppend
  <1> HIDE DEF q
  <1>6. i \o (o \o f) = (i \o o) \o f
    <2>1. f \in Seq(Bytes)
      BY <1>4
    <2>2. Associates(i, o, f)
      BY <2>1, AllAssociate
    <2>3. QED
      BY <2>2 DEF Associates
  <1>7. i \o (o \o f) = FlattenSeq(Pending(more, n))
    BY <1>1, <1>3, <1>5, <1>6
  <1>8. \A k \in 1 .. Len(more) : Framed(more[k])
    <2>1. \A k \in 1 .. Len(more) : k \in 1 .. Len(acc) \/ k = Len(acc) + 1
      BY <1>1, <1>2
    <2>2. QED
      BY <1>1, <1>2, <2>1
  <1>9. del = SubSeq(more, 1, n) /\ n <= Len(more)
    <2>1. \A k \in 1 .. n : more[k] = acc[k]
      BY <1>1, <1>2
    <2> DEFINE t == SubSeq(more, 1, n)
    <2>2. t \in Seq(AnyRecord) /\ Len(t) = n /\ \A k \in 1 .. n : t[k] = more[k]
      <3>1. \A k \in 1 .. n : more[k] \in AnyRecord
        <4>1. \A k \in 1 .. n : k \in 1 .. Len(more)
          BY <1>1, <1>2
        <4>2. QED
          BY <1>2, <4>1, ElementOfSeq
      <3>2. n \in Int
        BY <1>1
      <3>3. t \in Seq(AnyRecord) /\ Len(t) = (IF 1 <= n THEN n - 1 + 1 ELSE 0)
            /\ \A k \in 1 .. n - 1 + 1 : t[k] = more[1 + k - 1]
        BY <3>1, <3>2, SubSeqProperties
      <3> HIDE DEF t
      <3>4. QED
        BY <1>1, <3>3
    <2> HIDE DEF t
    <2>3. t = del
      <3>1. Len(del) = n /\ \A k \in 1 .. n : del[k] = acc[k]
        <4>1. Len(del) = n
          BY DEF n
        <4>2. QED
          BY <1>1, <4>1
      <3>2. \A k \in 1 .. Len(t) : t[k] = del[k]
        BY <2>1, <2>2, <3>1
      <3>3. QED
        BY <2>2, <3>1, <3>2, SeqEqual
    <2>4. t = SubSeq(more, 1, n)
      BY DEF t
    <2>5. QED
      BY <1>1, <1>2, <2>3, <2>4
  <1>10. QED
    BY <1>7, <1>8, <1>9 DEF Delivers, n, more, f

\* The next record is at the beginning of the bytes.
LEMMA DeliversNext ==
    ASSUME NEW i \in Seq(Bytes), NEW o \in Seq(Bytes), NEW acc \in Seq(AnyRecord),
           NEW del \in Seq(AnyRecord), Delivers(i, o, acc, del), i # << >>
    PROVE  \E r \in AnyRecord, s \in Seq(Bytes) :
              /\ Framed(r) /\ i \o o = Frame(r) \o s
              /\ \A rest \in Seq(Bytes) : rest \o o = s => Delivers(rest, o, acc, Append(del, r))
  <1> DEFINE n == Len(del)
             r == acc[n + 1]
             p == Pending(acc, n)
             s == FlattenSeq(Pending(acc, n + 1))
  <1>1. /\ n \in Nat /\ Len(acc) \in Nat /\ n <= Len(acc)
        /\ del = SubSeq(acc, 1, n)
        /\ \A k \in 1 .. Len(acc) : Framed(acc[k])
        /\ i \o o = FlattenSeq(p)
    BY LenProperties DEF Delivers
  <1>2. p \in Seq(Seq(Bytes)) /\ Len(p) = Len(acc) - n
    BY <1>1, PendingType
  <1>3. n < Len(acc)
    <2>1. SUFFICES ASSUME n = Len(acc) PROVE FALSE
      BY <1>1
    <2> HIDE DEF p, n
    <2>2. p = << >>
      BY <1>1, <1>2, <2>1, EmptySeq
    <2>3. i \o o = << >>
      BY <1>1, <2>2, FlattenEmpty
    <2>4. QED
      BY <2>3, ConcatSimplifications
  <1>4. /\ p # << >> /\ p[1] = Frame(r) /\ Tail(p) = Pending(acc, n + 1)
        /\ r \in AnyRecord /\ Framed(r)
    BY <1>1, <1>3, PendingTail
  <1>5. FlattenSeq(p) = p[1] \o FlattenSeq(Tail(p)) /\ Tail(p) \in Seq(Seq(Bytes))
    <2> HIDE DEF p
    <2>1. QED
      BY <1>2, <1>4, FlattenCons
  <1>6. i \o o = Frame(r) \o s
    BY <1>1, <1>4, <1>5
  <1>7. s \in Seq(Bytes)
    BY <1>4, <1>5, FlattenType
  <1>8. ASSUME NEW rest \in Seq(Bytes), rest \o o = s
        PROVE  Delivers(rest, o, acc, Append(del, r))
    <2> DEFINE d == Append(del, r)
    <2>1. Len(d) = n + 1 /\ d \in Seq(AnyRecord)
      BY <1>4, AppendProperties
    <2>2. d = SubSeq(acc, 1, n + 1)
      <3>1. 1 \in 1 .. Len(acc) /\ n + 1 \in 1 .. Len(acc) /\ (n + 1) - 1 = n
        BY <1>1, <1>3
      <3>2. SubSeq(acc, 1, n + 1) = SubSeq(acc, 1, n) \o <<r>>
        BY <3>1, SubSeqRecursiveSecond
      <3>3. d = del \o <<r>>
        BY <1>4, AppendIsConcat
      <3>4. QED
        BY <1>1, <3>2, <3>3
    <2> HIDE DEF d
    <2>3. Len(d) <= Len(acc) /\ d = SubSeq(acc, 1, Len(d)) /\ rest \o o = FlattenSeq(Pending(acc, Len(d)))
      BY <1>1, <1>3, <1>8, <2>1, <2>2
    <2>4. QED
      BY <1>1, <2>3 DEF Delivers, d
  <1> HIDE DEF r, s
  <1>9. QED
    BY <1>4, <1>6, <1>7, <1>8

\* A new buffer is empty, and well formed whatever its capacity.
LEMMA NewBufferParts ==
    ASSUME NEW cap \in Nat
    PROVE  NewBuffer(cap) \in Buffer(Bytes, cap) /\ WellFormed(NewBuffer(cap))
           /\ Contents(NewBuffer(cap)) = << >>
  <1> DEFINE b == NewBuffer(cap)
  <1>1. [i \in 0 .. cap - 1 |-> Blank] \in Cells(Bytes, cap)
    BY DEF Cells, AnyByte
  <1>2. b \in Buffer(Bytes, cap) /\ b.size = 0 /\ b.head = 0 /\ b.tail = 0 /\ b.cap = cap
    BY <1>1, BufferParts DEF NewBuffer
  <1> HIDE DEF b
  <1>3. WellFormed(b)
    BY <1>2 DEF WellFormed
  <1>4. Contents(b) \in Seq(Bytes) /\ Len(Contents(b)) = 0
    BY <1>2, <1>3, ContentsParts, BytesAreCells
  <1>5. Contents(b) = << >>
    BY <1>4, EmptySeq
  <1>6. QED
    BY <1>2, <1>3, <1>5 DEF b

\* The initial state: nothing accepted, nothing delivered and no byte on the way.
LEMMA InitInv == Init => Inv
  <1> SUFFICES ASSUME Init PROVE Inv
    OBVIOUS
  <1>1. /\ out \in Buffer(Bytes, OutCapacity) /\ WellFormed(out) /\ Contents(out) = << >>
        /\ in \in Buffer(Bytes, InCapacity) /\ WellFormed(in) /\ Contents(in) = << >>
    BY MuxAssumption, NewBufferParts DEF Init
  <1>2. calls \in 0 .. MaxRecords /\ accepted \in Seq(AnyRecord) /\ Len(accepted) <= calls
        /\ delivered \in Seq(AnyRecord) /\ slips \subseteq Slips
    BY MuxAssumption DEF Init
  <1>3. Pending(<< >>, 0) = << >>
    <2>1. Pending(<< >>, 0) = [i \in 1 .. 0 |-> Frame(<< >>[0 + i])]
      BY DEF Pending
    <2>2. QED
      BY <2>1
  <1>4. Delivers(<< >>, << >>, << >>, << >>)
    BY <1>3, FlattenEmpty DEF Delivers
  <1>5. StepInv /\ CauseInv
    BY <1>1, <1>4 DEF Init, StepInv, CauseInv
  <1>6. QED
    BY <1>1, <1>2, <1>5 DEF Inv, TypeInv

-----------------------------------------------------------------------------
(***************************************************************************)
(* The writing side and the connection keep the invariant.                 *)
(***************************************************************************)
\* The contents of a buffer of the model.
LEMMA ContentsType ==
    ASSUME NEW cap \in Nat, NEW b \in Buffer(Bytes, cap), WellFormed(b)
    PROVE  Contents(b) \in Seq(Bytes) /\ Len(Contents(b)) = b.size
  BY ContentsParts, BytesAreCells

\* The record of a call of serialize: its header, and its frame, if the size fits.
LEMMA RecordWritten ==
    ASSUME NEW type \in 0 .. Len(FieldSizes) - 1, NEW n \in Nat
    PROVE  /\ Record(type, FieldsOf(type, n)) \in AnyRecord
           /\ Shaped(FieldsOf(type, n), FieldSizes[type + 1])
           /\ Header(type, 0, 0) \in Seq(Bytes) /\ Len(Header(type, 0, 0)) = header_size
           /\ \A size \in 0 .. max_payload_size :
                 LET payload == FlattenSeq(FieldsOf(type, n))
                 IN  size = Len(payload) =>
                        /\ Framed(Record(type, FieldsOf(type, n)))
                        /\ Header(type, size % ByteSize, size \div ByteSize) \o payload
                              = Frame(Record(type, FieldsOf(type, n)))
  <1> DEFINE fields == FieldsOf(type, n)
             r == Record(type, fields)
  <1>1. Shaped(fields, FieldSizes[type + 1]) /\ fields \in Seq(Seq(Bytes))
    BY FieldsOfShaped, ShapedType
  <1> HIDE DEF fields
  <1>2. r \in AnyRecord /\ r.type = type /\ r.fields = fields
    BY <1>1 DEF AnyRecord, Record
  <1>3. Header(type, 0, 0) \in Seq(Bytes) /\ Len(Header(type, 0, 0)) = header_size
    <2>1. type \in Bytes /\ 0 \in Bytes
      BY WidthsType, MuxAssumption DEF Bytes
    <2>2. QED
      BY <2>1 DEF Header, header_size
  <1>4. ASSUME NEW size \in 0 .. max_payload_size, size = Len(FlattenSeq(fields))
        PROVE  /\ Framed(r)
               /\ Header(type, size % ByteSize, size \div ByteSize) \o FlattenSeq(fields) = Frame(r)
    <2>1. size <= max_payload_size
      BY MuxAssumption DEF max_payload_size
    <2> HIDE DEF r
    <2>2. Framed(r)
      BY <1>1, <1>2, <1>4, <2>1 DEF Framed
    <2>3. Frame(r) = Header(type, size % ByteSize, size \div ByteSize) \o FlattenSeq(fields)
      BY <1>2, <1>4 DEF Frame, Header
    <2>4. QED
      BY <2>2, <2>3
  <1>5. QED
    BY <1>1, <1>2, <1>3, <1>4 DEF fields

\* serialize: if it returned true and nothing was left out or cut off, its frame is now
\* behind the bytes on the way; if it returned false, it has left its header there, which
\* is a slip, or nothing.
LEMMA SerializeInv ==
    ASSUME Inv, NEW type \in 0 .. Len(FieldSizes) - 1, serialize(type)
    PROVE  Inv'
  <1> DEFINE fields  == FieldsOf(type, calls)
             payload == FlattenSeq(fields)
             record  == Record(type, fields)
             header  == Header(type, 0, 0)
             head    == get_write_head(out)
             c       == commit(fill(out, head.ptr, header), header_size)
             ser     == Serialized(c, fields)
             n       == ser.bytes_written
             ok      == n <= max_payload_size
  <1>1. /\ out \in Buffer(Bytes, OutCapacity) /\ WellFormed(out) /\ OutCapacity \in Nat
        /\ in \in Buffer(Bytes, InCapacity) /\ WellFormed(in) /\ InCapacity \in Nat
        /\ calls \in 0 .. MaxRecords /\ calls \in Nat /\ MaxRecords \in Nat
        /\ accepted \in Seq(AnyRecord) /\ Len(accepted) <= calls
        /\ delivered \in Seq(AnyRecord) /\ slips \subseteq Slips
    BY MuxAssumption DEF Inv, TypeInv
  <1>2. /\ calls < MaxRecords /\ calls' = calls + 1
        /\ head.ptr # NullPtr /\ head.len >= header_size
        /\ in' = in /\ delivered' = delivered
        /\ \/ /\ ~ ok /\ out' = ser.buffer
              /\ slips' = slips \cup {"too_large"} /\ accepted' = accepted
           \/ /\ ok /\ out' = fill(ser.buffer, head.ptr + 1, SizeBytes(n))
              /\ accepted' = Append(accepted, record)
              /\ slips' = IF n = Len(payload) THEN slips ELSE slips \cup {"truncated"}
    <2>1. header = <<type, 0, 0>> /\ record.fields = fields
      BY DEF Header, Record
    <2>2. ~ ok <=> n > max_payload_size
      <3>1. n \in Nat
        <4>1. header \in Seq(Bytes) /\ Len(header) = header_size
          BY <1>1, RecordWritten
        <4>2. head.ptr # NullPtr /\ head.len >= header_size
          BY DEF serialize
        <4>3. c \in Buffer(Bytes, OutCapacity) /\ WellFormed(c)
          BY <1>1, <4>1, <4>2, HeaderCommitted
        <4>4. fields \in Seq(Seq(Bytes) \ {<< >>})
          BY <1>1, FieldsOfShaped
        <4> HIDE DEF c, fields
        <4>5. ser \in Serializers(OutCapacity)
          BY <1>1, <4>3, <4>4, SerializedWrites
        <4>6. QED
          BY <4>5 DEF Serializers
      <3> HIDE DEF ser
      <3>2. max_payload_size \in Int
        BY MuxAssumption DEF max_payload_size
      <3>3. QED
        BY <3>1, <3>2
    <2>3. QED
      BY <2>1, <2>2 DEF serialize
  <1>3. header \in Seq(Bytes) /\ Len(header) = header_size /\ record \in AnyRecord
    BY <1>1, RecordWritten
  <1>4. c \in Buffer(Bytes, OutCapacity) /\ WellFormed(c) /\ Appended(c, out, header) /\ head.ptr = out.head
    BY <1>1, <1>2, <1>3, HeaderCommitted
  <1>5. fields \in Seq(Seq(Bytes) \ {<< >>}) /\ payload \in Seq(Bytes)
    BY <1>1, FieldsOfShaped, ShapedType
  <1>6. type \in Bytes
    BY WidthsType
  <1>7. ser \in Serializers(OutCapacity) /\ Written(ser, c, payload)
    <2> HIDE DEF c, fields
    <2>1. QED
      BY <1>1, <1>4, <1>5, SerializedWrites
  <1>8. n \in Nat /\ ser.buffer \in Buffer(Bytes, OutCapacity) /\ WellFormed(ser.buffer)
    <2> HIDE DEF ser
    <2>1. QED
      BY <1>7 DEF Serializers
  <1> DEFINE d == fill(ser.buffer, out.head + 1, SizeBytes(n))
             frame == Header(type, n % ByteSize, n \div ByteSize) \o payload
  <1>9. ok => /\ d \in Buffer(Bytes, OutCapacity) /\ WellFormed(d)
              /\ n = Len(payload) => Contents(d) = Contents(out) \o frame
    <2> HIDE DEF ser, c, payload
    <2>1. QED
      BY <1>1, <1>4, <1>5, <1>6, <1>7, FramePatched
  <1>10. ok /\ n = Len(payload) => Framed(record) /\ frame = Frame(record)
    <2>1. SUFFICES ASSUME ok, n = Len(payload) PROVE Framed(record) /\ frame = Frame(record)
      OBVIOUS
    <2>2. n \in 0 .. max_payload_size
      <3> HIDE DEF ser
      <3>1. QED
        BY <1>8, <2>1, MuxAssumption DEF max_payload_size
    <2> HIDE DEF n
    <2>3. QED
      BY <1>1, <2>1, <2>2, RecordWritten
  <1>11. Len(Append(accepted, record)) = Len(accepted) + 1 /\ Append(accepted, record) \in Seq(AnyRecord)
         /\ Len(accepted) \in Nat
    BY <1>1, <1>3, AppendProperties, LenProperties
  <1>12. Contents(in) \in Seq(Bytes) /\ Contents(out) \in Seq(Bytes)
    BY <1>1, ContentsType
  <1> HIDE DEF c, ser, fields, payload, record, header, head, d, frame, ok
  <1> HIDE DEF n
  <1>13. CASE ~ ok
    <2>1. out' = ser.buffer /\ slips' = slips \cup {"too_large"} /\ accepted' = accepted
          /\ in' = in /\ delivered' = delivered /\ calls' = calls + 1 /\ calls < MaxRecords
      BY <1>2, <1>13
    <2>2. TypeInv'
      <3>1. calls' \in 0 .. MaxRecords /\ Len(accepted') <= calls' /\ slips' \subseteq Slips
        BY <1>1, <1>11, <2>1 DEF Slips
      <3>2. QED
        BY <1>1, <1>8, <2>1, <3>1 DEF TypeInv
    <2>3. slips' # {} /\ CauseInv'
      BY <2>1 DEF CauseInv
    <2>4. StepInv'
      BY <2>3 DEF StepInv
    <2>5. QED
      BY <2>2, <2>3, <2>4 DEF Inv
  <1>14. CASE ok
    <2>1. /\ out' = d /\ accepted' = Append(accepted, record)
          /\ slips' = IF n = Len(payload) THEN slips ELSE slips \cup {"truncated"}
          /\ in' = in /\ delivered' = delivered /\ calls' = calls + 1 /\ calls < MaxRecords
      BY <1>2, <1>4, <1>14 DEF d
    <2>2. TypeInv'
      <3>1. calls' \in 0 .. MaxRecords /\ Len(accepted') <= calls' /\ slips' \subseteq Slips
        BY <1>1, <1>11, <2>1 DEF Slips
      <3>2. QED
        BY <1>1, <1>9, <1>11, <1>14, <2>1, <3>1 DEF TypeInv
    <2>3. CauseInv'
      BY <2>1 DEF CauseInv, Inv
    <2>4. StepInv'
      <3>1. SUFFICES ASSUME slips' = {}
                     PROVE  Delivers(Contents(in'), Contents(out'), accepted', delivered')
        BY DEF StepInv
      <3>2. n = Len(payload) /\ slips = {}
        BY <2>1, <3>1
      <3>3. Delivers(Contents(in), Contents(out), accepted, delivered)
        BY <3>2 DEF StepInv, Inv
      <3>4. Framed(record) /\ Contents(d) = Contents(out) \o Frame(record)
        BY <1>9, <1>10, <1>14, <3>2
      <3>5. Delivers(Contents(in), Contents(out) \o Frame(record), Append(accepted, record), delivered)
        BY <1>1, <1>3, <1>12, <3>3, <3>4, DeliversAppended
      <3>6. QED
        BY <2>1, <3>4, <3>5
    <2>5. QED
      BY <2>2, <2>3, <2>4 DEF Inv
  <1>15. QED
    BY <1>13, <1>14

\* transfer: the bytes on the way stay the same in number and order.
LEMMA TransferInv ==
    ASSUME Inv, transfer
    PROVE  Inv'
  <1>1. /\ out \in Buffer(Bytes, OutCapacity) /\ WellFormed(out) /\ OutCapacity \in Nat
        /\ in \in Buffer(Bytes, InCapacity) /\ WellFormed(in) /\ InCapacity \in Nat
    BY MuxAssumption DEF Inv, TypeInv
  <1> DEFINE byte == BytesAt(out, out.tail, 1)
             c    == commit(fill(in, get_write_head(in).ptr, byte), 1)
             d    == consume(out, 1)
             rest == SubSeq(Contents(out), 2, Len(Contents(out)))
             one  == 1
  <1>2. /\ out.size > 0 /\ get_write_head(in).len > 0 /\ out' = d /\ in' = c
        /\ UNCHANGED <<calls, accepted, delivered, slips>>
    BY DEF transfer
  <1>3. out.size \in Nat /\ in.head \in Nat /\ one \in Nat /\ one <= out.size
    BY <1>1, <1>2, BufferParts
  <1>4. get_write_head(in).ptr = in.head /\ one <= InCapacity - in.head
    <2>1. get_write_head(in) = Region(IF in.head < InCapacity THEN in.head ELSE NullPtr, InCapacity - in.head)
      BY <1>1, WriteHeadIsSpaceToEnd
    <2>2. QED
      BY <1>1, <1>2, <1>3, <2>1 DEF Region
  <1>5. d \in Buffer(Bytes, OutCapacity) /\ WellFormed(d)
    BY <1>1, <1>3, ConsumeKeeps DEF one
  <1>6. Contents(out) \in Seq(Bytes) /\ Len(Contents(out)) = out.size /\ Contents(in) \in Seq(Bytes)
    BY <1>1, ContentsType
  <1>7. byte = SubSeq(Contents(out), 1, 1) /\ Contents(d) = rest /\ byte \in Seq(Bytes)
    <2>1. /\ BytesAt(out, out.tail, one) = SubSeq(Contents(out), 1, one)
          /\ BytesAt(out, out.tail, one) \in Seq(AnyByte(Bytes))
          /\ Contents(consume(out, one)) = SubSeq(Contents(out), one + 1, Len(Contents(out)))
      <3> HIDE DEF one
      <3>1. QED
        BY <1>1, <1>3, ReadIsPrefix, ConsumeCutsPrefix
    <2>2. QED
      BY <2>1, BytesAreCells DEF one
  <1>8. byte \in Run(Bytes, one) /\ Len(byte) = 1
    <2>1. byte \in Seq(Bytes) /\ Len(byte) = 1
      BY <1>7 DEF BytesAt
    <2> HIDE DEF byte
    <2>2. QED
      BY <2>1 DEF Run
  <1> HIDE DEF byte
  <1>9. c \in Buffer(Bytes, InCapacity) /\ WellFormed(c) /\ Contents(c) = Contents(in) \o byte
    <2> DEFINE ptr == in.head
    <2>1. ptr \in Int
      BY <1>3
    <2> HIDE DEF ptr, one
    <2>2. fill(in, ptr, byte) \in Buffer(Bytes, InCapacity) /\ WellFormed(fill(in, ptr, byte))
      BY <1>1, <1>3, <1>8, <2>1, FillKeeps
    <2> DEFINE f == fill(in, ptr, byte)
    <2> HIDE DEF f
    <2>3. f \in Buffer(Bytes, InCapacity) /\ WellFormed(f)
      BY <2>2 DEF f
    <2>4. commit(f, one) \in Buffer(Bytes, InCapacity) /\ WellFormed(commit(f, one))
      BY <1>1, <1>3, <2>3, CommitKeeps
    <2>5. Contents(commit(fill(in, in.head, byte), one)) = Contents(in) \o byte
      BY <1>1, <1>3, <1>4, <1>8, CommitAppends
    <2>6. c = commit(f, one)
      BY <1>4 DEF f, ptr, one
    <2> HIDE DEF c
    <2>7. QED
      BY <2>4, <2>5, <2>6 DEF f, ptr
  <1>10. rest \in Seq(Bytes) /\ Contents(out) = byte \o rest
    <2> DEFINE s == Contents(out)
    <2>1. s \in Seq(Bytes) /\ Len(s) \in Nat /\ Len(s) > 0
      BY <1>2, <1>3, <1>6
    <2>2. Contents(d) \in Seq(Bytes)
      BY <1>1, <1>5, ContentsType
    <2>3. SubSeq(s, 1, 1) \o SubSeq(s, 2, Len(s)) = SubSeq(s, 1, Len(s))
      <3> DEFINE l == Len(s)
      <3>1. one \in 1 .. l + 1 /\ one \in one - 1 .. l /\ l \in one .. l /\ one + 1 = 2
        BY <2>1 DEF one
      <3>2. s \in Seq(Bytes) /\ l = Len(s)
        BY <2>1
      <3> HIDE DEF s, l, one
      <3>3. SubSeq(s, one, one) \o SubSeq(s, one + 1, l) = SubSeq(s, one, l)
        BY <3>1, <3>2, ConcatAdjacentSubSeq
      <3>4. QED
        BY <3>1, <3>2, <3>3 DEF one
    <2>4. SubSeq(s, 1, Len(s)) = s
      <3> HIDE DEF s
      <3>1. QED
        BY <2>1, SubSeqFull
    <2>5. QED
      BY <1>7, <2>2, <2>3, <2>4
  <1>11. (Contents(in) \o byte) \o rest = Contents(in) \o (byte \o rest)
    <2> DEFINE k == Contents(in)
    <2>1. k \in Seq(Bytes) /\ byte \in Seq(Bytes) /\ rest \in Seq(Bytes)
      BY <1>6, <1>7, <1>10
    <2> HIDE DEF k, rest
    <2>2. (k \o byte) \o rest = k \o (byte \o rest)
      <3>1. Associates(k, byte, rest)
        BY <2>1, AllAssociate
      <3>2. QED
        BY <3>1 DEF Associates
    <2>3. QED
      BY <2>2 DEF k
  <1> HIDE DEF c, d, rest
  <1>12. Contents(in') \o Contents(out') = Contents(in) \o Contents(out)
    BY <1>2, <1>7, <1>9, <1>10, <1>11
  <1>13. StepInv'
    BY <1>2, <1>12 DEF Inv, StepInv, Delivers
  <1>14. TypeInv' /\ CauseInv'
    BY <1>2, <1>5, <1>9 DEF Inv, TypeInv, CauseInv
  <1>15. QED
    BY <1>13, <1>14 DEF Inv

-----------------------------------------------------------------------------
(***************************************************************************)
(* Deserializer: what is taken from the front of the readable bytes.       *)
(***************************************************************************)
\* The bytes x, taken from the front of the buffer b, leave the bytes y in c.
Taken(c, cap, bytes, x, y) ==
    /\ c \in Buffer(Bytes, cap) /\ WellFormed(c)
    /\ bytes = x /\ Contents(c) = y

\* Reading and consuming the first bytes of a buffer.
LEMMA TakeFront ==
    ASSUME NEW cap \in Nat, NEW b \in Buffer(Bytes, cap), WellFormed(b),
           NEW x \in Seq(Bytes), x # << >>, NEW y \in Seq(Bytes), Contents(b) = x \o y
    PROVE  /\ Taken(consume(b, Len(x)), cap, BytesAt(b, get_read_head(b).ptr, Len(x)), x, y)
           /\ get_read_head(b).ptr # NullPtr /\ get_read_head(b).len >= Len(x)
           /\ b.size = Len(x) + Len(y)
  <1> DEFINE n == Len(x)
             k == Contents(b)
  <1>1. b.tail \in Nat /\ b.size \in Nat /\ n \in Nat /\ n # 0 /\ Len(y) \in Nat
    BY BufferParts, LenProperties, EmptySeq
  <1>2. k \in Seq(Bytes) /\ Len(k) = b.size
    BY ContentsType
  <1>3. Len(k) = n + Len(y)
    BY ConcatProperties
  <1>4. SubSeq(k, 1, n) = x /\ SubSeq(k, n + 1, Len(k)) = y
    BY CutConcat
  <1> HIDE DEF n
  <1>5. n <= b.size /\ b.size > 0
    BY <1>1, <1>2, <1>3
  <1>6. get_read_head(b).ptr = b.tail /\ get_read_head(b).len = b.size /\ b.tail # NullPtr
    BY <1>1, <1>5 DEF get_read_head, Region, NullPtr
  <1>7. BytesAt(b, b.tail, n) = SubSeq(k, 1, n)
    BY <1>1, <1>5, ReadIsPrefix
  <1>8. Contents(consume(b, n)) = SubSeq(k, n + 1, Len(k))
    BY <1>1, <1>5, ConsumeCutsPrefix
  <1>9. consume(b, n) \in Buffer(Bytes, cap) /\ WellFormed(consume(b, n))
    BY <1>1, ConsumeKeeps
  <1> HIDE DEF k
  <1>10. Taken(consume(b, n), cap, BytesAt(b, b.tail, n), x, y)
    BY <1>4, <1>7, <1>8, <1>9 DEF Taken
  <1>11. QED
    BY <1>1, <1>2, <1>3, <1>5, <1>6, <1>10 DEF n

\* A Deserializer on a well-formed buffer.
Deserializers(cap) ==
    {d \in [buffer : Buffer(Bytes, cap), fields : Seq(Seq(Bytes))] : WellFormed(d.buffer)}

\* read_value leaves a well-formed buffer, whatever is in front.
LEMMA FieldReadType ==
    ASSUME NEW cap \in Nat, NEW d \in Deserializers(cap), NEW width \in Nat \ {0}
    PROVE  deserialize_value(d, width) \in Deserializers(cap)
  <1> DEFINE b == d.buffer
             zeros == [i \in 1 .. width |-> 0]
             read == BytesAt(b, get_read_head(b).ptr, width)
  <1>1. b \in Buffer(Bytes, cap) /\ WellFormed(b) /\ d.fields \in Seq(Seq(Bytes))
    BY DEF Deserializers
  <1>2. zeros \in Seq(Bytes)
    <2>1. zeros \in [1 .. width -> Bytes]
      BY MuxAssumption DEF Bytes
    <2> HIDE DEF zeros
    <2>2. QED
      BY <2>1
  <1>3. b.size \in Nat /\ get_read_head(b) = Region(IF b.size > 0 THEN b.tail ELSE NullPtr, b.size)
    BY <1>1, BufferParts DEF get_read_head
  <1>4. CASE get_read_head(b).ptr # NullPtr /\ get_read_head(b).len >= width
    <2>1. get_read_head(b).ptr = b.tail /\ width <= b.size
      BY <1>3, <1>4 DEF Region
    <2>2. read \in Seq(Bytes)
      <3>1. BytesAt(b, b.tail, width) \in Seq(AnyByte(Bytes))
        <4> HIDE DEF b
        <4>1. QED
          BY <1>1, <2>1, ReadIsPrefix
      <3>2. QED
        BY <2>1, <3>1, BytesAreCells
    <2>3. consume(b, width) \in Buffer(Bytes, cap) /\ WellFormed(consume(b, width))
      <3> HIDE DEF b
      <3>1. QED
        BY <1>1, ConsumeKeeps
    <2>4. deserialize_value(d, width) = [buffer |-> consume(b, width), fields |-> Append(d.fields, read)]
      BY <1>4 DEF deserialize_value
    <2> HIDE DEF b, read
    <2>5. Append(d.fields, read) \in Seq(Seq(Bytes))
      BY <1>1, <2>2, AppendProperties
    <2>6. QED
      BY <2>3, <2>4, <2>5 DEF Deserializers
  <1>5. CASE ~ (get_read_head(b).ptr # NullPtr /\ get_read_head(b).len >= width)
    <2>1. deserialize_value(d, width) = [buffer |-> b, fields |-> Append(d.fields, zeros)]
      BY <1>5 DEF deserialize_value
    <2> HIDE DEF b, zeros
    <2>2. Append(d.fields, zeros) \in Seq(Seq(Bytes))
      BY <1>1, <1>2, AppendProperties
    <2>3. QED
      BY <1>1, <2>1, <2>2 DEF Deserializers
  <1>6. QED
    BY <1>4, <1>5

\* The field at the front of the buffer is what is read.
LEMMA FieldRead ==
    ASSUME NEW cap \in Nat, NEW d \in Deserializers(cap), NEW x \in Seq(Bytes), x # << >>,
           NEW y \in Seq(Bytes), Contents(d.buffer) = x \o y
    PROVE  /\ Contents(deserialize_value(d, Len(x)).buffer) = y
           /\ deserialize_value(d, Len(x)).fields = Append(d.fields, x)
  <1> DEFINE b == d.buffer
             n == Len(x)
             read == BytesAt(b, get_read_head(b).ptr, n)
  <1>1. b \in Buffer(Bytes, cap) /\ WellFormed(b) /\ Contents(b) = x \o y
    BY DEF Deserializers
  <1> HIDE DEF b
  <1>2. /\ Taken(consume(b, n), cap, read, x, y)
        /\ get_read_head(b).ptr # NullPtr /\ get_read_head(b).len >= n
    BY <1>1, TakeFront
  <1>3. deserialize_value(d, n) = [buffer |-> consume(b, n), fields |-> Append(d.fields, read)]
    BY <1>2 DEF deserialize_value, b
  <1> HIDE DEF read, n
  <1>4. QED
    BY <1>2, <1>3 DEF Taken, n

\* The function Deserialized is defined by.
LEMMA DeserializedFunction ==
    ASSUME NEW cap \in Nat, NEW b \in Buffer(Bytes, cap), WellFormed(b),
           NEW type \in 0 .. Len(FieldSizes) - 1
    PROVE  \E g : /\ Deserialized(b, type) = g[Len(FieldSizes[type + 1])]
                  /\ g[0] = [buffer |-> b, fields |-> << >>]
                  /\ \A i \in 1 .. Len(FieldSizes[type + 1]) :
                        g[i] = deserialize_value(g[i - 1], FieldSizes[type + 1][i])
                  /\ \A i \in 0 .. Len(FieldSizes[type + 1]) : g[i] \in Deserializers(cap)
  <1> DEFINE widths == FieldSizes[type + 1]
             n == Len(widths)
             S == Deserializers(cap)
             x == [buffer |-> b, fields |-> << >>]
             G == [p \in (1 .. n) \X S |-> deserialize_value(p[2], widths[p[1]])]
             Eq(f) == f = [i \in 0 .. n |-> IF i = 0 THEN x ELSE deserialize_value(f[i - 1], widths[i])]
             m == 0
  <1>1. n \in Nat /\ \A i \in 1 .. n : widths[i] \in Nat \ {0}
    BY WidthsType, LenProperties, ElementOfSeq
  <1>2. x \in S
    BY DEF Deserializers
  <1> HIDE DEF widths, n
  <1>3. \A i \in m + 1 .. n : \A v \in S : G[<<i, v>>] = deserialize_value(v, widths[i])
    BY <1>1
  <1>4. \A i \in m + 1 .. n : \A v \in S : deserialize_value(v, widths[i]) \in S
    <2>1. SUFFICES ASSUME NEW i \in m + 1 .. n, NEW v \in S PROVE deserialize_value(v, widths[i]) \in S
      OBVIOUS
    <2> DEFINE width == widths[i]
    <2>2. width \in Nat \ {0}
      BY <1>1
    <2> HIDE DEF width
    <2>3. deserialize_value(v, width) \in S
      BY <2>2, FieldReadType
    <2>4. QED
      BY <2>3 DEF width
  <1> HIDE DEF G, S, x
  <1>5. \A i \in m + 1 .. n : \A v \in S : G[<<i, v>>] \in S
    BY <1>3, <1>4
  <1>6. m \in Nat
    OBVIOUS
  <1> HIDE DEF m
  <1>7. PICK f \in [m .. n -> S] : ByRecursion(f, m, n, x, G)
    BY <1>1, <1>2, <1>5, <1>6, RecursionExists
  <1>8. Eq(f)
    <2>1. f \in [0 .. n -> S] /\ \A i \in 0 .. n : f[i] = IF i = 0 THEN x ELSE G[<<i, f[i - 1]>>]
      BY <1>7 DEF ByRecursion, m
    <2>2. \A i \in 0 .. n : i # 0 => i \in 0 + 1 .. n /\ i - 1 \in 0 .. n
      BY <1>1
    <2>3. \A i \in 0 .. n : i # 0 => G[<<i, f[i - 1]>>] = deserialize_value(f[i - 1], widths[i])
      BY <1>3, <2>1, <2>2 DEF m
    <2>4. \A i \in 0 .. n : f[i] = IF i = 0 THEN x ELSE deserialize_value(f[i - 1], widths[i])
      BY <2>1, <2>3
    <2>5. QED
      BY <2>1, <2>4
  <1> DEFINE g == CHOOSE h : Eq(h)
  <1>9. Eq(g)
    BY <1>8
  <1>10. Deserialized(b, type) = g[n]
    BY DEF Deserialized, n, x, widths
  <1> HIDE DEF g
  <1>11. g[0] = x /\ \A i \in 1 .. n : g[i] = deserialize_value(g[i - 1], widths[i])
    BY <1>1, <1>9
  <1>12. \A i \in 0 .. n : g[i] \in S
    <2> DEFINE T == {i \in 0 .. n : g[i] \in S}
    <2>1. 0 \in T
      BY <1>1, <1>2, <1>11
    <2>2. ASSUME NEW i \in 0 .. n - 1, i \in T PROVE i + 1 \in T
      <3>1. i + 1 \in 1 .. n /\ i + 1 \in 0 .. n /\ (i + 1) - 1 = i /\ i + 1 \in m + 1 .. n
        BY <1>1 DEF m
      <3>2. g[i + 1] = deserialize_value(g[i], widths[i + 1]) /\ g[i] \in S
        BY <1>11, <2>2, <3>1
      <3>3. QED
        BY <1>4, <3>1, <3>2
    <2> HIDE DEF T
    <2>3. \A i \in 0 .. n : i \in T
      BY <1>1, <2>1, <2>2, UpTo
    <2>4. QED
      BY <2>3 DEF T
  <1>13. QED
    BY <1>10, <1>11, <1>12 DEF n, x, S, widths

\* operator& leaves a well-formed buffer and as many fields as the type has, whatever is
\* in front.
LEMMA DeserializedType ==
    ASSUME NEW cap \in Nat, NEW b \in Buffer(Bytes, cap), WellFormed(b),
           NEW type \in 0 .. Len(FieldSizes) - 1
    PROVE  Deserialized(b, type) \in Deserializers(cap)
  <1> DEFINE n == Len(FieldSizes[type + 1])
  <1>1. PICK g : Deserialized(b, type) = g[n] /\ \A i \in 0 .. n : g[i] \in Deserializers(cap)
    BY DeserializedFunction
  <1>2. n \in 0 .. n
    BY WidthsType, LenProperties
  <1> HIDE DEF n
  <1>3. QED
    BY <1>1, <1>2

\* The elements from one on.
LEMMA SuffixParts ==
    ASSUME NEW A, NEW s \in Seq(A), NEW i \in 0 .. Len(s)
    PROVE  /\ SubSeq(s, i + 1, Len(s)) \in Seq(A)
           /\ Len(SubSeq(s, i + 1, Len(s))) = Len(s) - i
           /\ \A j \in 1 .. Len(s) - i : SubSeq(s, i + 1, Len(s))[j] = s[i + j]
  <1> DEFINE l == Len(s)
             p == SubSeq(s, i + 1, l)
  <1>1. l \in Nat /\ i \in Nat /\ i <= l
    BY LenProperties
  <1>2. \A j \in 1 .. l : s[j] \in A
    BY ElementOfSeq
  <1> HIDE DEF l
  <1>3. (\A j \in i + 1 .. l : s[j] \in A) /\ i + 1 \in Int /\ l \in Int
    BY <1>1, <1>2
  <1>4. /\ p \in Seq(A) /\ Len(p) = (IF i + 1 <= l THEN l - (i + 1) + 1 ELSE 0)
        /\ \A j \in 1 .. l - (i + 1) + 1 : p[j] = s[(i + 1) + j - 1]
    BY <1>3, SubSeqProperties
  <1> HIDE DEF p
  <1>5. p \in Seq(A) /\ Len(p) = l - i /\ \A j \in 1 .. l - i : p[j] = s[i + j]
    BY <1>1, <1>4
  <1>6. QED
    BY <1>5 DEF p, l

\* What the elements from one on flatten to begins with that element.
LEMMA FlattenSuffix ==
    ASSUME NEW A, NEW s \in Seq(Seq(A)), NEW i \in 0 .. Len(s) - 1
    PROVE  /\ FlattenSeq(SubSeq(s, i + 1, Len(s))) =
                 s[i + 1] \o FlattenSeq(SubSeq(s, (i + 1) + 1, Len(s)))
           /\ s[i + 1] \in Seq(A)
           /\ FlattenSeq(SubSeq(s, (i + 1) + 1, Len(s))) \in Seq(A)
  <1> DEFINE l == Len(s)
             B == Seq(A)
             p == SubSeq(s, i + 1, l)
             q == SubSeq(s, (i + 1) + 1, l)
             t == Tail(p)
  <1>1. l \in Nat /\ i \in Nat /\ i + 1 <= l /\ i \in 0 .. l /\ i + 1 \in 0 .. l
    BY LenProperties
  <1>2. p \in Seq(B) /\ Len(p) = l - i /\ \A j \in 1 .. l - i : p[j] = s[i + j]
    BY <1>1, SuffixParts
  <1>3. q \in Seq(B) /\ Len(q) = l - (i + 1) /\ \A j \in 1 .. l - (i + 1) : q[j] = s[(i + 1) + j]
    <2> DEFINE k == i + 1
    <2>1. k \in 0 .. l
      BY <1>1
    <2> HIDE DEF k
    <2>2. SubSeq(s, k + 1, l) \in Seq(B) /\ Len(SubSeq(s, k + 1, l)) = l - k
          /\ \A j \in 1 .. l - k : SubSeq(s, k + 1, l)[j] = s[k + j]
      BY <2>1, SuffixParts
    <2>3. QED
      BY <2>2 DEF k
  <1> HIDE DEF l, p, q
  <1>4. p # << >> /\ p[1] = s[i + 1]
    <2>1. Len(p) # 0 /\ 1 \in 1 .. l - i
      BY <1>1, <1>2
    <2>2. p # << >>
      BY <2>1
    <2>3. QED
      BY <1>2, <2>1, <2>2
  <1>5. t \in Seq(B) /\ Len(t) = Len(p) - 1 /\ \A j \in 1 .. Len(t) : t[j] = p[j + 1]
    BY <1>2, <1>4, HeadTailProperties
  <1> HIDE DEF t
  <1>6. t = q
    <2>1. Len(t) = Len(q)
      BY <1>1, <1>2, <1>3, <1>5
    <2>2. \A j \in 1 .. Len(t) : t[j] = q[j]
      <3>1. SUFFICES ASSUME NEW j \in 1 .. Len(t) PROVE t[j] = q[j]
        OBVIOUS
      <3>2. j \in 1 .. l - (i + 1) /\ j + 1 \in 1 .. l - i /\ i + (j + 1) = (i + 1) + j
        BY <1>1, <1>2, <1>5
      <3>3. QED
        BY <1>2, <1>3, <1>5, <3>2
    <2>3. QED
      BY <1>3, <1>5, <2>1, <2>2, SeqEqual
  <1> HIDE DEF B
  <1>7. FlattenSeq(p) = p[1] \o FlattenSeq(Tail(p)) /\ p[1] \in Seq(A)
    BY <1>2, <1>4, FlattenCons DEF B
  <1>8. FlattenSeq(q) \in Seq(A)
    BY <1>3, FlattenType DEF B
  <1>9. QED
    BY <1>4, <1>6, <1>7, <1>8 DEF t, p, q, l

\* A Deserializer that finds the fields of a record in front reads that record.
InFront(b, fields, rest) == Contents(b) = FlattenSeq(fields) \o rest
ReadBack(d, fields, rest) == d.fields = fields /\ Contents(d.buffer) = rest

LEMMA DeserializedReads ==
    ASSUME NEW cap \in Nat, NEW b \in Buffer(Bytes, cap), WellFormed(b),
           NEW type \in 0 .. Len(FieldSizes) - 1,
           NEW fields, Shaped(fields, FieldSizes[type + 1]), NEW rest \in Seq(Bytes),
           InFront(b, fields, rest)
    PROVE  ReadBack(Deserialized(b, type), fields, rest)
  <1> DEFINE widths == FieldSizes[type + 1]
             n == Len(widths)
             Q(i) == FlattenSeq(SubSeq(fields, i + 1, n))
             Sofar(d, i) == /\ Len(d.fields) = i
                            /\ \A j \in 1 .. i : d.fields[j] = fields[j]
                            /\ Contents(d.buffer) = Q(i) \o rest
  <1>1. /\ n \in Nat /\ Len(fields) = n /\ fields \in Seq(Seq(Bytes))
        /\ \A i \in 1 .. n : Len(fields[i]) = widths[i] /\ fields[i] # << >> /\ fields[i] \in Seq(Bytes)
    <2>1. fields \in Seq(Seq(Bytes) \ {<< >>}) /\ Len(fields) = n
          /\ \A i \in 1 .. n : Len(fields[i]) = widths[i]
      BY DEF Shaped
    <2>2. n \in Nat /\ fields \in Seq(Seq(Bytes))
      BY WidthsType, LenProperties, ShapedType
    <2>3. \A i \in 1 .. n : fields[i] \in Seq(Bytes) \ {<< >>}
      BY <2>1, ElementOfSeq
    <2>4. QED
      BY <2>1, <2>2, <2>3
  <1>2. PICK g : /\ Deserialized(b, type) = g[n]
                 /\ g[0] = [buffer |-> b, fields |-> << >>]
                 /\ \A i \in 1 .. n : g[i] = deserialize_value(g[i - 1], widths[i])
                 /\ \A i \in 0 .. n : g[i] \in Deserializers(cap)
    BY DeserializedFunction
  <1> HIDE DEF widths, n
  <1>3. \A i \in 0 .. n - 1 : Q(i) = fields[i + 1] \o Q(i + 1) /\ Q(i + 1) \in Seq(Bytes)
    BY <1>1, FlattenSuffix
  <1>4. Q(0) = FlattenSeq(fields) /\ Q(n) = << >>
    <2>1. SubSeq(fields, 1, n) = fields /\ SubSeq(fields, n + 1, n) = << >>
      BY <1>1, SubSeqFull, SubSeqEmpty
    <2>2. 0 + 1 = 1
      OBVIOUS
    <2>3. SubSeq(fields, 0 + 1, n) = fields
      BY <2>1, <2>2
    <2>4. FlattenSeq(SubSeq(fields, n + 1, n)) = << >>
      BY <2>1, FlattenEmpty
    <2>5. QED
      BY <2>3, <2>4
  <1> HIDE DEF Q
  <1> DEFINE T == {i \in 0 .. n : Sofar(g[i], i)}
  <1>5. 0 \in T
    BY <1>1, <1>2, <1>4 DEF InFront
  <1>6. ASSUME NEW i \in 0 .. n - 1, i \in T PROVE i + 1 \in T
    <2> DEFINE d == g[i]
               x == fields[i + 1]
               y == Q(i + 1) \o rest
    <2>1. i \in Nat /\ i \in 0 .. n /\ i + 1 \in 1 .. n /\ i + 1 \in 0 .. n /\ (i + 1) - 1 = i
      BY <1>1
    <2>2. Sofar(d, i) /\ d \in Deserializers(cap)
      BY <1>2, <1>6, <2>1
    <2>3. x \in Seq(Bytes) /\ x # << >> /\ g[i + 1] = deserialize_value(d, Len(x))
      BY <1>1, <1>2, <2>1
    <2>4. Q(i) = x \o Q(i + 1) /\ Q(i + 1) \in Seq(Bytes)
      BY <1>3
    <2> HIDE DEF d, x
    <2>5. Contents(d.buffer) = x \o y /\ y \in Seq(Bytes)
      <3> DEFINE q == Q(i + 1)
      <3>1. q \in Seq(Bytes)
        BY <2>4
      <3>2. q \o rest \in Seq(Bytes)
        <4> HIDE DEF q
        <4>1. QED
          BY <3>1, ConcatProperties
      <3>3. (x \o q) \o rest = x \o (q \o rest)
        <4> HIDE DEF q
        <4>1. x \in Seq(Bytes)
          BY <2>3
        <4>2. Associates(x, q, rest)
          BY <3>1, <4>1, AllAssociate
        <4>3. QED
          BY <4>2 DEF Associates
      <3>4. Contents(d.buffer) = Q(i) \o rest
        BY <2>2
      <3>5. QED
        BY <2>4, <3>2, <3>3, <3>4
    <2> DEFINE e == deserialize_value(d, Len(x))
    <2> HIDE DEF y
    <2>6. Contents(e.buffer) = y /\ e.fields = Append(d.fields, x)
      BY <2>2, <2>3, <2>5, FieldRead
    <2> HIDE DEF e
    <2>7. d.fields \in Seq(Seq(Bytes)) /\ Len(d.fields) = i /\ \A j \in 1 .. i : d.fields[j] = fields[j]
      BY <2>2 DEF Deserializers
    <2>8. /\ Len(e.fields) = i + 1
          /\ \A j \in 1 .. i : e.fields[j] = d.fields[j]
          /\ e.fields[i + 1] = x
      <3> DEFINE f == d.fields
      <3>1. f \in Seq(Seq(Bytes)) /\ Len(f) = i /\ x \in Seq(Bytes)
        BY <2>3, <2>7
      <3> HIDE DEF f
      <3>2. /\ Len(Append(f, x)) = i + 1
            /\ \A j \in 1 .. i : Append(f, x)[j] = f[j]
            /\ Append(f, x)[i + 1] = x
        BY <3>1, AppendProperties
      <3>3. QED
        BY <2>6, <3>2 DEF f
    <2>9. \A j \in 1 .. i + 1 : e.fields[j] = fields[j]
      <3>1. \A j \in 1 .. i + 1 : j \in 1 .. i \/ j = i + 1
        BY <2>1
      <3>2. QED
        BY <2>7, <2>8, <3>1 DEF x
    <2>10. Sofar(e, i + 1)
      BY <2>6, <2>8, <2>9 DEF y
    <2>11. g[i + 1] = e
      BY <2>3 DEF e
    <2>12. QED
      BY <2>1, <2>10, <2>11
  <1> HIDE DEF T
  <1>7. \A i \in 0 .. n : i \in T
    BY <1>1, <1>5, <1>6, UpTo
  <1>8. Sofar(g[n], n) /\ g[n] \in Deserializers(cap)
    <2>1. n \in 0 .. n
      BY <1>1
    <2>2. QED
      BY <1>2, <1>7, <2>1 DEF T
  <1> DEFINE d == g[n]
  <1>9. d.fields \in Seq(Seq(Bytes)) /\ Len(d.fields) = n /\ \A j \in 1 .. n : d.fields[j] = fields[j]
    BY <1>8 DEF Deserializers
  <1>10. Contents(d.buffer) = rest
    <2>1. Contents(d.buffer) = << >> \o rest
      BY <1>4, <1>8
    <2>2. << >> \o rest = rest
      BY ConcatEmptySeq
    <2>3. QED
      BY <2>1, <2>2
  <1>11. d.fields = fields
    <2> DEFINE f == d.fields
    <2>1. f \in Seq(Seq(Bytes)) /\ Len(f) = Len(fields) /\ \A j \in 1 .. Len(f) : f[j] = fields[j]
      BY <1>1, <1>9
    <2> HIDE DEF f
    <2>2. f = fields
      BY <1>1, <2>1, SeqEqual
    <2>3. QED
      BY <2>2 DEF f
  <1>12. QED
    BY <1>2, <1>10, <1>11 DEF ReadBack

-----------------------------------------------------------------------------
(***************************************************************************)
(* The header at the front of a stream of frames.                          *)
(***************************************************************************)
\* x before u is the same sequence as z before v.
SameBytes(x, u, z, v) == x \o u = z \o v

\* Of two sequences with the same bytes, parts of the same length are the same.
LEMMA SameFront ==
    ASSUME NEW A, NEW x \in Seq(A), NEW u \in Seq(A), NEW z \in Seq(A), NEW v \in Seq(A),
           Len(x) = Len(z), SameBytes(x, u, z, v)
    PROVE  x = z /\ u = v
  <1> DEFINE s == x \o u
             t == z \o v
  <1>1. SubSeq(s, 1, Len(x)) = x /\ SubSeq(s, Len(x) + 1, Len(s)) = u
    BY CutConcat
  <1>2. SubSeq(t, 1, Len(z)) = z /\ SubSeq(t, Len(z) + 1, Len(t)) = v
    BY CutConcat
  <1>3. s = t
    BY DEF SameBytes
  <1> HIDE DEF s, t
  <1>4. QED
    BY <1>1, <1>2, <1>3

\* p is a beginning of y, and what is left of y is a beginning of s.
Within(A, y, o, p, s) == \E rest \in Seq(A) : y = p \o rest /\ rest \o o = s

\* The shorter of the two is a beginning of the longer one.
LEMMA FrontWithin ==
    ASSUME NEW A, NEW y \in Seq(A), NEW o \in Seq(A), NEW p \in Seq(A), NEW s \in Seq(A),
           SameBytes(y, o, p, s), Len(p) <= Len(y)
    PROVE  Within(A, y, o, p, s)
  <1> DEFINE n == Len(p)
             l == Len(y)
             front == SubSeq(y, 1, n)
             rest == SubSeq(y, n + 1, l)
             one == 1
  <1>1. n \in Nat /\ l \in Nat /\ n <= l
    BY LenProperties
  <1>2. n \in 0 .. l /\ 0 \in 0 .. l
    BY <1>1
  <1>3. rest \in Seq(A)
    <2> HIDE DEF n
    <2>1. SubSeq(y, n + 1, Len(y)) \in Seq(A)
      BY <1>2, SuffixParts
    <2>2. QED
      BY <2>1
  <1>4. front \in Seq(A) /\ Len(front) = n
    <2>1. \A i \in 1 .. n : y[i] \in A
      <3>1. \A i \in 1 .. n : i \in 1 .. l
        BY <1>1
      <3>2. QED
        BY <3>1, ElementOfSeq
    <2> HIDE DEF n
    <2>2. front \in Seq(A) /\ Len(front) = (IF 1 <= n THEN n - 1 + 1 ELSE 0)
      BY <1>1, <2>1, SubSeqProperties
    <2> HIDE DEF front
    <2>3. QED
      BY <1>1, <2>2
  <1>5. y = front \o rest
    <2>1. one \in 1 .. l + 1 /\ n \in one - 1 .. l /\ l \in n .. l
      BY <1>1
    <2> HIDE DEF one, n
    <2>2. SubSeq(y, one, n) \o SubSeq(y, n + 1, l) = SubSeq(y, one, l)
      BY <2>1, ConcatAdjacentSubSeq
    <2>3. SubSeq(y, 1, l) = y
      BY SubSeqFull
    <2>4. QED
      BY <2>2, <2>3 DEF one
  <1> HIDE DEF front, rest, n, l, one
  <1>6. (front \o rest) \o o = front \o (rest \o o)
    <2>1. front \in Seq(A) /\ rest \in Seq(A)
      BY <1>3, <1>4
    <2> HIDE DEF front, rest
    <2>2. Associates(front, rest, o)
      BY <2>1, AllAssociate
    <2>3. QED
      BY <2>2 DEF Associates
  <1>7. rest \o o \in Seq(A)
    BY <1>3, ConcatProperties
  <1> DEFINE v == rest \o o
  <1>8. SameBytes(front, v, p, s)
    BY <1>5, <1>6 DEF SameBytes
  <1>9. v \in Seq(A) /\ Len(front) = Len(p)
    BY <1>4, <1>7 DEF n
  <1> HIDE DEF v
  <1>10. front = p /\ v = s
    BY <1>4, <1>8, <1>9, SameFront
  <1>11. QED
    BY <1>3, <1>5, <1>10 DEF v, Within

\* What read_header finds, for any bytes.
LEMMA HeaderRead ==
    ASSUME NEW cap \in Nat, NEW b \in Buffer(Bytes, cap), WellFormed(b), header_available(b)
    PROVE  LET header == BytesAt(b, get_read_head(b).ptr, header_size)
           IN  /\ header \in Seq(Bytes) /\ Len(header) = header_size
               /\ read_header(b).type = header[1] /\ read_header(b).type \in Bytes
               /\ read_header(b).payload_size = header[2] + header[3] * ByteSize
               /\ read_header(b).rest \in Buffer(Bytes, cap) /\ WellFormed(read_header(b).rest)
               /\ Contents(b) = header \o Contents(read_header(b).rest)
               /\ Contents(b) # << >>
  <1> DEFINE n == header_size
             k == Contents(b)
             header == BytesAt(b, get_read_head(b).ptr, n)
             c == consume(b, n)
  <1>1. b.size \in Nat /\ b.tail \in Nat /\ n \in Nat /\ n = 3
    BY BufferParts DEF header_size
  <1>2. get_read_head(b).ptr = b.tail /\ n <= b.size
    BY <1>1 DEF header_available, get_read_head, Region
  <1>3. k \in Seq(Bytes) /\ Len(k) = b.size
    BY ContentsType
  <1> HIDE DEF n
  <1>4. /\ BytesAt(b, b.tail, n) = SubSeq(k, 1, n)
        /\ BytesAt(b, b.tail, n) \in Seq(AnyByte(Bytes))
    BY <1>1, <1>2, ReadIsPrefix
  <1>5. Contents(c) = SubSeq(k, n + 1, Len(k))
    BY <1>1, <1>2, ConsumeCutsPrefix
  <1>6. c \in Buffer(Bytes, cap) /\ WellFormed(c)
    BY <1>1, ConsumeKeeps
  <1>7. header \in Seq(Bytes) /\ Len(header) = 3
    <2>1. header \in Seq(Bytes)
      BY <1>2, <1>4, BytesAreCells
    <2>2. Len(header) = n
      BY <1>1 DEF BytesAt
    <2>3. QED
      BY <1>1, <2>1, <2>2
  <1>8. k = header \o Contents(c)
    <2> DEFINE l == Len(k)
               one == 1
    <2>1. one \in 1 .. l + 1 /\ n \in one - 1 .. l /\ l \in n .. l /\ k \in Seq(Bytes)
      BY <1>1, <1>2, <1>3
    <2> HIDE DEF one, k
    <2>2. SubSeq(k, one, n) \o SubSeq(k, n + 1, l) = SubSeq(k, one, l)
      BY <2>1, ConcatAdjacentSubSeq
    <2>3. SubSeq(k, 1, l) = k
      BY <2>1, SubSeqFull
    <2> HIDE DEF l
    <2>4. header = SubSeq(k, 1, n) /\ Contents(c) = SubSeq(k, n + 1, l)
      BY <1>2, <1>4, <1>5 DEF l
    <2> HIDE DEF header, c
    <2>5. QED
      BY <2>2, <2>3, <2>4 DEF one
  <1>9. k # << >>
    <2> HIDE DEF k
    <2>1. Len(k) # 0
      BY <1>1, <1>2, <1>3
    <2>2. QED
      BY <2>1
  <1>10. header[1] \in Bytes
    <2> HIDE DEF header
    <2>1. 1 \in 1 .. Len(header)
      BY <1>7
    <2>2. QED
      BY <1>7, <2>1, ElementOfSeq
  <1>11. /\ read_header(b).type = header[1]
         /\ read_header(b).payload_size = header[2] + header[3] * ByteSize
         /\ read_header(b).rest = c
    BY DEF read_header, n
  <1> HIDE DEF header, c, k
  <1>12. QED
    BY <1>1, <1>6, <1>7, <1>8, <1>9, <1>10, <1>11 DEF header, k, n

\* In a stream that is in step deserialize finds the next accepted record, unless only a
\* part of its payload has arrived.
NextRead(h, b, o, acc, del, cap) ==
    \E r \in AnyRecord :
       /\ h.type = r.type
       /\ h.payload_size = 0 \/ h.rest.size >= h.payload_size =>
             LET result == deserialize_type(h.rest, h.type, h.payload_size)
             IN  /\ result.success /\ result.record = r
                 /\ Delivers(Contents(result.rest), o, acc, Append(del, r))

LEMMA ReadInStep ==
    ASSUME NEW cap \in Nat, NEW b \in Buffer(Bytes, cap), WellFormed(b), header_available(b),
           NEW o \in Seq(Bytes), NEW acc \in Seq(AnyRecord), NEW del \in Seq(AnyRecord),
           Delivers(Contents(b), o, acc, del)
    PROVE  NextRead(read_header(b), b, o, acc, del, cap)
  <1> DEFINE header == BytesAt(b, get_read_head(b).ptr, header_size)
             h == read_header(b)
             k == Contents(b)
             c == h.rest
             y == Contents(c)
  <1>1. /\ header \in Seq(Bytes) /\ Len(header) = header_size
        /\ h.type = header[1] /\ h.payload_size = header[2] + header[3] * ByteSize
        /\ c \in Buffer(Bytes, cap) /\ WellFormed(c) /\ k = header \o y /\ k # << >>
    BY HeaderRead
  <1>2. k \in Seq(Bytes)
    BY ContentsType
  <1>3. Delivers(k, o, acc, del)
    OBVIOUS
  <1> HIDE DEF header, h, k
  <1>4. y \in Seq(Bytes) /\ Len(y) = c.size
    BY <1>1, ContentsType
  <1> HIDE DEF y
  <1>5. PICK r \in AnyRecord, s \in Seq(Bytes) :
              /\ Framed(r) /\ k \o o = Frame(r) \o s
              /\ \A rest \in Seq(Bytes) : rest \o o = s => Delivers(rest, o, acc, Append(del, r))
    BY <1>1, <1>2, <1>3, DeliversNext
  <1> DEFINE p == FlattenSeq(r.fields)
             m == Len(p)
             hd == <<r.type, m % ByteSize, m \div ByteSize>>
  <1>6. /\ hd \in Seq(Bytes) /\ Len(hd) = header_size
        /\ (m % ByteSize) + (m \div ByteSize) * ByteSize = m
        /\ p \in Seq(Bytes) /\ Frame(r) = hd \o p
    BY <1>5, FrameParts
  <1>7. m \in Nat
    BY <1>6, LenProperties
  <1>8. hd[1] = r.type /\ hd[2] = m % ByteSize /\ hd[3] = m \div ByteSize
    OBVIOUS
  <1> HIDE DEF hd, p
  <1>9. header = hd /\ SameBytes(y, o, p, s)
    <2>1. y \o o \in Seq(Bytes) /\ p \o s \in Seq(Bytes)
      BY <1>4, <1>6, ConcatProperties
    <2>2. (header \o y) \o o = header \o (y \o o)
      <3>1. header \in Seq(Bytes) /\ y \in Seq(Bytes)
        BY <1>1, <1>4
      <3>2. Associates(header, y, o)
        BY <3>1, AllAssociate
      <3>3. QED
        BY <3>2 DEF Associates
    <2>3. (hd \o p) \o s = hd \o (p \o s)
      <3>1. hd \in Seq(Bytes) /\ p \in Seq(Bytes)
        BY <1>6
      <3>2. Associates(hd, p, s)
        BY <3>1, AllAssociate
      <3>3. QED
        BY <3>2 DEF Associates
    <2> DEFINE u == y \o o
               v == p \o s
    <2>4. SameBytes(header, u, hd, v)
      BY <1>1, <1>5, <1>6, <2>2, <2>3 DEF SameBytes
    <2>5. u \in Seq(Bytes) /\ v \in Seq(Bytes) /\ Len(header) = Len(hd)
      BY <1>1, <1>6, <2>1
    <2> HIDE DEF u, v
    <2>6. header = hd /\ u = v
      BY <1>1, <1>6, <2>4, <2>5, SameFront
    <2>7. QED
      BY <2>6 DEF SameBytes, u, v
  <1>10. h.type = r.type /\ h.payload_size = m
    BY <1>1, <1>6, <1>8, <1>9
  <1>11. ASSUME h.payload_size = 0 \/ h.rest.size >= h.payload_size
         PROVE  LET result == deserialize_type(h.rest, h.type, h.payload_size)
                IN  /\ result.success /\ result.record = r
                    /\ Delivers(Contents(result.rest), o, acc, Append(del, r))
    <2> DEFINE type == r.type
               fields == r.fields
               d == Deserialized(c, type)
    <2>1. m <= Len(y)
      <3> HIDE DEF m
      <3>1. c.size \in Nat
        BY <1>1, BufferParts
      <3>2. m = 0 \/ c.size >= m
        BY <1>10, <1>11
      <3>3. QED
        BY <1>4, <1>7, <3>1, <3>2
    <2>2. PICK rest \in Seq(Bytes) : y = p \o rest /\ rest \o o = s
      <3>1. y \in Seq(Bytes) /\ p \in Seq(Bytes) /\ Len(p) <= Len(y) /\ SameBytes(y, o, p, s)
        BY <1>4, <1>6, <1>9, <2>1
      <3> HIDE DEF m
      <3>2. Within(Bytes, y, o, p, s)
        BY <3>1, FrontWithin
      <3>3. QED
        BY <3>2 DEF Within
    <2>3. type \in 0 .. Len(FieldSizes) - 1 /\ Shaped(fields, FieldSizes[type + 1])
          /\ r = Record(type, fields)
      BY <1>5 DEF AnyRecord, Framed, Record
    <2>4. InFront(c, fields, rest)
      BY <2>2 DEF InFront, y, p
    <2> HIDE DEF type, fields, c
    <2>5. ReadBack(d, fields, rest) /\ d \in Deserializers(cap)
      BY <1>1, <2>3, <2>4, DeserializedReads, DeserializedType
    <2> HIDE DEF d
    <2>6. d.buffer \in Buffer(Bytes, cap) /\ WellFormed(d.buffer)
      BY <2>5 DEF Deserializers
    <2>7. d.fields = fields /\ Contents(d.buffer) = rest
      BY <2>5 DEF ReadBack
    <2>8. c.size - d.buffer.size = m
      <3>1. Len(rest) = d.buffer.size
        BY <2>6, <2>7, ContentsType
      <3>2. Len(y) = Len(p) + Len(rest) /\ Len(rest) \in Nat
        BY <1>6, <2>2, ConcatProperties, LenProperties
      <3>3. c.size = m + d.buffer.size /\ d.buffer.size \in Nat
        BY <1>4, <3>1, <3>2
      <3> HIDE DEF m
      <3>4. QED
        BY <1>7, <3>3
    <2> DEFINE result == deserialize_type(c, type, m)
    <2>9. result.success /\ result.record = r /\ result.rest = d.buffer
      <3>1. result.record = Record(type, d.fields) /\ result.rest = d.buffer
        BY DEF deserialize_type, d
      <3>2. result.success <=> (m = 0 \/ c.size - d.buffer.size = m)
        BY DEF deserialize_type, d
      <3> HIDE DEF result
      <3>3. QED
        BY <2>3, <2>7, <2>8, <3>1, <3>2
    <2>10. Delivers(rest, o, acc, Append(del, r))
      BY <1>5, <2>2
    <2>11. result = deserialize_type(h.rest, h.type, h.payload_size)
      BY <1>10 DEF c, type
    <2> HIDE DEF result
    <2>12. QED
      BY <2>7, <2>9, <2>10, <2>11
  <1> HIDE DEF c
  <1>12. NextRead(h, b, o, acc, del, cap)
    BY <1>10, <1>11 DEF NextRead
  <1>13. QED
    BY <1>12 DEF h

-----------------------------------------------------------------------------
(***************************************************************************)
(* The reading side keeps the invariant; the theorems.                     *)
(***************************************************************************)
\* deserialize: in a stream that is in step it delivers the next accepted record or leaves
\* the whole frame where it is; it takes a header alone only if the rest has not arrived.
LEMMA DeserializeInv ==
    ASSUME Inv, deserialize
    PROVE  Inv'
  <1>1. /\ out \in Buffer(Bytes, OutCapacity) /\ WellFormed(out) /\ OutCapacity \in Nat
        /\ in \in Buffer(Bytes, InCapacity) /\ WellFormed(in) /\ InCapacity \in Nat
        /\ accepted \in Seq(AnyRecord) /\ delivered \in Seq(AnyRecord) /\ slips \subseteq Slips
    BY MuxAssumption DEF Inv, TypeInv
  <1> DEFINE h == read_header(in)
             result == deserialize_type(h.rest, h.type, h.payload_size)
             arrived == h.payload_size = 0 \/ h.rest.size >= h.payload_size
  <1>2. /\ header_available(in) /\ out' = out /\ calls' = calls /\ accepted' = accepted
        /\ \/ /\ h.type >= Len(FieldSizes)
              /\ in' = h.rest /\ slips' = slips \cup {"unknown_type"} /\ delivered' = delivered
           \/ /\ h.type < Len(FieldSizes)
              /\ in' = h.rest /\ slips' = slips \cup {"header_taken"} /\ delivered' = delivered
           \/ /\ h.type < Len(FieldSizes) /\ arrived
              /\ in' = result.rest
              /\ IF result.success
                 THEN delivered' = Append(delivered, result.record) /\ slips' = slips
                 ELSE slips' = slips \cup {"size_mismatch"} /\ delivered' = delivered
    BY DEF deserialize
  <1>3. h.type \in Bytes /\ h.rest \in Buffer(Bytes, InCapacity) /\ WellFormed(h.rest)
    BY <1>1, <1>2, HeaderRead
  <1>4. h.type \in Nat /\ Len(FieldSizes) \in Nat
    BY <1>3, MuxAssumption, LenProperties DEF Bytes
  <1>5. Contents(in) \in Seq(Bytes) /\ Contents(out) \in Seq(Bytes)
    BY <1>1, ContentsType
  <1>6. h.type < Len(FieldSizes) =>
           /\ result.rest \in Buffer(Bytes, InCapacity) /\ WellFormed(result.rest)
           /\ result.record \in AnyRecord
    <2>1. SUFFICES ASSUME h.type < Len(FieldSizes)
                   PROVE  /\ result.rest \in Buffer(Bytes, InCapacity) /\ WellFormed(result.rest)
                          /\ result.record \in AnyRecord
      OBVIOUS
    <2> DEFINE type == h.type
               b == h.rest
               d == Deserialized(b, type)
    <2>2. type \in 0 .. Len(FieldSizes) - 1 /\ b \in Buffer(Bytes, InCapacity) /\ WellFormed(b)
      BY <1>3, <1>4, <2>1
    <2>3. result.rest = d.buffer /\ result.record = Record(type, d.fields)
      BY DEF deserialize_type
    <2> HIDE DEF type, b, result
    <2>4. d \in Deserializers(InCapacity)
      BY <1>1, <2>2, DeserializedType
    <2> HIDE DEF d
    <2>5. QED
      BY <2>2, <2>3, <2>4 DEF Deserializers, AnyRecord, Record
  <1>7. ASSUME slips = {}
        PROVE  /\ h.type < Len(FieldSizes)
               /\ arrived => /\ result.success
                             /\ Delivers(Contents(result.rest), Contents(out), accepted,
                                         Append(delivered, result.record))
    <2>1. Delivers(Contents(in), Contents(out), accepted, delivered)
      BY <1>7 DEF Inv, StepInv
    <2> DEFINE o == Contents(out)
    <2>2. Delivers(Contents(in), o, accepted, delivered) /\ o \in Seq(Bytes)
      BY <1>5, <2>1
    <2> HIDE DEF o
    <2>3. NextRead(h, in, o, accepted, delivered, InCapacity)
      BY <1>1, <1>2, <2>2, ReadInStep
    <2>4. PICK r \in AnyRecord :
             /\ h.type = r.type
             /\ arrived => /\ result.success /\ result.record = r
                           /\ Delivers(Contents(result.rest), o, accepted, Append(delivered, r))
      <3> HIDE DEF h
      <3>1. QED
        BY <2>3 DEF NextRead
    <2>5. r.type < Len(FieldSizes)
      BY <1>4 DEF AnyRecord
    <2> HIDE DEF result, arrived, h
    <2>6. QED
      BY <2>4, <2>5 DEF o
  <1> HIDE DEF h, result, arrived
  <1>8. TypeInv'
    <2>1. /\ in' \in Buffer(Bytes, InCapacity) /\ WellFormed(in')
          /\ delivered' \in Seq(AnyRecord) /\ slips' \subseteq Slips
      <3>1. result.record \in AnyRecord => Append(delivered, result.record) \in Seq(AnyRecord)
        BY <1>1, AppendProperties
      <3>2. {"unknown_type", "header_taken", "size_mismatch"} \subseteq Slips
        BY DEF Slips
      <3>3. QED
        BY <1>1, <1>2, <1>3, <1>6, <3>1, <3>2
    <2>2. QED
      BY <1>2, <2>1 DEF TypeInv, Inv
  <1>9. CASE slips # {}
    <2>1. slips \cap {"truncated", "too_large", "header_taken"} # {} /\ slips \subseteq slips'
      BY <1>2, <1>9 DEF Inv, CauseInv
    <2>2. StepInv' /\ CauseInv'
      BY <2>1 DEF StepInv, CauseInv
    <2>3. QED
      BY <1>8, <2>2 DEF Inv
  <1>10. CASE slips = {}
    <2>1. h.type < Len(FieldSizes) /\ ~ (h.type >= Len(FieldSizes))
      BY <1>4, <1>7, <1>10
    <2>2. \/ slips' = {"header_taken"}
          \/ /\ slips' = {} /\ in' = result.rest /\ delivered' = Append(delivered, result.record)
             /\ Delivers(Contents(result.rest), Contents(out), accepted,
                         Append(delivered, result.record))
      BY <1>2, <1>7, <1>10, <2>1
    <2>3. StepInv' /\ CauseInv'
      BY <1>2, <2>2 DEF StepInv, CauseInv
    <2>4. QED
      BY <1>8, <2>3 DEF Inv
  <1>11. QED
    BY <1>9, <1>10

\* A step that changes nothing, such as a call that is refused.
LEMMA StutterInv ==
    ASSUME Inv, UNCHANGED vars
    PROVE  Inv'
  BY DEF Inv, TypeInv, StepInv, Delivers, CauseInv, vars

\* Every step keeps the invariant, and the invariant is as strong as the properties.
LEMMA NextInv == Inv /\ [Next]_vars => Inv'
  <1>1. SUFFICES ASSUME Inv, [Next]_vars PROVE Inv'
    OBVIOUS
  <1>2. ASSUME NEW type \in 0 .. Len(FieldSizes) - 1, serialize(type) PROVE Inv'
    BY <1>1, <1>2, SerializeInv
  <1>3. CASE serialize_refused
    BY <1>1, <1>3, StutterInv DEF serialize_refused
  <1>4. CASE transfer
    BY <1>1, <1>4, TransferInv
  <1>5. CASE deserialize
    BY <1>1, <1>5, DeserializeInv
  <1>6. CASE deserialize_waits
    BY <1>1, <1>6, StutterInv DEF deserialize_waits
  <1>7. CASE UNCHANGED vars
    BY <1>1, <1>7, StutterInv
  <1>8. QED
    BY <1>1, <1>2, <1>3, <1>4, <1>5, <1>6, <1>7 DEF Next, Writer, Reader

LEMMA InvSafe == Inv => InStep /\ FailureHasCause
  <1> SUFFICES ASSUME Inv PROVE InStep /\ FailureHasCause
    OBVIOUS
  <1>1. accepted \in Seq(AnyRecord) /\ delivered \in Seq(AnyRecord) /\ Len(FieldSizes) \in Nat
    BY MuxAssumption DEF Inv, TypeInv
  <1>2. \A r \in Range(accepted) \cup Range(delivered) : r.type < Len(FieldSizes)
    <2>1. ASSUME NEW s \in Seq(AnyRecord), NEW r \in Range(s) PROVE r.type < Len(FieldSizes)
      <3>1. PICK i \in DOMAIN s : r = s[i]
        BY DEF Range
      <3>2. i \in 1 .. Len(s)
        BY LenProperties
      <3>3. r \in AnyRecord
        BY <3>1, <3>2, ElementOfSeq
      <3>4. QED
        BY <1>1, <3>3 DEF AnyRecord
    <2>2. QED
      BY <1>1, <2>1
  <1>3. TypeOK
    BY <1>2 DEF Inv, TypeInv, TypeOK
  <1>4. slips = {} =>
           LET n == Len(delivered)
           IN  /\ n <= Len(accepted)
               /\ delivered = SubSeq(accepted, 1, n)
               /\ Contents(in) \o Contents(out) =
                     FlattenSeq([i \in 1 .. Len(accepted) - n |-> Frame(accepted[n + i])])
    BY DEF Inv, StepInv, Delivers, Pending
  <1>5. InStep
    BY <1>3, <1>4 DEF InStep
  <1>6. FailureHasCause
    BY DEF Inv, CauseInv, FailureHasCause
  <1>7. QED
    BY <1>5, <1>6

\* For every size of a byte, of the fields and of the buffers, and for any number of calls:
\* unless a slip has happened, the unread bytes of both buffers together are exactly the
\* frames of the records accepted and not yet delivered, and what was delivered is what was
\* accepted, in order (MultiplexingSerializer, DemultiplexingDeserializer).
THEOREM MuxInvariant == Spec => []Inv
  BY InitInv, NextInv, PTL DEF Spec

\* As long as no call of serialize has left something out, exceeded the largest size or kept
\* its header behind, the records deserialize returns are those serialize accepted, in
\* order, wherever the stream is cut; and deserialize never fails unless one of these has
\* happened before (multiplexing_serializer.hpp, demultiplexing_deserializer.hpp).
THEOREM MuxSafe == Spec => [](InStep /\ FailureHasCause)
  BY MuxInvariant, InvSafe, PTL

-----------------------------------------------------------------------------
(***************************************************************************)
(* LinearBufferSpec: the buffer in the hands of its two users.             *)
(***************************************************************************)
USE CapacityAssumption

-----------------------------------------------------------------------------
(***************************************************************************)
(* The inductive invariant.  BufferWellFormed is needed to know what       *)
(* get_write_head returns, ReservationValid to know that a commit is made  *)
(* at the write head the bytes were written behind.                        *)
(***************************************************************************)
BufferInv == BufferTypeOK /\ BufferWellFormed /\ ReservationValid

LEMMA BufferInitInv == BufferInit => BufferInv
  <1> SUFFICES ASSUME BufferInit PROVE BufferInv
    OBVIOUS
  <1>1. [i \in 0 .. Capacity - 1 |-> Blank] \in Cells(Byte, Capacity)
    BY DEF Cells
  <1>2. buf \in Buffer(Byte, Capacity)
    BY <1>1, BufferParts DEF BufferInit, NewBuffer
  <1>3. WellFormed(buf)
    BY DEF BufferInit, NewBuffer, WellFormed
  <1>4. QED
    BY <1>2, <1>3 DEF BufferInv, BufferInit, BufferTypeOK, BufferWellFormed, ReservationValid

\* A region in hand starts at the write head and runs to the end of the array.
LEMMA ReservedIsWriteHead ==
    ASSUME BufferInv, reserved # NoRegion
    PROVE  /\ reserved = Region(buf.head, Capacity - buf.head)
           /\ buf.head < Capacity
  BY WriteHeadIsSpaceToEnd, BufferParts
     DEF BufferInv, BufferTypeOK, BufferWellFormed, ReservationValid, Region, NoRegion, NullPtr

LEMMA ReserveInv == BufferInv /\ Reserve => BufferInv'
  <1> SUFFICES ASSUME BufferInv, Reserve PROVE BufferInv'
    OBVIOUS
  <1>1. get_write_head(buf) = Region(buf.head, Capacity - buf.head) /\ buf.head < Capacity
    BY WriteHeadIsSpaceToEnd, BufferParts
       DEF BufferInv, BufferTypeOK, BufferWellFormed, Reserve, Region
  <1>2. reserved' \in [ptr : 0 .. Capacity, len : 1 .. Capacity]
    BY <1>1, BufferParts DEF BufferInv, BufferTypeOK, Reserve, Region
  <1>3. QED
    BY <1>2 DEF BufferInv, BufferTypeOK, BufferWellFormed, ReservationValid, Reserve

LEMMA WriteAndCommitInv ==
    ASSUME BufferInv, NEW n \in 0 .. Capacity + 1, WriteAndCommit(n)
    PROVE  BufferInv'
  <1>0. PICK m \in 0 .. reserved.len :
             \E s \in [1 .. m -> Byte] :
                /\ buf' = commit(fill(buf, reserved.ptr, s), n)
                /\ moved' = IF n <= reserved.len THEN s ELSE moved
    BY DEF WriteAndCommit
  <1>1. PICK s \in [1 .. m -> Byte] :
             /\ buf' = commit(fill(buf, reserved.ptr, s), n)
             /\ moved' = IF n <= reserved.len THEN s ELSE moved
    BY <1>0
  <1> DEFINE b == fill(buf, reserved.ptr, s)
  <1>2. reserved = Region(buf.head, Capacity - buf.head)
    BY ReservedIsWriteHead DEF WriteAndCommit
  <1>3. buf \in Buffer(Byte, Capacity) /\ WellFormed(buf)
    BY DEF BufferInv, BufferTypeOK, BufferWellFormed
  <1>4. reserved.ptr \in Int /\ m \in Nat /\ n \in Nat
    BY <1>2, <1>3, BufferParts DEF Region
  <1>10. s \in Run(Byte, m)
    BY DEF Run
  <1>5. b \in Buffer(Byte, Capacity) /\ WellFormed(b)
    BY <1>3, <1>4, <1>10, FillKeeps
  <1> HIDE DEF b
  <1>6. commit(b, n) \in Buffer(Byte, Capacity) /\ WellFormed(commit(b, n))
    <2>1. CASE n <= Capacity - b.head
      BY <1>4, <1>5, <2>1, CommitParts
    <2>2. CASE ~ (n <= Capacity - b.head)
      <3>1. n > Capacity - b.head
        BY <1>4, <1>5, <2>2, BufferParts
      <3>2. QED
        BY <1>4, <1>5, <3>1, CommitRefused
    <2>3. QED
      BY <2>1, <2>2
  <1>7. buf' = commit(b, n)
    BY <1>1 DEF b
  <1>8. moved' \in Seq(Byte \cup {Blank})
    <2>1. s \in Seq(Byte \cup {Blank}) /\ moved \in Seq(Byte \cup {Blank})
      BY <1>4 DEF BufferInv, BufferTypeOK
    <2>2. QED
      BY <1>1, <2>1
  <1>9. QED
    BY <1>6, <1>7, <1>8 DEF BufferInv, BufferTypeOK, BufferWellFormed, ReservationValid, WriteAndCommit

LEMMA ConsumeInv ==
    ASSUME BufferInv, NEW n \in 0 .. Capacity + 1, Consume(n)
    PROVE  BufferInv'
  <1>1. buf \in Buffer(Byte, Capacity) /\ WellFormed(buf) /\ n \in Nat
    BY DEF BufferInv, BufferTypeOK, BufferWellFormed
  <1>2. CASE n > buf.size
    <2>1. buf' = buf /\ moved' = moved
      BY <1>1, <1>2, BufferParts DEF Consume, consume
    <2>2. QED
      BY <2>1 DEF BufferInv, BufferTypeOK, BufferWellFormed, ReservationValid, Consume
  <1>3. CASE n <= buf.size
    <2>1. buf' \in Buffer(Byte, Capacity) /\ WellFormed(buf')
      BY <1>1, <1>3, ConsumeParts DEF Consume
    <2>2. ASSUME reserved # NoRegion PROVE reserved = get_write_head(buf')
      <3>1. n # buf.size
        BY <2>2 DEF Consume
      <3>2. buf'.head = buf.head
        BY <1>1, <1>3, <3>1, ConsumeParts DEF Consume, Indices
      <3>3. QED
        BY <1>1, <2>1, <2>2, <3>2, WriteHeadIsSpaceToEnd DEF BufferInv, ReservationValid
    <2>3. moved' \in Seq(Byte \cup {Blank})
      BY <1>1, <1>3, ReadIsPrefix DEF Consume, AnyByte
    <2>4. QED
      BY <2>1, <2>2, <2>3 DEF BufferInv, BufferTypeOK, BufferWellFormed, ReservationValid, Consume
  <1>4. QED
    BY <1>1, <1>2, <1>3, BufferParts

\* For every capacity and every set of byte values: the buffer keeps its readable
\* bytes contiguous and in bounds, and a reserved write pointer stays the write
\* head until it is committed (linear_buffer.cpp; on_receive of TcpConnection).
THEOREM BufferSafe == BufferSpec => [](BufferTypeOK /\ BufferWellFormed /\ ReservationValid)
  <1>1. BufferInv /\ [BufferNext]_bufferVars => BufferInv'
    <2> SUFFICES ASSUME BufferInv, [BufferNext]_bufferVars PROVE BufferInv'
      OBVIOUS
    <2>1. CASE Reserve
      BY <2>1, ReserveInv
    <2>2. CASE \E n \in 0 .. Capacity + 1 : WriteAndCommit(n) \/ Consume(n)
      BY <2>2, WriteAndCommitInv, ConsumeInv
    <2>3. CASE UNCHANGED bufferVars
      BY <2>3 DEF bufferVars, BufferInv, BufferTypeOK, BufferWellFormed, ReservationValid
    <2>4. QED
      BY <2>1, <2>2, <2>3 DEF BufferNext
  <1>2. QED
    BY BufferInitInv, <1>1, PTL DEF BufferSpec, BufferInv

-----------------------------------------------------------------------------
(***************************************************************************)
(* Refinement.  An accepted commit appends the bytes written, an accepted  *)
(* consume cuts a prefix off, and every other step leaves the readable     *)
(* bytes alone.                                                            *)
(***************************************************************************)
LEMMA BufferInitRefines == BufferInit => Queue!Init
  <1> SUFFICES ASSUME BufferInit PROVE Contents(buf) = << >>
    BY DEF Queue!Init, BufferInit
  <1>1. buf \in Buffer(Byte, Capacity) /\ WellFormed(buf) /\ buf.size = 0
    BY BufferInitInv DEF BufferInv, BufferTypeOK, BufferWellFormed, BufferInit, NewBuffer
  <1>2. Contents(buf) \in Seq(AnyByte(Byte)) /\ Len(Contents(buf)) = 0
    BY <1>1, ContentsParts
  <1>3. QED
    BY <1>2, EmptySeq

LEMMA WriteAndCommitRefines ==
    ASSUME BufferInv, NEW n \in 0 .. Capacity + 1, WriteAndCommit(n)
    PROVE  [Queue!Next]_<<Contents(buf), moved>>
  <1>1. buf \in Buffer(Byte, Capacity) /\ WellFormed(buf) /\ n \in Nat
    BY DEF BufferInv, BufferTypeOK, BufferWellFormed
  <1>2. reserved.ptr = buf.head /\ reserved.len = Capacity - buf.head
    BY ReservedIsWriteHead DEF WriteAndCommit, Region
  <1>3. PICK m \in 0 .. reserved.len :
            /\ n <= reserved.len => m = n
            /\ \E s \in [1 .. m -> Byte] :
                  /\ buf' = commit(fill(buf, reserved.ptr, s), n)
                  /\ moved' = IF n <= reserved.len THEN s ELSE moved
    BY DEF WriteAndCommit
  <1>4. PICK s \in [1 .. m -> Byte] :
            /\ buf' = commit(fill(buf, reserved.ptr, s), n)
            /\ moved' = IF n <= reserved.len THEN s ELSE moved
    BY <1>3
  <1>5. buf.head \in Int /\ buf.size \in Nat /\ m \in Nat /\ buf.size <= buf.head
    BY <1>1, <1>2, BufferParts DEF WellFormed
  <1>6. CASE n <= Capacity - buf.head
    <2>1. m = n
      BY <1>2, <1>3, <1>6
    <2>2. s \in [1 .. n -> Byte] /\ buf' = commit(fill(buf, buf.head, s), n) /\ moved' = s
      BY <1>2, <1>4, <1>6, <2>1
    <2>6. s \in Run(Byte, n)
      BY <2>2 DEF Run
    <2>3. Contents(buf)' = Contents(buf) \o s
      BY <1>1, <1>6, <2>2, <2>6, CommitAppends
    <2>4. n \in 0 .. Capacity - Len(Contents(buf))
      BY <1>1, <1>5, <1>6, ContentsParts
    <2>5. QED
      BY <2>2, <2>3, <2>4 DEF Queue!Next, Queue!Put
  <1>7. CASE n > Capacity - buf.head
    <2> DEFINE f == fill(buf, buf.head, s)
    <2>1. /\ f \in Buffer(Byte, Capacity)
          /\ f.head = buf.head /\ f.tail = buf.tail /\ f.size = buf.size
          /\ \A i \in 0 .. Capacity - 1 :
                f.mem[i] = CellAfter(buf, buf.head, m, s, i)
      <3>1. s \in Run(Byte, m)
        BY DEF Run
      <3>2. buf \in Buffer(Byte, Capacity) /\ buf.head \in Int /\ m \in Nat
        BY <1>1, <1>5
      <3>3. f \in Buffer(Byte, Capacity)
        BY <3>1, <3>2, FillParts
      <3>4. f.head = buf.head /\ f.tail = buf.tail /\ f.size = buf.size
        BY <3>1, <3>2, FillParts
      <3>5. \A i \in 0 .. Capacity - 1 : f.mem[i] = CellAfter(buf, buf.head, m, s, i)
        BY <3>1, <3>2, FillParts
      <3>6. QED
        BY <3>3, <3>4, <3>5
    <2>2. WellFormed(f)
      BY <1>1, <2>1, BufferParts DEF WellFormed
    <2> HIDE DEF f
    <2>3. buf' = f
      BY <1>1, <1>2, <1>4, <1>7, <2>1, <2>2, CommitRefused DEF f
    <2>4. ASSUME NEW i \in 1 .. buf.size
          PROVE  Contents(f)[i] = Contents(buf)[i]
      <3>1. buf.tail + i - 1 \in 0 .. Capacity - 1 /\ buf.tail + i - 1 < buf.head
        BY <1>1, BufferParts DEF WellFormed
      <3>2. f.mem[buf.tail + i - 1] = buf.mem[buf.tail + i - 1]
        BY <2>1, <3>1, <1>5 DEF CellAfter
      <3>3. QED
        BY <1>1, <2>1, <2>2, <3>2, ContentsParts
    <2>5. Contents(f) = Contents(buf)
      BY <1>1, <2>1, <2>2, <2>4, ContentsParts, SeqEqual
    <2>6. moved' = moved
      BY <1>1, <1>2, <1>4, <1>5, <1>7
    <2>7. QED
      BY <2>3, <2>5, <2>6
  <1>8. QED
    BY <1>1, <1>5, <1>6, <1>7

LEMMA ConsumeRefines ==
    ASSUME BufferInv, NEW n \in 0 .. Capacity + 1, Consume(n)
    PROVE  [Queue!Next]_<<Contents(buf), moved>>
  <1>1. buf \in Buffer(Byte, Capacity) /\ WellFormed(buf) /\ n \in Nat
    BY DEF BufferInv, BufferTypeOK, BufferWellFormed
  <1>2. buf.size \in Nat
    BY <1>1, BufferParts
  <1>3. CASE n <= buf.size
    <2>1. Contents(buf)' = SubSeq(Contents(buf), n + 1, Len(Contents(buf)))
      BY <1>1, <1>3, ConsumeCutsPrefix DEF Consume
    <2>2. n \in 0 .. Len(Contents(buf))
      BY <1>1, <1>2, <1>3, ContentsParts
    <2>3. moved' = SubSeq(Contents(buf), 1, n)
      BY <1>1, <1>3, ReadIsPrefix DEF Consume
    <2>4. QED
      BY <2>1, <2>2, <2>3 DEF Queue!Next, Queue!Take
  <1>4. CASE n > buf.size
    BY <1>1, <1>2, <1>4 DEF Consume, consume
  <1>5. QED
    BY <1>1, <1>2, <1>3, <1>4

\* For every capacity and every set of byte values, LinearBuffer implements the
\* first-in-first-out byte queue: the two-step write (get_write_head, then commit)
\* puts exactly the bytes written, also when bytes were consumed in between.
THEOREM BufferIsByteQueue == BufferSpec => IsByteQueue
  <1>1. BufferInv /\ [BufferNext]_bufferVars => [Queue!Next]_<<Contents(buf), moved>>
    <2> SUFFICES ASSUME BufferInv, [BufferNext]_bufferVars PROVE [Queue!Next]_<<Contents(buf), moved>>
      OBVIOUS
    <2>1. CASE Reserve
      BY <2>1 DEF Reserve
    <2>2. CASE \E n \in 0 .. Capacity + 1 : WriteAndCommit(n) \/ Consume(n)
      BY <2>2, WriteAndCommitRefines, ConsumeRefines
    <2>3. CASE UNCHANGED bufferVars
      BY <2>3 DEF bufferVars
    <2>4. QED
      BY <2>1, <2>2, <2>3 DEF BufferNext
  <1>2. BufferSpec => []BufferInv
    BY BufferSafe, PTL DEF BufferInv
  <1>3. QED
    BY BufferInitRefines, <1>1, <1>2, PTL DEF BufferSpec, IsByteQueue, Queue!Spec
=============================================================================
