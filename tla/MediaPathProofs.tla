-------------------------- MODULE MediaPathProofs --------------------------
(***************************************************************************)
(* Proofs about MediaPath for all pictures, parameter sets, handshakes,    *)
(* delays, clocks and sizes of transfer that satisfy the assumptions there. *)
(* NalCodec's loops are recursive functions here, so what they compute is  *)
(* proved too: an induction takes the least counterexample (LeastNat).     *)
(***************************************************************************)
EXTENDS MediaPath, SequenceTheorems, WellFoundedInduction, TLAPS

-----------------------------------------------------------------------------
(***************************************************************************)
(* Sequences and what FlattenSeq makes of them.                            *)
(***************************************************************************)

\* A concatenation, element by element.
LEMMA CatAt ==
    ASSUME NEW S, NEW a, a \in Seq(S), NEW b, b \in Seq(S), NEW c, c = a \o b
    PROVE  /\ c \in Seq(S) /\ Len(a) \in Nat /\ Len(b) \in Nat /\ Len(c) = Len(a) + Len(b)
           /\ \A p \in 1 .. Len(a) : c[p] = a[p]
           /\ \A j \in 1 .. Len(b) : c[Len(a) + j] = b[j]
OBVIOUS

\* A set of numbers that is not empty has a least one: the counterexamples of an
\* induction cannot all have a smaller one.
LEMMA LeastNat ==
    ASSUME NEW S \in SUBSET Nat, S # {}
    PROVE  \E n \in S : \A m \in S : n <= m
<1> DEFINE R == OpToRel(<, Nat)
<1>1. IsWellFoundedOn(R, Nat)
  BY NatLessThanWellFounded
<1>2. PICK n \in S : \A m \in S : ~(<<m, n>> \in R)
  <2> HIDE DEF R
  <2> QED BY <1>1, WFMin
<1>3. \A m \in S : ~(m < n)
  BY <1>2 DEF OpToRel
<1> QED BY <1>3

\* The partial results of FlattenSeq.
Flattens(f, seqs, n) ==
    \A i \in 1 .. n : f[i] = IF i = 1 THEN seqs[i] ELSE f[i - 1] \o seqs[i]

\* There is one list of partial results.
LEMMA FlattensUnique ==
    ASSUME NEW seqs, NEW n \in Nat, NEW f, NEW g, Flattens(f, seqs, n), Flattens(g, seqs, n)
    PROVE  \A i \in 1 .. n : f[i] = g[i]
<1> DEFINE Bad == {i \in Nat : i \in 1 .. n /\ f[i] # g[i]}
<1> SUFFICES ASSUME Bad # {} PROVE FALSE
  OBVIOUS
<1>1. PICK i \in Bad : \A m \in Bad : i <= m
  BY LeastNat
<1>2. i # 1
  BY <1>1 DEF Flattens
<1>3. i - 1 \in 1 .. n /\ i - 1 \notin Bad
  BY <1>1, <1>2
<1>4. f[i - 1] = g[i - 1]
  BY <1>3
<1> QED BY <1>1, <1>2, <1>4 DEF Flattens

\* A set of sequences closed under concatenation.
Monoid(T) ==
    /\ <<>> \in T
    /\ \A x \in T : x \o <<>> = x /\ <<>> \o x = x
    /\ \A x, y, z \in T : x \o y \in T /\ (x \o y) \o z = x \o (y \o z)

\* Sequences over a set can be concatenated in any grouping.
LEMMA SeqMonoid == \A S : Monoid(Seq(S))
<1>1. \A S : \A x, y, z \in Seq(S) : (x \o y) \o z = x \o (y \o z)
  BY ConcatAssociative
<1>2. \A S : \A x, y \in Seq(S) : x \o y \in Seq(S)
  OBVIOUS
<1>3. \A S : <<>> \in Seq(S) /\ \A x \in Seq(S) : x \o <<>> = x /\ <<>> \o x = x
  OBVIOUS
<1> QED BY <1>1, <1>2, <1>3 DEF Monoid

\* The partial results exist, whatever is flattened.
LEMMA FlattensExists ==
    ASSUME NEW T, Monoid(T), NEW n \in Nat, NEW seqs \in [1 .. n -> T]
    PROVE  \E f \in [1 .. n -> T] : Flattens(f, seqs, n)
<1> DEFINE Has(k) == \E f \in [1 .. k -> T] : Flattens(f, seqs, k)
           Bad == {k \in Nat : k <= n /\ ~Has(k)}
<1> SUFFICES ASSUME Bad # {} PROVE FALSE
  OBVIOUS
<1>1. PICK k \in Bad : \A m \in Bad : k <= m
  <2> HIDE DEF Bad
  <2>1. Bad \in SUBSET Nat BY DEF Bad
  <2> QED BY <2>1, LeastNat
<1>2. k # 0
  <2>1. [i \in 1 .. 0 |-> <<>>] \in [1 .. 0 -> T] /\ Flattens([i \in 1 .. 0 |-> <<>>], seqs, 0)
    BY DEF Flattens
  <2> QED BY <2>1, <1>1
<1>3. k \in Nat \ {0} /\ k <= n /\ Has(k - 1)
  <2> HIDE DEF Has
  <2>1. k \in Nat \ {0} /\ k <= n /\ k - 1 \in Nat /\ k - 1 <= n
    BY <1>1, <1>2
  <2>2. k - 1 \notin Bad
    BY <1>1, <2>1
  <2> QED BY <2>1, <2>2
<1>4. PICK f \in [1 .. k - 1 -> T] : Flattens(f, seqs, k - 1)
  BY <1>3
<1> DEFINE g == [i \in 1 .. k |-> IF i < k THEN f[i] ELSE IF k = 1 THEN seqs[1] ELSE f[k - 1] \o seqs[k]]
<1>5. \A i \in 1 .. k : seqs[i] \in T
  BY <1>3
<1>6. g \in [1 .. k -> T]
  <2> SUFFICES ASSUME NEW i \in 1 .. k PROVE g[i] \in T
    OBVIOUS
  <2>1. CASE i < k BY <2>1
  <2>2. CASE i = k /\ k = 1 BY <2>2, <1>5
  <2>3. CASE i = k /\ k # 1
    <3>1. f[k - 1] \in T /\ seqs[k] \in T BY <2>3, <1>5
    <3> QED BY <3>1, <2>3 DEF Monoid
  <2> QED BY <2>1, <2>2, <2>3
<1>7. Flattens(g, seqs, k)
  <2> SUFFICES ASSUME NEW i \in 1 .. k
               PROVE  g[i] = IF i = 1 THEN seqs[i] ELSE g[i - 1] \o seqs[i]
    BY DEF Flattens
  <2>1. k \in Nat /\ k >= 1
    BY <1>3
  <2>2. \A j \in 1 .. k - 1 : g[j] = f[j]
    BY ONLY <2>1
  <2>3. CASE i < k
    <3>1. i \in 1 .. k - 1 /\ (i # 1 => i - 1 \in 1 .. k - 1)
      BY <2>1, <2>3
    <3> HIDE DEF g
    <3> QED BY <3>1, <2>2, <1>4 DEF Flattens
  <2>4. CASE i = k /\ k = 1
    BY <2>4
  <2>5. CASE i = k /\ k # 1
    <3>1. g[k - 1] = f[k - 1]
      <4> HIDE DEF g
      <4> QED BY <2>1, <2>2, <2>5
    <3>2. g[k] = f[k - 1] \o seqs[k]
      BY ONLY <2>1, <2>5
    <3> HIDE DEF g
    <3> QED BY <3>1, <3>2, <2>5
  <2> QED BY <2>1, <2>3, <2>4, <2>5
<1> QED BY <1>1, <1>6, <1>7

\* FlattenSeq is the last of the partial results.
LEMMA FlattenIs ==
    ASSUME NEW T, Monoid(T), NEW n \in Nat \ {0}, NEW seqs \in [1 .. n -> T],
           NEW f, Flattens(f, seqs, n)
    PROVE  FlattenSeq(seqs) = f[n]
<1> DEFINE G(g) == g = [i \in 1 .. n |-> IF i = 1 THEN seqs[i] ELSE g[i - 1] \o seqs[i]]
           h == CHOOSE g : G(g)
<1>1. Len(seqs) = n
  OBVIOUS
<1>2. PICK e \in [1 .. n -> T] : Flattens(e, seqs, n)
  BY FlattensExists
<1>3. G(e)
  BY <1>2 DEF Flattens
<1>4. G(h)
  BY <1>3
<1>5. FlattenSeq(seqs) = h[n]
  BY <1>1 DEF FlattenSeq
<1>6. Flattens(h, seqs, n)
  <2> HIDE DEF h
  <2> SUFFICES ASSUME NEW i \in 1 .. n PROVE h[i] = IF i = 1 THEN seqs[i] ELSE h[i - 1] \o seqs[i]
    BY DEF Flattens
  <2> QED BY <1>4
<1> HIDE DEF h
<1>7. h[n] = f[n]
  BY <1>6, FlattensUnique
<1> QED BY <1>5, <1>7

\* A sequence is a function from its positions.
LEMMA SeqAsFunction ==
    ASSUME NEW T, NEW s \in Seq(T)
    PROVE  Len(s) \in Nat /\ s \in [1 .. Len(s) -> T]
OBVIOUS

\* Concatenation, as an operator the provers take as it is.
Cat(a, b) == a \o b

\* Flattening nothing gives nothing.
LEMMA FlattenEmpty == FlattenSeq(<<>>) = <<>>
BY DEF FlattenSeq

\* What is flattened has the type of its parts.
LEMMA FlattenType ==
    ASSUME NEW T, Monoid(T), NEW seqs \in Seq(T)
    PROVE  FlattenSeq(seqs) \in T
<1>1. CASE Len(seqs) = 0
  BY <1>1 DEF FlattenSeq, Monoid
<1>2. ASSUME NEW n \in Nat \ {0}, seqs \in [1 .. n -> T]
      PROVE  FlattenSeq(seqs) \in T
  <2>1. PICK f \in [1 .. n -> T] : Flattens(f, seqs, n)
    BY <1>2, FlattensExists
  <2>2. FlattenSeq(seqs) = f[n]
    BY <1>2, <2>1, FlattenIs
  <2> QED BY <2>2
<1> QED BY <1>1, <1>2, SeqAsFunction

\* Flattening one sequence gives that sequence.
LEMMA FlattenOne ==
    ASSUME NEW T, Monoid(T), NEW s \in T
    PROVE  FlattenSeq(<<s>>) = s
<1> DEFINE f == [i \in 1 .. 1 |-> s]
           t == <<s>>
<1>1. Flattens(f, t, 1) /\ t \in [1 .. 1 -> T]
  BY DEF Flattens
<1>2. FlattenSeq(t) = f[1]
  <2> HIDE DEF f, t
  <2>1. 1 \in Nat \ {0}
    OBVIOUS
  <2> QED BY ONLY <1>1, <2>1, Monoid(T), FlattenIs
<1> QED BY <1>2

\* What one sequence of sequences and another give when put together.
Joins(T, a, b, m, n, c) ==
    /\ m \in Nat \ {0} /\ n \in Nat \ {0}
    /\ a \in [1 .. m -> T] /\ b \in [1 .. n -> T] /\ c \in [1 .. m + n -> T]
    /\ \A i \in 1 .. m + n : c[i] = IF i <= m THEN a[i] ELSE b[i - m]

\* Flattening two lists put together puts together what each flattens to.
LEMMA FlattenJoin ==
    ASSUME NEW T, Monoid(T), NEW m, NEW n, NEW a, NEW b, NEW c, Joins(T, a, b, m, n, c)
    PROVE  FlattenSeq(c) = FlattenSeq(a) \o FlattenSeq(b)
<1>1. /\ m \in Nat \ {0} /\ n \in Nat \ {0}
      /\ a \in [1 .. m -> T] /\ b \in [1 .. n -> T] /\ c \in [1 .. m + n -> T]
  BY DEF Joins
<1>2. \A i \in 1 .. m + n : c[i] = IF i <= m THEN a[i] ELSE b[i - m]
  BY DEF Joins
<1>3. /\ c \in [1 .. m + n -> T]
      /\ \A i \in 1 .. m : c[i] = a[i]
      /\ \A i \in 1 .. n : c[m + i] = b[i]
  <2>1. \A i \in 1 .. m : i \in 1 .. m + n /\ i <= m
    BY <1>1
  <2>2. \A i \in 1 .. n : m + i \in 1 .. m + n /\ ~(m + i <= m) /\ (m + i) - m = i
    BY <1>1
  <2>3. ASSUME NEW i \in 1 .. n PROVE c[m + i] = b[i]
    <3>1. c[m + i] = b[(m + i) - m]
      BY <2>2, <1>2
    <3> QED BY <2>2, <3>1
  <2> QED BY <2>1, <2>3, <1>2, <1>1
<1>4. \A x, y, z \in T : (x \o y) \o z = x \o (y \o z)
  BY ONLY Monoid(T), Zenon DEF Monoid
<1>5. PICK f \in [1 .. m -> T] : Flattens(f, a, m)
  BY <1>1, FlattensExists
<1>6. PICK g \in [1 .. n -> T] : Flattens(g, b, n)
  BY <1>1, FlattensExists
<1>7. FlattenSeq(a) = f[m] /\ FlattenSeq(b) = g[n]
  BY <1>5, <1>6, <1>1, FlattenIs
<1> DEFINE h == [i \in 1 .. m + n |-> IF i <= m THEN f[i] ELSE f[m] \o g[i - m]]
<1>8. /\ \A i \in 1 .. m : h[i] = f[i]
      /\ \A i \in 1 .. n : h[m + i] = f[m] \o g[i]
  <2>1. m \in Nat /\ n \in Nat
    BY <1>1
  <2>2. ASSUME NEW i \in 1 .. n PROVE m + i \in 1 .. m + n /\ ~(m + i <= m) /\ (m + i) - m = i
    BY ONLY <2>1
  <2>3. ASSUME NEW i \in 1 .. n PROVE h[m + i] = f[m] \o g[i]
    <3>1. h[m + i] = f[m] \o g[(m + i) - m]
      BY ONLY <2>2
    <3> HIDE DEF h
    <3> QED BY ONLY <2>2, <3>1
  <2>4. ASSUME NEW i \in 1 .. m PROVE h[i] = f[i]
    BY ONLY <2>1, <2>4
  <2> QED BY ONLY <2>3, <2>4
<1> HIDE DEF h
<1>9. \A i \in 1 .. n : f[m] \in T /\ g[i] \in T /\ b[i] \in T
  BY <1>1
<1>10. Flattens(h, c, m + n)
  <2> SUFFICES ASSUME NEW i \in 1 .. m + n
               PROVE  h[i] = IF i = 1 THEN c[i] ELSE h[i - 1] \o c[i]
    BY DEF Flattens
  <2>1. CASE i <= m
    <3>1. i \in 1 .. m /\ (i # 1 => i - 1 \in 1 .. m)
      BY ONLY <2>1, <1>1, i \in 1 .. m + n
    <3>2. c[i] = a[i] /\ h[i] = f[i] /\ (i # 1 => h[i - 1] = f[i - 1])
      BY ONLY <3>1, <1>8, <1>3
    <3>3. f[i] = IF i = 1 THEN a[i] ELSE f[i - 1] \o a[i]
      BY ONLY <1>5, <3>1 DEF Flattens
    <3> QED BY ONLY <3>2, <3>3
  <2>2. CASE i > m
    <3>1. PICK k \in 1 .. n : i = m + k
      <4>1. i - m \in 1 .. n /\ i = m + (i - m)
        BY ONLY <2>2, <1>1, i \in 1 .. m + n
      <4> QED BY <4>1
    <3>2. c[i] = b[k] /\ i # 1 /\ h[i] = f[m] \o g[k]
      <4>1. c[m + k] = b[k] /\ h[m + k] = f[m] \o g[k]
        BY ONLY <3>1, <1>8, <1>3
      <4>2. i # 1
        BY ONLY <3>1, <1>1
      <4> QED BY ONLY <3>1, <4>1, <4>2, Zenon
    <3>3. g[k] = IF k = 1 THEN b[k] ELSE g[k - 1] \o b[k]
      BY ONLY <1>6, <3>1 DEF Flattens
    <3>4. CASE k = 1
      <4>1. i - 1 = m /\ m \in 1 .. m
        BY ONLY <3>1, <3>4, <1>1
      <4>2. h[i - 1] = f[m]
        BY ONLY <4>1, <1>8
      <4> QED BY ONLY <3>2, <3>3, <3>4, <4>2
    <3>5. CASE k # 1
      <4>1. k - 1 \in 1 .. n /\ i - 1 = m + (k - 1)
        BY ONLY <3>1, <3>5, <1>1
      <4>2. h[i - 1] = f[m] \o g[k - 1]
        BY ONLY <4>1, <1>8
      <4>3. f[m] \in T /\ g[k - 1] \in T /\ b[k] \in T
        BY ONLY <1>9, <4>1, <3>1
      <4>4. (f[m] \o g[k - 1]) \o b[k] = f[m] \o (g[k - 1] \o b[k])
        BY ONLY <4>3, <1>4
      <4> QED BY ONLY <3>2, <3>3, <3>5, <4>2, <4>4
    <3> QED BY <3>4, <3>5
  <2>3. i <= m \/ i > m
    BY <1>1
  <2> QED BY <2>1, <2>2, <2>3
<1>11. FlattenSeq(c) = h[m + n]
  <2>1. m + n \in Nat \ {0} /\ c \in [1 .. m + n -> T]
    BY <1>1
  <2> QED BY ONLY <1>10, <2>1, Monoid(T), FlattenIs
<1>12. h[m + n] = f[m] \o g[n]
  <2>1. n \in 1 .. n
    BY <1>1
  <2> QED BY ONLY <1>8, <2>1
<1> QED BY ONLY <1>7, <1>11, <1>12

\* The same of a concatenation.
LEMMA FlattenConcat ==
    ASSUME NEW T, Monoid(T),
           NEW a, a \in Seq(T), NEW b, b \in Seq(T)
    PROVE  FlattenSeq(a \o b) = FlattenSeq(a) \o FlattenSeq(b)
<1>1. FlattenSeq(a) \in T /\ FlattenSeq(b) \in T
  BY FlattenType
<1>2. CASE a = <<>>
  <2>1. a \o b = b
    BY <1>2
  <2> QED BY <1>1, <1>2, <2>1, FlattenEmpty DEF Monoid
<1>3. CASE b = <<>>
  <2>1. a \o b = a
    BY <1>3
  <2> QED BY <1>1, <1>3, <2>1, FlattenEmpty DEF Monoid
<1>4. CASE a # <<>> /\ b # <<>>
  <2> DEFINE c == a \o b
             m == Len(a)
             n == Len(b)
  <2>1. /\ m \in Nat \ {0} /\ n \in Nat \ {0}
        /\ c \in Seq(T) /\ Len(c) = m + n
        /\ \A i \in 1 .. m + n : c[i] = IF i <= m THEN a[i] ELSE b[i - m]
    BY <1>4
  <2>2. a \in [1 .. m -> T] /\ b \in [1 .. n -> T] /\ c \in [1 .. m + n -> T]
    <3> HIDE DEF c
    <3> QED BY <2>1, SeqAsFunction
  <2> HIDE DEF c, m, n
  <2>3. Joins(T, a, b, m, n, c)
    BY ONLY <2>1, <2>2 DEF Joins
  <2>4. FlattenSeq(c) = FlattenSeq(a) \o FlattenSeq(b)
    BY <2>3, FlattenJoin
  <2> QED BY <2>4 DEF c
<1> QED BY <1>2, <1>3, <1>4

\* The first part comes first, then the rest flattened.
LEMMA FlattenTail ==
    ASSUME NEW T, Monoid(T), NEW seqs, seqs \in Seq(T), seqs # <<>>
    PROVE  /\ Head(seqs) \in T /\ Tail(seqs) \in Seq(T)
           /\ FlattenSeq(seqs) = Head(seqs) \o FlattenSeq(Tail(seqs))
<1> DEFINE h == Head(seqs)
           t == Tail(seqs)
           o == <<h>>
<1>1. seqs = o \o t /\ h \in T /\ t \in Seq(T) /\ o \in Seq(T)
  OBVIOUS
<1>2. FlattenSeq(o) = h
  BY <1>1, FlattenOne
<1> HIDE DEF h, t, o
<1>3. FlattenSeq(seqs) = FlattenSeq(o) \o FlattenSeq(t)
  BY <1>1, FlattenConcat
<1> QED BY <1>1, <1>2, <1>3 DEF h, t

\* A part added at the end is added to what the others flatten to.
LEMMA FlattenAppend ==
    ASSUME NEW T, Monoid(T), NEW seqs, seqs \in Seq(T), NEW x, x \in T
    PROVE  /\ Append(seqs, x) \in Seq(T)
           /\ FlattenSeq(Append(seqs, x)) = FlattenSeq(seqs) \o x
<1> DEFINE o == <<x>>
<1>1. Append(seqs, x) = seqs \o o /\ o \in Seq(T) /\ Append(seqs, x) \in Seq(T)
  OBVIOUS
<1>2. FlattenSeq(o) = x
  BY FlattenOne
<1> HIDE DEF o
<1>3. FlattenSeq(seqs \o o) = FlattenSeq(seqs) \o FlattenSeq(o)
  BY <1>1, FlattenConcat
<1> QED BY <1>1, <1>2, <1>3

-----------------------------------------------------------------------------
(***************************************************************************)
(* Numbers, and the transfers of the endpoint writer.                      *)
(***************************************************************************)

\* The lesser of two integers.
LEMMA MinOfTwo ==
    ASSUME NEW a \in Int, NEW b \in Int
    PROVE  Min({a, b}) = IF a <= b THEN a ELSE b
<1>1. \E x \in {a, b} : \A y \in {a, b} : x =< y
  OBVIOUS
<1>2. Min({a, b}) \in {a, b} /\ \A y \in {a, b} : Min({a, b}) =< y
  BY <1>1 DEF Min
<1> QED BY <1>2

\* What a division leaves is less than the divisor.
LEMMA Quotient ==
    ASSUME NEW a \in Nat, NEW p \in Nat \ {0}
    PROVE  /\ a \div p \in Nat
           /\ (a \div p) * p <= a /\ a < (a \div p) * p + p
OBVIOUS

\* Multiples of a number keep the order of the factors.
LEMMA Multiples ==
    ASSUME NEW i \in Nat, NEW n \in Nat, i <= n, NEW p \in Nat
    PROVE  i * p <= n * p /\ i * p \in Nat
OBVIOUS

\* One factor less is one multiple less.
LEMMA Predecessor ==
    ASSUME NEW i \in Nat, NEW p \in Nat
    PROVE  (i - 1) * p = i * p - p
OBVIOUS

\* The endpoint writer cuts a flush into transfers (aoa.rs): none is empty, none
\* is longer than BULK_TRANSFER_SIZE, and in order they are what was written.
LEMMA PacketsFlatten ==
    ASSUME NEW all, all \in Seq(Nat)
    PROVE  /\ Packets(all) \in Seq(Seq(Nat))
           /\ FlattenSeq(Packets(all)) = all
           /\ \A i \in DOMAIN Packets(all) : Len(Packets(all)[i]) \in 1 .. PacketMax
<1> DEFINE n == (Len(all) + PacketMax - 1) \div PacketMax
           l == Len(all)
           end(i) == IF i * PacketMax <= l THEN i * PacketMax ELSE l
           f == [i \in 1 .. n |-> SubSeq(all, 1, end(i))]
           g == [i \in 1 .. n |-> SubSeq(all, (i - 1) * PacketMax + 1, end(i))]
<1>1. PacketMax \in Nat \ {0} /\ l \in Nat
  BY PacketsAssumption
<1>2. /\ n \in Nat /\ n * PacketMax <= l + PacketMax - 1
      /\ l + PacketMax - 1 < n * PacketMax + PacketMax
  <2> DEFINE a == l + PacketMax - 1
  <2>1. a \in Nat
    BY <1>1
  <2> HIDE DEF a
  <2>2. a \div PacketMax \in Nat /\ (a \div PacketMax) * PacketMax <= a
        /\ a < (a \div PacketMax) * PacketMax + PacketMax
    BY <1>1, <2>1, Quotient
  <2> QED BY <2>2 DEF a
<1> HIDE DEF n, l
<1>3. ASSUME NEW i \in 1 .. n
      PROVE  /\ (i - 1) * PacketMax \in Nat /\ i * PacketMax \in Nat
             /\ i * PacketMax = (i - 1) * PacketMax + PacketMax
             /\ (i - 1) * PacketMax + 1 <= l
             /\ Min({i * PacketMax, l}) = end(i)
             /\ end(i) \in (i - 1) * PacketMax + 1 .. l
             /\ end(i) - (i - 1) * PacketMax <= PacketMax
             /\ i > 1 => i - 1 \in 1 .. n /\ end(i - 1) = (i - 1) * PacketMax
             /\ i = n => end(i) = l
             /\ i = 1 => (i - 1) * PacketMax = 0
  <2>1. /\ (i - 1) * PacketMax \in Nat /\ i * PacketMax \in Nat
        /\ i * PacketMax = (i - 1) * PacketMax + PacketMax
        /\ i * PacketMax <= n * PacketMax /\ n * PacketMax \in Nat
    <3>1. i - 1 \in Nat /\ i \in Nat /\ i <= n
      BY <1>2
    <3> QED BY <1>1, <1>2, <3>1, Multiples, Predecessor
  <2>2. (i - 1) * PacketMax + 1 <= l
    BY <1>1, <1>2, <2>1
  <2>3. Min({i * PacketMax, l}) = end(i)
    BY <1>1, <2>1, MinOfTwo
  <2>4. i = n => end(i) = l
    BY <1>1, <1>2, <2>1
  <2>5. i = 1 => (i - 1) * PacketMax = 0
    BY <1>1
  <2>6. /\ end(i) \in (i - 1) * PacketMax + 1 .. l
        /\ end(i) - (i - 1) * PacketMax <= PacketMax
    BY <1>1, <2>1, <2>2
  <2>7. i > 1 => i - 1 \in 1 .. n /\ end(i - 1) = (i - 1) * PacketMax
    BY <1>1, <1>2, <2>1, <2>2
  <2> QED BY <2>1, <2>2, <2>3, <2>4, <2>5, <2>6, <2>7
<1>4. Packets(all) = g
  BY <1>3 DEF Packets, n, l
<1> HIDE DEF end
<1>5. \A i \in 1 .. n : /\ SubSeq(all, 1, end(i)) \in Seq(Nat)
                        /\ SubSeq(all, (i - 1) * PacketMax + 1, end(i)) \in Seq(Nat)
                        /\ Len(SubSeq(all, (i - 1) * PacketMax + 1, end(i)))
                              = end(i) - (i - 1) * PacketMax
  <2> TAKE i \in 1 .. n
  <2>1. \A k \in 1 .. l : all[k] \in Nat
    BY DEF l
  <2>2. /\ (i - 1) * PacketMax \in Nat
        /\ end(i) \in (i - 1) * PacketMax + 1 .. l
    BY <1>3
  <2> DEFINE s == (i - 1) * PacketMax
             e == end(i)
  <2>3. s \in Nat /\ e \in s + 1 .. l
    BY <2>2
  <2> HIDE DEF s, e
  <2>4. /\ \A k \in s + 1 .. e : all[k] \in Nat
        /\ \A k \in 1 .. e : all[k] \in Nat
    BY <2>1, <2>3, <1>1
  <2>5. SubSeq(all, s + 1, e) \in Seq(Nat) /\ Len(SubSeq(all, s + 1, e)) = e - s
    <3>1. s + 1 \in Int /\ e \in Int /\ s + 1 <= e /\ e - (s + 1) + 1 = e - s
      BY <2>3, <1>1
    <3> QED BY <3>1, <2>4, SubSeqProperties
  <2>6. SubSeq(all, 1, e) \in Seq(Nat)
    <3>1. e \in Int
      BY <2>3, <1>1
    <3> QED BY <3>1, <2>4, SubSeqProperties
  <2> QED BY <2>5, <2>6 DEF s, e
<1>6. f \in [1 .. n -> Seq(Nat)] /\ g \in [1 .. n -> Seq(Nat)]
  BY <1>5
<1>7. Flattens(f, g, n)
  <2> SUFFICES ASSUME NEW i \in 1 .. n
               PROVE  f[i] = IF i = 1 THEN g[i] ELSE f[i - 1] \o g[i]
    BY DEF Flattens
  <2>1. CASE i = 1
    <3>1. (i - 1) * PacketMax + 1 = 1
      BY ONLY <1>1, <2>1
    <3> QED BY <2>1, <3>1
  <2>2. CASE i # 1
    <3>1. i > 1 /\ i - 1 \in 1 .. n
      BY <2>2, <1>2
    <3> DEFINE s == (i - 1) * PacketMax
               e == end(i)
    <3>2. s \in Nat /\ e \in s + 1 .. l /\ end(i - 1) = s
      BY <1>3, <3>1
    <3>3. f[i] = SubSeq(all, 1, e) /\ f[i - 1] = SubSeq(all, 1, s) /\ g[i] = SubSeq(all, s + 1, e)
      BY <3>1, <3>2
    <3> HIDE DEF s, e, f, g
    <3>4. SubSeq(all, 1, s) \o SubSeq(all, s + 1, e) = SubSeq(all, 1, e)
      <4>1. 1 \in 1 .. Len(all) + 1 /\ s \in 1 - 1 .. Len(all) /\ e \in s .. Len(all)
        BY <3>2, <1>1 DEF l
      <4> QED BY <4>1, ConcatAdjacentSubSeq
    <3> QED BY <2>2, <3>3, <3>4
  <2> QED BY <2>1, <2>2
<1>8. CASE n = 0
  <2>1. l = 0 /\ g = <<>>
    BY <1>8, <1>1, <1>2
  <2>2. all = <<>>
    BY <2>1 DEF l
  <2>3. <<>> \in Seq(Seq(Nat)) /\ DOMAIN <<>> = {}
    OBVIOUS
  <2> HIDE DEF g
  <2> QED BY <1>4, <2>1, <2>2, <2>3, FlattenEmpty
<1>9. CASE n # 0
  <2>1. n \in Nat \ {0} /\ n \in 1 .. n
    BY <1>2, <1>9
  <2>2. Monoid(Seq(Nat))
    BY SeqMonoid
  <2>3. FlattenSeq(g) = f[n]
    <3> HIDE DEF f, g
    <3> QED BY <1>6, <1>7, <2>1, <2>2, FlattenIs
  <2>4. f[n] = SubSeq(all, 1, l)
    BY <1>3, <2>1
  <2>5. SubSeq(all, 1, l) = all
    BY SubSeqFull DEF l
  <2>6. g \in Seq(Seq(Nat)) /\ DOMAIN g = 1 .. n
    <3> HIDE DEF g
    <3> DEFINE T == Seq(Nat)
    <3>1. g \in [1 .. n -> T] /\ n \in Nat
      BY <1>6, <2>1
    <3> HIDE DEF T
    <3>2. g \in Seq(T)
      BY <3>1
    <3> QED BY <3>1, <3>2 DEF T
  <2>7. \A i \in 1 .. n : Len(g[i]) \in 1 .. PacketMax
    <3> TAKE i \in 1 .. n
    <3>1. Len(g[i]) = end(i) - (i - 1) * PacketMax
      BY <1>5
    <3>2. /\ (i - 1) * PacketMax \in Nat
          /\ end(i) \in (i - 1) * PacketMax + 1 .. l
          /\ end(i) - (i - 1) * PacketMax <= PacketMax
      BY <1>3
    <3> HIDE DEF g
    <3> DEFINE s == (i - 1) * PacketMax
               e == end(i)
    <3>3. s \in Nat /\ e \in s + 1 .. l /\ e - s <= PacketMax /\ Len(g[i]) = e - s
      BY <3>1, <3>2
    <3> HIDE DEF s, e
    <3> QED BY <3>3, <1>1
  <2> HIDE DEF f, g
  <2> QED BY <1>4, <2>3, <2>4, <2>5, <2>6, <2>7
<1> QED BY <1>8, <1>9

-----------------------------------------------------------------------------
(***************************************************************************)
(* The messages (messages.rs).                                             *)
(***************************************************************************)

\* The ping the host measures the clocks with.
Ping == [kind |-> "ClockPing", fields |-> <<PingAt>>]

\* What the host ever sends.
HostMessages ==
    Offers
    \cup [kind : {"VideoConfig"}, codec : Nat, sps_pps : Seq(Nat)]
    \cup [kind : {"Video"}, pts : Nat, keyframe : BOOLEAN, nal : Seq(Nat)]
    \cup {Ping, Heartbeat, Bye}

\* The tags of the messages (messages.rs).
LEMMA Tags ==
    /\ Tag["Handshake"] = 1 /\ Tag["VideoConfig"] = 2 /\ Tag["Video"] = 3
    /\ Tag["Touch"] = 4 /\ Tag["Control"] = 5 /\ Tag["ClockPing"] = 6
    /\ Tag["ClockPong"] = 7 /\ Tag["Stats"] = 8 /\ Tag["Scroll"] = 9
BY DEF Tag

\* The messages of a fixed size, and their fields.
LEMMA FieldCounts ==
    /\ DOMAIN Fields = {"Control", "ClockPing", "ClockPong", "Stats", "Scroll", "Touch"}
    /\ Fields["Control"] = 1 /\ Fields["ClockPing"] = 1 /\ Fields["ClockPong"] = 3
    /\ Fields["Stats"] = 4 /\ Fields["Scroll"] = 2 /\ Fields["Touch"] = 3
BY DEF Fields

\* A payload of the right size decodes to its fields, a touch to clamped ones.
LEMMA DecodeFixed ==
    ASSUME NEW kind \in {"Control", "ClockPing", "ClockPong", "Stats", "Scroll", "Touch"},
           NEW p, p \in Seq(Int), Len(p) = Fields[kind]
    PROVE  Decode(Tag[kind], p) =
              IF kind # "Touch" THEN [kind |-> kind, fields |-> p]
              ELSE IF NotFinite \in {p[2], p[3]} THEN Refused("Decode")
              ELSE [kind |-> kind, fields |-> <<p[1], Clamp(p[2]), Clamp(p[3])>>]
<1>1. /\ Tag[kind] # Tag["Handshake"] /\ Tag[kind] # Tag["VideoConfig"] /\ Tag[kind] # Tag["Video"]
      /\ kind \in DOMAIN Fields
      /\ \A k \in DOMAIN Fields : Tag[k] = Tag[kind] => k = kind
  <2>1. \A k \in DOMAIN Fields :
            \/ k = "Control" /\ Tag[k] = 5
            \/ k = "ClockPing" /\ Tag[k] = 6
            \/ k = "ClockPong" /\ Tag[k] = 7
            \/ k = "Stats" /\ Tag[k] = 8
            \/ k = "Scroll" /\ Tag[k] = 9
            \/ k = "Touch" /\ Tag[k] = 4
    BY Tags, FieldCounts
  <2>2. kind \in DOMAIN Fields
    BY FieldCounts
  <2>3. ASSUME NEW k \in DOMAIN Fields, Tag[k] = Tag[kind] PROVE k = kind
    BY <2>1, <2>2, <2>3
  <2>4. Tag[kind] \in 4 .. 9
    BY <2>1, <2>2
  <2>5. /\ Tag[kind] # 1 /\ Tag[kind] # 2 /\ Tag[kind] # 3
    BY ONLY <2>4
  <2> QED BY <2>2, <2>3, <2>5, Tags, Zenon
<1>2. (CHOOSE k \in DOMAIN Fields : Tag[kind] = Tag[k]) = kind
  BY <1>1
<1>3. \E k \in DOMAIN Fields : Tag[kind] = Tag[k]
  BY <1>1
<1>4. Fields[kind] \in Nat
  BY FieldCounts
<1> QED BY <1>1, <1>2, <1>3, <1>4 DEF Decode

\* How the payloads of a variable size decode.
LEMMA DecodeCases ==
    ASSUME NEW p, p \in Seq(Nat)
    PROVE  /\ Len(p) >= 4 =>
                Decode(1, p) = [kind |-> "Handshake", version |-> p[1], width |-> p[2], height |-> p[3],
                                hz |-> p[4], codecs |-> SubSeq(p, 5, Len(p))]
           /\ p # <<>> => Decode(2, p) = [kind |-> "VideoConfig", codec |-> p[1], sps_pps |-> Tail(p)]
           /\ Len(p) >= 2 =>
                Decode(3, p) = [kind |-> "Video", pts |-> p[1], keyframe |-> p[2] # 0,
                                nal |-> SubSeq(p, 3, Len(p))]
<1>1. /\ Tag["VideoConfig"] # Tag["Handshake"] /\ Tag["Video"] # Tag["Handshake"]
      /\ Tag["Video"] # Tag["VideoConfig"]
      /\ \A kind \in DOMAIN Fields :
            Tag[kind] \notin {Tag["Handshake"], Tag["VideoConfig"], Tag["Video"]}
  BY Tags, FieldCounts
<1>2. Decode(Tag["Handshake"], p) = IF Len(p) < 4 THEN Refused("Decode")
            ELSE [kind |-> "Handshake", version |-> p[1], width |-> p[2], height |-> p[3],
                  hz |-> p[4], codecs |-> SubSeq(p, 5, Len(p))]
  BY <1>1 DEF Decode
<1>3. Decode(Tag["VideoConfig"], p) = IF p = <<>> THEN Refused("Decode")
            ELSE [kind |-> "VideoConfig", codec |-> p[1], sps_pps |-> Tail(p)]
  BY <1>1 DEF Decode
<1>4. Decode(Tag["Video"], p) = IF Len(p) < VideoHeaderLen THEN Refused("ShortVideoHeader")
            ELSE [kind |-> "Video", pts |-> p[1], keyframe |-> p[2] # 0,
                  nal |-> SubSeq(p, VideoHeaderLen + 1, Len(p))]
  BY <1>1 DEF Decode
<1>5. Len(p) >= 4 => ~(Len(p) < 4)
  OBVIOUS
<1> QED BY <1>2, <1>3, <1>4, Tags DEF VideoHeaderLen

\* from_tag_payload gives back the handshake that to_tag_payload encoded.
LEMMA DecodesHandshake ==
    ASSUME NEW m \in Offers
    PROVE  /\ ToTagPayload(m)[1] = 1 /\ ToTagPayload(m)[2] \in Seq(Nat)
           /\ Decode(ToTagPayload(m)[1], ToTagPayload(m)[2]) = m
<1> DEFINE h == <<m.version, m.width, m.height, m.hz>>
           p == h \o m.codecs
<1>1. /\ h \in Seq(Nat) /\ Len(h) = 4 /\ m.codecs \in Seq(Nat)
      /\ m.kind = "Handshake"
  BY DEF Offers
<1>2. ToTagPayload(m)[1] = 1 /\ ToTagPayload(m)[2] = p
  BY <1>1, Tags DEF ToTagPayload
<1>3. p \in Seq(Nat) /\ Len(p) = 4 + Len(m.codecs) /\ Len(m.codecs) \in Nat
  BY <1>1
<1>4. p[1] = m.version /\ p[2] = m.width /\ p[3] = m.height /\ p[4] = m.hz
  BY <1>1
<1>5. SubSeq(p, 5, Len(p)) = m.codecs
  <2> DEFINE c == m.codecs
             s == SubSeq(p, 5, Len(p))
  <2>1. p = h \o c /\ h \in Seq(Nat) /\ c \in Seq(Nat)
    BY <1>1
  <2> HIDE DEF h, c, p
  <2>2. \A j \in 1 .. Len(c) : p[Len(h) + j] = c[j]
    BY ONLY <2>1, CatAt
  <2>3. /\ Len(p) = 4 + Len(c) /\ Len(c) \in Nat /\ 5 \in Int /\ Len(p) \in Int
        /\ \A i \in 5 .. Len(p) : p[i] \in Nat
    BY <1>3 DEF c
  <2>4. /\ s \in Seq(Nat) /\ Len(s) = IF 5 <= Len(p) THEN Len(p) - 5 + 1 ELSE 0
        /\ \A i \in 1 .. Len(p) - 5 + 1 : s[i] = p[5 + i - 1]
    BY ONLY <2>3, SubSeqProperties
  <2> HIDE DEF s
  <2>5. Len(s) = Len(c)
    BY ONLY <2>3, <2>4
  <2>6. ASSUME NEW i \in 1 .. Len(s) PROVE s[i] = c[i]
    <3>1. i \in 1 .. Len(c) /\ i \in 1 .. Len(p) - 5 + 1 /\ 5 + i - 1 = 4 + i
      BY ONLY <2>3, <2>5, i \in 1 .. Len(s)
    <3>2. Len(h) = 4
      BY <1>1
    <3>3. s[i] = p[5 + i - 1] /\ p[4 + i] = c[i]
      BY ONLY <2>2, <2>4, <3>1, <3>2
    <3> QED BY ONLY <3>1, <3>3
  <2>7. s = c
    BY ONLY <2>1, <2>4, <2>5, <2>6, SeqEqual
  <2> QED BY <2>7 DEF s, c
<1> HIDE DEF p
<1>6. Decode(1, p) = [kind |-> "Handshake", version |-> p[1], width |-> p[2], height |-> p[3],
                      hz |-> p[4], codecs |-> SubSeq(p, 5, Len(p))]
  <2>1. p \in Seq(Nat) /\ Len(p) >= 4
    BY ONLY <1>3
  <2> QED BY ONLY <2>1, DecodeCases
<1>7. m = [kind |-> "Handshake", version |-> m.version, width |-> m.width, height |-> m.height,
           hz |-> m.hz, codecs |-> m.codecs]
  BY DEF Offers
<1> QED BY <1>2, <1>3, <1>4, <1>5, <1>6, <1>7

\* The same of a codec configuration.
LEMMA DecodesConfig ==
    ASSUME NEW m \in [kind : {"VideoConfig"}, codec : Nat, sps_pps : Seq(Nat)]
    PROVE  /\ ToTagPayload(m)[1] = 2 /\ ToTagPayload(m)[2] \in Seq(Nat)
           /\ Decode(ToTagPayload(m)[1], ToTagPayload(m)[2]) = m
<1> DEFINE p == <<m.codec>> \o m.sps_pps
<1>1. ToTagPayload(m)[1] = 2 /\ ToTagPayload(m)[2] = p
  BY Tags DEF ToTagPayload
<1>2. p \in Seq(Nat) /\ p # <<>> /\ p[1] = m.codec /\ Tail(p) = m.sps_pps
  OBVIOUS
<1> HIDE DEF p
<1>3. Decode(2, p) = [kind |-> "VideoConfig", codec |-> p[1], sps_pps |-> Tail(p)]
  BY <1>2, DecodeCases
<1>4. m = [kind |-> "VideoConfig", codec |-> m.codec, sps_pps |-> m.sps_pps]
  OBVIOUS
<1> QED BY <1>1, <1>2, <1>3, <1>4

\* The same of a picture, its time stamp and its keyframe flag.
LEMMA DecodesVideo ==
    ASSUME NEW m \in [kind : {"Video"}, pts : Nat, keyframe : BOOLEAN, nal : Seq(Nat)]
    PROVE  /\ ToTagPayload(m)[1] = 3 /\ ToTagPayload(m)[2] \in Seq(Nat)
           /\ Decode(ToTagPayload(m)[1], ToTagPayload(m)[2]) = m
<1> DEFINE b == IF m.keyframe THEN 1 ELSE 0
           p == <<m.pts, b>> \o m.nal
<1>1. ToTagPayload(m)[1] = 3 /\ ToTagPayload(m)[2] = p
  BY Tags DEF ToTagPayload
<1>2. b \in Nat /\ m.keyframe = (b # 0)
  OBVIOUS
<1> HIDE DEF b
<1>3. /\ p \in Seq(Nat) /\ Len(p) = 2 + Len(m.nal) /\ Len(m.nal) \in Nat
      /\ p[1] = m.pts /\ p[2] = b
      /\ SubSeq(p, 3, Len(p)) = m.nal
  BY <1>2
<1> HIDE DEF p
<1>4. Decode(3, p) = [kind |-> "Video", pts |-> p[1], keyframe |-> p[2] # 0,
                      nal |-> SubSeq(p, 3, Len(p))]
  <2>1. p \in Seq(Nat) /\ Len(p) >= 2
    BY ONLY <1>3
  <2> QED BY ONLY <2>1, DecodeCases
<1>5. m = [kind |-> "Video", pts |-> m.pts, keyframe |-> m.keyframe, nal |-> m.nal]
  OBVIOUS
<1> QED BY <1>1, <1>2, <1>3, <1>4, <1>5

\* The same of the messages that have a fixed size.
LEMMA DecodesControl ==
    ASSUME NEW m \in {Ping, Heartbeat, Bye}
    PROVE  /\ ToTagPayload(m)[1] \in Nat \ {0} /\ ToTagPayload(m)[2] \in Seq(Nat)
           /\ Decode(ToTagPayload(m)[1], ToTagPayload(m)[2]) = m
<1>1. PICK kind \in {"Control", "ClockPing"}, x \in Nat : m = [kind |-> kind, fields |-> <<x>>]
  BY DEF Ping, Heartbeat, Bye, PingAt
<1>2. ToTagPayload(m)[1] = Tag[kind] /\ ToTagPayload(m)[2] = <<x>>
  BY <1>1 DEF ToTagPayload
<1>3. Tag[kind] \in Nat \ {0} /\ Fields[kind] = 1
  BY Tags, FieldCounts
<1>4. Decode(Tag[kind], <<x>>) = [kind |-> kind, fields |-> <<x>>]
  <2>1. <<x>> \in Seq(Int) /\ Len(<<x>>) = Fields[kind]
    BY <1>3
  <2> QED BY <2>1, DecodeFixed
<1>5. ToTagPayload(m)[2] \in Seq(Nat)
  BY <1>2
<1> QED BY <1>1, <1>2, <1>3, <1>4, <1>5, Zenon

\* Whatever the host sends, the phone decodes to what was sent.
LEMMA MessagesDecode ==
    ASSUME NEW m \in HostMessages
    PROVE  /\ ToTagPayload(m)[1] \in Nat \ {0} /\ ToTagPayload(m)[2] \in Seq(Nat)
           /\ Decode(ToTagPayload(m)[1], ToTagPayload(m)[2]) = m
<1>1. \/ m \in Offers
      \/ m \in [kind : {"VideoConfig"}, codec : Nat, sps_pps : Seq(Nat)]
      \/ m \in [kind : {"Video"}, pts : Nat, keyframe : BOOLEAN, nal : Seq(Nat)]
      \/ m \in {Ping, Heartbeat, Bye}
  BY Zenon DEF HostMessages
<1>2. 1 \in Nat \ {0} /\ 2 \in Nat \ {0} /\ 3 \in Nat \ {0}
  OBVIOUS
<1> QED BY <1>1, <1>2, DecodesHandshake, DecodesConfig, DecodesVideo, DecodesControl, Zenon

-----------------------------------------------------------------------------
(***************************************************************************)
(* What the host reads of the phone's messages, and the negotiation.       *)
(***************************************************************************)

\* Min gives the least of some numbers.
LEMMA MinOfNats ==
    ASSUME NEW S, S \subseteq Nat, S # {}
    PROVE  Min(S) \in S /\ \A y \in S : Min(S) <= y
<1>1. \E x \in S : \A y \in S : x =< y
  BY LeastNat
<1> QED BY <1>1 DEF Min

\* A message of the phone's that the reader thread decodes, with a touch in range.
Heard(u) ==
    LET got == Decode(u[1], u[2])
    IN  /\ got.kind # "Error"
        /\ got.kind = "Touch" => {got.fields[2], got.fields[3]} \subseteq 0 .. 1

\* The host reads the phone's reply as the phone wrote it: its limits are the caps.
LEMMA ReplyHeard ==
    ASSUME NEW caps \in ClientCaps
    PROVE  /\ Heard(ToTagPayload(ReplyOf(caps)))
           /\ Decode(ToTagPayload(ReplyOf(caps))[1], ToTagPayload(ReplyOf(caps))[2]) = ReplyOf(caps)
           /\ CapsOf(ReplyOf(caps)) = caps
           /\ ReplyOf(caps).kind = "Handshake"
<1>1. ReplyOf(caps) \in Offers /\ ReplyOf(caps).kind = "Handshake"
  BY DEF ReplyOf, ClientCaps, Offers
<1>2. CapsOf(ReplyOf(caps)) = caps
  BY DEF CapsOf, ReplyOf, ClientCaps
<1>3. Decode(ToTagPayload(ReplyOf(caps))[1], ToTagPayload(ReplyOf(caps))[2]) = ReplyOf(caps)
  BY <1>1, DecodesHandshake
<1>4. Heard(ToTagPayload(ReplyOf(caps)))
  BY <1>1, <1>3 DEF Heard
<1> QED BY <1>1, <1>2, <1>3, <1>4

\* A pong with the three times.
PongOf(a, b, c) == [kind |-> "ClockPong", fields |-> <<a, b, c>>]

\* The host reads a pong as the phone wrote it.
LEMMA PongHeard ==
    ASSUME NEW a \in Int, NEW b \in Int, NEW c \in Int
    PROVE  /\ Heard(ToTagPayload(PongOf(a, b, c)))
           /\ Decode(ToTagPayload(PongOf(a, b, c))[1], ToTagPayload(PongOf(a, b, c))[2]) = PongOf(a, b, c)
<1> DEFINE p == <<a, b, c>>
<1>1. ToTagPayload(PongOf(a, b, c))[1] = Tag["ClockPong"] /\ ToTagPayload(PongOf(a, b, c))[2] = p
  BY DEF ToTagPayload, PongOf
<1>2. p \in Seq(Int) /\ Len(p) = Fields["ClockPong"]
  BY FieldCounts
<1> HIDE DEF p
<1>3. Decode(Tag["ClockPong"], p) = [kind |-> "ClockPong", fields |-> p]
  BY <1>2, DecodeFixed
<1> QED BY <1>1, <1>3 DEF Heard, PongOf, p

\* The host decodes whatever the phone reports.
LEMMA ReportHeard ==
    ASSUME NEW f, Reportable(f)
    PROVE  Heard(ToTagPayload(f))
<1>1. /\ f.kind \in {"Touch", "Scroll", "Stats"} /\ f.fields \in Seq(Int)
      /\ Len(f.fields) = Fields[f.kind]
      /\ f.kind = "Touch" => NotFinite \notin {f.fields[2], f.fields[3]}
  BY DEF Reportable
<1>2. ToTagPayload(f)[1] = Tag[f.kind] /\ ToTagPayload(f)[2] = f.fields
  BY <1>1 DEF ToTagPayload
<1> DEFINE p == f.fields
           kind == f.kind
<1>3. Decode(Tag[kind], p) =
            IF kind # "Touch" THEN [kind |-> kind, fields |-> p]
            ELSE IF NotFinite \in {p[2], p[3]} THEN Refused("Decode")
            ELSE [kind |-> kind, fields |-> <<p[1], Clamp(p[2]), Clamp(p[3])>>]
  BY <1>1, DecodeFixed
<1>4. CASE kind = "Touch"
  <2>1. p[2] \in Int /\ p[3] \in Int
    BY <1>1, <1>4, FieldCounts
  <2>2. \A c \in Int : Clamp(c) \in 0 .. 1
    BY DEF Clamp
  <2>3. Decode(Tag[kind], p) = [kind |-> "Touch", fields |-> <<p[1], Clamp(p[2]), Clamp(p[3])>>]
    BY <1>1, <1>3, <1>4
  <2> HIDE DEF p, kind
  <2>4. {Clamp(p[2]), Clamp(p[3])} \subseteq 0 .. 1
    BY <2>1, <2>2
  <2> QED BY <1>2, <2>3, <2>4 DEF Heard, p, kind
<1>5. CASE kind # "Touch"
  <2>1. Decode(Tag[kind], p) = [kind |-> kind, fields |-> p] /\ kind # "Error"
    BY <1>1, <1>3, <1>5
  <2> QED BY <1>2, <1>5, <2>1 DEF Heard
<1> QED BY <1>4, <1>5

\* What SameAgreement says of a negotiated result.
Serves(result, offer, caps) ==
    /\ offer.version = caps.version
    /\ result[1] <= caps.max_width /\ result[2] <= caps.max_height
    /\ result[3] <= caps.max_hz /\ result[3] <= offer.hz
    /\ \E i \in DOMAIN offer.codecs :
          /\ offer.codecs[i] = result[4]
          /\ result[4] \in ToSet(caps.codecs)
          /\ \A j \in 1 .. i - 1 : offer.codecs[j] \notin ToSet(caps.codecs)

\* negotiate (messages.rs) gives what both peers can serve: a version they share,
\* a size and a rate within the phone's limits, the first offered codec it knows.
LEMMA NegotiateServes ==
    ASSUME NEW offer \in Offers, NEW caps \in ClientCaps
    PROVE  /\ Negotiate(offer, caps) # Nothing
           /\ Agreed(Negotiate(offer, caps)) => /\ Serves(Negotiate(offer, caps), offer, caps)
                                                /\ Negotiate(offer, caps)[4] \in Nat
<1> DEFINE I == {i \in 1 .. Len(offer.codecs) : offer.codecs[i] \in ToSet(caps.codecs)}
           common == IF I # {} THEN Min(I) ELSE 0
           result == <<offer.width, offer.height, Min({offer.hz, caps.max_hz}), offer.codecs[common]>>
<1>1. SelectInSeq(offer.codecs, LAMBDA c : c \in ToSet(caps.codecs)) = common
  BY DEF SelectInSeq
<1>2. I # {} => /\ Min(I) \in I /\ \A y \in I : Min(I) <= y
  <2>1. I \subseteq Nat
    OBVIOUS
  <2> HIDE DEF I
  <2> QED BY <2>1, MinOfNats
<1>3. /\ offer.version \in Nat /\ offer.width \in Nat /\ offer.height \in Nat /\ offer.hz \in Nat
      /\ offer.codecs \in Seq(Nat)
      /\ caps.version \in Nat /\ caps.max_width \in Nat /\ caps.max_height \in Nat /\ caps.max_hz \in Nat
      /\ caps.codecs \in Seq(Nat)
  BY DEF Offers, ClientCaps
<1>4. Negotiate(offer, caps) =
        IF offer.version # caps.version THEN <<"VersionMismatch">>
        ELSE IF common = 0 THEN <<"NoCommonCodec">>
        ELSE IF offer.width > caps.max_width \/ offer.height > caps.max_height
        THEN <<"ResolutionUnsupported">>
        ELSE result
  BY <1>1 DEF Negotiate
<1>5. Min({offer.hz, caps.max_hz}) <= caps.max_hz /\ Min({offer.hz, caps.max_hz}) <= offer.hz
  <2>1. Min({offer.hz, caps.max_hz}) = IF offer.hz <= caps.max_hz THEN offer.hz ELSE caps.max_hz
    <3>1. offer.hz \in Int /\ caps.max_hz \in Int
      BY <1>3
    <3> QED BY ONLY <3>1, MinOfTwo
  <2> QED BY <1>3, <2>1
<1> HIDE DEF common
<1>6. Negotiate(offer, caps) # Nothing
  BY <1>4 DEF Nothing
<1>7. ASSUME Agreed(Negotiate(offer, caps))
      PROVE  /\ Serves(Negotiate(offer, caps), offer, caps)
             /\ Negotiate(offer, caps)[4] \in Nat
  <2>1. /\ offer.version = caps.version /\ common # 0
        /\ ~(offer.width > caps.max_width \/ offer.height > caps.max_height)
        /\ Negotiate(offer, caps) = result
    BY <1>4, <1>7 DEF Agreed
  <2>2. I # {} /\ common = Min(I)
    BY <2>1 DEF common
  <2>3. common \in 1 .. Len(offer.codecs) /\ offer.codecs[common] \in ToSet(caps.codecs)
    BY <1>2, <2>2
  <2>4. \A j \in 1 .. common - 1 : offer.codecs[j] \notin ToSet(caps.codecs)
    <3> SUFFICES ASSUME NEW j \in 1 .. common - 1, offer.codecs[j] \in ToSet(caps.codecs)
                 PROVE  FALSE
      OBVIOUS
    <3>1. j \in 1 .. Len(offer.codecs)
      BY <2>3, <1>3
    <3>2. j \in I
      BY <3>1
    <3>3. common <= j
      BY <3>2, <1>2, <2>2
    <3> QED BY <2>3, <3>3, <1>3
  <2>5. DOMAIN offer.codecs = 1 .. Len(offer.codecs)
    BY <1>3
  <2>6. result[1] = offer.width /\ result[2] = offer.height
        /\ result[3] = Min({offer.hz, caps.max_hz}) /\ result[4] = offer.codecs[common]
    OBVIOUS
  <2>7. result[1] <= caps.max_width /\ result[2] <= caps.max_height
    <3>1. /\ offer.width \in Nat /\ offer.height \in Nat
          /\ caps.max_width \in Nat /\ caps.max_height \in Nat
      BY ONLY <1>3
    <3>2. ~(offer.width > caps.max_width) /\ ~(offer.height > caps.max_height)
      BY <2>1
    <3>3. offer.width <= caps.max_width /\ offer.height <= caps.max_height
      BY ONLY <3>1, <3>2
    <3>4. result[1] = offer.width /\ result[2] = offer.height
      BY <2>6
    <3> HIDE DEF result
    <3> QED BY ONLY <3>3, <3>4
  <2> HIDE DEF result, I
  <2>8. result[4] \in Nat
    <3>1. offer.codecs[common] \in Nat
      BY <1>3, <2>3, ElementOfSeq
    <3> QED BY <2>6, <3>1
  <2> QED BY <1>5, <2>1, <2>3, <2>4, <2>5, <2>6, <2>7, <2>8 DEF Serves
<1> QED BY <1>6, <1>7

-----------------------------------------------------------------------------
(***************************************************************************)
(* The frames on their way: from the writer through packets and reads to   *)
(* read_frame.                                                             *)
(***************************************************************************)

\* Three parts can be put together in either grouping.
LEMMA CatThree ==
    ASSUME NEW T, Monoid(T), NEW x \in T, NEW y \in T, NEW z \in T
    PROVE  Cat(x, Cat(y, z)) = Cat(Cat(x, y), z) /\ Cat(x, y) \in T
BY DEF Monoid, Cat

\* Nothing put in front or behind changes nothing.
LEMMA CatEmpty ==
    ASSUME NEW T, Monoid(T), NEW x \in T
    PROVE  <<>> \in T /\ Cat(x, <<>>) = x /\ Cat(<<>>, x) = x
BY DEF Monoid, Cat

\* What two lists flatten to, put together.
LEMMA FlattenCat ==
    ASSUME NEW T, Monoid(T), NEW a, a \in Seq(T), NEW b, b \in Seq(T)
    PROVE  /\ Cat(a, b) \in Seq(T) /\ FlattenSeq(a) \in T
           /\ FlattenSeq(Cat(a, b)) = Cat(FlattenSeq(a), FlattenSeq(b))
<1>1. a \o b \in Seq(T)
  OBVIOUS
<1>2. FlattenSeq(a \o b) = FlattenSeq(a) \o FlattenSeq(b)
  BY FlattenConcat
<1>3. FlattenSeq(a) \in T
  BY FlattenType
<1> QED BY <1>1, <1>2, <1>3 DEF Cat

\* The elements of two sequences put together.
LEMMA CatSeq ==
    ASSUME NEW S, NEW a \in Seq(S), NEW b \in Seq(S)
    PROVE  /\ Cat(a, b) \in Seq(S)
           /\ Len(Cat(a, b)) = Len(a) + Len(b)
           /\ \A i \in 1 .. Len(a) : Cat(a, b)[i] = a[i]
BY DEF Cat

\* Two equal sequences cut at the same place have equal parts.
LEMMA SplitEqual ==
    ASSUME NEW S, NEW a \in Seq(S), NEW b \in Seq(S), NEW c \in Seq(S), NEW d \in Seq(S),
           Cat(a, b) = Cat(c, d), Len(a) = Len(c)
    PROVE  a = c /\ b = d
<1>1. a \o b = c \o d
  BY DEF Cat
<1>2. Len(a \o b) = Len(a) + Len(b) /\ Len(c \o d) = Len(c) + Len(d)
  OBVIOUS
<1>3. Len(b) = Len(d)
  BY <1>1, <1>2
<1>4. ASSUME NEW i \in 1 .. Len(a) PROVE a[i] = c[i]
  <2>1. (a \o b)[i] = a[i] /\ (c \o d)[i] = c[i]
    OBVIOUS
  <2> QED BY <1>1, <2>1
<1>5. ASSUME NEW i \in 1 .. Len(b) PROVE b[i] = d[i]
  <2>1. (a \o b)[Len(a) + i] = b[i] /\ (c \o d)[Len(c) + i] = d[i]
    BY <1>3
  <2> QED BY <1>1, <2>1
<1>6. a = c
  BY <1>4, SeqEqual
<1>7. b = d
  BY <1>3, <1>5, SeqEqual
<1> QED BY <1>6, <1>7

\* write_frame (framing.rs): the tag, the length of the payload, the payload.
LEMMA FrameWritten ==
    ASSUME NEW m \in HostMessages
    PROVE  /\ WriteFrame(m) \in Seq(Nat) /\ ToTagPayload(m)[2] \in Seq(Nat)
           /\ WriteFrame(m) = Cat(<<ToTagPayload(m)[1], Len(ToTagPayload(m)[2])>>, ToTagPayload(m)[2])
           /\ WriteFrame(m)[1] = ToTagPayload(m)[1] /\ WriteFrame(m)[1] \in Nat \ {0}
           /\ WriteFrame(m)[2] = Len(ToTagPayload(m)[2])
           /\ Len(WriteFrame(m)) = 2 + Len(ToTagPayload(m)[2])
<1> DEFINE t == ToTagPayload(m)[1]
           p == ToTagPayload(m)[2]
<1>1. t \in Nat \ {0} /\ p \in Seq(Nat) /\ Len(p) \in Nat
  BY MessagesDecode
<1>2. WriteFrame(m) = Cat(<<t, Len(p)>>, p)
  BY DEF WriteFrame, Cat
<1> HIDE DEF t, p
<1>3. /\ Cat(<<t, Len(p)>>, p) \in Seq(Nat)
      /\ Cat(<<t, Len(p)>>, p)[1] = t /\ Cat(<<t, Len(p)>>, p)[2] = Len(p)
      /\ Len(Cat(<<t, Len(p)>>, p)) = 2 + Len(p)
  BY <1>1 DEF Cat
<1> QED BY <1>1, <1>2, <1>3 DEF t, p

\* Messages, framed, and the cells they are.
Frames(msgs) == [i \in DOMAIN msgs |-> WriteFrame(msgs[i])]
Stream(msgs) == FlattenSeq(Frames(msgs))

\* Frames are cells.
LEMMA FramesTyped ==
    ASSUME NEW msgs, msgs \in Seq(HostMessages)
    PROVE  Frames(msgs) \in Seq(Seq(Nat)) /\ Stream(msgs) \in Seq(Nat)
<1> DEFINE T == Seq(Nat)
<1>1. \A i \in DOMAIN msgs : WriteFrame(msgs[i]) \in T
  <2> TAKE i \in DOMAIN msgs
  <2>1. msgs[i] \in HostMessages
    OBVIOUS
  <2> QED BY <2>1, FrameWritten
<1>2. Monoid(T)
  BY SeqMonoid
<1> HIDE DEF T
<1>3. Frames(msgs) \in Seq(T)
  BY <1>1 DEF Frames
<1>4. Stream(msgs) \in T
  BY <1>2, <1>3, FlattenType DEF Stream
<1> QED BY <1>3, <1>4 DEF T

\* No messages are no cells.
LEMMA StreamEmpty == Stream(<<>>) = <<>>
<1>1. Frames(<<>>) = <<>>
  BY DEF Frames
<1> QED BY <1>1, FlattenEmpty DEF Stream

\* The cells of some messages begin with the frame of the first.
LEMMA StreamNext ==
    ASSUME NEW msgs, msgs \in Seq(HostMessages), msgs # <<>>
    PROVE  /\ Head(msgs) \in HostMessages /\ Tail(msgs) \in Seq(HostMessages)
           /\ Stream(msgs) = Cat(WriteFrame(Head(msgs)), Stream(Tail(msgs)))
<1> DEFINE T == Seq(Nat)
           s == Frames(msgs)
<1>1. Monoid(T) /\ s \in Seq(T)
  BY SeqMonoid, FramesTyped
<1>2. /\ Head(msgs) \in HostMessages /\ Tail(msgs) \in Seq(HostMessages)
      /\ s # <<>> /\ Head(s) = WriteFrame(Head(msgs)) /\ Tail(s) = Frames(Tail(msgs))
  BY DEF Frames
<1> HIDE DEF T, s
<1>3. FlattenSeq(s) = Head(s) \o FlattenSeq(Tail(s))
  BY <1>1, <1>2, FlattenTail
<1> QED BY <1>2, <1>3 DEF Stream, Cat, s

\* The cells of one message more are those of its frame more.
LEMMA StreamAppend ==
    ASSUME NEW msgs, msgs \in Seq(HostMessages), NEW m \in HostMessages
    PROVE  /\ Append(msgs, m) \in Seq(HostMessages)
           /\ Stream(Append(msgs, m)) = Cat(Stream(msgs), WriteFrame(m))
<1> DEFINE T == Seq(Nat)
           s == Frames(msgs)
<1>1. Monoid(T) /\ s \in Seq(T) /\ WriteFrame(m) \in T
  BY SeqMonoid, FramesTyped, FrameWritten
<1>2. Append(msgs, m) \in Seq(HostMessages) /\ Frames(Append(msgs, m)) = Append(s, WriteFrame(m))
  BY DEF Frames
<1> HIDE DEF T, s
<1>3. FlattenSeq(Append(s, WriteFrame(m))) = FlattenSeq(s) \o WriteFrame(m)
  BY <1>1, FlattenAppend
<1> QED BY <1>2, <1>3 DEF Stream, Cat, s

\* The cells of the frame that read_frame is in.
Begun(fr) ==
    IF fr.tag = 0 THEN fr.cells ELSE Cat(<<fr.tag, fr.want + Len(fr.cells)>>, fr.cells)

\* What read_frame waits for: the rest of a header or of a payload.
WellFormed(fr) ==
    /\ fr \in [tag : Nat, want : Nat \ {0}, cells : Seq(Nat)]
    /\ fr.tag = 0 => Len(fr.cells) + fr.want = HeaderLen

\* The cells that read_frame has not seen.
Pending(rb, us) == Cat(rb, FlattenSeq(us))

\* The central relation: what read_frame has of its frame, what is left of its
\* last read and what the packets hold are the frames of these messages.
Wire(fr, rb, us, msgs) ==
    /\ WellFormed(fr)
    /\ rb \in Seq(Nat) /\ us \in Seq(Seq(Nat)) /\ msgs \in Seq(HostMessages)
    /\ Cat(Begun(fr), Pending(rb, us)) = Stream(msgs)

\* What was read is cells.
LEMMA BegunTyped ==
    ASSUME NEW fr, WellFormed(fr)
    PROVE  Begun(fr) \in Seq(Nat)
<1>1. fr.cells \in Seq(Nat) /\ fr.tag \in Nat /\ fr.want + Len(fr.cells) \in Nat
  BY DEF WellFormed
<1> QED BY <1>1 DEF Begun, Cat

\* Writing some messages more leaves all of them on their way.
LEMMA WireSend ==
    ASSUME NEW fr, NEW rb, NEW us, NEW msgs, Wire(fr, rb, us, msgs),
           NEW cells, cells \in Seq(Nat), NEW next, next \in Seq(HostMessages),
           Stream(next) = Cat(Stream(msgs), cells)
    PROVE  Wire(fr, rb, Cat(us, Packets(cells)), next)
<1> DEFINE T == Seq(Nat)
           p == Packets(cells)
           x == Begun(fr)
           f == FlattenSeq(us)
<1>1. /\ WellFormed(fr) /\ rb \in T /\ us \in Seq(T)
      /\ Cat(x, Cat(rb, f)) = Stream(msgs)
  BY DEF Wire, Pending
<1>2. p \in Seq(T) /\ FlattenSeq(p) = cells /\ cells \in T /\ x \in T
  BY <1>1, PacketsFlatten, BegunTyped
<1>3. Monoid(T)
  BY SeqMonoid
<1> HIDE DEF T, p
<1>4. Cat(us, p) \in Seq(T) /\ FlattenSeq(Cat(us, p)) = Cat(f, cells) /\ f \in T
  BY <1>1, <1>2, <1>3, FlattenCat
<1> HIDE DEF x, f
<1>5. Cat(x, Cat(rb, Cat(f, cells))) = Cat(Cat(x, Cat(rb, f)), cells)
  <2>1. Cat(rb, Cat(f, cells)) = Cat(Cat(rb, f), cells) /\ Cat(rb, f) \in T
    BY <1>1, <1>2, <1>3, <1>4, CatThree
  <2>2. Cat(x, Cat(Cat(rb, f), cells)) = Cat(Cat(x, Cat(rb, f)), cells)
    BY <1>2, <1>3, <2>1, CatThree
  <2> QED BY <2>1, <2>2
<1> QED BY <1>1, <1>4, <1>5 DEF Wire, Pending, T, p, x, f

\* The first of some parts, and the others.
LEMMA HeadTail ==
    ASSUME NEW T, NEW us, us \in Seq(T), us # <<>>
    PROVE  Head(us) \in T /\ Tail(us) \in Seq(T) /\ 1 \in DOMAIN us /\ Head(us) = us[1]
OBVIOUS

\* A sequence cut in two is its two parts put together.
LEMMA SplitAt ==
    ASSUME NEW S, NEW d \in Seq(S), NEW k \in 0 .. Len(d)
    PROVE  /\ SubSeq(d, 1, k) \in Seq(S) /\ Len(SubSeq(d, 1, k)) = k
           /\ SubSeq(d, k + 1, Len(d)) \in Seq(S) /\ Len(SubSeq(d, k + 1, Len(d))) = Len(d) - k
           /\ Cat(SubSeq(d, 1, k), SubSeq(d, k + 1, Len(d))) = d
<1>1. Len(d) \in Nat /\ \A i \in 1 .. Len(d) : d[i] \in S
  OBVIOUS
<1>2. SubSeq(d, 1, k) \in Seq(S) /\ Len(SubSeq(d, 1, k)) = k
  <2>1. \A i \in 1 .. k : d[i] \in S
    BY <1>1
  <2>2. /\ SubSeq(d, 1, k) \in Seq(S)
        /\ Len(SubSeq(d, 1, k)) = IF 1 <= k THEN k - 1 + 1 ELSE 0
    BY <1>1, <2>1, SubSeqProperties
  <2> QED BY <2>2
<1>3. SubSeq(d, k + 1, Len(d)) \in Seq(S) /\ Len(SubSeq(d, k + 1, Len(d))) = Len(d) - k
  <2>1. \A i \in k + 1 .. Len(d) : d[i] \in S
    BY <1>1
  <2> DEFINE m == k + 1
             n == Len(d)
  <2>2. m \in Int /\ n \in Int
    BY <1>1
  <2> HIDE DEF m, n
  <2>3. /\ SubSeq(d, m, n) \in Seq(S)
        /\ Len(SubSeq(d, m, n)) = IF m <= n THEN n - m + 1 ELSE 0
    BY <2>1, <2>2, SubSeqProperties DEF m, n
  <2> QED BY <1>1, <2>3 DEF m, n
<1>4. SubSeq(d, 1, k) \o SubSeq(d, k + 1, Len(d)) = SubSeq(d, 1, Len(d))
  <2>1. 1 \in 1 .. Len(d) + 1 /\ k \in 1 - 1 .. Len(d) /\ Len(d) \in k .. Len(d)
    BY <1>1
  <2> QED BY <2>1, ConcatAdjacentSubSeq
<1>5. SubSeq(d, 1, Len(d)) = d
  BY SubSeqFull
<1>6. Cat(SubSeq(d, 1, k), SubSeq(d, k + 1, Len(d))) = d
  <2>1. Cat(SubSeq(d, 1, k), SubSeq(d, k + 1, Len(d))) = SubSeq(d, 1, k) \o SubSeq(d, k + 1, Len(d))
    BY DEF Cat
  <2> QED BY <1>4, <1>5, <2>1
<1> QED BY <1>2, <1>3, <1>6

\* What a read of the accessory serves: the data it serves from, how much it
\* takes of it, what it leaves, and the packets left after it.
Served(fr, rb, us, msgs, data, k, got, rest, left) ==
    /\ Wire(fr, rb, us, msgs)
    /\ rb # <<>> \/ us # <<>>
    /\ \A i \in DOMAIN us : Len(us[i]) \in 1 .. PacketMax
    /\ data = IF rb = <<>> THEN Head(us) ELSE rb
    /\ k = Min({fr.want, Len(data)})
    /\ got = SubSeq(data, 1, k)
    /\ rest = SubSeq(data, k + 1, Len(data))
    /\ left = IF rb = <<>> THEN Tail(us) ELSE us

\* A read takes the cells at the front, in order, and loses none.
LEMMA WireRead ==
    ASSUME NEW fr, NEW rb, NEW us, NEW msgs, NEW data, NEW k, NEW got, NEW rest, NEW us2,
           Served(fr, rb, us, msgs, data, k, got, rest, us2)
    PROVE  /\ got \in Seq(Nat) /\ Len(got) = k
           /\ k \in 1 .. fr.want
           /\ rest \in Seq(Nat) /\ us2 \in Seq(Seq(Nat)) /\ Len(rest) <= Len(data)
           /\ Cat(Cat(Begun(fr), got), Pending(rest, us2)) = Stream(msgs)
<1> USE DEF Served
<1> DEFINE T == Seq(Nat)
           x == Begun(fr)
<1>1. /\ WellFormed(fr) /\ rb \in T /\ us \in Seq(T) /\ x \in T
      /\ Cat(x, Pending(rb, us)) = Stream(msgs)
      /\ fr.want \in Nat \ {0}
  BY BegunTyped DEF Wire, WellFormed
<1>2. Monoid(T)
  BY SeqMonoid
<1>3. /\ data \in T /\ us2 \in Seq(T) /\ data # <<>>
      /\ Pending(rb, us) = Cat(data, FlattenSeq(us2)) /\ FlattenSeq(us2) \in T
  <2> HIDE DEF T
  <2>1. CASE rb = <<>>
    <3>1. us # <<>> /\ data = Head(us) /\ us2 = Tail(us)
      BY <2>1
    <3>2. data \in T /\ us2 \in Seq(T) /\ 1 \in DOMAIN us /\ data = us[1]
      BY <1>1, <3>1, HeadTail
    <3>3. data # <<>>
      <4>1. Len(data) \in 1 .. PacketMax
        BY <3>2
      <4> QED BY <4>1, PacketsAssumption
    <3>4. FlattenSeq(us) = Cat(data, FlattenSeq(us2))
      BY <1>1, <1>2, <3>1, FlattenTail DEF Cat
    <3>5. FlattenSeq(us2) \in T /\ FlattenSeq(us) \in T
      BY <1>1, <1>2, <3>2, FlattenType
    <3>6. Pending(rb, us) = FlattenSeq(us)
      BY <1>2, <2>1, <3>5, CatEmpty DEF Pending
    <3> QED BY <3>2, <3>3, <3>4, <3>5, <3>6
  <2>2. CASE rb # <<>>
    BY <1>1, <1>2, <2>2, FlattenType DEF Pending
  <2> QED BY <2>1, <2>2
<1> HIDE DEF x
<1>4. Len(data) \in Nat \ {0}
  BY <1>3
<1>5. k \in 1 .. fr.want /\ k \in 0 .. Len(data)
  <2>1. fr.want \in Int /\ Len(data) \in Int
    BY ONLY <1>1, <1>4
  <2>2. k = IF fr.want <= Len(data) THEN fr.want ELSE Len(data)
    BY <2>1, MinOfTwo
  <2> QED BY ONLY <1>1, <1>4, <2>2
<1>6. /\ got \in T /\ Len(got) = k /\ rest \in T /\ Len(rest) = Len(data) - k
      /\ Cat(got, rest) = data
  <2>1. data \in Seq(Nat) /\ k \in 0 .. Len(data)
    BY <1>3, <1>5
  <2>2. got = SubSeq(data, 1, k) /\ rest = SubSeq(data, k + 1, Len(data))
    OBVIOUS
  <2>3. /\ SubSeq(data, 1, k) \in Seq(Nat) /\ Len(SubSeq(data, 1, k)) = k
        /\ SubSeq(data, k + 1, Len(data)) \in Seq(Nat)
        /\ Len(SubSeq(data, k + 1, Len(data))) = Len(data) - k
        /\ Cat(SubSeq(data, 1, k), SubSeq(data, k + 1, Len(data))) = data
    BY ONLY <2>1, SplitAt
  <2> QED BY ONLY <2>2, <2>3 DEF T
<1> HIDE DEF T
<1>7. Cat(Cat(x, got), Pending(rest, us2)) = Cat(x, Pending(rb, us))
  <2> DEFINE f == FlattenSeq(us2)
  <2> HIDE DEF f
  <2>1. f \in T /\ Pending(rb, us) = Cat(Cat(got, rest), f) /\ Pending(rest, us2) = Cat(rest, f)
    BY <1>3, <1>6 DEF Pending, f
  <2>2. Cat(Cat(got, rest), f) = Cat(got, Cat(rest, f)) /\ Cat(rest, f) \in T
    BY <1>2, <1>6, <2>1, CatThree
  <2>3. Cat(x, Cat(got, Cat(rest, f))) = Cat(Cat(x, got), Cat(rest, f))
    BY <1>1, <1>2, <1>6, <2>2, CatThree
  <2> QED BY <2>1, <2>2, <2>3
<1>8. Len(rest) <= Len(data)
  BY <1>4, <1>5, <1>6
<1> QED BY <1>1, <1>3, <1>5, <1>6, <1>7, <1>8 DEF T, x

\* A read got some of the cells that read_frame waits for.
Reading(fr, got, rest, us, msgs) ==
    /\ WellFormed(fr) /\ got \in Seq(Nat) /\ Len(got) \in 1 .. fr.want
    /\ rest \in Seq(Nat) /\ us \in Seq(Seq(Nat)) /\ msgs \in Seq(HostMessages)
    /\ Cat(Cat(Begun(fr), got), Pending(rest, us)) = Stream(msgs)

\* What is pending is cells.
LEMMA PendingTyped ==
    ASSUME NEW rb \in Seq(Nat), NEW us, us \in Seq(Seq(Nat))
    PROVE  Pending(rb, us) \in Seq(Nat)
<1> DEFINE T == Seq(Nat)
<1>1. Monoid(T) /\ rb \in T /\ us \in Seq(T)
  BY SeqMonoid
<1> HIDE DEF T
<1>2. FlattenSeq(us) \in T
  BY <1>1, FlattenType
<1>3. Cat(rb, FlattenSeq(us)) \in T
  BY <1>1, <1>2, CatThree
<1> QED BY <1>3 DEF Pending, T

\* The first two cells are the tag and the length of the first message.
LEMMA StreamBegins ==
    ASSUME NEW msgs, msgs \in Seq(HostMessages), NEW a, a \in Seq(Nat), NEW b, b \in Seq(Nat),
           Cat(a, b) = Stream(msgs), Len(a) >= 2
    PROVE  /\ msgs # <<>>
           /\ a[1] = ToTagPayload(Head(msgs))[1] /\ a[2] = Len(ToTagPayload(Head(msgs))[2])
<1>1. /\ Len(Cat(a, b)) >= 2 /\ Cat(a, b)[1] = a[1] /\ Cat(a, b)[2] = a[2]
  <2>1. /\ Len(Cat(a, b)) = Len(a) + Len(b)
        /\ \A i \in 1 .. Len(a) : Cat(a, b)[i] = a[i]
    BY CatSeq
  <2> QED BY <2>1
<1>2. msgs # <<>>
  <2>1. CASE msgs = <<>>
    <3>1. Stream(msgs) = <<>>
      BY <2>1, StreamEmpty
    <3> QED BY <1>1, <3>1
  <2> QED BY <2>1
<1> DEFINE m == Head(msgs)
           w == WriteFrame(m)
           s == Stream(Tail(msgs))
<1>3. m \in HostMessages /\ Tail(msgs) \in Seq(HostMessages) /\ Stream(msgs) = Cat(w, s)
  BY <1>2, StreamNext
<1>4. s \in Seq(Nat)
  BY <1>3, FramesTyped
<1>5. /\ w \in Seq(Nat) /\ Len(w) >= 2
      /\ w[1] = ToTagPayload(m)[1] /\ w[2] = Len(ToTagPayload(m)[2])
  <2>1. /\ w \in Seq(Nat) /\ ToTagPayload(m)[2] \in Seq(Nat)
        /\ w[1] = ToTagPayload(m)[1] /\ w[2] = Len(ToTagPayload(m)[2])
        /\ Len(w) = 2 + Len(ToTagPayload(m)[2])
    BY <1>3, FrameWritten
  <2> DEFINE q == ToTagPayload(m)[2]
  <2> HIDE DEF m, w, s, q
  <2>2. Len(q) \in Nat /\ Len(w) = 2 + Len(q)
    BY <2>1 DEF q
  <2>3. Len(w) >= 2
    BY ONLY <2>2
  <2> QED BY <2>1, <2>3
<1> HIDE DEF m, w, s
<1>6. Cat(w, s)[1] = w[1] /\ Cat(w, s)[2] = w[2]
  <2>1. \A i \in 1 .. Len(w) : Cat(w, s)[i] = w[i]
    BY <1>4, <1>5, CatSeq
  <2> QED BY <1>5, <2>1
<1>7. a[1] = w[1] /\ a[2] = w[2]
  BY <1>1, <1>3, <1>6
<1> QED BY <1>2, <1>5, <1>7 DEF m

\* What a read got, what it got before, and what is left, are cells.
LEMMA ReadingTyped ==
    ASSUME NEW fr, NEW got, NEW rest, NEW us, NEW msgs, Reading(fr, got, rest, us, msgs)
    PROVE  /\ fr \in [tag : Nat, want : Nat \ {0}, cells : Seq(Nat)]
           /\ got \in Seq(Nat) /\ Len(got) \in 1 .. fr.want
           /\ fr.tag = 0 => Len(fr.cells) + fr.want = 2
           /\ Cat(fr.cells, got) \in Seq(Nat) /\ Len(Cat(fr.cells, got)) = Len(fr.cells) + Len(got)
           /\ Begun(fr) \in Seq(Nat) /\ Cat(Begun(fr), got) \in Seq(Nat)
           /\ Pending(rest, us) \in Seq(Nat)
           /\ fr.tag = 0 => Cat(Begun(fr), got) = Cat(fr.cells, got)
           /\ fr.tag # 0 => Cat(Begun(fr), got)
                               = Cat(<<fr.tag, fr.want + Len(fr.cells)>>, Cat(fr.cells, got))
<1>1. /\ WellFormed(fr) /\ got \in Seq(Nat) /\ Len(got) \in 1 .. fr.want
      /\ rest \in Seq(Nat) /\ us \in Seq(Seq(Nat))
  BY DEF Reading
<1>2. /\ fr \in [tag : Nat, want : Nat \ {0}, cells : Seq(Nat)]
      /\ fr.tag = 0 => Len(fr.cells) + fr.want = 2
  BY <1>1 DEF WellFormed, HeaderLen
<1>3. Begun(fr) \in Seq(Nat) /\ Pending(rest, us) \in Seq(Nat)
  BY <1>1, BegunTyped, PendingTyped
<1>4. Cat(fr.cells, got) \in Seq(Nat) /\ Len(Cat(fr.cells, got)) = Len(fr.cells) + Len(got)
  BY <1>1, <1>2, CatSeq
<1>5. Cat(Begun(fr), got) \in Seq(Nat)
  BY <1>1, <1>3, CatSeq
<1>6. fr.tag = 0 => Cat(Begun(fr), got) = Cat(fr.cells, got)
  BY DEF Begun
<1>7. fr.tag # 0 => Cat(Begun(fr), got)
                       = Cat(<<fr.tag, fr.want + Len(fr.cells)>>, Cat(fr.cells, got))
  <2> DEFINE h == <<fr.tag, fr.want + Len(fr.cells)>>
             T == Seq(Nat)
  <2>1. h \in T /\ fr.cells \in T /\ got \in T /\ Monoid(T)
    BY <1>1, <1>2, SeqMonoid
  <2> HIDE DEF h, T
  <2>2. Cat(h, Cat(fr.cells, got)) = Cat(Cat(h, fr.cells), got)
    BY <2>1, CatThree
  <2> QED BY <2>2 DEF Begun, h
<1> QED BY <1>1, <1>2, <1>3, <1>4, <1>5, <1>6, <1>7

\* A short read leaves read_frame waiting for the rest of the same messages.
LEMMA ReadMore ==
    ASSUME NEW fr, NEW got, NEW rest, NEW us, NEW msgs, Reading(fr, got, rest, us, msgs),
           Len(got) < fr.want,
           NEW next, next = [fr EXCEPT !.want = fr.want - Len(got), !.cells = Cat(fr.cells, got)]
    PROVE  Wire(next, rest, us, msgs)
<1> DEFINE c == Cat(fr.cells, got)
<1>1. /\ fr \in [tag : Nat, want : Nat \ {0}, cells : Seq(Nat)]
      /\ got \in Seq(Nat) /\ Len(got) \in 1 .. fr.want
      /\ fr.tag = 0 => Len(fr.cells) + fr.want = 2
      /\ c \in Seq(Nat) /\ Len(c) = Len(fr.cells) + Len(got)
      /\ fr.tag = 0 => Cat(Begun(fr), got) = c
      /\ fr.tag # 0 => Cat(Begun(fr), got) = Cat(<<fr.tag, fr.want + Len(fr.cells)>>, c)
  BY ReadingTyped
<1> HIDE DEF c
<1>2. /\ next.tag = fr.tag /\ next.want = fr.want - Len(got) /\ next.cells = c
      /\ next \in [tag : Nat, want : Nat \ {0}, cells : Seq(Nat)]
  <2>1. fr.want - Len(got) \in Nat \ {0}
    <3>1. fr.want \in Nat /\ Len(got) \in 1 .. fr.want /\ Len(got) < fr.want
      BY <1>1
    <3> QED BY ONLY <3>1
  <2> DEFINE l == fr.want - Len(got)
  <2>2. next = [fr EXCEPT !.want = l, !.cells = c]
    BY DEF c
  <2> HIDE DEF l
  <2>3. next = [tag |-> fr.tag, want |-> l, cells |-> c]
    BY <1>1, <2>2
  <2>4. l \in Nat \ {0}
    BY <2>1 DEF l
  <2>5. fr.tag \in Nat /\ c \in Seq(Nat)
    BY <1>1
  <2> QED BY ONLY <2>3, <2>4, <2>5 DEF l
<1>3. Len(fr.cells) \in Nat /\ Len(got) \in Nat /\ fr.want \in Nat
  BY <1>1
<1>4. WellFormed(next)
  BY <1>1, <1>2, <1>3 DEF WellFormed, HeaderLen
<1>5. next.want + Len(next.cells) = fr.want + Len(fr.cells)
  <2>1. Len(next.cells) = Len(fr.cells) + Len(got) /\ next.want = fr.want - Len(got)
    BY <1>1, <1>2
  <2> QED BY ONLY <1>3, <2>1
<1>6. Begun(next) = Cat(Begun(fr), got)
  BY <1>1, <1>2, <1>5 DEF Begun
<1> QED BY <1>4, <1>6 DEF Wire, Reading

\* A header makes read_frame wait for the payload of the first message.
LEMMA ReadHeader ==
    ASSUME NEW fr, NEW got, NEW rest, NEW us, NEW msgs, Reading(fr, got, rest, us, msgs),
           Len(got) = fr.want, fr.tag = 0, NEW c, c = Cat(fr.cells, got), c[2] # 0
    PROVE  Wire([tag |-> c[1], want |-> c[2], cells |-> <<>>], rest, us, msgs)
<1>1. /\ c \in Seq(Nat) /\ Len(c) = 2 /\ Cat(Begun(fr), got) = c
      /\ Pending(rest, us) \in Seq(Nat)
  BY ReadingTyped
<1>2. /\ msgs \in Seq(HostMessages) /\ Cat(c, Pending(rest, us)) = Stream(msgs)
  BY <1>1 DEF Reading
<1>3. msgs # <<>> /\ c[1] = ToTagPayload(Head(msgs))[1]
  <2> DEFINE rests == Pending(rest, us)
  <2>1. /\ msgs \in Seq(HostMessages) /\ c \in Seq(Nat) /\ rests \in Seq(Nat)
        /\ Cat(c, rests) = Stream(msgs) /\ Len(c) >= 2
    BY <1>1, <1>2
  <2> HIDE DEF rests
  <2> QED BY ONLY <2>1, StreamBegins
<1>4. c[1] \in Nat \ {0}
  BY <1>2, <1>3, StreamNext, MessagesDecode
<1> DEFINE next == [tag |-> c[1], want |-> c[2], cells |-> <<>>]
<1>5. c[2] \in Nat \ {0}
  BY <1>1
<1>6. WellFormed(next)
  BY <1>4, <1>5 DEF WellFormed
<1>7. Begun(next) = c
  <2>1. c = <<c[1], c[2]>>
    BY <1>1
  <2>2. <<c[1], c[2] + 0>> \o <<>> = <<c[1], c[2]>>
    BY <1>4, <1>5
  <2>3. Begun(next) = Cat(<<c[1], c[2] + 0>>, <<>>)
    BY <1>4 DEF Begun
  <2> QED BY <2>1, <2>2, <2>3 DEF Cat
<1> HIDE DEF next
<1>8. Wire(next, rest, us, msgs)
  BY <1>2, <1>6, <1>7 DEF Wire, Reading
<1> QED BY <1>8 DEF next

\* Once its last cell is read, the first message is decoded, and the others are
\* what is on its way.
LEMMA ReadComplete ==
    ASSUME NEW fr, NEW got, NEW rest, NEW us, NEW msgs, Reading(fr, got, rest, us, msgs),
           Len(got) = fr.want, NEW c, c = Cat(fr.cells, got), fr.tag = 0 => c[2] = 0
    PROVE  /\ msgs # <<>> /\ Head(msgs) \in HostMessages
           /\ Decode(IF fr.tag = 0 THEN c[1] ELSE fr.tag, IF fr.tag = 0 THEN <<>> ELSE c) = Head(msgs)
           /\ Wire(NewFrame, rest, us, Tail(msgs))
<1> DEFINE a == Cat(Begun(fr), got)
           b == Pending(rest, us)
           p == IF fr.tag = 0 THEN <<>> ELSE c
           t == IF fr.tag = 0 THEN c[1] ELSE fr.tag
<1>1. /\ c \in Seq(Nat) /\ Len(c) = Len(fr.cells) + fr.want
      /\ fr.tag = 0 => Len(c) = 2 /\ a = c
      /\ fr.tag # 0 => a = Cat(<<fr.tag, fr.want + Len(fr.cells)>>, c)
      /\ a \in Seq(Nat) /\ b \in Seq(Nat) /\ fr.tag \in Nat
      /\ fr.want \in Nat /\ Len(fr.cells) \in Nat
  <2>1. /\ fr \in [tag : Nat, want : Nat \ {0}, cells : Seq(Nat)]
        /\ fr.tag = 0 => Len(fr.cells) + fr.want = 2
        /\ c \in Seq(Nat) /\ Len(c) = Len(fr.cells) + Len(got)
        /\ a \in Seq(Nat) /\ b \in Seq(Nat)
        /\ fr.tag = 0 => a = c
        /\ fr.tag # 0 => a = Cat(<<fr.tag, fr.want + Len(fr.cells)>>, c)
    BY ReadingTyped
  <2> HIDE DEF a, b
  <2> QED BY <2>1
<1>2. /\ msgs \in Seq(HostMessages) /\ Cat(a, b) = Stream(msgs)
      /\ rest \in Seq(Nat) /\ us \in Seq(Seq(Nat))
  BY DEF Reading
<1> HIDE DEF a, b
<1>3. /\ a = Cat(<<t, Len(p)>>, p) /\ p \in Seq(Nat) /\ t \in Nat
      /\ a[1] = t /\ a[2] = Len(p) /\ Len(a) = 2 + Len(p)
  <2>1. CASE fr.tag = 0
    <3>1. a = c /\ Len(c) = 2 /\ c[2] = 0 /\ p = <<>> /\ t = c[1] /\ c[1] \in Nat
      BY <1>1, <2>1
    <3>2. c = <<c[1], 0>> \o <<>>
      BY <1>1, <3>1
    <3>3. Cat(<<c[1], 0>>, <<>>) = c
      BY <3>2 DEF Cat
    <3> HIDE DEF p, t
    <3>4. Len(p) = 0 /\ p \in Seq(Nat)
      BY <3>1
    <3>5. a = Cat(<<t, Len(p)>>, p)
      BY <3>1, <3>3, <3>4
    <3> QED BY <3>1, <3>4, <3>5
  <2>2. CASE fr.tag # 0
    <3>1. p = c /\ t = fr.tag
      BY <2>2
    <3> HIDE DEF p, t
    <3>2. /\ a = Cat(<<t, Len(p)>>, p) /\ p \in Seq(Nat) /\ t \in Nat /\ Len(p) \in Nat
      <4>1. Len(c) = fr.want + Len(fr.cells)
        BY <1>1
      <4>2. a = Cat(<<fr.tag, fr.want + Len(fr.cells)>>, c)
        BY ONLY <1>1, <2>2
      <4>3. a = Cat(<<t, Len(p)>>, p)
        BY ONLY <3>1, <4>1, <4>2
      <4>4. p \in Seq(Nat) /\ t \in Nat
        BY ONLY <1>1, <3>1
      <4>5. Len(p) \in Nat
        BY ONLY <4>4
      <4> QED BY ONLY <4>3, <4>4, <4>5
    <3>3. /\ Cat(<<t, Len(p)>>, p)[1] = t /\ Cat(<<t, Len(p)>>, p)[2] = Len(p)
          /\ Len(Cat(<<t, Len(p)>>, p)) = 2 + Len(p)
      BY <3>2 DEF Cat
    <3> QED BY <3>2, <3>3
  <2> QED BY <2>1, <2>2
<1> HIDE DEF p, t
<1>4. /\ msgs # <<>>
      /\ a[1] = ToTagPayload(Head(msgs))[1] /\ a[2] = Len(ToTagPayload(Head(msgs))[2])
  <2>1. Len(a) >= 2
    BY <1>3
  <2> QED BY <1>1, <1>2, <2>1, StreamBegins
<1> DEFINE m == Head(msgs)
           w == WriteFrame(m)
           q == ToTagPayload(m)[2]
           s == Stream(Tail(msgs))
<1>5. m \in HostMessages /\ Tail(msgs) \in Seq(HostMessages) /\ Stream(msgs) = Cat(w, s)
  BY <1>2, <1>4, StreamNext
<1>6. s \in Seq(Nat)
  BY <1>5, FramesTyped
<1>7. /\ w \in Seq(Nat) /\ q \in Seq(Nat) /\ w = Cat(<<ToTagPayload(m)[1], Len(q)>>, q)
      /\ Len(w) = 2 + Len(q)
  BY <1>5, FrameWritten
<1>8. Decode(ToTagPayload(m)[1], q) = m
  BY <1>5, MessagesDecode
<1>9. t = ToTagPayload(m)[1] /\ Len(p) = Len(q)
  BY <1>3, <1>4
<1> HIDE DEF m, w, s, q
<1>10. a = w /\ b = s
  <2>1. Cat(a, b) = Cat(w, s) /\ Len(a) = Len(w)
    BY <1>2, <1>3, <1>5, <1>7, <1>9
  <2> QED BY <1>1, <1>6, <1>7, <2>1, SplitEqual
<1>11. p = q
  <2> DEFINE h == <<t, Len(p)>>
  <2>1. h \in Seq(Nat) /\ Cat(h, p) = Cat(h, q) /\ Len(h) = Len(h)
    BY <1>3, <1>7, <1>9, <1>10
  <2> HIDE DEF h
  <2> QED BY <1>3, <1>7, <2>1, SplitEqual
<1>12. Wire(NewFrame, rest, us, Tail(msgs))
  <2>1. WellFormed(NewFrame) /\ Begun(NewFrame) = <<>>
    BY DEF WellFormed, NewFrame, Begun, HeaderLen
  <2>2. Cat(<<>>, b) = b
    BY <1>1 DEF Cat
  <2> QED BY <1>2, <1>5, <1>10, <2>1, <2>2 DEF Wire, b, s
<1> QED BY <1>4, <1>5, <1>8, <1>9, <1>11, <1>12 DEF m, p, t

-----------------------------------------------------------------------------
(***************************************************************************)
(* Loops: a recursion that goes up to a bound defines a function.          *)
(***************************************************************************)

\* A recursive walk: what it collects at each place.
Walks(f, D, stop, item, next) ==
    \A d \in D : f[d] = IF d \in stop THEN item[d] ELSE Cat(item[d], f[next[d]])

\* The walk comes closer to its end with each step.
Descends(T, D, stop, item, next, rank, bound) ==
    /\ item \in [D -> T] /\ next \in [D -> D] /\ rank \in [D -> Nat] /\ bound \in Nat
    /\ \A d \in D : rank[d] <= bound
    /\ \A d \in D : d \notin stop => rank[next[d]] < rank[d]

\* A recursion that goes up to a bound defines a function.
LEMMA WalkExists ==
    ASSUME NEW T, Monoid(T), NEW D, NEW stop, NEW item, NEW next, NEW rank, NEW bound,
           Descends(T, D, stop, item, next, rank, bound)
    PROVE  \E f \in [D -> T] : Walks(f, D, stop, item, next)
<1> DEFINE Eq(f, d) == f[d] = IF d \in stop THEN item[d] ELSE Cat(item[d], f[next[d]])
           Has(k) == \E f \in [D -> T] : \A d \in D : rank[d] < k => Eq(f, d)
           Bad == {k \in Nat : ~Has(k)}
<1>1. /\ item \in [D -> T] /\ next \in [D -> D] /\ rank \in [D -> Nat] /\ bound \in Nat
      /\ \A d \in D : rank[d] <= bound
      /\ \A d \in D : d \notin stop => rank[next[d]] < rank[d]
  BY DEF Descends
<1>2. Has(0)
  BY <1>1
<1>3. ASSUME NEW k \in Nat, Has(k)
      PROVE  Has(k + 1)
  <2>1. PICK f \in [D -> T] : \A d \in D : rank[d] < k => Eq(f, d)
    BY <1>3
  <2> DEFINE g == [d \in D |-> IF rank[d] # k THEN f[d] ELSE IF d \in stop THEN item[d]
                               ELSE Cat(item[d], f[next[d]])]
  <2>2. g \in [D -> T]
    <3> SUFFICES ASSUME NEW d \in D PROVE g[d] \in T
      OBVIOUS
    <3>1. item[d] \in T /\ f[d] \in T /\ f[next[d]] \in T
      BY <1>1
    <3>2. \A x, y \in T : Cat(x, y) \in T
      BY DEF Monoid, Cat
    <3> QED BY <3>1, <3>2
  <2>3. ASSUME NEW d \in D, rank[d] < k + 1
        PROVE  Eq(g, d)
    <3>1. rank[d] \in Nat
      BY <1>1
    <3>2. CASE d \in stop
      <4>1. g[d] = IF rank[d] # k THEN f[d] ELSE item[d]
        BY <3>2
      <4>2. rank[d] # k => f[d] = item[d]
        BY <2>1, <2>3, <3>1, <3>2
      <4> QED BY <3>2, <4>1, <4>2
    <3>3. CASE d \notin stop
      <4>1. next[d] \in D /\ rank[next[d]] < rank[d] /\ rank[next[d]] \in Nat
        BY <1>1, <3>3
      <4>2. g[next[d]] = f[next[d]]
        BY <2>3, <3>1, <4>1
      <4>3. g[d] = IF rank[d] # k THEN f[d] ELSE Cat(item[d], f[next[d]])
        BY <3>3
      <4>4. rank[d] # k => f[d] = Cat(item[d], f[next[d]])
        BY <2>1, <2>3, <3>1, <3>3
      <4> HIDE DEF g
      <4> QED BY <3>3, <4>2, <4>3, <4>4
    <3> QED BY <3>2, <3>3
  <2> HIDE DEF g
  <2> QED BY <2>2, <2>3
<1> HIDE DEF Has
<1>4. Bad = {}
  <2> SUFFICES ASSUME Bad # {} PROVE FALSE
    OBVIOUS
  <2>1. PICK k \in Bad : \A m \in Bad : k <= m
    <3>1. Bad \in SUBSET Nat
      OBVIOUS
    <3> HIDE DEF Bad
    <3> QED BY <3>1, LeastNat
  <2>2. k # 0
    BY <1>2, <2>1
  <2>3. k - 1 \in Nat /\ k - 1 \notin Bad /\ (k - 1) + 1 = k
    BY <2>1, <2>2
  <2>4. Has((k - 1) + 1)
    BY <1>3, <2>3
  <2> QED BY <2>1, <2>3, <2>4
<1>5. Has(bound + 1)
  BY <1>1, <1>4
<1>6. PICK f \in [D -> T] : \A d \in D : rank[d] < bound + 1 => Eq(f, d)
  BY <1>5 DEF Has
<1>7. \A d \in D : rank[d] < bound + 1
  BY <1>1
<1> QED BY <1>6, <1>7 DEF Walks

-----------------------------------------------------------------------------
(***************************************************************************)
(* Where the parts of a flattened sequence are.                            *)
(***************************************************************************)

\* Where each part of a flattened sequence begins.
Layout(T, stream, seqs, n, pos) ==
    /\ n \in Nat \ {0} /\ stream \in Seq(T) /\ pos \in [1 .. n + 1 -> Nat \ {0}]
    /\ pos[1] = 1 /\ pos[n + 1] = Len(stream) + 1
    /\ \A i \in 1 .. n :
          /\ seqs[i] \in Seq(T) /\ pos[i + 1] = pos[i] + Len(seqs[i])
          /\ \A j \in 1 .. Len(seqs[i]) : stream[pos[i] + j - 1] = seqs[i][j]

\* A sequence begins with another.
Prefix(a, b) == Len(a) <= Len(b) /\ \A p \in 1 .. Len(a) : b[p] = a[p]

\* Each partial result begins with the ones before it.
LEMMA FlattensPrefix ==
    ASSUME NEW A, NEW n \in Nat \ {0}, NEW seqs, seqs \in [1 .. n -> Seq(A)],
           NEW f, f \in [1 .. n -> Seq(A)], Flattens(f, seqs, n),
           NEW i \in 1 .. n
    PROVE  \A k \in i .. n : Prefix(f[i], f[k])
<1> DEFINE Bad == {k \in Nat : k \in i .. n /\ ~Prefix(f[i], f[k])}
<1>1. \A k \in i .. n : k \in Nat
  OBVIOUS
<1> SUFFICES ASSUME Bad # {} PROVE FALSE
  BY <1>1
<1>2. PICK k \in Bad : \A m \in Bad : k <= m
  <2>1. Bad \in SUBSET Nat
    OBVIOUS
  <2> HIDE DEF Bad
  <2> QED BY <2>1, LeastNat
<1>3. k \in i .. n /\ ~Prefix(f[i], f[k]) /\ k \in Nat
  BY <1>2
<1>4. k # i
  <2>1. f[i] \in Seq(A)
    OBVIOUS
  <2>2. Prefix(f[i], f[i])
    BY <2>1 DEF Prefix
  <2> QED BY <1>3, <2>2
<1>5. k - 1 \in Nat /\ k - 1 \in i .. n /\ k \in 1 .. n /\ k - 1 \in 1 .. n /\ k # 1
  BY <1>3, <1>4
<1>6. Prefix(f[i], f[k - 1])
  <2>1. k - 1 \notin Bad
    BY <1>2, <1>3
  <2> HIDE DEF Prefix
  <2> QED BY <2>1, <1>5
<1> HIDE DEF Bad
<1> DEFINE a == f[k - 1]
           b == seqs[k]
           c == f[k]
<1>7. a \in Seq(A) /\ b \in Seq(A) /\ c = a \o b /\ f[i] \in Seq(A)
  BY <1>5 DEF Flattens
<1> HIDE DEF a, b, c
<1>8. /\ Len(a) \in Nat /\ Len(b) \in Nat /\ Len(c) = Len(a) + Len(b)
      /\ \A p \in 1 .. Len(a) : c[p] = a[p]
  BY <1>7, CatAt
<1>9. Prefix(f[i], a)
  BY <1>6 DEF a
<1>10. Len(f[i]) \in Nat
  BY <1>7
<1>11. Prefix(f[i], c)
  BY ONLY <1>8, <1>9, <1>10 DEF Prefix
<1> QED BY <1>3, <1>11 DEF c

\* In what some parts flatten to each of them has its place.
LEMMA FlattenLayout ==
    ASSUME NEW A, NEW n \in Nat \ {0}, NEW seqs, seqs \in [1 .. n -> Seq(A)]
    PROVE  \E pos : Layout(A, FlattenSeq(seqs), seqs, n, pos)
<1> DEFINE T == Seq(A)
<1>1. Monoid(T)
  BY SeqMonoid
<1>2. PICK f \in [1 .. n -> T] : Flattens(f, seqs, n)
  <2> HIDE DEF T
  <2>1. seqs \in [1 .. n -> T] /\ n \in Nat
    BY DEF T
  <2> QED BY <1>1, <2>1, FlattensExists
<1>3. FlattenSeq(seqs) = f[n]
  <2> HIDE DEF T
  <2>1. seqs \in [1 .. n -> T] /\ n \in Nat
    BY DEF T
  <2> QED BY <1>1, <1>2, <2>1, FlattenIs
<1> DEFINE pos == [i \in 1 .. n + 1 |-> IF i = 1 THEN 1 ELSE Len(f[i - 1]) + 1]
<1>4. \A i \in 1 .. n : f[i] \in Seq(A) /\ seqs[i] \in Seq(A) /\ Len(f[i]) \in Nat
  BY <1>2
<1>5. pos \in [1 .. n + 1 -> Nat \ {0}] /\ pos[1] = 1 /\ pos[n + 1] = Len(f[n]) + 1
  <2>1. \A i \in 1 .. n + 1 : i # 1 => i - 1 \in 1 .. n
    OBVIOUS
  <2>2. ASSUME NEW i \in 1 .. n + 1 PROVE pos[i] \in Nat \ {0}
    BY <1>4, <2>1
  <2>3. 1 \in 1 .. n + 1 /\ n + 1 \in 1 .. n + 1 /\ n + 1 # 1 /\ (n + 1) - 1 = n
    OBVIOUS
  <2>4. pos[1] = 1
    BY <2>3
  <2>5. pos[n + 1] = Len(f[(n + 1) - 1]) + 1
    BY <2>3
  <2> QED BY <2>2, <2>3, <2>4, <2>5
<1>6. ASSUME NEW i \in 1 .. n
      PROVE  /\ pos[i + 1] = pos[i] + Len(seqs[i])
             /\ \A j \in 1 .. Len(seqs[i]) : f[n][pos[i] + j - 1] = seqs[i][j]
  <2>1. pos[i + 1] = Len(f[i]) + 1
    <3>1. i + 1 \in 1 .. n + 1 /\ i + 1 # 1 /\ (i + 1) - 1 = i
      OBVIOUS
    <3>2. pos[i + 1] = Len(f[(i + 1) - 1]) + 1
      BY <3>1
    <3> QED BY <3>1, <3>2
  <2>2. Prefix(f[i], f[n])
    <3>1. n \in i .. n
      OBVIOUS
    <3>2. f \in [1 .. n -> Seq(A)]
      BY <1>2
    <3> QED BY ONLY <1>2, <3>1, <3>2, FlattensPrefix, n \in Nat \ {0}, i \in 1 .. n, seqs \in [1 .. n -> Seq(A)]
  <2>3. /\ Len(f[i]) = (pos[i] - 1) + Len(seqs[i])
        /\ pos[i] - 1 \in Nat /\ Len(seqs[i]) \in Nat
        /\ \A j \in 1 .. Len(seqs[i]) : f[i][pos[i] + j - 1] = seqs[i][j]
    <3>1. CASE i = 1
      <4>1. f[i] = seqs[i] /\ pos[i] = 1
        BY <3>1, <1>2, <1>5 DEF Flattens
      <4> HIDE DEF pos
      <4>2. Len(seqs[i]) \in Nat
        BY <1>4
      <4>3. \A j \in 1 .. Len(seqs[i]) : pos[i] + j - 1 = j
        BY ONLY <4>1, <4>2
      <4> QED BY ONLY <4>1, <4>2, <4>3
    <3>2. CASE i # 1
      <4> DEFINE a == f[i - 1]
                 b == seqs[i]
                 c == f[i]
      <4>1. i - 1 \in 1 .. n
        BY <3>2
      <4>2. a \in Seq(A) /\ b \in Seq(A) /\ c = a \o b
        BY <3>2, <4>1, <1>4, <1>2 DEF Flattens
      <4>3. pos[i] = Len(a) + 1
        BY <3>2
      <4> HIDE DEF a, b, c, pos
      <4>4. /\ Len(a) \in Nat /\ Len(b) \in Nat /\ Len(c) = Len(a) + Len(b)
            /\ \A j \in 1 .. Len(b) : c[Len(a) + j] = b[j]
        BY <4>2, CatAt
      <4>5. /\ Len(c) = (pos[i] - 1) + Len(b) /\ pos[i] - 1 \in Nat
            /\ \A j \in 1 .. Len(b) : c[pos[i] + j - 1] = b[j]
        <5>1. pos[i] - 1 = Len(a) /\ \A j \in 1 .. Len(b) : pos[i] + j - 1 = Len(a) + j
          BY ONLY <4>3, <4>4
        <5> QED BY ONLY <4>4, <5>1
      <4> QED BY <4>4, <4>5 DEF a, b, c
    <3> QED BY <3>1, <3>2
  <2> HIDE DEF pos
  <2>4. pos[i + 1] = pos[i] + Len(seqs[i])
    <3> DEFINE l == Len(f[i])
               k == Len(seqs[i])
               q == pos[i]
    <3>1. q \in Int /\ k \in Nat /\ l = (q - 1) + k /\ pos[i + 1] = l + 1
      BY <1>5, <2>1, <2>3
    <3> HIDE DEF l, k, q
    <3>2. pos[i + 1] = q + k
      BY ONLY <3>1
    <3> QED BY <3>2 DEF q, k
  <2>5. ASSUME NEW j \in 1 .. Len(seqs[i]) PROVE f[n][pos[i] + j - 1] = seqs[i][j]
    <3> DEFINE p == pos[i] + j - 1
    <3>1. p \in 1 .. Len(f[i])
      <4> DEFINE l == Len(f[i])
                 k == Len(seqs[i])
                 q == pos[i]
      <4>1. q - 1 \in Nat /\ q \in Int /\ k \in Nat /\ l = (q - 1) + k /\ j \in 1 .. k
        BY <1>5, <2>3
      <4> HIDE DEF l, k, q
      <4>2. q + j - 1 \in 1 .. l
        BY ONLY <4>1
      <4> QED BY <4>2 DEF l, q
    <3> HIDE DEF p
    <3>2. f[n][p] = f[i][p]
      BY <3>1, <2>2 DEF Prefix
    <3> QED BY <2>3, <3>2 DEF p
  <2> QED BY <2>4, <2>5
<1> HIDE DEF pos
<1>7. Layout(A, f[n], seqs, n, pos)
  <2>1. f[n] \in Seq(A)
    BY <1>4
  <2> QED BY <2>1, <1>4, <1>5, <1>6 DEF Layout
<1> QED BY <1>3, <1>7

\* The places follow each other and cover all of the stream.
LEMMA LayoutOrder ==
    ASSUME NEW A, NEW stream, NEW seqs, NEW n, NEW pos, Layout(A, stream, seqs, n, pos)
    PROVE  /\ \A i \in 1 .. n + 1 : \A k \in i .. n + 1 : pos[i] <= pos[k]
           /\ \A p \in 1 .. Len(stream) : \E i \in 1 .. n : p \in pos[i] .. pos[i + 1] - 1
<1>1. /\ n \in Nat \ {0} /\ pos \in [1 .. n + 1 -> Nat \ {0}]
      /\ pos[1] = 1 /\ pos[n + 1] = Len(stream) + 1 /\ Len(stream) \in Nat
  BY DEF Layout
<1>2. \A i \in 1 .. n : pos[i] <= pos[i + 1]
  <2> TAKE i \in 1 .. n
  <2>1. pos[i + 1] = pos[i] + Len(seqs[i]) /\ Len(seqs[i]) \in Nat /\ pos[i] \in Nat
    BY <1>1 DEF Layout
  <2> QED BY ONLY <2>1
<1>3. ASSUME NEW i \in 1 .. n + 1 PROVE \A k \in i .. n + 1 : pos[i] <= pos[k]
  <2> DEFINE Bad == {k \in Nat : k \in i .. n + 1 /\ ~(pos[i] <= pos[k])}
  <2>1. \A k \in i .. n + 1 : k \in Nat
    BY <1>1
  <2> SUFFICES ASSUME Bad # {} PROVE FALSE
    BY <2>1
  <2>2. PICK k \in Bad : \A m \in Bad : k <= m
    <3>1. Bad \in SUBSET Nat
      OBVIOUS
    <3> HIDE DEF Bad
    <3> QED BY <3>1, LeastNat
  <2>3. k # i
    BY <1>1, <2>2
  <2>4. k - 1 \in Nat /\ k - 1 \in i .. n + 1 /\ k - 1 \in 1 .. n /\ (k - 1) + 1 = k
    BY <1>1, <2>2, <2>3
  <2>5. k - 1 \notin Bad
    BY <1>1, <2>2
  <2>6. pos[i] <= pos[k - 1] /\ pos[k - 1] <= pos[(k - 1) + 1]
    BY <1>2, <2>4, <2>5
  <2>7. pos[i] \in Nat /\ pos[k] \in Nat /\ pos[k - 1] \in Nat
    BY <1>1, <2>2, <2>4
  <2> QED BY <2>2, <2>4, <2>6, <2>7
<1>4. ASSUME NEW p \in 1 .. Len(stream) PROVE \E i \in 1 .. n : p \in pos[i] .. pos[i + 1] - 1
  <2> DEFINE Past == {k \in Nat : k \in 1 .. n + 1 /\ p < pos[k]}
  <2>1. n + 1 \in Past
    BY <1>1
  <2>2. PICK k \in Past : \A m \in Past : k <= m
    <3>1. Past \in SUBSET Nat
      OBVIOUS
    <3> HIDE DEF Past
    <3> QED BY <2>1, <3>1, LeastNat
  <2>3. k # 1
    BY <1>1, <2>2
  <2>4. k - 1 \in 1 .. n /\ (k - 1) + 1 = k /\ k - 1 \in Nat
    BY <1>1, <2>2, <2>3
  <2>5. k - 1 \notin Past
    BY <1>1, <2>2
  <2>6. pos[k - 1] <= p /\ p < pos[k]
    <3>1. pos[k - 1] \in Nat
      BY <1>1, <2>4
    <3> QED BY <1>1, <2>2, <2>4, <2>5, <3>1
  <2>7. pos[k - 1] \in Nat /\ pos[k] \in Nat
    BY <1>1, <2>2, <2>4
  <2>8. p \in pos[k - 1] .. pos[(k - 1) + 1] - 1
    BY <2>4, <2>6, <2>7
  <2> QED BY <2>4, <2>8
<1> QED BY <1>3, <1>4

-----------------------------------------------------------------------------
(***************************************************************************)
(* Units behind start codes or lengths, and where the codes are.           *)
(***************************************************************************)

\* Units in a stream, each behind a header of four cells.
Framed(stream, units, n, pos, last) ==
    /\ n \in Nat \ {0} /\ stream \in Seq(Nat) /\ pos \in [1 .. n + 1 -> Nat \ {0}]
    /\ units \in [1 .. n -> Seq(Nat)]
    /\ pos[1] = 1 /\ pos[n + 1] = Len(stream) + 1
    /\ \A i \in 1 .. n :
          /\ pos[i + 1] = pos[i] + 4 + Len(units[i])
          /\ stream[pos[i]] = 0 /\ stream[pos[i] + 1] = 0 /\ stream[pos[i] + 2] = 0
          /\ stream[pos[i] + 3] = last[i]
          /\ \A j \in 1 .. Len(units[i]) : stream[pos[i] + 3 + j] = units[i][j]
    /\ \A i \in 1 .. n + 1 : \A k \in i .. n + 1 : pos[i] <= pos[k]
    /\ \A p \in 1 .. Len(stream) : \E i \in 1 .. n : p \in pos[i] .. pos[i + 1] - 1

\* Units behind four cells each have their places: start codes, or AVCC lengths.
LEMMA FramedUnits ==
    ASSUME NEW n, n \in Nat \ {0}, NEW units, units \in [1 .. n -> Seq(Nat)],
           NEW last, last \in [1 .. n -> Nat]
    PROVE  \E pos : Framed(FlattenSeq([i \in 1 .. n |-> <<0, 0, 0, last[i]>> \o units[i]]), units, n, pos, last)
<1> DEFINE seqs == [i \in 1 .. n |-> <<0, 0, 0, last[i]>> \o units[i]]
           stream == FlattenSeq(seqs)
<1>1. ASSUME NEW i \in 1 .. n
      PROVE  /\ seqs[i] \in Seq(Nat) /\ Len(seqs[i]) = 4 + Len(units[i]) /\ Len(units[i]) \in Nat
             /\ seqs[i][1] = 0 /\ seqs[i][2] = 0 /\ seqs[i][3] = 0 /\ seqs[i][4] = last[i]
             /\ \A j \in 1 .. Len(units[i]) : seqs[i][4 + j] = units[i][j]
  <2> DEFINE a == <<0, 0, 0, last[i]>>
             b == units[i]
             c == seqs[i]
  <2>1. a \in Seq(Nat) /\ Len(a) = 4 /\ a[1] = 0 /\ a[2] = 0 /\ a[3] = 0 /\ a[4] = last[i]
        /\ b \in Seq(Nat) /\ c = a \o b
    OBVIOUS
  <2> HIDE DEF a, b, c, seqs
  <2>2. /\ c \in Seq(Nat) /\ Len(b) \in Nat /\ Len(c) = Len(a) + Len(b)
        /\ \A p \in 1 .. Len(a) : c[p] = a[p]
        /\ \A j \in 1 .. Len(b) : c[Len(a) + j] = b[j]
    <3>1. a \in Seq(Nat) /\ b \in Seq(Nat) /\ c = a \o b
      BY <2>1
    <3> QED BY ONLY <3>1, CatAt
  <2>3. c[1] = 0 /\ c[2] = 0 /\ c[3] = 0 /\ c[4] = last[i]
    <3>1. Len(a) = 4 /\ a[1] = 0 /\ a[2] = 0 /\ a[3] = 0 /\ a[4] = last[i]
      BY <2>1
    <3>2. c[1] = a[1] /\ c[2] = a[2] /\ c[3] = a[3] /\ c[4] = a[4]
      BY ONLY <2>2, <3>1
    <3> QED BY ONLY <3>1, <3>2
  <2> QED BY <2>1, <2>2, <2>3 DEF b, c
<1>2. seqs \in [1 .. n -> Seq(Nat)]
  BY <1>1
<1> HIDE DEF seqs
<1>3. PICK pos : Layout(Nat, stream, seqs, n, pos)
  BY <1>2, FlattenLayout
<1> HIDE DEF stream
<1>4. /\ n \in Nat \ {0} /\ stream \in Seq(Nat) /\ pos \in [1 .. n + 1 -> Nat \ {0}]
      /\ pos[1] = 1 /\ pos[n + 1] = Len(stream) + 1
  BY <1>3 DEF Layout
<1>5. ASSUME NEW i \in 1 .. n
      PROVE  /\ pos[i + 1] = pos[i] + 4 + Len(units[i])
             /\ stream[pos[i]] = 0 /\ stream[pos[i] + 1] = 0 /\ stream[pos[i] + 2] = 0
             /\ stream[pos[i] + 3] = last[i]
             /\ \A j \in 1 .. Len(units[i]) : stream[pos[i] + 3 + j] = units[i][j]
  <2> DEFINE c == seqs[i]
             q == pos[i]
             k == Len(units[i])
             u == units[i]
  <2>1. /\ q \in Nat /\ k \in Nat
        /\ Len(c) = 4 + k /\ c[1] = 0 /\ c[2] = 0 /\ c[3] = 0 /\ c[4] = last[i]
        /\ \A j \in 1 .. k : c[4 + j] = u[j]
    <3>1. q \in Nat
      BY <1>4
    <3>2. i \in 1 .. n
      OBVIOUS
    <3> HIDE DEF q
    <3> QED BY ONLY <1>1, <3>1, <3>2 DEF c, k, u
  <2>2. /\ pos[i + 1] = q + Len(c)
        /\ \A j \in 1 .. Len(c) : stream[q + j - 1] = c[j]
    BY <1>3 DEF Layout
  <2> HIDE DEF c, q, k, u
  <2>3. /\ q + 1 - 1 = q /\ q + 2 - 1 = q + 1 /\ q + 3 - 1 = q + 2 /\ q + 4 - 1 = q + 3
        /\ 1 \in 1 .. Len(c) /\ 2 \in 1 .. Len(c) /\ 3 \in 1 .. Len(c) /\ 4 \in 1 .. Len(c)
        /\ \A j \in 1 .. k : 4 + j \in 1 .. Len(c) /\ q + (4 + j) - 1 = q + 3 + j
    BY ONLY <2>1
  <2>4. stream[q] = 0 /\ stream[q + 1] = 0 /\ stream[q + 2] = 0 /\ stream[q + 3] = last[i]
    BY ONLY <2>1, <2>2, <2>3
  <2>5. ASSUME NEW j \in 1 .. k PROVE stream[q + 3 + j] = u[j]
    <3>1. stream[q + (4 + j) - 1] = c[4 + j]
      BY <2>2, <2>3
    <3> QED BY <2>1, <2>3, <3>1
  <2>6. pos[i + 1] = q + 4 + k
    BY ONLY <2>1, <2>2
  <2> QED BY <2>4, <2>5, <2>6 DEF q, k, u
<1>6. /\ \A i \in 1 .. n + 1 : \A k \in i .. n + 1 : pos[i] <= pos[k]
      /\ \A p \in 1 .. Len(stream) : \E i \in 1 .. n : p \in pos[i] .. pos[i + 1] - 1
  BY <1>3, LayoutOrder
<1>7. Framed(stream, units, n, pos, last)
  BY <1>4, <1>5, <1>6 DEF Framed
<1> QED BY <1>7 DEF stream, seqs

\* A stream of units that each are behind a start code.
Streamed(stream, units, n, pos) ==
    /\ Framed(stream, units, n, pos, [i \in 1 .. n |-> 1])
    /\ \A i \in 1 .. n : IsUnit(units[i])

\* A start code with its unit.
UnitAt(stream, q, next, u, l) ==
    /\ q \in Nat \ {0} /\ l \in Nat \ {0} /\ u \in Seq(Nat) /\ IsUnit(u) /\ Len(u) = l
    /\ next = q + 4 + l /\ q + 3 + l \in 1 .. Len(stream) /\ Len(stream) \in Nat
    /\ stream[q] = 0 /\ stream[q + 1] = 0 /\ stream[q + 2] = 0 /\ stream[q + 3] = 1
    /\ \A j \in 1 .. l : stream[q + 3 + j] = u[j]
    /\ stream[q + 3 + l] # 0

\* Every place of such a stream has a start code and its unit.
LEMMA StreamedAt ==
    ASSUME NEW stream, NEW units, NEW n, NEW pos, Streamed(stream, units, n, pos), NEW i \in 1 .. n
    PROVE  UnitAt(stream, pos[i], pos[i + 1], units[i], Len(units[i]))
<1> DEFINE q == pos[i]
           u == units[i]
           l == Len(u)
<1>1. /\ n \in Nat \ {0} /\ stream \in Seq(Nat) /\ pos \in [1 .. n + 1 -> Nat \ {0}]
      /\ units \in [1 .. n -> Seq(Nat)] /\ pos[n + 1] = Len(stream) + 1
      /\ pos[i + 1] = pos[i] + 4 + Len(units[i])
      /\ stream[pos[i]] = 0 /\ stream[pos[i] + 1] = 0 /\ stream[pos[i] + 2] = 0
      /\ stream[pos[i] + 3] = 1
      /\ \A j \in 1 .. Len(units[i]) : stream[pos[i] + 3 + j] = units[i][j]
      /\ \A a \in 1 .. n + 1 : \A k \in a .. n + 1 : pos[a] <= pos[k]
      /\ IsUnit(units[i])
  BY DEF Streamed, Framed
<1>2. q \in Nat \ {0} /\ u \in Seq(Nat) /\ Len(stream) \in Nat
  BY <1>1
<1>3. l \in Nat \ {0}
  BY <1>1, <1>2 DEF IsUnit
<1>4. i + 1 \in 1 .. n + 1 /\ n + 1 \in i + 1 .. n + 1
  BY <1>1
<1>5. pos[i + 1] <= pos[n + 1]
  BY <1>1, <1>4
<1>6. q + 3 + l \in 1 .. Len(stream)
  <2> DEFINE e == Len(stream)
  <2>1. q + 4 + l <= e + 1 /\ e \in Nat /\ q \in Nat /\ l \in Nat
    BY <1>1, <1>2, <1>3, <1>5
  <2> HIDE DEF e, q, l
  <2>2. q + 3 + l \in 1 .. e
    BY ONLY <2>1
  <2> QED BY <2>2 DEF e
<1>7. stream[q + 3 + l] # 0
  <2>1. l \in 1 .. l
    BY <1>3
  <2>2. stream[q + 3 + l] = u[l]
    BY <1>1, <2>1
  <2>3. u[l] # 0
    BY <1>1 DEF IsUnit
  <2> QED BY <2>2, <2>3
<1> QED BY <1>1, <1>2, <1>3, <1>6, <1>7 DEF UnitAt

\* The numbers of a place: where its unit begins and how long it is.
LEMMA StreamedSpan ==
    ASSUME NEW stream, NEW units, NEW n, NEW pos, Streamed(stream, units, n, pos), NEW i \in 1 .. n
    PROVE  /\ pos[i] \in Nat \ {0} /\ Len(units[i]) \in Nat \ {0}
           /\ pos[i + 1] = pos[i] + 4 + Len(units[i])
<1> DEFINE q == pos[i]
           next == pos[i + 1]
           u == units[i]
           l == Len(u)
<1>1. UnitAt(stream, q, next, u, l)
  BY StreamedAt
<1> HIDE DEF q, next, u, l
<1>2. q \in Nat \ {0} /\ l \in Nat \ {0} /\ next = q + 4 + l
  BY ONLY <1>1 DEF UnitAt
<1> QED BY <1>2 DEF q, next, u, l

\* The start codes of the stream are those of the units, and there is no other:
\* H.264 has none within a unit, and none arises where one unit ends.
LEMMA StreamedMarks ==
    ASSUME NEW stream, NEW units, NEW n, NEW pos, Streamed(stream, units, n, pos)
    PROVE  Marks(stream) = {pos[i] + 1 : i \in 1 .. n}
<1>1. ASSUME NEW i \in 1 .. n PROVE pos[i] + 1 \in Marks(stream)
  <2> DEFINE q == pos[i]
             u == units[i]
             l == Len(u)
             e == Len(stream)
  <2>1. /\ q \in Nat \ {0} /\ l \in Nat \ {0}
        /\ q + 3 + l \in 1 .. e /\ e \in Nat
        /\ stream[q + 1] = 0 /\ stream[q + 2] = 0 /\ stream[q + 3] = 1
    <3>1. UnitAt(stream, q, pos[i + 1], u, l)
      BY StreamedAt
    <3> HIDE DEF q, u, l
    <3> QED BY <3>1 DEF UnitAt
  <2> HIDE DEF q, u, l, e
  <2>2. q + 1 \in 1 .. e - 2 /\ (q + 1) + 1 = q + 2 /\ (q + 1) + 2 = q + 3
    BY ONLY <2>1
  <2> QED BY <2>1, <2>2 DEF Marks, q, e
<1>2. ASSUME NEW m \in Marks(stream) PROVE \E i \in 1 .. n : m = pos[i] + 1
  <2>1. m \in 1 .. Len(stream) - 2 /\ stream[m] = 0 /\ stream[m + 1] = 0 /\ stream[m + 2] = 1
    BY DEF Marks
  <2>2. m \in 1 .. Len(stream)
    BY <2>1 DEF Streamed, Framed
  <2>3. PICK i \in 1 .. n : m \in pos[i] .. pos[i + 1] - 1
    BY <2>2 DEF Streamed, Framed
  <2> DEFINE q == pos[i]
             u == units[i]
             l == Len(u)
  <2>4. /\ q \in Nat \ {0} /\ l \in Nat \ {0} /\ IsUnit(u)
        /\ pos[i + 1] = q + 4 + l
        /\ stream[q] = 0 /\ stream[q + 1] = 0 /\ stream[q + 2] = 0 /\ stream[q + 3] = 1
        /\ \A j \in 1 .. l : stream[q + 3 + j] = u[j]
        /\ stream[q + 3 + l] # 0 /\ Len(stream) \in Nat
    <3>1. UnitAt(stream, q, pos[i + 1], u, l)
      BY StreamedAt
    <3> HIDE DEF q, u, l
    <3> QED BY <3>1 DEF UnitAt
  <2>5. m \in q .. q + 3 + l /\ m \in Nat
    <3>1. m \in q .. (q + 4 + l) - 1 /\ m \in Nat
      BY <2>2, <2>3, <2>4
    <3> HIDE DEF q, u, l
    <3> QED BY ONLY <2>4, <3>1
  <2>6. l = Len(u)
    OBVIOUS
  <2>7. CASE m \in q .. q + 3
    <3> HIDE DEF q, u, l
    <3>1. m \in {q, q + 1, q + 2, q + 3} /\ q \in Nat
      BY ONLY <2>4, <2>7
    <3>2. m = q + 1
      <4>1. m # q
        BY <2>1, <2>4
      <4>2. (q + 2) + 1 = q + 3
        BY ONLY <3>1
      <4>3. m # q + 2
        BY <2>1, <2>4, <4>2
      <4>4. m # q + 3
        BY <2>1, <2>4
      <4> QED BY <3>1, <4>1, <4>3, <4>4
    <3> QED BY <3>2 DEF q
  <2>8. CASE m \notin q .. q + 3
    <3> HIDE DEF q, u, l
    <3> DEFINE j == m - (q + 3)
    <3>1. j \in 1 .. l /\ m = q + 3 + j
      BY <2>4, <2>5, <2>8
    <3> HIDE DEF j
    <3>2. j # l
      BY <2>1, <2>4, <3>1
    <3>3. j + 1 \in 1 .. l /\ m + 1 = q + 3 + (j + 1) /\ j \in Nat
      BY <2>4, <3>1, <3>2
    <3>4. j + 1 # l
      BY <2>1, <2>4, <3>3
    <3>5. j + 2 \in 1 .. l /\ m + 2 = q + 3 + (j + 2)
      BY <2>4, <3>1, <3>3, <3>4
    <3>6. u[j] = 0 /\ u[j + 1] = 0 /\ u[j + 2] = 1
      <4>1. stream[m] = u[j] /\ stream[m + 1] = u[j + 1] /\ stream[m + 2] = u[j + 2]
        BY <2>4, <3>1, <3>3, <3>5
      <4> QED BY <2>1, <4>1
    <3>7. j \in 1 .. Len(u) - 2
      <4>1. j \in 1 .. l - 2
        BY <2>4, <3>1, <3>5
      <4> QED BY <2>6, <4>1
    <3>8. j \in Marks(u)
      BY <3>6, <3>7 DEF Marks
    <3> QED BY <2>4, <3>8 DEF IsUnit
  <2> QED BY <2>7, <2>8
<1> QED BY <1>1, <1>2

\* The places are in the order of the units.
LEMMA StreamedOrder ==
    ASSUME NEW stream, NEW units, NEW n, NEW pos, Streamed(stream, units, n, pos),
           NEW i \in 1 .. n, NEW k \in 1 .. n
    PROVE  i < k <=> pos[i] + 4 < pos[k] + 4
<1>1. n \in Nat /\ i \in Nat /\ k \in Nat
  BY DEF Streamed, Framed
<1>2. ASSUME NEW a \in 1 .. n, NEW b \in 1 .. n, a < b
      PROVE  pos[a] < pos[b] /\ pos[a] \in Nat /\ pos[b] \in Nat
  <2>1. b \in a + 1 .. n + 1 /\ a + 1 \in 1 .. n + 1
    <3>1. n \in Nat /\ a \in 1 .. n /\ b \in 1 .. n /\ a < b
      BY <1>1, <1>2
    <3> QED BY ONLY <3>1
  <2>2. pos[a + 1] <= pos[b]
    BY <2>1 DEF Streamed, Framed
  <2>3. pos[a] \in Nat /\ pos[b] \in Nat /\ pos[a] < pos[a + 1] /\ pos[a + 1] \in Nat
    <3> DEFINE q == pos[a]
               l == Len(units[a])
    <3>1. q \in Nat \ {0} /\ l \in Nat \ {0} /\ pos[a + 1] = q + 4 + l
      BY StreamedSpan
    <3>2. pos[b] \in Nat
      BY StreamedSpan
    <3> HIDE DEF q, l
    <3>3. q \in Nat /\ q < pos[a + 1] /\ pos[a + 1] \in Nat
      BY ONLY <3>1
    <3> QED BY <3>2, <3>3 DEF q
  <2> QED BY ONLY <2>2, <2>3
<1>3. CASE i < k
  BY <1>2, <1>3
<1>4. CASE k < i
  <2>1. pos[k] < pos[i] /\ pos[i] \in Nat /\ pos[k] \in Nat
    BY <1>2, <1>4
  <2> QED BY ONLY <2>1, <1>1, <1>4
<1>5. CASE k = i
  <2>1. pos[i] \in Nat
    BY StreamedSpan
  <2> QED BY <1>1, <1>5, <2>1
<1> QED BY <1>1, <1>3, <1>4, <1>5

-----------------------------------------------------------------------------
(***************************************************************************)
(* find_start_code and iter_nal_units (nal.rs).                            *)
(***************************************************************************)

\* The places of a stream.
Places == Nat \ {0}

\* Where the codes are that the search from a place can find, and what zeros
\* come before one.
Later(stream, from) == {i \in Marks(stream) : i >= from}
\* The zeros in front of a code.
ZerosTo(stream, from, m) == {k \in from .. m : \A j \in k .. m - 1 : stream[j] = 0}

\* find_start_code (nal.rs): the first code, with the zeros in front of it.
LEMMA Finding ==
    ASSUME NEW stream, NEW from
    PROVE  FindStartCode(stream, from) =
              IF Later(stream, from) = {} THEN Nothing
              ELSE <<Min(ZerosTo(stream, from, Min(Later(stream, from)))),
                     Min(Later(stream, from)) + 3>>
BY DEF FindStartCode, Later, ZerosTo

\* A code that is found is behind the place the search began at.
LEMMA Found ==
    ASSUME NEW stream, stream \in Seq(Nat), NEW from, from \in Places,
           NEW code, code = FindStartCode(stream, from), code # Nothing
    PROVE  /\ code[1] \in from .. Len(stream)
           /\ code[2] \in from + 3 .. Len(stream) + 1 /\ code[2] \in Places
           /\ Len(stream) \in Nat
<1> DEFINE later == Later(stream, from)
           m == Min(later)
           z == ZerosTo(stream, from, m)
           e == Len(stream)
<1>1. from \in Nat \ {0} /\ e \in Nat
  BY DEF Places
<1>2. later # {} /\ code = <<Min(z), m + 3>>
  BY Finding
<1>3. later \subseteq 1 .. e - 2 /\ \A i \in later : i >= from
  BY DEF Later, Marks
<1>4. m \in later
  <2>1. later \subseteq Nat
    BY <1>1, <1>3
  <2> HIDE DEF later
  <2> QED BY <1>2, <2>1, MinOfNats
<1>5. m \in from .. e - 2 /\ m \in Nat
  <2> HIDE DEF later, m, e
  <2>1. m \in 1 .. e - 2 /\ m >= from
    BY <1>3, <1>4
  <2> QED BY ONLY <1>1, <2>1
<1> HIDE DEF later, m, e
<1>6. m \in z /\ z \subseteq from .. m
  BY <1>1, <1>5 DEF ZerosTo
<1>7. z \subseteq Nat
  BY ONLY <1>1, <1>5, <1>6
<1> HIDE DEF z
<1>8. Min(z) \in from .. m
  <2>1. Min(z) \in z
    BY <1>6, <1>7, MinOfNats
  <2> QED BY <1>6, <2>1
<1>9. code[1] = Min(z) /\ code[2] = m + 3
  BY <1>2
<1>10. code[1] \in from .. e /\ code[2] \in from + 3 .. e + 1 /\ code[2] \in Nat \ {0}
  BY ONLY <1>1, <1>5, <1>8, <1>9
<1> QED BY <1>1, <1>10 DEF e, Places

\* The unit between two codes, unless it is empty.
Unit(stream, first, last) == IF first > last THEN <<>> ELSE <<SubSeq(stream, first, last)>>

\* The recursion of nal_units, whatever place it is at.
Units(stream, f) ==
    \A d \in Places :
        f[d] = LET code == FindStartCode(stream, d)
               IN  IF code = Nothing THEN Unit(stream, d, Len(stream))
                   ELSE Cat(Unit(stream, d, code[1] - 1), f[code[2]])

\* A unit is a sequence of cells.
LEMMA UnitTyped ==
    ASSUME NEW stream, stream \in Seq(Nat), NEW first, first \in Places, NEW last,
           last \in Int, last <= Len(stream)
    PROVE  Unit(stream, first, last) \in Seq(Seq(Nat))
<1>1. CASE first > last
  BY <1>1 DEF Unit
<1>2. CASE ~(first > last)
  <2>1. first \in Int /\ first >= 1 /\ Len(stream) \in Nat
    BY DEF Places
  <2>2. \A i \in first .. last : stream[i] \in Nat
    BY <2>1
  <2>3. SubSeq(stream, first, last) \in Seq(Nat)
    BY <2>1, <2>2, SubSeqProperties
  <2> DEFINE s == SubSeq(stream, first, last)
             T == Seq(Nat)
  <2>4. s \in T
    BY <2>3
  <2> HIDE DEF s, T
  <2>5. <<s>> \in Seq(T)
    BY <2>4
  <2> QED BY <1>2, <2>5 DEF Unit, s, T
<1> QED BY <1>1, <1>2

\* The loop of iter_nal_units ends, wherever it starts.
LEMMA UnitsExist ==
    ASSUME NEW stream, stream \in Seq(Nat)
    PROVE  \E f \in [Places -> Seq(Seq(Nat))] : Units(stream, f)
<1> DEFINE T == Seq(Seq(Nat))
           e == Len(stream)
           code(d) == FindStartCode(stream, d)
           stop == {d \in Places : code(d) = Nothing}
           item == [d \in Places |-> IF d \in stop THEN Unit(stream, d, e)
                                     ELSE Unit(stream, d, code(d)[1] - 1)]
           next == [d \in Places |-> IF d \in stop THEN d ELSE code(d)[2]]
           rank == [d \in Places |-> IF d <= e THEN (e + 1) - d ELSE 0]
<1>1. e \in Nat /\ \A d \in Places : d \in Nat \ {0}
  BY DEF Places
<1>2. \A d \in Places : d \notin stop =>
          /\ code(d)[1] \in d .. e /\ code(d)[2] \in d + 3 .. e + 1 /\ code(d)[2] \in Places
  BY Found
<1>3. item \in [Places -> T]
  <2>1. ASSUME NEW d \in Places PROVE item[d] \in T
    <3>1. CASE d \in stop
      <4>1. e \in Int /\ e <= Len(stream)
        BY <1>1
      <4>2. Unit(stream, d, e) \in T
        BY <4>1, UnitTyped
      <4> HIDE DEF stop, T, e
      <4> QED BY <3>1, <4>2
    <3>2. CASE d \notin stop
      <4> DEFINE l == code(d)[1] - 1
      <4>1. l \in Int /\ l <= Len(stream)
        BY <1>1, <1>2, <3>2
      <4> HIDE DEF l
      <4>2. Unit(stream, d, l) \in T
        BY <4>1, UnitTyped
      <4> HIDE DEF stop, T, e
      <4> QED BY <3>2, <4>2 DEF l
    <3> QED BY <3>1, <3>2
  <2> HIDE DEF T, stop, e
  <2> QED BY <2>1
<1>4. next \in [Places -> Places]
  BY <1>2
<1>5. rank \in [Places -> Nat] /\ \A d \in Places : rank[d] <= e + 1
  BY <1>1
<1>6. \A d \in Places : d \notin stop => rank[next[d]] < rank[d]
  <2> TAKE d \in Places
  <2> SUFFICES ASSUME d \notin stop PROVE rank[next[d]] < rank[d]
    OBVIOUS
  <2> DEFINE x == code(d)[2]
  <2>1. next[d] = x /\ x \in d + 3 .. e + 1 /\ x \in Places
    BY <1>2
  <2> HIDE DEF x, next, e
  <2>2. rank[x] = IF x <= e THEN (e + 1) - x ELSE 0
    BY <2>1
  <2>3. rank[d] = IF d <= e THEN (e + 1) - d ELSE 0
    OBVIOUS
  <2>4. d \in Nat \ {0} /\ e \in Nat
    BY <1>1
  <2> HIDE DEF rank
  <2>5. rank[x] < rank[d]
    BY ONLY <2>1, <2>2, <2>3, <2>4
  <2> QED BY <2>1, <2>5
<1>7. Monoid(T)
  BY SeqMonoid
<1>8. e + 1 \in Nat
  BY <1>1
<1> HIDE DEF T, stop, item, next, rank, e
<1>9. Descends(T, Places, stop, item, next, rank, e + 1)
  BY <1>3, <1>4, <1>5, <1>6, <1>8 DEF Descends
<1>10. PICK f \in [Places -> T] : Walks(f, Places, stop, item, next)
  BY <1>7, <1>9, WalkExists
<1>11. Units(stream, f)
  <2> SUFFICES ASSUME NEW d \in Places
               PROVE  f[d] = IF code(d) = Nothing THEN Unit(stream, d, e)
                             ELSE Cat(Unit(stream, d, code(d)[1] - 1), f[code(d)[2]])
    BY DEF Units, e
  <2>1. f[d] = IF d \in stop THEN item[d] ELSE Cat(item[d], f[next[d]])
    BY <1>10 DEF Walks
  <2>2. d \in stop <=> code(d) = Nothing
    BY DEF stop
  <2>3. item[d] = IF d \in stop THEN Unit(stream, d, e) ELSE Unit(stream, d, code(d)[1] - 1)
    BY DEF item
  <2>4. next[d] = IF d \in stop THEN d ELSE code(d)[2]
    BY DEF next
  <2> QED BY <2>1, <2>2, <2>3, <2>4, Zenon
<1> QED BY <1>10, <1>11 DEF T

\* The units are what the recursion collects behind the first code.
LEMMA NalUnitsWalk ==
    ASSUME NEW stream, stream \in Seq(Nat)
    PROVE  \E f : /\ Units(stream, f)
                  /\ NalUnits(stream) = LET first == FindStartCode(stream, 1)
                                        IN  IF first = Nothing THEN <<>> ELSE f[first[2]]
<1> DEFINE unit(first, last) == IF first > last THEN <<>> ELSE <<SubSeq(stream, first, last)>>
           Eq(f) == f = [data \in Nat \ {0} |->
                           LET code == FindStartCode(stream, data)
                           IN  IF code = Nothing THEN unit(data, Len(stream))
                               ELSE unit(data, code[1] - 1) \o f[code[2]]]
           h == CHOOSE f : Eq(f)
<1>1. PICK g \in [Places -> Seq(Seq(Nat))] : Units(stream, g)
  BY UnitsExist
<1>2. Eq(g)
  <2>1. g = [d \in Places |-> g[d]]
    BY <1>1
  <2>2. \A d \in Places : g[d] = LET code == FindStartCode(stream, d)
                           IN  IF code = Nothing THEN unit(d, Len(stream))
                               ELSE unit(d, code[1] - 1) \o g[code[2]]
    BY <1>1 DEF Units, Unit, Cat
  <2> QED BY <2>1, <2>2 DEF Places
<1>3. Eq(h)
  BY <1>2
<1>4. NalUnits(stream) = LET first == FindStartCode(stream, 1)
                         IN  IF first = Nothing THEN <<>> ELSE h[first[2]]
  BY DEF NalUnits
<1> HIDE DEF h
<1>5. Units(stream, h)
  <2> SUFFICES ASSUME NEW d \in Places
               PROVE  h[d] = LET code == FindStartCode(stream, d)
                           IN  IF code = Nothing THEN unit(d, Len(stream))
                               ELSE unit(d, code[1] - 1) \o h[code[2]]
    BY DEF Units, Unit, Cat
  <2> QED BY <1>3 DEF Places
<1> QED BY <1>4, <1>5

\* Items that a loop collects one by one.
Chain(v, u, n) ==
    \A i \in 1 .. n : v[i] = IF i = n THEN <<u[i]>> ELSE Cat(<<u[i]>>, v[i + 1])

\* The loop collects all of them.
LEMMA ChainCollects ==
    ASSUME NEW T, NEW n, n \in Nat \ {0}, NEW u, u \in Seq(T), Len(u) = n, NEW v, Chain(v, u, n)
    PROVE  v[1] = u
<1> DEFINE Bad == {k \in Nat : k < n /\ v[n - k] # SubSeq(u, n - k, n)}
<1>1. Bad = {}
  <2> SUFFICES ASSUME Bad # {} PROVE FALSE
    OBVIOUS
  <2>1. PICK k \in Bad : \A m \in Bad : k <= m
    <3>1. Bad \in SUBSET Nat
      OBVIOUS
    <3> HIDE DEF Bad
    <3> QED BY <3>1, LeastNat
  <2>2. k \in Nat /\ k < n /\ v[n - k] # SubSeq(u, n - k, n)
    BY <2>1
  <2> DEFINE i == n - k
  <2>3. i \in 1 .. n /\ n \in i .. n /\ i \in Nat
    BY <2>2
  <2>4. v[i] # SubSeq(u, i, n)
    BY <2>2
  <2>5. i = n => k = 0
    BY <2>2
  <2>6. i # n => i + 1 \in 1 .. n /\ n - (k - 1) = i + 1 /\ k - 1 \in Nat /\ k - 1 < n
    BY <2>2
  <2>7. i # n => v[i + 1] = SubSeq(u, i + 1, n)
    <3>1. ASSUME i # n PROVE v[n - (k - 1)] = SubSeq(u, n - (k - 1), n)
      <4>1. k - 1 \notin Bad
        <5> HIDE DEF Bad
        <5> QED BY ONLY <2>1, <2>2
      <4>2. k - 1 \in Nat /\ k - 1 < n
        BY <2>6, <3>1
      <4> HIDE DEF i
      <4> QED BY <4>1, <4>2
    <3> HIDE DEF i
    <3> QED BY <2>6, <3>1
  <2> HIDE DEF i, Bad
  <2>8. SubSeq(u, i, n) = Cat(<<u[i]>>, SubSeq(u, i + 1, n))
    <3>1. u \in Seq(T) /\ i \in 1 .. Len(u) /\ n \in i .. Len(u)
      BY <2>3
    <3>2. SubSeq(u, i, n) = <<u[i]>> \o SubSeq(u, i + 1, n)
      BY <3>1, SubSeqRecursiveFirst
    <3> QED BY <3>2 DEF Cat
  <2>9. CASE i = n
    <3>1. v[i] = <<u[i]>>
      BY <2>3, <2>9 DEF Chain
    <3>2. SubSeq(u, i, n) = <<u[i]>>
      <4>1. SubSeq(u, i + 1, n) = <<>>
        BY <2>3, <2>9
      <4>2. Cat(<<u[i]>>, <<>>) = <<u[i]>>
        BY DEF Cat
      <4> QED BY <2>8, <4>1, <4>2
    <3> QED BY <2>4, <3>1, <3>2
  <2>10. CASE i # n
    <3>1. v[i] = Cat(<<u[i]>>, v[i + 1])
      BY <2>3, <2>10 DEF Chain
    <3> QED BY <2>4, <2>7, <2>8, <2>10, <3>1
  <2> QED BY <2>9, <2>10
<1>2. v[1] = SubSeq(u, 1, n)
  <2>1. n - 1 \in Nat /\ n - 1 < n /\ n - (n - 1) = 1
    OBVIOUS
  <2>2. n - 1 \notin Bad
    BY <1>1
  <2>3. v[n - (n - 1)] = SubSeq(u, n - (n - 1), n)
    BY ONLY <2>1, <2>2
  <2> QED BY <2>1, <2>3
<1>3. SubSeq(u, 1, Len(u)) = u
  BY SubSeqFull
<1> QED BY <1>2, <1>3

\* The least of some numbers is the one that is least.
LEMMA LeastIs ==
    ASSUME NEW S, S \subseteq Nat, NEW m \in S, \A y \in S : m <= y
    PROVE  Min(S) = m
<1>1. Min(S) \in S /\ \A y \in S : Min(S) <= y
  BY MinOfNats
<1>2. Min(S) \in Nat /\ m \in Nat /\ Min(S) <= m /\ m <= Min(S)
  BY <1>1
<1> QED BY ONLY <1>2

\* The first code that can be found from a place in front of unit i.
LEMMA StreamedNext ==
    ASSUME NEW stream, NEW units, NEW n, NEW pos, Streamed(stream, units, n, pos),
           NEW i \in 1 .. n, NEW from, from \in Places,
           from <= pos[i] + 1, \A k \in 1 .. n : k < i => pos[k] + 1 < from
    PROVE  /\ Later(stream, from) # {} /\ Min(Later(stream, from)) = pos[i] + 1
           /\ pos[i] \in Nat \ {0}
<1> DEFINE later == Later(stream, from)
           q == pos[i]
           m == q + 1
<1>1. /\ n \in Nat /\ i \in Nat /\ from \in Nat \ {0} /\ (\A k \in 1 .. n : k \in Nat)
      /\ q \in Nat \ {0}
  <2>1. q \in Nat \ {0}
    BY StreamedSpan
  <2> HIDE DEF q
  <2> QED BY <2>1 DEF Streamed, Framed, Places
<1>2. later = {p \in {pos[k] + 1 : k \in 1 .. n} : p >= from}
  BY StreamedMarks DEF Later
<1>3. m \in later
  BY <1>1, <1>2
<1>4. ASSUME NEW p \in later PROVE p \in Nat /\ m <= p
  <2>1. PICK k \in 1 .. n : p = pos[k] + 1 /\ p >= from
    BY <1>2
  <2>2. pos[k] \in Nat
    BY StreamedSpan
  <2>3. ~(k < i)
    <3>1. ASSUME k < i PROVE FALSE
      <4>1. pos[k] + 1 < from
        BY <3>1
      <4> QED BY ONLY <1>1, <2>1, <2>2, <4>1
    <3> QED BY <3>1
  <2>4. ~(pos[k] + 4 < pos[i] + 4)
    BY <2>3, StreamedOrder
  <2> QED BY ONLY <1>1, <2>1, <2>2, <2>4
<1>5. Min(later) = m
  <2>1. later \subseteq Nat
    BY <1>4
  <2> HIDE DEF later, m
  <2> QED BY <1>3, <1>4, <2>1, LeastIs
<1> QED BY <1>1, <1>3, <1>5

\* The search from a place behind the last cell that is no zero, in front of unit i.
LEMMA StreamedFind ==
    ASSUME NEW stream, NEW units, NEW n, NEW pos, Streamed(stream, units, n, pos),
           NEW i \in 1 .. n, NEW from, from \in Places,
           from <= pos[i], \A k \in 1 .. n : k < i => pos[k] + 1 < from,
           from = pos[i] \/ stream[pos[i] - 1] # 0
    PROVE  FindStartCode(stream, from) = <<pos[i], pos[i] + 4>>
<1> DEFINE later == Later(stream, from)
           q == pos[i]
           m == q + 1
<1>1. /\ q \in Nat \ {0} /\ stream[q] = 0 /\ from \in Nat \ {0} /\ from <= q + 1
  <2>1. q \in Nat \ {0} /\ stream[q] = 0
    <3>1. UnitAt(stream, q, pos[i + 1], units[i], Len(units[i]))
      BY StreamedAt
    <3> HIDE DEF q
    <3> QED BY ONLY <3>1 DEF UnitAt
  <2> HIDE DEF q
  <2>2. from \in Nat \ {0} /\ from <= q
    BY DEF Places, q
  <2> QED BY ONLY <2>1, <2>2
<1>2. later # {} /\ Min(later) = m
  BY <1>1, StreamedNext
<1> DEFINE z == ZerosTo(stream, from, m)
<1>3. q \in z
  <2>1. q \in from .. m /\ \A j \in q .. m - 1 : j = q
    BY <1>1
  <2> HIDE DEF m
  <2> QED BY <1>1, <2>1 DEF ZerosTo
<1>4. z \subseteq from .. m
  BY DEF ZerosTo
<1>5. ASSUME NEW k \in z PROVE k \in Nat /\ q <= k
  <2>1. k \in from .. m /\ \A j \in k .. m - 1 : stream[j] = 0
    BY <1>4 DEF ZerosTo
  <2>2. CASE from = q
    BY <1>1, <2>1, <2>2
  <2>3. CASE from # q
    <3>1. stream[q - 1] # 0
      BY <2>3
    <3>2. q - 1 \notin k .. m - 1
      BY <2>1, <3>1
    <3>3. k \in Nat
      BY <1>1, <2>1
    <3> QED BY ONLY <1>1, <2>1, <3>2, <3>3
  <2> QED BY <2>2, <2>3
<1> HIDE DEF z
<1>6. Min(z) = q
  <2>1. z \subseteq Nat
    BY <1>5
  <2> QED BY <1>3, <1>5, <2>1, LeastIs
<1>7. m + 3 = q + 4
  BY <1>1
<1> HIDE DEF later, m, q
<1>8. FindStartCode(stream, from) = <<Min(z), m + 3>>
  BY <1>2, Finding DEF later, z
<1> QED BY <1>6, <1>7, <1>8 DEF q

\* Behind the last unit no code is found.
LEMMA StreamedEnd ==
    ASSUME NEW stream, NEW units, NEW n, NEW pos, Streamed(stream, units, n, pos)
    PROVE  FindStartCode(stream, pos[n] + 4) = Nothing
<1>1. n \in Nat \ {0} /\ n \in 1 .. n
  BY DEF Streamed, Framed
<1>2. pos[n] \in Nat
  BY <1>1, StreamedSpan
<1>3. ASSUME NEW p \in Later(stream, pos[n] + 4) PROVE FALSE
  <2>1. PICK k \in 1 .. n : p = pos[k] + 1 /\ p >= pos[n] + 4
    BY StreamedMarks DEF Later
  <2>2. pos[k] \in Nat
    BY StreamedSpan
  <2>3. n < k
    <3>1. pos[n] + 4 < pos[k] + 4
      BY ONLY <1>2, <2>1, <2>2
    <3> QED BY <1>1, <3>1, StreamedOrder
  <2> QED BY <1>1, <2>3
<1>4. Later(stream, pos[n] + 4) = {}
  BY <1>3
<1> QED BY <1>4, Finding

\* The cells between two codes are the unit.
LEMMA FramedSlice ==
    ASSUME NEW stream, NEW units, NEW n, NEW pos, NEW last, Framed(stream, units, n, pos, last),
           NEW i \in 1 .. n, units[i] # <<>>
    PROVE  /\ SubSeq(stream, pos[i] + 4, pos[i + 1] - 1) = units[i]
           /\ Unit(stream, pos[i] + 4, pos[i + 1] - 1) = <<units[i]>>
<1> DEFINE q == pos[i]
           u == units[i]
           l == Len(u)
           s == SubSeq(stream, q + 4, q + 3 + l)
<1>1. /\ n \in Nat \ {0} /\ stream \in Seq(Nat) /\ pos \in [1 .. n + 1 -> Nat \ {0}]
      /\ units \in [1 .. n -> Seq(Nat)] /\ pos[n + 1] = Len(stream) + 1
      /\ pos[i + 1] = q + 4 + l
      /\ \A j \in 1 .. l : stream[q + 3 + j] = u[j]
      /\ \A a \in 1 .. n + 1 : \A k \in a .. n + 1 : pos[a] <= pos[k]
  BY DEF Framed
<1>2. /\ q \in Nat \ {0} /\ l \in Nat \ {0} /\ u \in Seq(Nat) /\ pos[i + 1] = q + 4 + l
      /\ q + 3 + l \in 1 .. Len(stream) /\ Len(stream) \in Nat
      /\ \A j \in 1 .. l : stream[q + 3 + j] = u[j]
  <2>1. i + 1 \in 1 .. n + 1 /\ n + 1 \in i + 1 .. n + 1 /\ i \in 1 .. n + 1
    BY <1>1
  <2>2. q \in Nat \ {0} /\ u \in Seq(Nat) /\ Len(stream) \in Nat
    BY <1>1, <2>1
  <2>3. l \in Nat \ {0}
    BY <2>2
  <2> DEFINE e == Len(stream)
  <2>4. q + 4 + l <= e + 1 /\ e \in Nat
    BY <1>1, <2>1, <2>2
  <2> HIDE DEF q, l, e, u
  <2>5. q + 3 + l \in 1 .. e
    BY ONLY <2>2, <2>3, <2>4
  <2> QED BY <1>1, <2>2, <2>3, <2>5 DEF e
<1>3. l = Len(u)
  OBVIOUS
<1>4. stream \in Seq(Nat)
  BY <1>1
<1> HIDE DEF q, u, l
<1>5. pos[i + 1] - 1 = q + 3 + l /\ ~(q + 4 > q + 3 + l)
  BY ONLY <1>2
<1>6. s \in Seq(Nat) /\ Len(s) = l /\ \A j \in 1 .. l : s[j] = stream[q + 3 + j]
  <2> DEFINE m == q + 4
             e == q + 3 + l
  <2>1. m \in Int /\ e \in Int /\ m <= e /\ e - m + 1 = l /\ \A j \in 1 .. l : m + j - 1 = q + 3 + j
    BY ONLY <1>2
  <2>2. \A p \in m .. e : stream[p] \in Nat
    BY <1>2, <1>4
  <2> HIDE DEF m, e
  <2>3. /\ SubSeq(stream, m, e) \in Seq(Nat) /\ Len(SubSeq(stream, m, e)) = e - m + 1
        /\ \A j \in 1 .. (e - m + 1) : SubSeq(stream, m, e)[j] = stream[m + j - 1]
    BY <2>1, <2>2, SubSeqProperties
  <2>4. SubSeq(stream, m, e) = s
    BY DEF m, e
  <2> QED BY <2>1, <2>3, <2>4
<1>7. s = u
  <2> HIDE DEF s
  <2>1. Len(s) = Len(u) /\ \A j \in 1 .. Len(s) : s[j] = u[j]
    BY <1>2, <1>3, <1>6
  <2> QED BY <1>2, <1>6, <2>1, SeqEqual
<1> QED BY <1>5, <1>7 DEF Unit, q, u

\* The same of a stream with start codes.
LEMMA StreamedSlice ==
    ASSUME NEW stream, NEW units, NEW n, NEW pos, Streamed(stream, units, n, pos), NEW i \in 1 .. n
    PROVE  /\ SubSeq(stream, pos[i] + 4, pos[i + 1] - 1) = units[i]
           /\ Unit(stream, pos[i] + 4, pos[i + 1] - 1) = <<units[i]>>
<1>1. Framed(stream, units, n, pos, [k \in 1 .. n |-> 1]) /\ units[i] # <<>>
  BY DEF Streamed, IsUnit
<1> QED BY <1>1, FramedSlice

\* iter_nal_units gives back the units that the stream was made of.
LEMMA StreamedUnits ==
    ASSUME NEW stream, NEW units, units \in Seq(Seq(Nat)), NEW n, n = Len(units),
           NEW pos, Streamed(stream, units, n, pos)
    PROVE  NalUnits(stream) = units
<1> DEFINE T == Seq(Nat)
<1>1. n \in Nat \ {0} /\ stream \in Seq(Nat) /\ pos[1] = 1 /\ pos[n + 1] = Len(stream) + 1
      /\ \A i \in 1 .. n : i \in Nat
  BY DEF Streamed, Framed
<1>2. PICK f : /\ Units(stream, f)
               /\ NalUnits(stream) = LET first == FindStartCode(stream, 1)
                                     IN  IF first = Nothing THEN <<>> ELSE f[first[2]]
  BY <1>1, NalUnitsWalk
<1>3. FindStartCode(stream, 1) = <<1, 5>>
  <2>1. 1 \in 1 .. n /\ 1 \in Places /\ 1 <= pos[1] /\ (\A k \in 1 .. n : ~(k < 1))
    BY <1>1 DEF Places
  <2>2. FindStartCode(stream, 1) = <<pos[1], pos[1] + 4>>
    BY ONLY <1>1, <2>1, Streamed(stream, units, n, pos), StreamedFind
  <2> QED BY <1>1, <2>2
<1>4. NalUnits(stream) = f[5]
  <2> DEFINE first == FindStartCode(stream, 1)
  <2>1. first # Nothing /\ first[2] = 5
    BY <1>3 DEF Nothing
  <2>2. NalUnits(stream) = IF first = Nothing THEN <<>> ELSE f[first[2]]
    BY <1>2
  <2> HIDE DEF first
  <2> QED BY <2>1, <2>2
<1> DEFINE v == [i \in 1 .. n |-> f[pos[i] + 4]]
<1>5. ASSUME NEW i \in 1 .. n
      PROVE  v[i] = IF i = n THEN <<units[i]>> ELSE Cat(<<units[i]>>, v[i + 1])
  <2> DEFINE d == pos[i] + 4
             code == FindStartCode(stream, d)
  <2>1. d \in Places
    BY StreamedSpan DEF Places
  <2>2. f[d] = IF code = Nothing THEN Unit(stream, d, Len(stream))
               ELSE Cat(Unit(stream, d, code[1] - 1), f[code[2]])
    BY <1>2, <2>1 DEF Units
  <2>3. Unit(stream, d, pos[i + 1] - 1) = <<units[i]>>
    BY StreamedSlice
  <2>4. CASE i = n
    <3>1. code = Nothing /\ pos[i + 1] - 1 = Len(stream)
      BY <1>1, <2>4, StreamedEnd
    <3> QED BY <2>2, <2>3, <2>4, <3>1
  <2>5. CASE i # n
    <3>1. i + 1 \in 1 .. n
      BY <1>1, <2>5
    <3>2. UnitAt(stream, pos[i], pos[i + 1], units[i], Len(units[i]))
      BY StreamedAt
    <3> DEFINE q == pos[i]
               l == Len(units[i])
               x == pos[i + 1]
    <3>3. q \in Nat \ {0} /\ l \in Nat \ {0} /\ x = q + 4 + l /\ stream[q + 3 + l] # 0
      BY <3>2 DEF UnitAt
    <3> HIDE DEF q, l, x
    <3>4. x - 1 = q + 3 + l /\ q + 4 <= x /\ x # 0
      BY ONLY <3>3
    <3>5. \A k \in 1 .. n : k < i + 1 => pos[k] + 1 < d
      <4> TAKE k \in 1 .. n
      <4> SUFFICES ASSUME k < i + 1 PROVE pos[k] + 1 < d
        OBVIOUS
      <4>1. pos[k] \in Nat /\ q \in Nat
        BY StreamedSpan DEF q
      <4>2. ~(i < k)
        BY <1>1
      <4>3. ~(q + 4 < pos[k] + 4)
        BY <4>2, StreamedOrder DEF q
      <4>4. d = q + 4
        BY DEF q
      <4> QED BY ONLY <4>1, <4>3, <4>4
    <3>6. code = <<x, x + 4>>
      <4>1. d <= x /\ stream[x - 1] # 0
        BY <3>3, <3>4 DEF q
      <4> HIDE DEF d
      <4>2. FindStartCode(stream, d) = <<pos[i + 1], pos[i + 1] + 4>>
        BY <2>1, <3>1, <3>5, <4>1, StreamedFind DEF x
      <4> QED BY <4>2 DEF x
    <3>7. code[1] - 1 = x - 1 /\ code[2] = x + 4 /\ code # Nothing
      BY <3>6 DEF Nothing
    <3>8. v[i + 1] = f[x + 4] /\ v[i] = f[d]
      BY <3>1 DEF x
    <3> HIDE DEF v, d, code
    <3> QED BY <2>2, <2>3, <2>5, <3>7, <3>8 DEF x
  <2> QED BY <2>4, <2>5
<1>6. Chain(v, units, n)
  <2> HIDE DEF v
  <2> QED BY <1>5 DEF Chain
<1>7. v[1] = f[5]
  <2>1. 1 \in 1 .. n /\ pos[1] + 4 = 5
    BY <1>1
  <2> QED BY <2>1
<1> HIDE DEF v, T
<1>8. v[1] = units
  <2>1. units \in Seq(T)
    BY DEF T
  <2> QED BY <1>1, <1>6, <2>1, ChainCollects
<1> QED BY <1>4, <1>7, <1>8

-----------------------------------------------------------------------------
(***************************************************************************)
(* The encoder's samples: for_each_avcc_nal (encode_vt.rs).                *)
(***************************************************************************)

\* The four cells of a length, as a number.
LEMMA BigEndianFour ==
    ASSUME NEW cells, cells \in Seq(Nat), Len(cells) = 4
    PROVE  BigEndian(cells) = 256 * (256 * (256 * cells[1] + cells[2]) + cells[3]) + cells[4]
<1> DEFINE Eq(f) == f = [i \in 0 .. 4 |-> IF i = 0 THEN 0 ELSE 256 * f[i - 1] + cells[i]]
           h == CHOOSE f : Eq(f)
           v1 == cells[1]
           v2 == 256 * v1 + cells[2]
           v3 == 256 * v2 + cells[3]
           v4 == 256 * v3 + cells[4]
           g == [i \in 0 .. 4 |-> IF i = 0 THEN 0 ELSE IF i = 1 THEN v1 ELSE IF i = 2 THEN v2
                                  ELSE IF i = 3 THEN v3 ELSE v4]
<1>1. cells[1] \in Nat /\ cells[2] \in Nat /\ cells[3] \in Nat /\ cells[4] \in Nat
  <2>1. cells \in [1 .. Len(cells) -> Nat]
    BY SeqAsFunction
  <2>2. cells \in [1 .. 4 -> Nat]
    BY <2>1
  <2> QED BY ONLY <2>2
<1>2. v1 \in Nat /\ v2 \in Nat /\ v3 \in Nat
  <2>1. v1 \in Nat
    BY ONLY <1>1
  <2> HIDE DEF v1
  <2>2. v2 \in Nat
    BY ONLY <1>1, <2>1
  <2> HIDE DEF v2
  <2> QED BY ONLY <1>1, <2>1, <2>2
<1>3. Eq(g)
  <2>1. /\ v1 = 256 * 0 + cells[1] /\ v2 = 256 * v1 + cells[2]
        /\ v3 = 256 * v2 + cells[3] /\ v4 = 256 * v3 + cells[4]
    BY <1>1
  <2> HIDE DEF v1, v2, v3, v4
  <2>2. g[0] = 0 /\ g[1] = v1 /\ g[2] = v2 /\ g[3] = v3 /\ g[4] = v4 /\ g = [i \in 0 .. 4 |-> g[i]]
    OBVIOUS
  <2> HIDE DEF g
  <2>3. ASSUME NEW i \in 0 .. 4 PROVE g[i] = IF i = 0 THEN 0 ELSE 256 * g[i - 1] + cells[i]
    <3>1. i = 0 \/ i = 1 \/ i = 2 \/ i = 3 \/ i = 4
      OBVIOUS
    <3> QED BY <2>1, <2>2, <3>1
  <2> QED BY <2>2, <2>3
<1>4. Eq(h)
  <2> HIDE DEF g
  <2> QED BY <1>3
<1>5. BigEndian(cells) = h[4]
  BY DEF BigEndian
<1> HIDE DEF h
<1>6. h[0] = 0 /\ h[1] = 256 * h[0] + cells[1] /\ h[2] = 256 * h[1] + cells[2]
      /\ h[3] = 256 * h[2] + cells[3] /\ h[4] = 256 * h[3] + cells[4]
  BY <1>4
<1>7. h[1] = v1
  BY <1>1, <1>6
<1> QED BY <1>5, <1>6, <1>7

\* A length of one cell is read as that cell.
LEMMA LengthRead ==
    ASSUME NEW avcc, avcc \in Seq(Nat), NEW i, i \in Places, i + 3 <= Len(avcc)
    PROVE  /\ BigEndian(SubSeq(avcc, i, i + 3)) \in Nat
           /\ avcc[i] = 0 /\ avcc[i + 1] = 0 /\ avcc[i + 2] = 0
              => BigEndian(SubSeq(avcc, i, i + 3)) = avcc[i + 3]
<1> DEFINE s == SubSeq(avcc, i, i + 3)
<1>1. i \in Nat /\ i >= 1 /\ i + 3 \in Int /\ Len(avcc) \in Nat
  BY DEF Places
<1>2. \A p \in i .. i + 3 : avcc[p] \in Nat
  BY <1>1
<1>3. /\ s \in Seq(Nat) /\ Len(s) = 4
      /\ s[1] = avcc[i] /\ s[2] = avcc[i + 1] /\ s[3] = avcc[i + 2] /\ s[4] = avcc[i + 3]
  <2>1. /\ SubSeq(avcc, i, i + 3) \in Seq(Nat)
        /\ Len(SubSeq(avcc, i, i + 3)) = (IF i <= i + 3 THEN (i + 3) - i + 1 ELSE 0)
        /\ \A j \in 1 .. ((i + 3) - i + 1) : SubSeq(avcc, i, i + 3)[j] = avcc[i + j - 1]
    BY <1>1, <1>2, SubSeqProperties
  <2>2. (i + 3) - i + 1 = 4 /\ i <= i + 3 /\ i + 1 - 1 = i /\ i + 2 - 1 = i + 1
        /\ i + 3 - 1 = i + 2 /\ i + 4 - 1 = i + 3
    BY <1>1
  <2>3. 1 \in 1 .. 4 /\ 2 \in 1 .. 4 /\ 3 \in 1 .. 4 /\ 4 \in 1 .. 4
    OBVIOUS
  <2> QED BY <2>1, <2>2, <2>3
<1>4. /\ avcc[i] \in Nat /\ avcc[i + 1] \in Nat /\ avcc[i + 2] \in Nat /\ avcc[i + 3] \in Nat
  <2>1. i \in i .. i + 3 /\ i + 1 \in i .. i + 3 /\ i + 2 \in i .. i + 3 /\ i + 3 \in i .. i + 3
    BY ONLY <1>1
  <2> QED BY <1>2, <2>1
<1> HIDE DEF s
<1>5. BigEndian(s) = 256 * (256 * (256 * avcc[i] + avcc[i + 1]) + avcc[i + 2]) + avcc[i + 3]
  BY ONLY <1>3, BigEndianFour
<1> DEFINE a == avcc[i]
           b == avcc[i + 1]
           c == avcc[i + 2]
           l == avcc[i + 3]
           value == BigEndian(s)
<1>6. value = 256 * (256 * (256 * a + b) + c) + l /\ {a, b, c, l} \subseteq Nat
  BY <1>4, <1>5
<1> HIDE DEF a, b, c, l, value
<1>7. value \in Nat /\ (a = 0 /\ b = 0 /\ c = 0 => value = l)
  BY ONLY <1>6
<1> QED BY <1>7 DEF s, a, b, c, l, value

\* The recursion of avcc_nals.
Lengths(avcc, f) ==
    \A d \in Places :
        f[d] = LET data == d + 4
                   next == data + BigEndian(SubSeq(avcc, d, data - 1))
               IN  IF data - 1 > Len(avcc) \/ next - 1 > Len(avcc) THEN <<>>
                   ELSE Cat(Unit(avcc, data, next - 1), f[next])

\* The loop of for_each_avcc_nal ends, wherever it starts.
LEMMA LengthsExist ==
    ASSUME NEW avcc, avcc \in Seq(Nat)
    PROVE  \E f \in [Places -> Seq(Seq(Nat))] : Lengths(avcc, f)
<1> DEFINE T == Seq(Seq(Nat))
           e == Len(avcc)
           be(d) == BigEndian(SubSeq(avcc, d, (d + 4) - 1))
           after(d) == (d + 4) + be(d)
           stop == {d \in Places : (d + 4) - 1 > e \/ after(d) - 1 > e}
           item == [d \in Places |-> IF d \in stop THEN <<>>
                                     ELSE Unit(avcc, d + 4, after(d) - 1)]
           next == [d \in Places |-> IF d \in stop THEN d ELSE after(d)]
           rank == [d \in Places |-> IF d <= e THEN (e + 1) - d ELSE 0]
<1>1. e \in Nat /\ \A d \in Places : d \in Nat \ {0}
  BY DEF Places
<1>2. \A d \in Places : d \notin stop =>
          after(d) \in d + 4 .. e + 1 /\ after(d) \in Places /\ d + 4 \in Places
  <2> SUFFICES ASSUME NEW d \in Places, d \notin stop
               PROVE  after(d) \in d + 4 .. e + 1 /\ after(d) \in Places /\ d + 4 \in Places
    OBVIOUS
  <2>1. (d + 4) - 1 = d + 3 /\ d \in Nat \ {0} /\ d + 4 \in Nat \ {0}
    BY <1>1
  <2>2. ~((d + 4) - 1 > e) /\ ~(after(d) - 1 > e)
    OBVIOUS
  <2>3. be(d) \in Nat
    <3>1. d + 3 <= Len(avcc)
      BY <1>1, <2>1, <2>2
    <3>2. BigEndian(SubSeq(avcc, d, d + 3)) \in Nat
      BY <3>1, LengthRead
    <3> QED BY <2>1, <3>2
  <2> DEFINE b == be(d)
  <2>4. ~(((d + 4) + b) - 1 > e) /\ b \in Nat
    <3>1. after(d) = (d + 4) + b
      OBVIOUS
    <3> DEFINE a == after(d)
    <3>2. a = (d + 4) + b /\ ~(a - 1 > e) /\ b \in Nat
      BY <2>2, <2>3, <3>1
    <3> HIDE DEF a, b, e
    <3> QED BY <3>2
  <2> HIDE DEF b, e
  <2>5. (d + 4) + b \in d + 4 .. e + 1 /\ (d + 4) + b \in Nat \ {0}
    BY <1>1, <2>1, <2>4
  <2> QED BY <2>1, <2>5 DEF b, Places
<1>3. item \in [Places -> T]
  <2>1. ASSUME NEW d \in Places PROVE item[d] \in T
    <3>1. CASE d \in stop
      BY <3>1
    <3>2. CASE d \notin stop
      <4> DEFINE l == after(d) - 1
                 x == d + 4
      <4>1. l \in Int /\ l <= Len(avcc) /\ x \in Places
        <5>1. after(d) \in x .. e + 1 /\ x \in Places /\ e \in Nat /\ x \in Int
          BY <1>1, <1>2, <3>2
        <5> DEFINE a == after(d)
        <5>2. a \in x .. e + 1
          BY <5>1
        <5> HIDE DEF a, x, e
        <5>3. a - 1 \in Int /\ a - 1 <= e
          BY <5>1, <5>2
        <5> QED BY <5>1, <5>3 DEF a, e
      <4> HIDE DEF l, x
      <4>2. Unit(avcc, x, l) \in T
        BY <4>1, UnitTyped
      <4>3. item[d] = Unit(avcc, x, l)
        <5> HIDE DEF stop
        <5> QED BY <3>2 DEF x, l
      <4> HIDE DEF item, T
      <4> QED BY <4>2, <4>3
    <3> QED BY <3>1, <3>2
  <2> HIDE DEF T, stop, e
  <2> QED BY <2>1
<1>4. next \in [Places -> Places]
  <2> HIDE DEF stop, after
  <2> QED BY <1>2
<1>5. rank \in [Places -> Nat] /\ \A d \in Places : rank[d] <= e + 1
  BY <1>1
<1>6. \A d \in Places : d \notin stop => rank[next[d]] < rank[d]
  <2> TAKE d \in Places
  <2> SUFFICES ASSUME d \notin stop PROVE rank[next[d]] < rank[d]
    OBVIOUS
  <2> DEFINE x == after(d)
  <2>1. next[d] = x /\ x \in d + 4 .. e + 1 /\ x \in Places
    <3> HIDE DEF stop, after
    <3> QED BY <1>2
  <2> HIDE DEF x, next, e
  <2>2. rank[x] = IF x <= e THEN (e + 1) - x ELSE 0
    BY <2>1
  <2>3. rank[d] = IF d <= e THEN (e + 1) - d ELSE 0
    OBVIOUS
  <2>4. d \in Nat \ {0} /\ e \in Nat
    BY <1>1
  <2> HIDE DEF rank
  <2>5. rank[x] < rank[d]
    BY ONLY <2>1, <2>2, <2>3, <2>4
  <2> QED BY <2>1, <2>5
<1>7. Monoid(T)
  BY SeqMonoid
<1>8. e + 1 \in Nat
  BY <1>1
<1> HIDE DEF T, stop, item, next, rank, e
<1>9. Descends(T, Places, stop, item, next, rank, e + 1)
  BY <1>3, <1>4, <1>5, <1>6, <1>8 DEF Descends
<1>10. PICK f \in [Places -> T] : Walks(f, Places, stop, item, next)
  BY <1>7, <1>9, WalkExists
<1>11. Lengths(avcc, f)
  <2> SUFFICES ASSUME NEW d \in Places
               PROVE  f[d] = IF (d + 4) - 1 > e \/ after(d) - 1 > e THEN <<>>
                             ELSE Cat(Unit(avcc, d + 4, after(d) - 1), f[after(d)])
    BY DEF Lengths, e
  <2> HIDE DEF after
  <2>1. f[d] = IF d \in stop THEN item[d] ELSE Cat(item[d], f[next[d]])
    BY <1>10 DEF Walks
  <2>2. d \in stop <=> ((d + 4) - 1 > e \/ after(d) - 1 > e)
    BY DEF stop
  <2>3. item[d] = IF d \in stop THEN <<>> ELSE Unit(avcc, d + 4, after(d) - 1)
    BY DEF item
  <2>4. next[d] = IF d \in stop THEN d ELSE after(d)
    BY DEF next
  <2> QED BY <2>1, <2>2, <2>3, <2>4, Zenon
<1> QED BY <1>10, <1>11 DEF T

\* for_each_avcc_nal is that loop, from the first cell on.
LEMMA AvccNalsWalk ==
    ASSUME NEW avcc, avcc \in Seq(Nat)
    PROVE  \E f : Lengths(avcc, f) /\ AvccNals(avcc, 4) = f[1]
<1> DEFINE data(i) == i + 4
           next(i) == data(i) + BigEndian(SubSeq(avcc, i, data(i) - 1))
           Eq(f) == f = [i \in Nat \ {0} |->
                           IF data(i) - 1 > Len(avcc) \/ next(i) - 1 > Len(avcc) THEN <<>>
                           ELSE (IF next(i) = data(i) THEN <<>> ELSE <<SubSeq(avcc, data(i), next(i) - 1)>>)
                                \o f[next(i)]]
           h == CHOOSE f : Eq(f)
<1>1. \A i \in Places : ~(data(i) - 1 > Len(avcc) \/ next(i) - 1 > Len(avcc)) =>
          Unit(avcc, data(i), next(i) - 1)
             = IF next(i) = data(i) THEN <<>> ELSE <<SubSeq(avcc, data(i), next(i) - 1)>>
  <2> TAKE i \in Places
  <2> SUFFICES ASSUME ~(data(i) - 1 > Len(avcc))
               PROVE  data(i) > next(i) - 1 <=> next(i) = data(i)
    BY DEF Unit
  <2>1. i \in Nat /\ Len(avcc) \in Nat /\ data(i) - 1 = i + 3
    BY DEF Places
  <2>2. i + 3 <= Len(avcc)
    BY <2>1
  <2> DEFINE b == BigEndian(SubSeq(avcc, i, data(i) - 1))
  <2>3. b \in Nat
    BY <2>1, <2>2, LengthRead
  <2> HIDE DEF b
  <2>4. i + 4 > ((i + 4) + b) - 1 <=> (i + 4) + b = i + 4
    BY <2>1, <2>3
  <2>5. next(i) = (i + 4) + b
    BY DEF b
  <2> HIDE DEF next
  <2> QED BY <2>4, <2>5
<1> HIDE DEF next
<1>2. PICK g \in [Places -> Seq(Seq(Nat))] : Lengths(avcc, g)
  BY LengthsExist
<1>3. Eq(g)
  <2>1. g = [d \in Places |-> g[d]]
    BY <1>2
  <2>2. \A i \in Places : g[i] = IF data(i) - 1 > Len(avcc) \/ next(i) - 1 > Len(avcc) THEN <<>>
                                 ELSE Cat(Unit(avcc, data(i), next(i) - 1), g[next(i)])
    BY <1>2 DEF Lengths, next
  <2> QED BY <1>1, <2>1, <2>2 DEF Places, Cat
<1>4. Eq(h)
  BY <1>3
<1>5. AvccNals(avcc, 4) = h[1]
  <2>1. 4 \in 1 .. 4
    OBVIOUS
  <2> QED BY <2>1 DEF AvccNals, next
<1> HIDE DEF h
<1>6. Lengths(avcc, h)
  <2> SUFFICES ASSUME NEW i \in Places
               PROVE  h[i] = IF data(i) - 1 > Len(avcc) \/ next(i) - 1 > Len(avcc) THEN <<>>
                             ELSE Cat(Unit(avcc, data(i), next(i) - 1), h[next(i)])
    BY DEF Lengths, next
  <2> QED BY <1>1, <1>4 DEF Places, Cat
<1> QED BY <1>5, <1>6

\* for_each_avcc_nal gives back the units that the encoder's sample was made of.
LEMMA AvccNalsOf ==
    ASSUME NEW nals, nals \in Seq(Seq(Nat)), nals # <<>>,
           \A i \in DOMAIN nals : nals[i] # <<>>
    PROVE  AvccNals(AvccOf(nals), NalLengthSize) = nals /\ AvccOf(nals) \in Seq(Nat)
<1> DEFINE T == Seq(Nat)
           n == Len(nals)
           last == [i \in 1 .. n |-> Len(nals[i])]
           avcc == AvccOf(nals)
<1>1. n \in Nat \ {0} /\ DOMAIN nals = 1 .. n /\ nals \in [1 .. n -> Seq(Nat)]
  <2>1. nals \in Seq(T)
    OBVIOUS
  <2> HIDE DEF T
  <2>2. n \in Nat \ {0} /\ DOMAIN nals = 1 .. n /\ nals \in [1 .. n -> T]
    BY <2>1
  <2> QED BY <2>2 DEF T
<1>2. \A i \in 1 .. n : nals[i] \in Seq(Nat) /\ Len(nals[i]) \in Nat \ {0} /\ nals[i] # <<>>
  <2> TAKE i \in 1 .. n
  <2> DEFINE u == nals[i]
  <2>1. u \in Seq(Nat) /\ u # <<>>
    BY <1>1
  <2> HIDE DEF u
  <2>2. Len(u) \in Nat \ {0}
    BY ONLY <2>1
  <2> QED BY <2>1, <2>2 DEF u
<1>3. last \in [1 .. n -> Nat] /\ \A i \in 1 .. n : last[i] = Len(nals[i])
  BY <1>2
<1> HIDE DEF T, n, last
<1>4. avcc = FlattenSeq([i \in 1 .. n |-> <<0, 0, 0, last[i]>> \o nals[i]])
  <2>1. [i \in DOMAIN nals |-> <<0, 0, 0, Len(nals[i])>> \o nals[i]]
           = [i \in 1 .. n |-> <<0, 0, 0, last[i]>> \o nals[i]]
    BY <1>1, <1>3
  <2> QED BY <2>1 DEF AvccOf
<1>5. PICK pos : Framed(avcc, nals, n, pos, last)
  <2> HIDE DEF avcc, last
  <2> QED BY <1>1, <1>3, <1>4, FramedUnits
<1> HIDE DEF avcc
<1>6. avcc \in Seq(Nat) /\ pos[1] = 1 /\ pos[n + 1] = Len(avcc) + 1
      /\ pos \in [1 .. n + 1 -> Nat \ {0}]
      /\ \A a \in 1 .. n + 1 : \A k \in a .. n + 1 : pos[a] <= pos[k]
  BY <1>5 DEF Framed
<1>7. PICK f : Lengths(avcc, f) /\ AvccNals(avcc, 4) = f[1]
  BY <1>6, AvccNalsWalk
<1>8. ASSUME NEW d \in Places
      PROVE  f[d] = LET data == d + 4
                        next == data + BigEndian(SubSeq(avcc, d, data - 1))
                    IN  IF data - 1 > Len(avcc) \/ next - 1 > Len(avcc) THEN <<>>
                        ELSE Cat(Unit(avcc, data, next - 1), f[next])
  BY <1>7 DEF Lengths
<1>9. f[pos[n + 1]] = <<>>
  <2> DEFINE d == pos[n + 1]
             e == Len(avcc)
  <2>1. d = e + 1 /\ e \in Nat
    BY <1>6
  <2>2. d \in Places
    BY <2>1 DEF Places
  <2>3. f[d] = LET data == d + 4
                   next == data + BigEndian(SubSeq(avcc, d, data - 1))
               IN  IF data - 1 > e \/ next - 1 > e THEN <<>>
                   ELSE Cat(Unit(avcc, data, next - 1), f[next])
    BY <1>8, <2>2
  <2> HIDE DEF d, e
  <2>4. (d + 4) - 1 > e
    BY ONLY <2>1
  <2>5. f[d] = <<>>
    BY <2>3, <2>4
  <2> QED BY <2>5 DEF d
<1>10. ASSUME NEW i \in 1 .. n
       PROVE  f[pos[i]] = Cat(<<nals[i]>>, f[pos[i + 1]])
  <2> DEFINE q == pos[i]
             l == Len(nals[i])
             e == Len(avcc)
  <2>1. /\ pos[i + 1] = q + 4 + l
        /\ avcc[q] = 0 /\ avcc[q + 1] = 0 /\ avcc[q + 2] = 0
        /\ avcc[q + 3] = l
    BY <1>3, <1>5 DEF Framed
  <2>2. pos[i + 1] <= pos[n + 1] /\ q \in Nat \ {0}
    <3>1. i + 1 \in 1 .. n + 1 /\ n + 1 \in i + 1 .. n + 1 /\ i \in 1 .. n + 1
      BY <1>1
    <3> QED BY <1>6, <3>1
  <2>3. l \in Nat \ {0} /\ e \in Nat /\ q + 4 + l <= e + 1
    <3>1. l \in Nat \ {0} /\ e \in Nat
      BY <1>2, <1>6
    <3>2. pos[i + 1] = q + 4 + l /\ pos[i + 1] <= e + 1
      BY <1>6, <2>1, <2>2
    <3> HIDE DEF q, l, e
    <3> QED BY ONLY <3>1, <3>2
  <2>4. q \in Places
    BY <2>2 DEF Places
  <2> HIDE DEF q, l, e
  <2>5. q + 3 <= e /\ ~((q + 4) - 1 > e) /\ ~((q + 4 + l) - 1 > e) /\ (q + 4) - 1 = q + 3
    BY ONLY <2>2, <2>3
  <2>6. BigEndian(SubSeq(avcc, q, q + 3)) = l
    BY <1>6, <2>1, <2>4, <2>5, LengthRead DEF e
  <2>7. Unit(avcc, q + 4, pos[i + 1] - 1) = <<nals[i]>>
    BY <1>2, <1>5, FramedSlice DEF q
  <2>8. f[q] = LET data == q + 4
                   next == data + BigEndian(SubSeq(avcc, q, data - 1))
               IN  IF data - 1 > e \/ next - 1 > e THEN <<>>
                   ELSE Cat(Unit(avcc, data, next - 1), f[next])
    BY <1>8, <2>4 DEF e
  <2>9. f[q] = LET next == q + 4 + l
               IN  IF (q + 4) - 1 > e \/ next - 1 > e THEN <<>>
                   ELSE Cat(Unit(avcc, q + 4, next - 1), f[next])
    BY <2>5, <2>6, <2>8
  <2>10. f[q] = Cat(Unit(avcc, q + 4, (q + 4 + l) - 1), f[q + 4 + l])
    BY <2>5, <2>9
  <2> QED BY <2>1, <2>7, <2>10 DEF q
<1> DEFINE v == [i \in 1 .. n |-> f[pos[i]]]
<1>11. Chain(v, nals, n)
  <2> SUFFICES ASSUME NEW i \in 1 .. n
               PROVE  v[i] = IF i = n THEN <<nals[i]>> ELSE Cat(<<nals[i]>>, v[i + 1])
    BY DEF Chain
  <2>1. v[i] = Cat(<<nals[i]>>, f[pos[i + 1]])
    BY <1>10
  <2>2. CASE i = n
    <3>1. Cat(<<nals[i]>>, <<>>) = <<nals[i]>>
      BY DEF Cat
    <3> QED BY <1>9, <2>1, <2>2, <3>1
  <2>3. CASE i # n
    <3>1. i + 1 \in 1 .. n
      BY <1>1, <2>3
    <3>2. v[i + 1] = f[pos[i + 1]]
      BY <3>1
    <3> QED BY <2>1, <2>3, <3>2
  <2> QED BY <2>2, <2>3
<1>12. v[1] = f[1]
  <2>1. 1 \in 1 .. n
    BY <1>1
  <2> QED BY <1>6, <2>1
<1> HIDE DEF v
<1>13. v[1] = nals
  <2>1. nals \in Seq(T) /\ Len(nals) = n
    BY DEF T, n
  <2> QED BY <1>1, <1>11, <2>1, ChainCollects
<1> QED BY <1>6, <1>7, <1>12, <1>13 DEF avcc, NalLengthSize

\* iter_nal_units gives back the units that AnnexB put behind start codes.
LEMMA AnnexBUnits ==
    ASSUME NEW units, units \in Seq(Seq(Nat)), units # <<>>,
           \A i \in DOMAIN units : IsUnit(units[i])
    PROVE  /\ NalUnits(AnnexB(units)) = units /\ AnnexB(units) \in Seq(Nat)
           /\ \E pos : Streamed(AnnexB(units), units, Len(units), pos)
<1> DEFINE T == Seq(Nat)
           n == Len(units)
           last == [i \in 1 .. n |-> 1]
           stream == AnnexB(units)
<1>1. n \in Nat \ {0} /\ DOMAIN units = 1 .. n /\ units \in [1 .. n -> Seq(Nat)]
  <2>1. units \in Seq(T)
    OBVIOUS
  <2> HIDE DEF T
  <2>2. n \in Nat \ {0} /\ DOMAIN units = 1 .. n /\ units \in [1 .. n -> T]
    BY <2>1
  <2> QED BY <2>2 DEF T
<1>2. last \in [1 .. n -> Nat] /\ \A i \in 1 .. n : last[i] = 1
  OBVIOUS
<1> HIDE DEF T, n
<1>3. stream = FlattenSeq([i \in 1 .. n |-> <<0, 0, 0, last[i]>> \o units[i]])
  <2>1. [i \in DOMAIN units |-> StartCode \o units[i]]
           = [i \in 1 .. n |-> <<0, 0, 0, last[i]>> \o units[i]]
    BY <1>1, <1>2 DEF StartCode
  <2> QED BY <2>1 DEF AnnexB
<1>4. PICK pos : Framed(stream, units, n, pos, last)
  <2> HIDE DEF stream, last
  <2> QED BY <1>1, <1>2, <1>3, FramedUnits
<1> HIDE DEF stream
<1>5. Streamed(stream, units, n, pos)
  BY <1>1, <1>4 DEF Streamed
<1>6. stream \in Seq(Nat)
  BY <1>4 DEF Framed
<1>7. NalUnits(stream) = units
  <2>1. n = Len(units)
    BY DEF n
  <2> QED BY <1>5, <2>1, StreamedUnits
<1> QED BY <1>5, <1>6, <1>7 DEF n, stream

-----------------------------------------------------------------------------
(***************************************************************************)
(* Pictures and parameter sets, from the encoder's sample to Annex B.      *)
(***************************************************************************)

\* Units that can be put in a stream and found in it again.
Streamable(units) ==
    /\ units \in Seq(Seq(Nat)) /\ units # <<>>
    /\ \A i \in DOMAIN units : IsUnit(units[i])

\* The types in an Annex B stream are those of its units.
LEMMA AnnexBTypes ==
    ASSUME NEW units, Streamable(units)
    PROVE  /\ NalUnits(AnnexB(units)) = units /\ AnnexB(units) \in Seq(Nat)
           /\ \A type : type \in TypesIn(AnnexB(units)) <=> \E i \in DOMAIN units : NalUnitType(units[i]) = type
<1>1. NalUnits(AnnexB(units)) = units /\ AnnexB(units) \in Seq(Nat)
  BY AnnexBUnits DEF Streamable
<1>2. TypesIn(AnnexB(units)) = {NalUnitType(nal) : nal \in {units[i] : i \in DOMAIN units}}
  BY <1>1 DEF TypesIn, ToSet
<1> QED BY <1>1, <1>2

\* A unit behind its start code.
Coded(u) == Cat(StartCode, u)

\* A unit behind its code is cells.
LEMMA CodedTyped == \A u \in Seq(Nat) : Coded(u) \in Seq(Nat)
BY DEF Coded, Cat, StartCode

\* Units, each behind its start code.
CodedAll(a) == [i \in DOMAIN a |-> Coded(a[i])]

\* AnnexB puts each unit behind its code.
LEMMA AnnexBCoded ==
    ASSUME NEW units
    PROVE  AnnexB(units) = FlattenSeq(CodedAll(units))
BY DEF AnnexB, CodedAll, Coded, Cat

\* Two lists of units, each unit behind its code.
LEMMA CodedAllJoins ==
    ASSUME NEW T, \A u \in T : Coded(u) \in T, NEW a, a \in Seq(T), NEW b, b \in Seq(T)
    PROVE  /\ CodedAll(a) \in Seq(T) /\ CodedAll(b) \in Seq(T) /\ Cat(a, b) \in Seq(T)
           /\ CodedAll(Cat(a, b)) = Cat(CodedAll(a), CodedAll(b))
<1>1. \A s \in Seq(T) : CodedAll(s) \in Seq(T) /\ Len(CodedAll(s)) = Len(s)
                        /\ \A i \in 1 .. Len(s) : CodedAll(s)[i] = Coded(s[i])
  BY DEF CodedAll
<1> DEFINE c == a \o b
           x == CodedAll(a)
           y == CodedAll(b)
           z == CodedAll(c)
<1>2. /\ c \in Seq(T) /\ Len(a) \in Nat /\ Len(b) \in Nat /\ Len(c) = Len(a) + Len(b)
      /\ \A p \in 1 .. Len(a) : c[p] = a[p]
      /\ \A j \in 1 .. Len(b) : c[Len(a) + j] = b[j]
  BY CatAt
<1> HIDE DEF c
<1>3. /\ x \in Seq(T) /\ y \in Seq(T) /\ z \in Seq(T)
      /\ Len(x) = Len(a) /\ Len(y) = Len(b) /\ Len(z) = Len(a) + Len(b)
      /\ \A i \in 1 .. Len(a) : x[i] = Coded(a[i])
      /\ \A i \in 1 .. Len(b) : y[i] = Coded(b[i])
      /\ \A i \in 1 .. Len(a) + Len(b) : z[i] = Coded(c[i])
  BY <1>1, <1>2
<1> HIDE DEF x, y, z
<1> DEFINE w == x \o y
<1>4. w = x \o y
  OBVIOUS
<1> HIDE DEF w
<1>5. /\ w \in Seq(T) /\ Len(w) = Len(x) + Len(y)
      /\ \A p \in 1 .. Len(x) : w[p] = x[p]
      /\ \A j \in 1 .. Len(y) : w[Len(x) + j] = y[j]
  <2>1. x \in Seq(T) /\ y \in Seq(T)
    BY <1>3
  <2> QED BY ONLY <1>4, <2>1, CatAt
<1>6. \A i \in 1 .. Len(z) : z[i] = w[i]
  <2> TAKE i \in 1 .. Len(z)
  <2>1. CASE i \in 1 .. Len(a)
    BY <1>2, <1>3, <1>5, <2>1
  <2>2. CASE i \notin 1 .. Len(a)
    <3> DEFINE j == i - Len(a)
    <3>1. j \in 1 .. Len(b) /\ i = Len(a) + j
      BY <1>2, <1>3, <2>2
    <3> HIDE DEF j
    <3> QED BY <1>2, <1>3, <1>5, <3>1
  <2> QED BY <2>1, <2>2
<1>7. z = w
  <2>1. Len(z) = Len(w)
    BY <1>3, <1>5
  <2> QED BY <1>3, <1>5, <1>6, <2>1, SeqEqual
<1>8. c = Cat(a, b) /\ w = Cat(x, y)
  BY DEF c, w, Cat
<1> QED BY <1>2, <1>3, <1>7, <1>8 DEF x, y, z

\* The streams of two lists of units, put together, are the stream of both.
LEMMA AnnexBJoins ==
    ASSUME NEW a, a \in Seq(Seq(Nat)), NEW b, b \in Seq(Seq(Nat))
    PROVE  /\ AnnexB(Cat(a, b)) = Cat(AnnexB(a), AnnexB(b)) /\ Cat(a, b) \in Seq(Seq(Nat))
           /\ AnnexB(a) \in Seq(Nat)
<1> DEFINE T == Seq(Nat)
           x == CodedAll(a)
           y == CodedAll(b)
           c == Cat(a, b)
<1>1. Monoid(T) /\ \A u \in T : Coded(u) \in T
  BY SeqMonoid, CodedTyped
<1>2. a \in Seq(T) /\ b \in Seq(T)
  OBVIOUS
<1> HIDE DEF T
<1>3. c \in Seq(T) /\ x \in Seq(T) /\ y \in Seq(T) /\ CodedAll(c) = Cat(x, y)
  <2> HIDE DEF x, y, c
  <2>1. CodedAll(a) \in Seq(T) /\ CodedAll(b) \in Seq(T) /\ Cat(a, b) \in Seq(T)
        /\ CodedAll(Cat(a, b)) = Cat(CodedAll(a), CodedAll(b))
    BY ONLY <1>1, <1>2, CodedAllJoins
  <2> QED BY <2>1 DEF x, y, c
<1>4. AnnexB(c) = FlattenSeq(CodedAll(c)) /\ AnnexB(a) = FlattenSeq(x)
      /\ AnnexB(b) = FlattenSeq(y)
  BY AnnexBCoded
<1> HIDE DEF x, y
<1>5. FlattenSeq(Cat(x, y)) = Cat(FlattenSeq(x), FlattenSeq(y)) /\ FlattenSeq(x) \in T
  BY <1>1, <1>3, FlattenCat
<1> QED BY <1>3, <1>4, <1>5 DEF T

\* A pair is one element behind another.
LEMMA PairAppended ==
    ASSUME NEW T, NEW a, a \in T, NEW b, b \in T
    PROVE  Append(<<a>>, b) = <<a, b>>
<1> DEFINE c == Append(<<a>>, b)
           d == <<a, b>>
<1>1. c \in Seq(T) /\ d \in Seq(T) /\ Len(c) = 2 /\ Len(d) = 2
      /\ c[1] = a /\ c[2] = b /\ d[1] = a /\ d[2] = b
  OBVIOUS
<1> HIDE DEF c, d
<1>2. \A i \in 1 .. Len(c) : c[i] = d[i]
  BY <1>1
<1>3. c = d
  BY <1>1, <1>2, SeqEqual
<1> QED BY <1>3 DEF c, d

\* A codec configuration as Annex B is the stream of its two parameter sets.
LEMMA AnnexBTwo ==
    ASSUME NEW cfg, cfg.sps \in Seq(Nat), cfg.pps \in Seq(Nat)
    PROVE  /\ CodecConfigToAnnexB(cfg) = AnnexB(<<cfg.sps, cfg.pps>>)
           /\ <<cfg.sps, cfg.pps>> \in Seq(Seq(Nat))
<1> DEFINE T == Seq(Nat)
           s == StartCode
           p == cfg.sps
           q == cfg.pps
           a == Coded(p)
           b == Coded(q)
           units == <<p, q>>
<1>1. s \in T /\ p \in T /\ q \in T /\ Monoid(T) /\ \A u \in T : Coded(u) \in T
  <2>1. s \in T
    BY DEF StartCode
  <2>2. \A u \in T : Coded(u) \in T
    BY CodedTyped
  <2> QED BY <2>1, <2>2, SeqMonoid
<1>2. CodecConfigToAnnexB(cfg) = Cat(Cat(Cat(s, p), s), q)
  BY DEF CodecConfigToAnnexB, Cat
<1> HIDE DEF T, s, p, q
<1>3. Cat(Cat(Cat(s, p), s), q) = Cat(Cat(s, p), Cat(s, q))
  <2>1. Cat(s, p) \in T
    BY <1>1, CatThree
  <2> QED BY <1>1, <2>1, CatThree
<1>4. CodecConfigToAnnexB(cfg) = Cat(a, b)
  BY <1>2, <1>3 DEF Coded, s
<1>5. a \in T /\ b \in T
  BY <1>1
<1> HIDE DEF a, b
<1>6. FlattenSeq(<<a, b>>) = Cat(a, b)
  <2> DEFINE x == <<a>>
  <2>1. x \in Seq(T)
    BY ONLY <1>5
  <2>2. Append(x, b) = <<a, b>>
    BY <1>5, PairAppended
  <2>3. FlattenSeq(x) = a
    BY <1>1, <1>5, FlattenOne
  <2> HIDE DEF x
  <2>4. FlattenSeq(Append(x, b)) = FlattenSeq(x) \o b
    BY <1>1, <1>5, <2>1, FlattenAppend
  <2> QED BY <2>2, <2>3, <2>4 DEF Cat
<1>7. units \in Seq(T)
  BY <1>1
<1>8. CodedAll(units) = <<a, b>>
  BY DEF a, b, CodedAll
<1> HIDE DEF units
<1>9. AnnexB(units) = FlattenSeq(CodedAll(units))
  BY AnnexBCoded
<1> QED BY <1>4, <1>6, <1>7, <1>8, <1>9 DEF units, p, q, T

\* The parameter sets in front of some units.
Led(units, sps, pps) ==
    /\ Streamable(units) /\ Len(units) >= 2 /\ units[1] = sps /\ units[2] = pps
    /\ NalUnitType(sps) = SPS /\ NalUnitType(pps) = PPS

\* extract_codec_config finds the parameter sets in front of a keyframe.
LEMMA Extracts ==
    ASSUME NEW units, NEW sps, NEW pps, Led(units, sps, pps)
    PROVE  /\ HasInBandConfig(AnnexB(units))
           /\ ExtractCodecConfig(AnnexB(units)) = [sps |-> sps, pps |-> pps]
<1>1. /\ NalUnits(AnnexB(units)) = units
      /\ \A type : type \in TypesIn(AnnexB(units)) <=> \E i \in DOMAIN units : NalUnitType(units[i]) = type
  BY AnnexBTypes DEF Led
<1>2. /\ 1 \in DOMAIN units /\ 2 \in DOMAIN units
      /\ 1 \in 1 .. Len(units) /\ 2 \in 1 .. Len(units) /\ Len(units) \in Nat
  <2> DEFINE T == Seq(Nat)
  <2>1. units \in Seq(T) /\ Len(units) >= 2
    BY DEF Led, Streamable
  <2> HIDE DEF T
  <2> QED BY <2>1
<1>3. NalUnitType(units[1]) = SPS /\ NalUnitType(units[2]) = PPS /\ SPS # PPS
  BY DEF Led, SPS, PPS
<1>4. HasInBandConfig(AnnexB(units))
  BY <1>1, <1>2, <1>3 DEF HasInBandConfig
<1> DEFINE At(type) == {i \in 1 .. Len(units) : NalUnitType(units[i]) = type}
<1>5. At(SPS) # {} /\ Min(At(SPS)) = 1
  <2>1. 1 \in At(SPS) /\ At(SPS) \subseteq Nat /\ \A y \in At(SPS) : 1 <= y
    BY <1>2, <1>3
  <2> HIDE DEF At
  <2> QED BY <2>1, LeastIs
<1>6. At(PPS) # {} /\ Min(At(PPS)) = 2
  <2>1. 2 \in At(PPS) /\ At(PPS) \subseteq Nat /\ \A y \in At(PPS) : 2 <= y
    BY <1>2, <1>3
  <2> HIDE DEF At
  <2> QED BY <2>1, LeastIs
<1>7. ExtractCodecConfig(AnnexB(units)) =
        [sps |-> units[IF At(SPS) # {} THEN Min(At(SPS)) ELSE 0],
         pps |-> units[IF At(PPS) # {} THEN Min(At(PPS)) ELSE 0]]
  BY <1>1, <1>4 DEF ExtractCodecConfig, SelectInSeq
<1> QED BY <1>4, <1>5, <1>6, <1>7 DEF Led

\* The parameter sets of the encoder, as the decoder gets them.
Config == [sps |-> env.encoder.params.sps, pps |-> env.encoder.params.pps]

\* The encoder's parameter sets are a stream of their own, and of its size.
LEMMA ParamsLed ==
    ASSUME env \in Environments
    PROVE  /\ Params \in Seq(Seq(Nat)) /\ Len(Params) = 2
           /\ Params[1] = Config.sps /\ Params[2] = Config.pps
           /\ Led(Params, Config.sps, Config.pps)
           /\ SpsDimensions(Config.sps) = env.encoder.size
<1> DEFINE s == env.encoder.params.sps
           p == env.encoder.params.pps
           T == Seq(Nat)
<1>1. /\ IsUnit(s) /\ NalUnitType(s) = SPS /\ IsUnit(p) /\ NalUnitType(p) = PPS
      /\ SpsDimensions(s) = env.encoder.size
  BY EnvironmentsAssumption
<1>2. s \in T /\ p \in T
  BY <1>1 DEF IsUnit
<1>3. Params = <<s, p>> /\ Config.sps = s /\ Config.pps = p
  BY DEF Params, Config
<1> HIDE DEF s, p, T
<1>4. <<s, p>> \in Seq(T) /\ Len(<<s, p>>) = 2 /\ <<s, p>>[1] = s /\ <<s, p>>[2] = p
      /\ <<s, p>> # <<>> /\ DOMAIN <<s, p>> = {1, 2}
  BY <1>2
<1>5. Led(<<s, p>>, s, p)
  BY <1>1, <1>4 DEF Led, Streamable, T
<1> QED BY <1>1, <1>3, <1>4, <1>5 DEF s, T

\* The configuration comes out of the message it is sent in.
LEMMA ConfigExtracted ==
    ASSUME env \in Environments
    PROVE  /\ CodecConfigToAnnexB(Config) = AnnexB(Params)
           /\ CodecConfigToAnnexB(Config) \in Seq(Nat)
           /\ ExtractCodecConfig(CodecConfigToAnnexB(Config)) = Config
           /\ NalUnits(CodecConfigToAnnexB(Config)) = Params
           /\ Config # Nothing
<1>1. /\ Params \in Seq(Seq(Nat)) /\ Led(Params, Config.sps, Config.pps)
  BY ParamsLed
<1>2. IsUnit(Config.sps) /\ IsUnit(Config.pps)
  BY EnvironmentsAssumption DEF Config
<1>3. CodecConfigToAnnexB(Config) = AnnexB(<<Config.sps, Config.pps>>)
  BY <1>2, AnnexBTwo DEF IsUnit
<1>4. <<Config.sps, Config.pps>> = Params
  BY DEF Config, Params
<1>5. Streamable(Params)
  BY <1>1 DEF Led
<1>6. Config = [sps |-> Config.sps, pps |-> Config.pps] /\ Config # Nothing
  BY DEF Config, Nothing
<1> QED BY <1>1, <1>3, <1>4, <1>5, <1>6, AnnexBTypes, Extracts

\* A picture of the encoder's.
Picture(nals) ==
    /\ Streamable(nals)
    /\ \A i \in DOMAIN nals : NalUnitType(nals[i]) \in {IDR_SLICE, NON_IDR_SLICE, SEI, AUD}

\* What is assumed of the pictures.
LEMMA PicturesAre ==
    ASSUME NEW nals \in Pictures
    PROVE  Picture(nals)
BY PicturesAssumption DEF Picture, Streamable

\* A picture with its parameter sets in front is a stream whose keyframe flag is
\* the picture's.
LEMMA DescribedUnits ==
    ASSUME env \in Environments, NEW nals, Picture(nals)
    PROVE  /\ Streamable(Described(nals))
           /\ Idr(nals) => Led(Described(nals), Config.sps, Config.pps)
           /\ IsKeyframe(AnnexB(Described(nals))) = Idr(nals)
           /\ AnnexB(Described(nals)) = Cat(IF Idr(nals) THEN AnnexB(Params) ELSE <<>>, AnnexB(nals))
<1> DEFINE T == Seq(Nat)
           p == Params
           c == Cat(p, nals)
           d == Described(nals)
<1>1. /\ p \in Seq(T) /\ Len(p) = 2 /\ p[1] = Config.sps /\ p[2] = Config.pps
      /\ Streamable(p) /\ NalUnitType(Config.sps) = SPS /\ NalUnitType(Config.pps) = PPS
  BY ParamsLed DEF Led
<1>2. /\ nals \in Seq(T) /\ nals # <<>> /\ (\A i \in DOMAIN nals : IsUnit(nals[i])) /\ Streamable(nals)
      /\ \A i \in DOMAIN nals : NalUnitType(nals[i]) \in {IDR_SLICE, NON_IDR_SLICE, SEI, AUD}
  BY DEF Picture, Streamable
<1>3. Cat(AnnexB(p), AnnexB(nals)) = AnnexB(c) /\ c \in Seq(T)
  <2> HIDE DEF p
  <2> QED BY <1>1, <1>2, AnnexBJoins
<1>4. \A i \in DOMAIN p : IsUnit(p[i])
  BY <1>1 DEF Streamable
<1> HIDE DEF p, T
<1>5. /\ Len(nals) \in Nat \ {0} /\ Len(c) = 2 + Len(nals)
      /\ \A i \in 1 .. 2 : c[i] = p[i]
      /\ \A j \in 1 .. Len(nals) : c[2 + j] = nals[j]
      /\ DOMAIN nals = 1 .. Len(nals) /\ DOMAIN p = 1 .. 2
  <2>1. c = p \o nals
    BY DEF Cat
  <2> HIDE DEF c
  <2>2. /\ Len(p) \in Nat /\ Len(nals) \in Nat /\ Len(c) = Len(p) + Len(nals)
        /\ \A i \in 1 .. Len(p) : c[i] = p[i]
        /\ \A j \in 1 .. Len(nals) : c[Len(p) + j] = nals[j]
    <3>1. p \in Seq(T) /\ nals \in Seq(T)
      BY <1>1, <1>2
    <3> QED BY ONLY <2>1, <3>1, CatAt
  <2>3. Len(nals) \in Nat \ {0} /\ DOMAIN nals = 1 .. Len(nals) /\ DOMAIN p = 1 .. Len(p)
    BY <1>1, <1>2
  <2> QED BY <1>1, <2>2, <2>3
<1> HIDE DEF c
<1>6. DOMAIN c = 1 .. 2 + Len(nals) /\ c # <<>>
  <2>1. DOMAIN c = 1 .. Len(c) /\ (c = <<>> => Len(c) = 0)
    BY <1>3
  <2> QED BY <1>5, <2>1
<1>7. ASSUME NEW i \in DOMAIN c
      PROVE  \/ i \in DOMAIN p /\ c[i] = p[i]
             \/ i - 2 \in DOMAIN nals /\ c[i] = nals[i - 2]
  <2>1. CASE i \in 1 .. 2
    BY <1>5, <2>1
  <2>2. CASE i \notin 1 .. 2
    <3> DEFINE j == i - 2
    <3>1. j \in 1 .. Len(nals) /\ 2 + j = i
      BY <1>5, <1>6, <2>2
    <3> HIDE DEF j
    <3>2. c[2 + j] = nals[j]
      BY <1>5, <3>1
    <3> QED BY <1>5, <3>1, <3>2 DEF j
  <2> QED BY <2>1, <2>2
<1>8. Streamable(c)
  <2>1. \A i \in DOMAIN c : IsUnit(c[i])
    BY <1>2, <1>4, <1>7
  <2> QED BY <1>3, <1>6, <2>1 DEF Streamable, T
<1>9. CASE Idr(nals)
  <2>1. d = c
    BY <1>9 DEF Described, Cat, c, p
  <2>2. Led(c, Config.sps, Config.pps)
    BY <1>1, <1>5, <1>8 DEF Led
  <2>3. IsKeyframe(AnnexB(c))
    <3>1. PICK j \in DOMAIN nals : NalUnitType(nals[j]) = IDR_SLICE
      BY <1>9 DEF Idr
    <3>2. 2 + j \in DOMAIN c /\ c[2 + j] = nals[j]
      BY <1>5, <1>6, <3>1
    <3>3. IDR_SLICE \in TypesIn(AnnexB(c))
      BY <1>8, <3>1, <3>2, AnnexBTypes
    <3> QED BY <3>3 DEF IsKeyframe
  <2> HIDE DEF d
  <2>4. IsKeyframe(AnnexB(d)) = TRUE /\ Idr(nals) = TRUE
    BY <1>9, <2>1, <2>3 DEF IsKeyframe, Idr
  <2> QED BY <1>3, <1>8, <1>9, <2>1, <2>2, <2>4 DEF d, p
<1>10. CASE ~Idr(nals)
  <2>1. d = nals
    <3>1. <<>> \o nals = nals
      BY <1>2
    <3> QED BY <1>10, <3>1 DEF Described
  <2>2. ~IsKeyframe(AnnexB(nals))
    BY <1>2, <1>10, AnnexBTypes DEF IsKeyframe, Idr
  <2>3. AnnexB(nals) = Cat(<<>>, AnnexB(nals))
    <3>1. AnnexB(nals) \in Seq(Nat)
      BY <1>2, AnnexBTypes
    <3> QED BY <3>1 DEF Cat
  <2> HIDE DEF d
  <2>4. IsKeyframe(AnnexB(d)) = FALSE /\ Idr(nals) = FALSE
    BY <1>10, <2>1, <2>2 DEF IsKeyframe, Idr
  <2> QED BY <1>2, <1>10, <2>1, <2>3, <2>4 DEF d
<1> QED BY <1>9, <1>10

\* The handler's conversion of a picture: each of its units behind a start code, a
\* keyframe with the parameter sets in front.
LEMMA EncodedIs ==
    ASSUME env \in Environments, NEW nals, Picture(nals)
    PROVE  EncodedFrame(nals) = [pts |-> Len(sent) + 1, keyframe |-> Idr(nals),
                                 annex_b |-> AnnexB(Described(nals))]
<1>1. /\ nals \in Seq(Seq(Nat)) /\ nals # <<>>
      /\ \A i \in DOMAIN nals : nals[i] # <<>>
  BY DEF Picture, Streamable, IsUnit
<1>2. AvccNals(AvccOf(nals), NalLengthSize) = nals
  BY <1>1, AvccNalsOf
<1>3. AvccHasIdr(AvccOf(nals), NalLengthSize) = Idr(nals)
  BY <1>2 DEF AvccHasIdr, Idr, ToSet
<1>4. CodecConfigToAnnexB(env.encoder.params) = AnnexB(Params)
  <2>1. CodecConfigToAnnexB(env.encoder.params) = CodecConfigToAnnexB(Config)
    BY DEF CodecConfigToAnnexB, Config
  <2> QED BY <2>1, ConfigExtracted
<1>5. ToAnnexBFrame(AvccOf(nals), NalLengthSize, Idr(nals), env.encoder.params)
        = AnnexB(Described(nals))
  <2>1. ToAnnexBFrame(AvccOf(nals), NalLengthSize, Idr(nals), env.encoder.params)
          = Cat(IF Idr(nals) THEN AnnexB(Params) ELSE <<>>, AnnexB(nals))
    BY <1>2, <1>4 DEF ToAnnexBFrame, AvccToAnnexB, Cat
  <2> QED BY <2>1, DescribedUnits
<1> QED BY <1>3, <1>5 DEF EncodedFrame

\* A keyframe has its parameter sets, so the phone hands each picture on as it is.
LEMMA HandedOn ==
    ASSUME env \in Environments, NEW nals, Picture(nals)
    PROVE  /\ ToAnnexBAccessUnit(AnnexB(Described(nals)), Idr(nals), Config) = AnnexB(Described(nals))
           /\ Idr(nals) => ExtractCodecConfig(AnnexB(Described(nals))) = Config
           /\ AnnexB(Described(nals)) \in Seq(Nat) /\ AnnexB(Described(nals)) # <<>>
           /\ NalUnits(AnnexB(Described(nals))) = Described(nals)
<1>1. Streamable(Described(nals))
      /\ (Idr(nals) => Led(Described(nals), Config.sps, Config.pps))
  BY DescribedUnits
<1>2. AnnexB(Described(nals)) \in Seq(Nat) /\ NalUnits(AnnexB(Described(nals))) = Described(nals)
  BY <1>1, AnnexBTypes
<1>3. Idr(nals) => /\ HasInBandConfig(AnnexB(Described(nals)))
                   /\ ExtractCodecConfig(AnnexB(Described(nals))) = Config
  <2>1. Config = [sps |-> Config.sps, pps |-> Config.pps]
    BY DEF Config
  <2> QED BY <1>1, <2>1, Extracts
<1>4. AnnexB(Described(nals)) # <<>>
  <2> SUFFICES ASSUME AnnexB(Described(nals)) = <<>> PROVE FALSE
    OBVIOUS
  <2>1. IF FindStartCode(<<>>, 1) = Nothing THEN NalUnits(<<>>) = <<>> ELSE TRUE
    BY DEF NalUnits
  <2>2. Later(<<>>, 1) = {}
    BY DEF Later, Marks
  <2>3. NalUnits(<<>>) = <<>>
    BY <2>1, <2>2, Finding
  <2> QED BY <1>1, <1>2, <2>3 DEF Streamable
<1>5. ToAnnexBAccessUnit(AnnexB(Described(nals)), Idr(nals), Config) = AnnexB(Described(nals))
  BY <1>3 DEF ToAnnexBAccessUnit
<1> QED BY <1>2, <1>3, <1>4, <1>5

-----------------------------------------------------------------------------
(***************************************************************************)
(* The types of the units in a slice of a stream.                          *)
(***************************************************************************)

\* Every code has a unit behind it, and the unit begins with no zero.
Headed(stream) ==
    \A m \in Marks(stream) : m + 3 <= Len(stream) /\ stream[m + 3] # 0

\* The type of the unit behind a code.
TypeAt(stream, m) == stream[m + 3] % 32

\* The type of a unit is in its first cell.
LEMMA UnitType ==
    ASSUME NEW stream, stream \in Seq(Nat), NEW d, d \in Places, NEW l, l \in d .. Len(stream)
    PROVE  /\ NalUnitType(SubSeq(stream, d, l)) = stream[d] % 32
           /\ SubSeq(stream, d, l) \in Seq(Nat)
           /\ Unit(stream, d, l) = <<SubSeq(stream, d, l)>>
<1> DEFINE s == SubSeq(stream, d, l)
<1>1. d \in Nat \ {0} /\ Len(stream) \in Nat /\ d \in Int /\ l \in Int /\ d <= l
  BY DEF Places
<1>2. \A i \in d .. l : stream[i] \in Nat
  BY <1>1
<1>3. s \in Seq(Nat) /\ Len(s) = l - d + 1 /\ \A i \in 1 .. l - d + 1 : s[i] = stream[d + i - 1]
  BY <1>1, <1>2, SubSeqProperties
<1> HIDE DEF s
<1>4. 1 \in 1 .. l - d + 1 /\ d + 1 - 1 = d /\ Len(s) # 0
  BY <1>1, <1>3
<1>5. s[1] = stream[d] /\ s # <<>>
  BY <1>3, <1>4
<1>6. ~(d > l)
  BY <1>1
<1> QED BY <1>3, <1>5, <1>6 DEF NalUnitType, Unit, s

\* Codes do not overlap.
LEMMA MarksApart ==
    ASSUME NEW stream, stream \in Seq(Nat), NEW m, m \in Marks(stream),
           NEW x, x \in Marks(stream)
    PROVE  m \in Places /\ m + 3 \in Places /\ x \in Nat /\ (x >= m <=> x = m \/ x >= m + 3)
<1>1. /\ m \in 1 .. Len(stream) - 2 /\ stream[m + 1] = 0 /\ stream[m + 2] = 1
      /\ x \in 1 .. Len(stream) - 2 /\ stream[x] = 0 /\ stream[x + 1] = 0 /\ stream[x + 2] = 1
  BY DEF Marks
<1>2. m \in Nat \ {0} /\ x \in Nat
  <2>1. Len(stream) \in Nat
    OBVIOUS
  <2> QED BY ONLY <1>1, <2>1
<1>3. x # m + 1
  <2>1. x = m + 1 => x + 1 = m + 2
    BY ONLY <1>2
  <2> QED BY <1>1, <2>1
<1>4. x # m + 2
  BY <1>1
<1>5. x >= m <=> x = m \/ x >= m + 3
  BY ONLY <1>2, <1>3, <1>4
<1> QED BY ONLY <1>2, <1>5 DEF Places

\* The types of the units a list has.
TypesOf(units, type) == \E i \in 1 .. Len(units) : NalUnitType(units[i]) = type

\* The type of one unit.
LEMMA TypesOfOne ==
    ASSUME NEW s
    PROVE  \A type : TypesOf(<<s>>, type) <=> NalUnitType(s) = type
BY DEF TypesOf

\* The types of one unit more.
LEMMA TypesOfMore ==
    ASSUME NEW s, s \in Seq(Nat), NEW units, units \in Seq(Seq(Nat))
    PROVE  /\ Cat(<<s>>, units) \in Seq(Seq(Nat))
           /\ \A type : TypesOf(Cat(<<s>>, units), type) <=> NalUnitType(s) = type \/ TypesOf(units, type)
<1> DEFINE T == Seq(Nat)
           a == <<s>>
           c == a \o units
<1>1. a \in Seq(T) /\ units \in Seq(T) /\ Len(a) = 1 /\ a[1] = s
  OBVIOUS
<1>2. c = a \o units
  OBVIOUS
<1> HIDE DEF T, a, c
<1>3. /\ c \in Seq(T) /\ Len(units) \in Nat /\ Len(c) = Len(a) + Len(units)
      /\ \A p \in 1 .. Len(a) : c[p] = a[p]
      /\ \A j \in 1 .. Len(units) : c[Len(a) + j] = units[j]
  <2>1. a \in Seq(T) /\ units \in Seq(T)
    BY <1>1
  <2> QED BY ONLY <1>2, <2>1, CatAt
<1>4. Len(c) = 1 + Len(units) /\ c[1] = s /\ \A j \in 1 .. Len(units) : c[1 + j] = units[j]
  BY <1>1, <1>3
<1>5. ASSUME NEW type
      PROVE  TypesOf(c, type) <=> NalUnitType(s) = type \/ TypesOf(units, type)
  <2>1. ASSUME TypesOf(c, type) PROVE NalUnitType(s) = type \/ TypesOf(units, type)
    <3>1. PICK i \in 1 .. Len(c) : NalUnitType(c[i]) = type
      BY <2>1 DEF TypesOf
    <3>2. CASE i = 1
      BY <1>4, <3>1, <3>2
    <3>3. CASE i # 1
      <4>1. i - 1 \in 1 .. Len(units) /\ 1 + (i - 1) = i
        BY <1>3, <1>4, <3>3
      <4>2. c[i] = units[i - 1]
        BY <1>4, <4>1
      <4> QED BY <3>1, <4>1, <4>2 DEF TypesOf
    <3> QED BY <3>2, <3>3
  <2>2. ASSUME NalUnitType(s) = type PROVE TypesOf(c, type)
    <3>1. 1 \in 1 .. Len(c)
      BY <1>3, <1>4
    <3> QED BY <1>4, <2>2, <3>1 DEF TypesOf
  <2>3. ASSUME TypesOf(units, type) PROVE TypesOf(c, type)
    <3>1. PICK j \in 1 .. Len(units) : NalUnitType(units[j]) = type
      BY <2>3 DEF TypesOf
    <3>2. 1 + j \in 1 .. Len(c)
      BY <1>3, <1>4
    <3> QED BY <1>4, <3>1, <3>2 DEF TypesOf
  <2> QED BY <2>1, <2>2, <2>3
<1> QED BY <1>3, <1>5 DEF Cat, T, a, c

\* The search from the unit behind a code finds the next code, and the unit ends
\* before the zeros in front of that.
LEMMA HeadedFind ==
    ASSUME NEW stream, stream \in Seq(Nat), NEW d, d \in Places, d <= Len(stream), stream[d] # 0,
           Later(stream, d) # {}
    PROVE  \E z \in d .. Len(stream) :
              /\ FindStartCode(stream, d) = <<z + 1, Min(Later(stream, d)) + 3>>
              /\ FindStartCode(stream, d) # Nothing
              /\ Min(Later(stream, d)) \in Later(stream, d)
              /\ \A x \in Later(stream, d) : Min(Later(stream, d)) <= x
<1> DEFINE later == Later(stream, d)
           y == Min(later)
           z == ZerosTo(stream, d, y)
           e == Len(stream)
<1>1. d \in Nat \ {0} /\ e \in Nat /\ d <= e
  BY DEF Places
<1>2. later \subseteq 1 .. e - 2 /\ (\A i \in later : i >= d /\ stream[i] = 0)
  BY DEF Later, Marks
<1>3. y \in later /\ \A x \in later : y <= x
  <2>1. later \subseteq Nat /\ later # {}
    BY <1>1, <1>2
  <2> HIDE DEF later
  <2> QED BY <2>1, MinOfNats
<1> HIDE DEF later, y, e
<1>4. y \in d .. e - 2 /\ y \in Nat /\ stream[y] = 0
  <2>1. y \in 1 .. e - 2 /\ y >= d /\ stream[y] = 0
    BY <1>2, <1>3
  <2> QED BY ONLY <1>1, <2>1
<1>5. y \in z /\ z \subseteq d .. y
  BY <1>1, <1>4 DEF ZerosTo
<1>6. d \notin z
  <2> SUFFICES ASSUME d \in z PROVE FALSE
    OBVIOUS
  <2>1. \A j \in d .. y - 1 : stream[j] = 0
    BY DEF ZerosTo
  <2>2. d = y \/ d \in d .. y - 1
    BY ONLY <1>1, <1>4
  <2> QED BY <1>4, <2>1, <2>2
<1>7. Min(z) \in z
  <2>1. z \subseteq Nat
    BY ONLY <1>1, <1>4, <1>5
  <2> HIDE DEF z
  <2> QED BY <1>5, <2>1, MinOfNats
<1>8. FindStartCode(stream, d) = <<Min(z), y + 3>> /\ FindStartCode(stream, d) # Nothing
  BY <1>3, Finding DEF later, y, Nothing
<1> HIDE DEF z
<1> DEFINE w == Min(z)
<1>9. w \in d .. y /\ w # d
  BY <1>5, <1>6, <1>7
<1> HIDE DEF w
<1>10. w - 1 \in d .. e /\ (w - 1) + 1 = w
  BY ONLY <1>1, <1>4, <1>9
<1>11. FindStartCode(stream, d) = <<(w - 1) + 1, y + 3>>
  BY <1>8, <1>10 DEF w
<1> QED BY <1>3, <1>8, <1>10, <1>11 DEF later, y, e

\* The types of the units in a stream stand behind its codes.
LEMMA HeadedTypes ==
    ASSUME NEW stream, stream \in Seq(Nat), Headed(stream)
    PROVE  \A type : type \in TypesIn(stream) <=> \E m \in Marks(stream) : TypeAt(stream, m) = type
<1>1. PICK f : /\ Units(stream, f)
               /\ NalUnits(stream) = LET first == FindStartCode(stream, 1)
                                     IN  IF first = Nothing THEN <<>> ELSE f[first[2]]
  BY NalUnitsWalk
<1> DEFINE Has(m) ==
             /\ f[m + 3] \in Seq(Seq(Nat))
             /\ \A type : TypesOf(f[m + 3], type)
                             <=> \E x \in Marks(stream) : x >= m /\ TypeAt(stream, x) = type
           e == Len(stream)
           Bad == {k \in Nat : \E m \in Marks(stream) : e - m = k /\ ~Has(m)}
<1>2. ASSUME NEW m \in Marks(stream) PROVE Has(m)
  <2> SUFFICES ASSUME ~Has(m) PROVE FALSE
    OBVIOUS
  <2>1. e \in Nat /\ \A x \in Marks(stream) : x \in Nat /\ e - x \in Nat
    <3>1. e \in Nat
      OBVIOUS
    <3>2. \A x \in Marks(stream) : x \in 1 .. e - 2
      BY DEF Marks
    <3> HIDE DEF e
    <3> QED BY ONLY <3>1, <3>2
  <2>2. Bad # {}
    <3> HIDE DEF Has, e
    <3>1. e - m \in Nat /\ e - m \in Bad
      BY <2>1
    <3> QED BY <3>1
  <2>3. PICK k \in Bad : \A j \in Bad : k <= j
    <3>1. Bad \in SUBSET Nat
      OBVIOUS
    <3> HIDE DEF Bad
    <3> QED BY <2>2, <3>1, LeastNat
  <2>4. PICK a \in Marks(stream) : e - a = k /\ ~Has(a)
    <3> HIDE DEF Has, e
    <3> QED BY <2>3
  <2>5. \A b \in Marks(stream) : b > a => Has(b)
    <3> TAKE b \in Marks(stream)
    <3> HIDE DEF Has, e
    <3> SUFFICES ASSUME b > a, ~Has(b) PROVE FALSE
      OBVIOUS
    <3>1. e - b \in Bad /\ e - b \in Nat
      BY <2>1
    <3>2. k <= e - b
      BY <2>3, <3>1
    <3>3. a \in Nat /\ b \in Nat /\ e \in Nat
      BY <2>1
    <3> QED BY ONLY <2>4, <3>2, <3>3, b > a
  <2> DEFINE d == a + 3
             code == FindStartCode(stream, d)
  <2>6. d \in Places /\ a \in Places /\ d \in Nat
    BY MarksApart DEF Places
  <2>7. d <= e /\ stream[d] # 0
    BY DEF Headed
  <2>8. d \in d .. e /\ e \in d .. e
    <3> HIDE DEF d, e
    <3> QED BY ONLY <2>1, <2>6, <2>7
  <2>9. f[d] = IF code = Nothing THEN Unit(stream, d, Len(stream))
               ELSE Cat(Unit(stream, d, code[1] - 1), f[code[2]])
    <3> HIDE DEF d
    <3> QED BY <1>1, <2>6 DEF Units
  <2>10. \A x \in Marks(stream) : x >= a <=> x = a \/ x \in Later(stream, d)
    BY MarksApart DEF Later
  <2>11. CASE Later(stream, d) = {}
    <3>1. code = Nothing
      <4> HIDE DEF d
      <4> QED BY <2>11, Finding
    <3> DEFINE s == SubSeq(stream, d, e)
    <3>2. f[d] = <<s>> /\ s \in Seq(Nat) /\ NalUnitType(s) = TypeAt(stream, a)
      <4>1. TypeAt(stream, a) = stream[d] % 32
        BY DEF TypeAt
      <4> HIDE DEF d, code
      <4>2. f[d] = Unit(stream, d, e)
        BY <2>9, <3>1
      <4>3. NalUnitType(s) = stream[d] % 32 /\ s \in Seq(Nat) /\ Unit(stream, d, e) = <<s>>
        BY <2>6, <2>8, UnitType
      <4> QED BY <4>1, <4>2, <4>3
    <3> HIDE DEF s, code
    <3>3. \A type : TypesOf(<<s>>, type) <=> TypeAt(stream, a) = type
      BY <3>2, TypesOfOne
    <3>4. <<s>> \in Seq(Seq(Nat))
      <4> DEFINE T == Seq(Nat)
      <4>1. s \in T
        BY <3>2
      <4> HIDE DEF T
      <4>2. <<s>> \in Seq(T)
        BY <4>1
      <4> QED BY <4>2 DEF T
    <3>5. \A x \in Marks(stream) : x >= a <=> x = a
      BY <2>10, <2>11
    <3>6. \A type : (\E x \in Marks(stream) : x >= a /\ TypeAt(stream, x) = type)
                       <=> TypeAt(stream, a) = type
      BY <3>5
    <3> HIDE DEF TypesOf
    <3>7. Has(a)
      BY <3>2, <3>3, <3>4, <3>6
    <3> QED BY <2>4, <3>7
  <2>12. CASE Later(stream, d) # {}
    <3> DEFINE y == Min(Later(stream, d))
    <3>1. PICK z \in d .. e : /\ code = <<z + 1, y + 3>> /\ code # Nothing
                              /\ y \in Later(stream, d) /\ \A x \in Later(stream, d) : y <= x
      <4> HIDE DEF d
      <4> QED BY <2>6, <2>7, <2>12, HeadedFind
    <3> DEFINE s == SubSeq(stream, d, z)
    <3>2. y \in Marks(stream) /\ y >= d /\ y > a
      <4>1. y \in Marks(stream) /\ y >= d
        BY <3>1 DEF Later
      <4>2. y \in Nat
        BY <2>1, <4>1
      <4> HIDE DEF y
      <4>3. y > a
        BY <2>1, <4>1, <4>2
      <4> QED BY <4>1, <4>3
    <3>3. Has(y)
      <4> HIDE DEF Has, y
      <4> QED BY <2>5, <3>2
    <3>4. f[d] = Cat(<<s>>, f[y + 3]) /\ s \in Seq(Nat) /\ NalUnitType(s) = TypeAt(stream, a)
      <4>1. TypeAt(stream, a) = stream[d] % 32
        BY DEF TypeAt
      <4>2. code[2] = y + 3 /\ code[1] - 1 = z
        <5>1. code[1] = z + 1 /\ code[2] = y + 3
          BY <3>1
        <5>2. z \in Int
          BY <2>6
        <5> HIDE DEF code
        <5> QED BY ONLY <5>1, <5>2
      <4> HIDE DEF d, code, y
      <4>3. f[d] = Cat(Unit(stream, d, z), f[y + 3])
        BY <2>9, <3>1, <4>2
      <4>4. NalUnitType(s) = stream[d] % 32 /\ s \in Seq(Nat) /\ Unit(stream, d, z) = <<s>>
        BY <2>6, UnitType
      <4> QED BY <4>1, <4>3, <4>4
    <3> HIDE DEF s, code
    <3>5. \A x \in Marks(stream) : x \in Later(stream, d) <=> x >= y
      <4> TAKE x \in Marks(stream)
      <4>1. x \in Nat /\ y \in Nat
        BY <2>1, <3>2
      <4>2. x \in Later(stream, d) <=> x >= d
        BY DEF Later
      <4>3. x \in Later(stream, d) => y <= x
        BY <3>1
      <4> HIDE DEF y, d
      <4> QED BY <2>6, <3>2, <4>1, <4>2, <4>3
    <3> HIDE DEF y
    <3>6. \A type : TypesOf(f[d], type) <=> TypeAt(stream, a) = type \/ TypesOf(f[y + 3], type)
      BY <3>3, <3>4, TypesOfMore
    <3>7. f[d] \in Seq(Seq(Nat))
      BY <3>3, <3>4, TypesOfMore
    <3>8. \A type : (\E x \in Marks(stream) : x >= a /\ TypeAt(stream, x) = type)
                       <=> \/ TypeAt(stream, a) = type
                           \/ \E x \in Marks(stream) : x >= y /\ TypeAt(stream, x) = type
      BY <2>10, <3>5
    <3>9. Has(a)
      BY <3>3, <3>6, <3>7, <3>8
    <3> QED BY <2>4, <3>9
  <2> QED BY <2>11, <2>12
<1> DEFINE first == FindStartCode(stream, 1)
<1>3. Later(stream, 1) = Marks(stream)
  <2>1. \A x \in Marks(stream) : x \in 1 .. e - 2
    BY DEF Marks
  <2>2. e \in Int
    OBVIOUS
  <2> HIDE DEF e
  <2>3. \A x \in Marks(stream) : x >= 1
    BY ONLY <2>1, <2>2
  <2> QED BY <2>3 DEF Later
<1>4. \A type : type \in TypesIn(stream) <=> \E u \in ToSet(NalUnits(stream)) : NalUnitType(u) = type
  BY DEF TypesIn
<1>5. CASE Marks(stream) = {}
  <2>1. first = Nothing
    BY <1>3, <1>5, Finding
  <2>2. NalUnits(stream) = <<>>
    BY <1>1, <2>1
  <2>3. ToSet(NalUnits(stream)) = {}
    BY <2>2 DEF ToSet
  <2> QED BY <1>4, <1>5, <2>3
<1>6. CASE Marks(stream) # {}
  <2> DEFINE y == Min(Marks(stream))
  <2>1. first = <<Min(ZerosTo(stream, 1, y)), y + 3>> /\ first # Nothing
    BY <1>3, <1>6, Finding DEF Nothing
  <2>2. NalUnits(stream) = f[y + 3]
    <3>1. first[2] = y + 3
      BY <2>1
    <3> HIDE DEF first, y
    <3> QED BY <1>1, <2>1, <3>1 DEF first
  <2>3. y \in Marks(stream) /\ \A x \in Marks(stream) : y <= x
    <3>1. Marks(stream) \subseteq Nat
      BY MarksApart
    <3> QED BY <1>6, <3>1, MinOfNats
  <2>4. \A x \in Marks(stream) : x >= y
    <3> TAKE x \in Marks(stream)
    <3>1. x \in Nat /\ y \in Nat /\ y <= x
      BY <2>3, MarksApart
    <3> QED BY ONLY <3>1
  <2> HIDE DEF y, first
  <2> DEFINE g == f[y + 3]
  <2>5. g \in Seq(Seq(Nat)) /\ \A type : TypesOf(g, type)
                                  <=> \E x \in Marks(stream) : x >= y /\ TypeAt(stream, x) = type
    BY <1>2, <2>3
  <2>6. \A type : (\E u \in ToSet(g) : NalUnitType(u) = type) <=> TypesOf(g, type)
    <3>1. DOMAIN g = 1 .. Len(g)
      BY <2>5
    <3> HIDE DEF g
    <3> QED BY <3>1 DEF ToSet, TypesOf
  <2> QED BY <1>4, <2>2, <2>4, <2>5, <2>6
<1> QED BY <1>5, <1>6

-----------------------------------------------------------------------------
(***************************************************************************)
(* start_code_offsets (nal.rs).                                            *)
(***************************************************************************)

\* w is the stream from a to c, and has the codes that end within it.
SliceOf(w, stream, a, c) ==
    /\ w \in Seq(Nat) /\ Len(w) = c - a + 1
    /\ \A p \in 1 .. Len(w) : w[p] = stream[a + p - 1]
    /\ \A p : p \in Marks(w) <=> /\ p \in Nat \ {0} /\ a + p - 1 \in Marks(stream)
                                 /\ p + 2 <= Len(w)

\* The codes of a slice of a stream are those of the stream that it contains.
LEMMA SliceMarks ==
    ASSUME NEW stream, stream \in Seq(Nat), NEW a, a \in 1 .. Len(stream),
           NEW c, c \in a .. Len(stream)
    PROVE  SliceOf(SubSeq(stream, a, c), stream, a, c)
<1> DEFINE w == SubSeq(stream, a, c)
<1>1. Len(stream) \in Nat /\ a \in Int /\ c \in Int /\ a <= c /\ a >= 1 /\ c <= Len(stream)
  OBVIOUS
<1>2. \A i \in a .. c : stream[i] \in Nat
  BY <1>1
<1>3. w \in Seq(Nat) /\ Len(w) = c - a + 1 /\ \A i \in 1 .. c - a + 1 : w[i] = stream[a + i - 1]
  BY <1>1, <1>2, SubSeqProperties
<1> HIDE DEF w
<1> DEFINE l == Len(w)
           e == Len(stream)
<1>4. ASSUME NEW p, p \in Nat \ {0}, p + 2 <= l
      PROVE  /\ p \in 1 .. l - 2 /\ a + p - 1 \in 1 .. e - 2
             /\ w[p] = stream[a + p - 1] /\ w[p + 1] = stream[(a + p - 1) + 1]
             /\ w[p + 2] = stream[(a + p - 1) + 2]
  <2>1. l = c - a + 1 /\ e \in Nat /\ a \in Int /\ c \in Int /\ a <= c /\ a >= 1 /\ c <= e
    BY <1>1, <1>3
  <2> HIDE DEF l, e
  <2>2. /\ p \in 1 .. l - 2 /\ a + p - 1 \in 1 .. e - 2
        /\ p \in 1 .. c - a + 1 /\ p + 1 \in 1 .. c - a + 1 /\ p + 2 \in 1 .. c - a + 1
        /\ a + (p + 1) - 1 = (a + p - 1) + 1 /\ a + (p + 2) - 1 = (a + p - 1) + 2
    BY ONLY <2>1, p \in Nat \ {0}, p + 2 <= l
  <2>3. w[p] = stream[a + p - 1] /\ w[p + 1] = stream[a + (p + 1) - 1]
        /\ w[p + 2] = stream[a + (p + 2) - 1]
    BY <1>3, <2>2
  <2> QED BY <2>2, <2>3
<1>5. \A p : p \in Marks(w) => p \in Nat \ {0} /\ p + 2 <= l
  <2> TAKE p
  <2> SUFFICES ASSUME p \in Marks(w) PROVE p \in Nat \ {0} /\ p + 2 <= l
    OBVIOUS
  <2>1. p \in 1 .. l - 2 /\ l \in Int
    BY <1>3 DEF Marks
  <2> HIDE DEF l
  <2> QED BY ONLY <2>1
<1> HIDE DEF l
<1>6. ASSUME NEW p, p \in Nat \ {0}, p + 2 <= l
      PROVE  p \in Marks(w) <=> a + p - 1 \in Marks(stream)
  BY <1>4, <1>6 DEF Marks, l, e
<1> QED BY <1>3, <1>5, <1>6 DEF l, w, SliceOf

\* Every start code of a part of a stream has its unit's header with it.
CodesHeaded(stream, a, c) ==
    \A m \in Marks(stream) : a <= m /\ m + 2 <= c => m + 3 <= c /\ stream[m + 3] # 0

\* The types in a part of a stream are those behind its start codes.
TypesShown(part, stream, a, c) ==
    \A type : type \in TypesIn(part)
                <=> \E m \in Marks(stream) : a <= m /\ m + 2 <= c /\ TypeAt(stream, m) = type

\* The types in a slice that cuts no code off from its unit.
LEMMA SliceTypes ==
    ASSUME NEW stream, stream \in Seq(Nat), NEW a, a \in 1 .. Len(stream),
           NEW c, c \in a .. Len(stream), CodesHeaded(stream, a, c)
    PROVE  TypesShown(SubSeq(stream, a, c), stream, a, c)
<1>1. PICK w : w = SubSeq(stream, a, c)
  OBVIOUS
<1>2. /\ w \in Seq(Nat) /\ Len(w) = c - a + 1
      /\ \A p \in 1 .. Len(w) : w[p] = stream[a + p - 1]
      /\ \A p : p \in Marks(w) <=> /\ p \in Nat \ {0} /\ a + p - 1 \in Marks(stream)
                                   /\ p + 2 <= Len(w)
  <2>1. SliceOf(SubSeq(stream, a, c), stream, a, c)
    BY SliceMarks
  <2>2. SliceOf(w, stream, a, c)
    BY ONLY <1>1, <2>1
  <2> QED BY ONLY <2>2 DEF SliceOf
<1>3. a \in Nat \ {0} /\ c \in Nat /\ \A m \in Marks(stream) : m \in Nat
  <2>1. Len(stream) \in Nat
    OBVIOUS
  <2> QED BY <2>1, MarksApart
<1>4. ASSUME NEW p, p \in Marks(w)
      PROVE  /\ p + 3 <= Len(w) /\ w[p + 3] # 0 /\ a + p - 1 \in Marks(stream)
             /\ a <= a + p - 1 /\ (a + p - 1) + 2 <= c /\ TypeAt(w, p) = TypeAt(stream, a + p - 1)
  <2>1. p \in Nat \ {0} /\ a + p - 1 \in Marks(stream) /\ p + 2 <= Len(w)
    BY <1>2, <1>4
  <2>2. a <= a + p - 1 /\ (a + p - 1) + 2 <= c
    BY ONLY <1>2, <1>3, <2>1
  <2>3. (a + p - 1) + 3 <= c /\ stream[(a + p - 1) + 3] # 0
    BY <2>1, <2>2 DEF CodesHeaded
  <2>4. p + 3 <= Len(w) /\ p + 3 \in 1 .. Len(w) /\ a + (p + 3) - 1 = (a + p - 1) + 3
    BY ONLY <1>2, <1>3, <2>1, <2>3
  <2>5. w[p + 3] = stream[(a + p - 1) + 3]
    <3>1. \A q \in 1 .. Len(w) : w[q] = stream[a + q - 1]
      BY <1>2
    <3>2. w[p + 3] = stream[a + (p + 3) - 1]
      BY ONLY <2>4, <3>1
    <3> QED BY ONLY <2>4, <3>2
  <2> QED BY <2>1, <2>2, <2>3, <2>4, <2>5 DEF TypeAt
<1>5. ASSUME NEW m \in Marks(stream), a <= m, m + 2 <= c
      PROVE  m - a + 1 \in Marks(w) /\ a + (m - a + 1) - 1 = m
  <2>1. m \in Nat
    BY <1>3
  <2>2. m - a + 1 \in Nat \ {0} /\ a + (m - a + 1) - 1 = m /\ (m - a + 1) + 2 <= Len(w)
    BY ONLY <1>2, <1>3, <1>5, <2>1
  <2> QED BY <1>2, <2>2
<1>6. Headed(w)
  BY <1>4 DEF Headed
<1>7. \A type : type \in TypesIn(w) <=> \E p \in Marks(w) : TypeAt(w, p) = type
  BY <1>2, <1>6, HeadedTypes
<1>8. \A type : (\E p \in Marks(w) : TypeAt(w, p) = type)
                  <=> \E m \in Marks(stream) : a <= m /\ m + 2 <= c /\ TypeAt(stream, m) = type
  <2> TAKE type
  <2>1. ASSUME NEW p \in Marks(w), TypeAt(w, p) = type
        PROVE  \E m \in Marks(stream) : a <= m /\ m + 2 <= c /\ TypeAt(stream, m) = type
    <3>1. /\ a + p - 1 \in Marks(stream) /\ a <= a + p - 1 /\ (a + p - 1) + 2 <= c
          /\ TypeAt(stream, a + p - 1) = type
      BY <1>4, <2>1
    <3> QED BY <3>1
  <2>2. ASSUME NEW m \in Marks(stream), a <= m, m + 2 <= c, TypeAt(stream, m) = type
        PROVE  \E p \in Marks(w) : TypeAt(w, p) = type
    <3>1. m - a + 1 \in Marks(w) /\ a + (m - a + 1) - 1 = m
      BY <1>5, <2>2
    <3>2. TypeAt(w, m - a + 1) = TypeAt(stream, a + (m - a + 1) - 1)
      BY <1>4, <3>1
    <3> QED BY <2>2, <3>1, <3>2
  <2> QED BY <2>1, <2>2
<1>9. TypesShown(w, stream, a, c)
  BY ONLY <1>7, <1>8 DEF TypesShown
<1> QED BY ONLY <1>1, <1>9

\* The recursion of start_code_offsets, whatever place it is at.
Codes(stream, f) ==
    \A d \in Places :
        f[d] = IF Later(stream, d) = {} THEN <<>>
               ELSE Cat(<<Min(Later(stream, d))>>, f[Min(Later(stream, d)) + 3])

\* The loop of start_code_offsets ends, wherever it starts.
LEMMA CodesExist ==
    ASSUME NEW stream, stream \in Seq(Nat)
    PROVE  \E f \in [Places -> Seq(Nat)] : Codes(stream, f)
<1> DEFINE T == Seq(Nat)
           e == Len(stream)
           later(d) == Later(stream, d)
           stop == {d \in Places : later(d) = {}}
           item == [d \in Places |-> IF d \in stop THEN <<>> ELSE <<Min(later(d))>>]
           next == [d \in Places |-> IF d \in stop THEN d ELSE Min(later(d)) + 3]
           rank == [d \in Places |-> IF d <= e THEN (e + 1) - d ELSE 0]
<1>1. e \in Nat /\ \A d \in Places : d \in Nat \ {0}
  BY DEF Places
<1>2. ASSUME NEW d \in Places, d \notin stop
      PROVE  /\ Min(later(d)) \in Nat /\ Min(later(d)) + 3 \in Places
             /\ d <= Min(later(d)) /\ Min(later(d)) <= e
  <2>1. later(d) \subseteq 1 .. e - 2 /\ (\A i \in later(d) : i >= d) /\ later(d) # {}
    BY <1>2 DEF Later, Marks
  <2>2. Min(later(d)) \in later(d)
    <3>1. later(d) \subseteq Nat
      BY <1>1, <2>1
    <3> HIDE DEF later
    <3> QED BY <2>1, <3>1, MinOfNats
  <2> DEFINE y == Min(later(d))
  <2>3. y \in 1 .. e - 2 /\ y >= d
    BY <2>1, <2>2
  <2>4. d \in Nat
    BY <1>1
  <2> HIDE DEF y, e
  <2>5. y \in Nat /\ y + 3 \in Nat \ {0} /\ d <= y /\ y <= e
    BY ONLY <1>1, <2>3, <2>4
  <2> QED BY <2>5 DEF y, Places
<1>3. item \in [Places -> T]
  <2> SUFFICES ASSUME NEW d \in Places PROVE item[d] \in T
    OBVIOUS
  <2>1. CASE d \in stop
    BY <2>1
  <2>2. CASE d \notin stop
    <3> DEFINE y == Min(later(d))
    <3>1. y \in Nat
      BY <1>2, <2>2
    <3> HIDE DEF y
    <3>2. <<y>> \in T
      BY <3>1
    <3>3. item[d] = <<y>>
      BY <2>2 DEF y
    <3> QED BY <3>2, <3>3
  <2> QED BY <2>1, <2>2
<1>4. next \in [Places -> Places]
  <2> SUFFICES ASSUME NEW d \in Places PROVE next[d] \in Places
    OBVIOUS
  <2> HIDE DEF stop, later
  <2> QED BY <1>2
<1>5. rank \in [Places -> Nat] /\ \A d \in Places : rank[d] <= e + 1
  BY <1>1
<1>6. \A d \in Places : d \notin stop => rank[next[d]] < rank[d]
  <2> TAKE d \in Places
  <2> SUFFICES ASSUME d \notin stop PROVE rank[next[d]] < rank[d]
    OBVIOUS
  <2> DEFINE y == Min(later(d))
  <2>1. next[d] = y + 3 /\ y \in Nat /\ y + 3 \in Places /\ d <= y /\ y <= e
    BY <1>2
  <2> HIDE DEF y, next, e
  <2>2. rank[y + 3] = IF y + 3 <= e THEN (e + 1) - (y + 3) ELSE 0
    BY <2>1
  <2>3. rank[d] = IF d <= e THEN (e + 1) - d ELSE 0
    OBVIOUS
  <2>4. d \in Nat \ {0} /\ e \in Nat
    BY <1>1
  <2> HIDE DEF rank
  <2>5. rank[y + 3] < rank[d]
    BY ONLY <2>1, <2>2, <2>3, <2>4
  <2> QED BY <2>1, <2>5
<1>7. Monoid(T)
  BY SeqMonoid
<1>8. e + 1 \in Nat
  BY <1>1
<1> HIDE DEF T, stop, item, next, rank, e, later
<1>9. Descends(T, Places, stop, item, next, rank, e + 1)
  BY <1>3, <1>4, <1>5, <1>6, <1>8 DEF Descends
<1>10. PICK f \in [Places -> T] : Walks(f, Places, stop, item, next)
  BY <1>7, <1>9, WalkExists
<1>11. Codes(stream, f)
  <2> SUFFICES ASSUME NEW d \in Places
               PROVE  f[d] = IF later(d) = {} THEN <<>> ELSE Cat(<<Min(later(d))>>, f[Min(later(d)) + 3])
    BY DEF Codes, later
  <2>1. f[d] = IF d \in stop THEN item[d] ELSE Cat(item[d], f[next[d]])
    BY <1>10 DEF Walks
  <2>2. d \in stop <=> later(d) = {}
    BY DEF stop
  <2>3. item[d] = IF d \in stop THEN <<>> ELSE <<Min(later(d))>>
    BY DEF item
  <2>4. next[d] = IF d \in stop THEN d ELSE Min(later(d)) + 3
    BY DEF next
  <2> QED BY <2>1, <2>2, <2>3, <2>4, Zenon
<1> QED BY <1>10, <1>11 DEF T

\* start_code_offsets is that loop, from the first cell on.
LEMMA OffsetsWalk ==
    ASSUME NEW stream, stream \in Seq(Nat)
    PROVE  \E f : Codes(stream, f) /\ StartCodeOffsets(stream) = f[1]
<1> DEFINE Eq(f) == f = [i \in Nat \ {0} |->
                           LET later == {m \in Marks(stream) : m >= i}
                           IN  IF later = {} THEN <<>> ELSE <<Min(later)>> \o f[Min(later) + 3]]
           h == CHOOSE f : Eq(f)
<1>1. PICK g \in [Places -> Seq(Nat)] : Codes(stream, g)
  BY CodesExist
<1>2. Eq(g)
  <2>1. g = [d \in Places |-> g[d]]
    BY <1>1
  <2>2. \A d \in Places : g[d] = LET later == {m \in Marks(stream) : m >= d}
                           IN  IF later = {} THEN <<>> ELSE <<Min(later)>> \o g[Min(later) + 3]
    BY <1>1 DEF Codes, Later, Cat
  <2> QED BY <2>1, <2>2 DEF Places
<1>3. Eq(h)
  BY <1>2
<1>4. StartCodeOffsets(stream) = h[1]
  BY DEF StartCodeOffsets
<1> HIDE DEF h
<1>5. Codes(stream, h)
  <2> SUFFICES ASSUME NEW d \in Places
               PROVE  h[d] = LET later == {m \in Marks(stream) : m >= d}
                           IN  IF later = {} THEN <<>> ELSE <<Min(later)>> \o h[Min(later) + 3]
    BY DEF Codes, Later, Cat
  <2> QED BY <1>3 DEF Places
<1> QED BY <1>4, <1>5

\* start_code_offsets gives where the codes of the units are.
LEMMA StreamedOffsets ==
    ASSUME NEW stream, NEW units, NEW n, NEW pos, Streamed(stream, units, n, pos)
    PROVE  StartCodeOffsets(stream) = [i \in 1 .. n |-> pos[i] + 1]
<1>1. n \in Nat \ {0} /\ stream \in Seq(Nat) /\ n \in 1 .. n /\ pos[1] = 1
  BY DEF Streamed, Framed
<1>2. PICK f : Codes(stream, f) /\ StartCodeOffsets(stream) = f[1]
  BY <1>1, OffsetsWalk
<1> DEFINE from == [i \in 1 .. n + 1 |-> IF i = 1 THEN 1 ELSE pos[i - 1] + 4]
           u == [i \in 1 .. n |-> pos[i] + 1]
           v == [i \in 1 .. n |-> f[from[i]]]
<1>3. \A i \in 1 .. n : pos[i] \in Nat \ {0}
  BY StreamedSpan
<1>4. ASSUME NEW i \in 1 .. n
      PROVE  f[from[i]] = Cat(<<u[i]>>, f[from[i + 1]])
  <2> DEFINE d == from[i]
  <2>1. d \in Places /\ d <= pos[i] + 1 /\ \A k \in 1 .. n : k < i => pos[k] + 1 < d
    <3>1. CASE i = 1
      <4>1. d = 1
        <5>1. i \in 1 .. n + 1
          BY ONLY <1>1, i \in 1 .. n
        <5> QED BY <3>1, <5>1
      <4>2. \A k \in 1 .. n : ~(k < i)
        BY <3>1
      <4> QED BY <1>1, <3>1, <4>1, <4>2 DEF Places
    <3>2. CASE i # 1
      <4>1. d = pos[i - 1] + 4 /\ i - 1 \in 1 .. n /\ i - 1 < i
        <5>1. i \in 1 .. n + 1 /\ i - 1 \in 1 .. n /\ i - 1 < i
          BY ONLY <1>1, <3>2, i \in 1 .. n
        <5> QED BY <3>2, <5>1
      <4> HIDE DEF d
      <4>2. pos[i - 1] + 4 < pos[i] + 4
        BY <4>1, StreamedOrder
      <4>3. pos[i - 1] \in Nat \ {0} /\ pos[i] \in Nat \ {0}
        BY <1>3, <4>1
      <4>4. d \in Nat \ {0} /\ d <= pos[i] + 1
        <5>1. UnitAt(stream, pos[i - 1], pos[(i - 1) + 1], units[i - 1], Len(units[i - 1]))
          BY <4>1, StreamedAt
        <5> DEFINE q == pos[i - 1]
                   l == Len(units[i - 1])
        <5>2. (i - 1) + 1 = i
          OBVIOUS
        <5>3. q \in Nat \ {0} /\ l \in Nat \ {0} /\ pos[i] = q + 4 + l
          BY <5>1, <5>2 DEF UnitAt
        <5>4. d = q + 4
          BY <4>1
        <5> HIDE DEF q, l
        <5> QED BY ONLY <5>3, <5>4
      <4>5. \A k \in 1 .. n : k < i => pos[k] + 1 < d
        <5> TAKE k \in 1 .. n
        <5> SUFFICES ASSUME k < i PROVE pos[k] + 1 < d
          OBVIOUS
        <5>1. pos[k] \in Nat
          BY <1>3
        <5>2. ~(i - 1 < k)
          OBVIOUS
        <5>3. ~(pos[i - 1] + 4 < pos[k] + 4)
          BY <4>1, <5>2, StreamedOrder
        <5> QED BY ONLY <4>1, <4>3, <5>1, <5>3
      <4> QED BY <4>4, <4>5 DEF Places
    <3> QED BY <3>1, <3>2
  <2> HIDE DEF d
  <2>2. Later(stream, d) # {} /\ Min(Later(stream, d)) = pos[i] + 1
    BY <2>1, StreamedNext
  <2>3. f[d] = Cat(<<pos[i] + 1>>, f[(pos[i] + 1) + 3])
    BY <1>2, <2>1, <2>2 DEF Codes
  <2>4. from[i + 1] = pos[i] + 4 /\ (pos[i] + 1) + 3 = pos[i] + 4
    <3>1. i + 1 \in 1 .. n + 1 /\ i + 1 # 1 /\ (i + 1) - 1 = i
      BY ONLY <1>1, i \in 1 .. n
    <3> HIDE DEF d
    <3>2. from[i + 1] = pos[(i + 1) - 1] + 4
      BY <3>1
    <3> QED BY <1>3, <3>1, <3>2
  <2> QED BY <2>3, <2>4 DEF d
<1>5. f[from[n + 1]] = <<>>
  <2>1. from[n + 1] = pos[n] + 4
    <3>1. n + 1 \in 1 .. n + 1 /\ n + 1 # 1 /\ (n + 1) - 1 = n
      BY <1>1
    <3> QED BY <3>1
  <2>2. pos[n] + 4 \in Places
    BY <1>1, <1>3 DEF Places
  <2>3. FindStartCode(stream, pos[n] + 4) = Nothing
    BY StreamedEnd
  <2>4. Later(stream, pos[n] + 4) = {}
    BY <2>3, Finding DEF Nothing
  <2> HIDE DEF from
  <2> QED BY <1>2, <2>1, <2>2, <2>4 DEF Codes
<1>6. Chain(v, u, n)
  <2> SUFFICES ASSUME NEW i \in 1 .. n
               PROVE  v[i] = IF i = n THEN <<u[i]>> ELSE Cat(<<u[i]>>, v[i + 1])
    BY DEF Chain
  <2>1. v[i] = Cat(<<u[i]>>, f[from[i + 1]])
    BY <1>4
  <2>2. CASE i = n
    <3>1. f[from[i + 1]] = <<>>
      BY <1>5, <2>2
    <3>2. Cat(<<u[i]>>, <<>>) = <<u[i]>>
      BY DEF Cat
    <3> HIDE DEF u, v, from
    <3> QED BY <2>1, <2>2, <3>1, <3>2
  <2>3. CASE i # n
    <3>1. i + 1 \in 1 .. n
      BY <1>1, <2>3
    <3>2. v[i + 1] = f[from[i + 1]]
      BY <3>1
    <3> HIDE DEF u, v, from
    <3> QED BY <2>1, <2>3, <3>2
  <2> QED BY <2>2, <2>3
<1>7. u \in Seq(Nat) /\ Len(u) = n
  BY <1>1, <1>3
<1>8. v[1] = f[1]
  <2>1. 1 \in 1 .. n /\ 1 \in 1 .. n + 1
    BY <1>1
  <2>2. from[1] = 1
    BY <2>1
  <2> HIDE DEF from
  <2> QED BY <2>1, <2>2
<1> HIDE DEF u, v
<1>9. v[1] = u
  BY <1>1, <1>6, <1>7, ChainCollects
<1> QED BY <1>2, <1>8, <1>9 DEF u

-----------------------------------------------------------------------------
(***************************************************************************)
(* split_access_units (nal.rs).                                            *)
(***************************************************************************)

\* What the unit behind a code is, as split_access_units sees it.
CodeType(stream, offsets, i) == NalUnitType(SubSeq(stream, offsets[i] + 3, Len(stream)))
\* A code of a slice; a code that may open a picture.
Vcl(stream, offsets, i) == CodeType(stream, offsets, i) \in {IDR_SLICE, NON_IDR_SLICE}
Opens(stream, offsets, i) ==
    Vcl(stream, offsets, i) \/ CodeType(stream, offsets, i) \in {SPS, PPS, SEI, AUD}

\* The loop of split_access_units, whatever state it is in.
Splits(stream, offsets, f) ==
    \A i \in Places, start \in Places, seen \in BOOLEAN :
        f[<<i, start, seen>>] =
            IF i > Len(offsets) THEN <<SubSeq(stream, start, Len(stream))>>
            ELSE IF seen /\ Opens(stream, offsets, i)
            THEN Cat(<<SubSeq(stream, start, offsets[i] - 1)>>,
                     f[<<i + 1, offsets[i], Vcl(stream, offsets, i)>>])
            ELSE f[<<i + 1, start, seen \/ Vcl(stream, offsets, i)>>]

\* The loop of split_access_units: which code, where the picture began, and
\* whether a slice was seen.
SplitStates == Places \X Places \X BOOLEAN

\* The three parts of such a state.
LEMMA SplitStateParts ==
    ASSUME NEW at, at \in SplitStates
    PROVE  /\ at = <<at[1], at[2], at[3]>>
           /\ at[1] \in Places /\ at[2] \in Places /\ at[3] \in BOOLEAN
BY DEF SplitStates

\* A slice of the stream is cells.
LEMMA SliceTyped ==
    ASSUME NEW stream, stream \in Seq(Nat), NEW first, first \in Places, NEW last,
           last \in Int, last <= Len(stream)
    PROVE  <<SubSeq(stream, first, last)>> \in Seq(Seq(Nat))
<1> DEFINE T == Seq(Nat)
           s == SubSeq(stream, first, last)
<1>1. first \in Int /\ first >= 1 /\ Len(stream) \in Nat
  BY DEF Places
<1>2. s \in T
  <2>1. CASE first > last
    <3>1. s = <<>>
      BY <1>1, <2>1
    <3> QED BY <3>1
  <2>2. CASE ~(first > last)
    <3>1. \A i \in first .. last : stream[i] \in Nat
      BY <1>1
    <3>2. first <= last + 1
      BY <1>1, <2>2
    <3> QED BY <1>1, <3>1, <3>2, SubSeqProperties
  <2> QED BY <2>1, <2>2
<1> HIDE DEF T, s
<1>3. <<s>> \in Seq(T)
  BY <1>2
<1> QED BY <1>3 DEF T, s

\* The loop of split_access_units ends, whatever its state.
LEMMA SplitsExist ==
    ASSUME NEW stream, stream \in Seq(Nat),
           NEW offsets, offsets \in Seq(Places), \A i \in 1 .. Len(offsets) : offsets[i] <= Len(stream)
    PROVE  \E f \in [SplitStates -> Seq(Seq(Nat))] : Splits(stream, offsets, f)
<1> DEFINE T == Seq(Seq(Nat))
           D == SplitStates
           n == Len(offsets)
           vcl(i) == Vcl(stream, offsets, i)
           cut(at) == at[3] /\ Opens(stream, offsets, at[1])
           stop == {at \in D : at[1] > n}
           item == [at \in D |-> IF at \in stop THEN <<SubSeq(stream, at[2], Len(stream))>>
                                 ELSE IF cut(at) THEN <<SubSeq(stream, at[2], offsets[at[1]] - 1)>>
                                 ELSE <<>>]
           next == [at \in D |-> IF at \in stop THEN at
                                 ELSE IF cut(at) THEN <<at[1] + 1, offsets[at[1]], vcl(at[1])>>
                                 ELSE <<at[1] + 1, at[2], at[3] \/ vcl(at[1])>>]
           rank == [at \in D |-> IF at[1] <= n THEN (n + 1) - at[1] ELSE 0]
<1>1. n \in Nat /\ Len(stream) \in Nat /\ \A i \in 1 .. n : offsets[i] \in Places /\ offsets[i] \in Nat
  BY DEF Places
<1>2. \A at \in D : /\ at[1] \in Places /\ at[2] \in Places /\ at[3] \in BOOLEAN
                    /\ at[1] \in Nat \ {0} /\ at[1] + 1 \in Places
  BY SplitStateParts DEF Places
<1>3. \A at \in D : at \notin stop => at[1] \in 1 .. n
  BY <1>1, <1>2
<1>4. \A i : vcl(i) \in BOOLEAN
  BY DEF Vcl
<1>5. <<>> \in T
  OBVIOUS
<1> HIDE DEF vcl, T
<1>6. item \in [D -> T]
  <2> SUFFICES ASSUME NEW at \in D PROVE item[at] \in T
    OBVIOUS
  <2>1. <<SubSeq(stream, at[2], Len(stream))>> \in T
    BY <1>1, <1>2, SliceTyped DEF T
  <2>2. CASE at \in stop
    BY <2>1, <2>2
  <2>3. CASE at \notin stop
    <3> DEFINE l == offsets[at[1]] - 1
    <3>1. l \in Int /\ l <= Len(stream)
      BY <1>1, <1>3, <2>3
    <3> HIDE DEF l
    <3>2. <<SubSeq(stream, at[2], l)>> \in T
      BY <1>2, <3>1, SliceTyped DEF T
    <3>3. item[at] = IF cut(at) THEN <<SubSeq(stream, at[2], l)>> ELSE <<>>
      BY <2>3 DEF l
    <3> HIDE DEF item, cut
    <3> QED BY <1>5, <3>2, <3>3
  <2> QED BY <2>2, <2>3
<1>7. ASSUME NEW at \in D
      PROVE  next[at] \in D /\ (at \notin stop => next[at][1] = at[1] + 1)
  <2>1. CASE at \in stop
    BY <2>1
  <2>2. CASE at \notin stop
    <3> DEFINE a == at[1] + 1
               o == offsets[at[1]]
               v == vcl(at[1])
               w == at[3] \/ v
    <3>1. a \in Places /\ o \in Places /\ v \in BOOLEAN /\ w \in BOOLEAN /\ at[2] \in Places
      <4>1. at[1] \in 1 .. n
        BY <1>3, <2>2
      <4>2. o \in Places
        BY <1>1, <4>1
      <4> QED BY <1>2, <1>4, <4>2
    <3>2. next[at] = IF cut(at) THEN <<a, o, v>> ELSE <<a, at[2], w>>
      BY <2>2
    <3> HIDE DEF next, cut, a, o, v, w
    <3>3. <<a, o, v>> \in D /\ <<a, at[2], w>> \in D
      BY <3>1 DEF SplitStates
    <3>4. next[at] \in D /\ next[at][1] = a
      BY <3>2, <3>3
    <3> QED BY <3>4 DEF a
  <2> QED BY <2>1, <2>2
<1>8. next \in [D -> D]
  <2>1. next = [at \in D |-> next[at]]
    OBVIOUS
  <2> HIDE DEF next
  <2> QED BY <1>7, <2>1
<1>9. rank \in [D -> Nat] /\ \A at \in D : rank[at] <= n + 1
  BY <1>1, <1>2
<1>10. \A at \in D : at \notin stop => rank[next[at]] < rank[at]
  <2> TAKE at \in D
  <2> SUFFICES ASSUME at \notin stop PROVE rank[next[at]] < rank[at]
    OBVIOUS
  <2> DEFINE x == next[at]
             i == at[1]
             j == x[1]
  <2>1. x \in D /\ j = i + 1 /\ i \in 1 .. n
    BY <1>3, <1>7
  <2> HIDE DEF x
  <2>2. rank[x] = IF j <= n THEN (n + 1) - j ELSE 0
    BY <2>1
  <2>3. rank[at] = IF i <= n THEN (n + 1) - i ELSE 0
    OBVIOUS
  <2> HIDE DEF rank, i, j
  <2>4. rank[x] < rank[at]
    BY ONLY <1>1, <2>1, <2>2, <2>3
  <2> QED BY <2>4 DEF x
<1>11. Monoid(T)
  BY SeqMonoid DEF T
<1>12. n + 1 \in Nat
  BY <1>1
<1> HIDE DEF stop, item, next, rank, n, D
<1>13. Descends(T, D, stop, item, next, rank, n + 1)
  BY <1>6, <1>8, <1>9, <1>10, <1>12 DEF Descends
<1>14. PICK f \in [D -> T] : Walks(f, D, stop, item, next)
  BY <1>11, <1>13, WalkExists
<1>15. Splits(stream, offsets, f)
  <2> SUFFICES ASSUME NEW i \in Places, NEW start \in Places, NEW seen \in BOOLEAN
               PROVE  f[<<i, start, seen>>] =
                        IF i > n THEN <<SubSeq(stream, start, Len(stream))>>
                        ELSE IF seen /\ Opens(stream, offsets, i)
                        THEN Cat(<<SubSeq(stream, start, offsets[i] - 1)>>, f[<<i + 1, offsets[i], vcl(i)>>])
                        ELSE f[<<i + 1, start, seen \/ vcl(i)>>]
    BY DEF Splits, n, vcl
  <2> DEFINE at == <<i, start, seen>>
  <2>1. at \in D /\ at[1] = i /\ at[2] = start /\ at[3] = seen
    BY DEF D, SplitStates
  <2> HIDE DEF at
  <2>2. f[at] = IF at \in stop THEN item[at] ELSE Cat(item[at], f[next[at]])
    BY <1>14, <2>1 DEF Walks
  <2>3. at \in stop <=> i > n
    BY <2>1 DEF stop
  <2>4. item[at] = IF at \in stop THEN <<SubSeq(stream, start, Len(stream))>>
                   ELSE IF seen /\ Opens(stream, offsets, i) THEN <<SubSeq(stream, start, offsets[i] - 1)>>
                   ELSE <<>>
    BY <2>1 DEF item
  <2>5. at \notin stop => next[at] = IF seen /\ Opens(stream, offsets, i) THEN <<i + 1, offsets[i], vcl(i)>>
                                     ELSE <<i + 1, start, seen \/ vcl(i)>>
    BY <2>1 DEF next
  <2>6. f[next[at]] \in T
    BY <1>8, <1>14, <2>1
  <2>7. \A x \in T : Cat(<<>>, x) = x
    BY <1>11 DEF Monoid, Cat
  <2>8. CASE at \in stop
    BY <2>2, <2>3, <2>4, <2>8 DEF at
  <2>9. CASE at \notin stop /\ seen /\ Opens(stream, offsets, i)
    <3>1. item[at] = <<SubSeq(stream, start, offsets[i] - 1)>> /\ next[at] = <<i + 1, offsets[i], vcl(i)>>
      BY <2>4, <2>5, <2>9
    <3> QED BY <2>2, <2>3, <2>9, <3>1 DEF at
  <2>10. CASE at \notin stop /\ ~(seen /\ Opens(stream, offsets, i))
    <3>1. item[at] = <<>> /\ next[at] = <<i + 1, start, seen \/ vcl(i)>>
      BY <2>4, <2>5, <2>10
    <3>2. f[at] = f[next[at]]
      BY <2>2, <2>6, <2>7, <2>10, <3>1
    <3> QED BY <2>3, <2>10, <3>1, <3>2 DEF at
  <2> QED BY <2>8, <2>9, <2>10
<1> QED BY <1>14, <1>15 DEF T, D

\* split_access_units is that loop, from the first code on.
LEMMA SplitWalk ==
    ASSUME NEW stream, stream \in Seq(Nat), StartCodeOffsets(stream) \in Seq(Places),
           \A i \in 1 .. Len(StartCodeOffsets(stream)) : StartCodeOffsets(stream)[i] <= Len(stream),
           StartCodeOffsets(stream) # <<>>
    PROVE  \E f : /\ Splits(stream, StartCodeOffsets(stream), f)
                  /\ SplitAccessUnits(stream) = f[<<1, StartCodeOffsets(stream)[1], FALSE>>]
<1> DEFINE offsets == StartCodeOffsets(stream)
           type(i) == NalUnitType(SubSeq(stream, offsets[i] + 3, Len(stream)))
           vcl(i) == type(i) \in {IDR_SLICE, NON_IDR_SLICE}
           opens(i) == vcl(i) \/ type(i) \in {SPS, PPS, SEI, AUD}
           Eq(f) == f = [at \in (Nat \ {0}) \X (Nat \ {0}) \X BOOLEAN |->
                          LET i == at[1]
                              start == at[2]
                              seen == at[3]
                          IN  IF i > Len(offsets) THEN <<SubSeq(stream, start, Len(stream))>>
                              ELSE IF seen /\ opens(i)
                              THEN <<SubSeq(stream, start, offsets[i] - 1)>>
                                   \o f[<<i + 1, offsets[i], vcl(i)>>]
                              ELSE f[<<i + 1, start, seen \/ vcl(i)>>]]
           h == CHOOSE f : Eq(f)
           Step(f, i, start, seen) ==
               IF i > Len(offsets) THEN <<SubSeq(stream, start, Len(stream))>>
               ELSE IF seen /\ Opens(stream, offsets, i)
               THEN Cat(<<SubSeq(stream, start, offsets[i] - 1)>>,
                        f[<<i + 1, offsets[i], Vcl(stream, offsets, i)>>])
               ELSE f[<<i + 1, start, seen \/ Vcl(stream, offsets, i)>>]
<1>1. PICK g \in [SplitStates -> Seq(Seq(Nat))] : Splits(stream, offsets, g)
  <2> HIDE DEF offsets
  <2>1. offsets \in Seq(Places) /\ \A i \in 1 .. Len(offsets) : offsets[i] <= Len(stream)
    BY DEF offsets
  <2> QED BY ONLY <2>1, SplitsExist, stream \in Seq(Nat)
<1>2. \A f : Eq(f) <=> f = [at \in SplitStates |-> Step(f, at[1], at[2], at[3])]
  BY DEF SplitStates, Places, Cat, Opens, Vcl, CodeType
<1>3. \A f : Splits(stream, offsets, f) <=> \A i \in Places, start \in Places, seen \in BOOLEAN :
                                              f[<<i, start, seen>>] = Step(f, i, start, seen)
  BY DEF Splits
<1>4. SplitAccessUnits(stream) = h[<<1, offsets[1], FALSE>>]
  BY DEF SplitAccessUnits
<1> HIDE DEF Step
<1>5. Eq(g)
  <2>1. g = [at \in SplitStates |-> g[at]]
    BY <1>1
  <2>2. \A at \in SplitStates : g[at] = Step(g, at[1], at[2], at[3])
    <3> TAKE at \in SplitStates
    <3>1. at = <<at[1], at[2], at[3]>> /\ at[1] \in Places /\ at[2] \in Places /\ at[3] \in BOOLEAN
      BY SplitStateParts
    <3>2. g[<<at[1], at[2], at[3]>>] = Step(g, at[1], at[2], at[3])
      BY <1>1, <1>3, <3>1
    <3> QED BY <3>1, <3>2
  <2>3. g = [at \in SplitStates |-> Step(g, at[1], at[2], at[3])]
    BY <2>1, <2>2
  <2> HIDE DEF Eq
  <2> QED BY <1>2, <2>3
<1>6. Eq(h)
  <2> HIDE DEF Eq
  <2> QED BY <1>5
<1> HIDE DEF h, Eq
<1>7. Splits(stream, offsets, h)
  <2>1. h = [at \in SplitStates |-> Step(h, at[1], at[2], at[3])]
    BY <1>2, <1>6
  <2> SUFFICES ASSUME NEW i \in Places, NEW start \in Places, NEW seen \in BOOLEAN
               PROVE  h[<<i, start, seen>>] = Step(h, i, start, seen)
    BY <1>3
  <2> DEFINE at == <<i, start, seen>>
  <2>2. at \in SplitStates /\ at[1] = i /\ at[2] = start /\ at[3] = seen
    BY DEF SplitStates
  <2> HIDE DEF at
  <2>3. h[at] = Step(h, at[1], at[2], at[3])
    BY <2>1, <2>2
  <2> QED BY <2>2, <2>3 DEF at
<1> QED BY <1>4, <1>7

\* Runs of units, the last one of each, and no other, a slice.
Groups(stream, offsets, k, at) ==
    /\ k \in Nat \ {0} /\ offsets \in Seq(Places) /\ at \in [1 .. k + 1 -> Nat \ {0}]
    /\ at[1] = 1 /\ at[k + 1] = Len(offsets) + 1
    /\ \A b \in 1 .. k :
          /\ at[b] < at[b + 1] /\ at[b + 1] <= Len(offsets) + 1
          /\ \A i \in at[b] .. at[b + 1] - 1 :
                Opens(stream, offsets, i) /\ (Vcl(stream, offsets, i) <=> i = at[b + 1] - 1)

\* From behind the first unit of a run, the loop goes on to the next run.
Skips(stream, offsets, at, f, b, start) ==
    f[<<at[b] + 1, start, Vcl(stream, offsets, at[b])>>] = f[<<at[b + 1], start, TRUE>>]

\* Within a run nothing is cut off.
LEMMA SplitRun ==
    ASSUME NEW stream, NEW offsets, NEW k, NEW at, Groups(stream, offsets, k, at),
           NEW f, Splits(stream, offsets, f), NEW b, b \in 1 .. k, NEW start, start \in Places
    PROVE  Skips(stream, offsets, at, f, b, start)
<1> DEFINE x == at[b]
           y == at[b + 1]
           n == Len(offsets)
           vcl(i) == Vcl(stream, offsets, i)
           Same(i) == f[<<i + 1, start, vcl(i)>>] = f[<<y, start, TRUE>>]
<1>1. x \in Nat \ {0} /\ y \in Nat \ {0} /\ x < y /\ y <= n + 1 /\ n \in Nat
  <2>1. b \in 1 .. k + 1 /\ b + 1 \in 1 .. k + 1
    <3>1. k \in Nat
      BY DEF Groups
    <3> QED BY ONLY <3>1, b \in 1 .. k
  <2>2. Len(offsets) \in Nat
    BY DEF Groups
  <2> QED BY <2>1, <2>2 DEF Groups
<1>2. \A i \in x .. y - 1 : vcl(i) <=> i = y - 1
  BY DEF Groups
<1>3. \A i : vcl(i) \in BOOLEAN
  BY DEF Vcl
<1>4. \A i \in x .. y - 1 : vcl(i) = (i = y - 1)
  BY <1>2, <1>3
<1> HIDE DEF x, y, n, vcl
<1> DEFINE Bad == {j \in Nat : j < y - x /\ ~Same(y - 1 - j)}
<1>5. Bad = {}
  <2> SUFFICES ASSUME Bad # {} PROVE FALSE
    OBVIOUS
  <2>1. PICK j \in Bad : \A m \in Bad : j <= m
    <3>1. Bad \in SUBSET Nat
      OBVIOUS
    <3> HIDE DEF Bad
    <3> QED BY <3>1, LeastNat
  <2> DEFINE i == y - 1 - j
  <2>2. j \in Nat /\ j < y - x /\ ~Same(i)
    BY <2>1
  <2>3. i \in x .. y - 1 /\ i + 1 \in Nat \ {0} /\ i \in Nat
    BY ONLY <1>1, <2>2
  <2> HIDE DEF Same
  <2>4. j # 0 => Same(i + 1) /\ i + 1 \in x .. y - 1
    <3> SUFFICES ASSUME j # 0 PROVE Same(i + 1) /\ i + 1 \in x .. y - 1
      OBVIOUS
    <3>1. j - 1 \in Nat /\ j - 1 < y - x /\ y - 1 - (j - 1) = i + 1 /\ j - 1 < j /\ i + 1 \in x .. y - 1
      BY ONLY <1>1, <2>2, j # 0
    <3>2. j - 1 \notin Bad
      <4> HIDE DEF Bad
      <4>1. j - 1 \in Bad => j <= j - 1
        BY <2>1
      <4> QED BY ONLY <2>2, <4>1
    <3>3. Same(y - 1 - (j - 1))
      <4> HIDE DEF i
      <4> QED BY <3>1, <3>2
    <3> HIDE DEF i
    <3> QED BY <3>1, <3>3
  <2>5. j = 0 => i = y - 1
    BY <1>1
  <2>6. j # 0 => i # y - 1 /\ i + 1 \in Nat \ {0} /\ ~(i + 1 > n)
    BY ONLY <1>1, <2>2
  <2> HIDE DEF i, Bad
  <2>7. CASE j = 0
    <3>1. i + 1 = y /\ vcl(i) = TRUE
      <4>1. i = y - 1 /\ i + 1 = y
        BY ONLY <1>1, <2>5, <2>7
      <4>2. vcl(i) = (i = y - 1)
        BY ONLY <1>4, <2>3
      <4> QED BY ONLY <4>1, <4>2, Zenon
    <3> QED BY <2>2, <3>1 DEF Same
  <2>8. CASE j # 0
    <3>1. vcl(i) = FALSE
      BY <1>4, <2>3, <2>6, <2>8
    <3>2. f[<<i + 1, start, FALSE>>] = f[<<(i + 1) + 1, start, FALSE \/ vcl(i + 1)>>]
      <4>1. i + 1 \in Places /\ FALSE \in BOOLEAN
        BY <2>3 DEF Places
      <4> QED BY <2>6, <2>8, <4>1 DEF Splits, vcl, n
    <3>3. (FALSE \/ vcl(i + 1)) = vcl(i + 1)
      BY <1>3
    <3>4. f[<<(i + 1) + 1, start, vcl(i + 1)>>] = f[<<y, start, TRUE>>]
      BY <2>4, <2>8 DEF Same
    <3>5. f[<<i + 1, start, vcl(i)>>] = f[<<y, start, TRUE>>]
      BY <3>1, <3>2, <3>3, <3>4
    <3> QED BY <2>2, <3>5 DEF Same
  <2> QED BY <2>7, <2>8
<1>6. (y - x) - 1 \in Nat /\ (y - x) - 1 < y - x /\ y - 1 - ((y - x) - 1) = x
  BY ONLY <1>1
<1>7. Same(y - 1 - ((y - x) - 1))
  <2>1. (y - x) - 1 \notin Bad
    BY <1>5
  <2> HIDE DEF Same
  <2> QED BY <1>6, <2>1
<1>8. Same(x)
  <2> HIDE DEF Same
  <2> QED BY <1>6, <1>7
<1> QED BY <1>8 DEF x, y, vcl, Skips

\* The slices that one access unit after the other begins in.
Pieces(stream, offsets, k, at) ==
    [b \in 1 .. k |-> SubSeq(stream, offsets[at[b]],
                             IF b = k THEN Len(stream) ELSE offsets[at[b + 1]] - 1)]

\* Each run is an access unit.
LEMMA SplitRuns ==
    ASSUME NEW stream, stream \in Seq(Nat), NEW offsets, NEW k, NEW at, Groups(stream, offsets, k, at),
           \A i \in 1 .. Len(offsets) : offsets[i] <= Len(stream),
           NEW f, Splits(stream, offsets, f)
    PROVE  f[<<1, offsets[1], FALSE>>] = Pieces(stream, offsets, k, at)
<1> DEFINE n == Len(offsets)
           e == Len(stream)
           T == Seq(Nat)
           u == Pieces(stream, offsets, k, at)
           v == [b \in 1 .. k |-> f[<<at[b + 1], offsets[at[b]], TRUE>>]]
<1>1. /\ k \in Nat \ {0} /\ at \in [1 .. k + 1 -> Nat \ {0}] /\ n \in Nat /\ e \in Nat
      /\ at[1] = 1 /\ at[k + 1] = n + 1
      /\ \A b \in 1 .. k : at[b] < at[b + 1] /\ at[b + 1] <= n + 1
      /\ \A i \in 1 .. n : offsets[i] \in Places
  <2>1. e \in Nat
    OBVIOUS
  <2>2. offsets \in Seq(Places)
    BY DEF Groups
  <2>3. n \in Nat /\ \A i \in 1 .. n : offsets[i] \in Places
    BY ONLY <2>2
  <2> QED BY <2>1, <2>3 DEF Groups
<1>2. \A b \in 1 .. k, start \in Places : Skips(stream, offsets, at, f, b, start)
  BY SplitRun
<1> HIDE DEF n, e
<1>3. ASSUME NEW b \in 1 .. k
      PROVE  /\ b + 1 \in 1 .. k + 1 /\ at[b] \in 1 .. n /\ offsets[at[b]] \in Places
             /\ at[b + 1] \in Places /\ (b # k => b + 1 \in 1 .. k /\ at[b + 1] \in 1 .. n)
  <2>1. b + 1 \in 1 .. k + 1 /\ b \in 1 .. k + 1 /\ (b # k => b + 1 \in 1 .. k)
    BY ONLY <1>1, b \in 1 .. k
  <2> DEFINE x == at[b]
             y == at[b + 1]
             z == at[(b + 1) + 1]
  <2>2. x \in Nat \ {0} /\ y \in Nat \ {0} /\ x < y /\ y <= n + 1
    BY <1>1, <2>1
  <2>3. b # k => y < z /\ z <= n + 1 /\ z \in Nat
    <3> SUFFICES ASSUME b # k PROVE y < z /\ z <= n + 1 /\ z \in Nat
      OBVIOUS
    <3>1. (b + 1) + 1 \in 1 .. k + 1
      BY ONLY <1>1, <2>1, b # k
    <3> QED BY <1>1, <2>1, <3>1
  <2> HIDE DEF x, y, z
  <2>4. x \in 1 .. n /\ (b # k => y \in 1 .. n)
    BY ONLY <1>1, <2>2, <2>3
  <2> QED BY <1>1, <2>1, <2>2, <2>4 DEF x, y, Places
<1>4. ASSUME NEW b \in 1 .. k
      PROVE  v[b] = IF b = k THEN <<u[b]>> ELSE Cat(<<u[b]>>, v[b + 1])
  <2> DEFINE s == offsets[at[b]]
             y == at[b + 1]
  <2>1. s \in Places /\ y \in Places /\ TRUE \in BOOLEAN /\ v[b] = f[<<y, s, TRUE>>]
    BY <1>3
  <2>2. CASE b = k
    <3>1. y > Len(offsets)
      BY <1>1, <2>2 DEF n
    <3>2. u[b] = SubSeq(stream, s, Len(stream))
      BY <2>2 DEF Pieces
    <3> HIDE DEF s, y, u, v
    <3>3. f[<<y, s, TRUE>>] = <<SubSeq(stream, s, Len(stream))>>
      BY <2>1, <3>1 DEF Splits
    <3> QED BY <2>1, <2>2, <3>2, <3>3
  <2>3. CASE b # k
    <3> DEFINE t == offsets[y]
    <3>1. y \in 1 .. n /\ b + 1 \in 1 .. k /\ t \in Places
      BY <1>1, <1>3, <2>3
    <3>2. ~(y > Len(offsets))
      BY <1>1, <3>1 DEF n
    <3>3. u[b] = SubSeq(stream, s, t - 1)
      BY <2>3 DEF Pieces
    <3>4. Opens(stream, offsets, y)
      <4> DEFINE z == at[(b + 1) + 1]
      <4>1. z \in Nat /\ y \in Nat /\ y < z
        <5>1. (b + 1) + 1 \in 1 .. k + 1 /\ b + 1 \in 1 .. k + 1
          BY ONLY <1>1, <3>1
        <5> QED BY <1>1, <3>1, <5>1
      <4> HIDE DEF z
      <4>2. y \in y .. z - 1
        BY ONLY <4>1
      <4> QED BY <3>1, <4>2 DEF Groups, z
    <3>5. v[b + 1] = f[<<at[(b + 1) + 1], t, TRUE>>]
      BY <3>1
    <3>6. f[<<y + 1, t, Vcl(stream, offsets, y)>>] = f[<<at[(b + 1) + 1], t, TRUE>>]
      <4> HIDE DEF t
      <4> QED BY <1>2, <3>1 DEF Skips
    <3> HIDE DEF s, u, v, t, y
    <3>7. f[<<y, s, TRUE>>] = Cat(<<SubSeq(stream, s, offsets[y] - 1)>>,
                                  f[<<y + 1, offsets[y], Vcl(stream, offsets, y)>>])
      BY <2>1, <3>2, <3>4 DEF Splits
    <3> QED BY <2>1, <2>3, <3>3, <3>5, <3>6, <3>7 DEF t
  <2> QED BY <2>2, <2>3
<1>5. v[1] = f[<<1, offsets[1], FALSE>>]
  <2>1. 1 \in 1 .. k /\ 1 \in Places /\ FALSE \in BOOLEAN
    BY <1>1 DEF Places
  <2>2. at[1] = 1 /\ 1 \in 1 .. n /\ offsets[1] \in Places
    BY <1>1, <1>3, <2>1
  <2>3. f[<<at[1] + 1, offsets[1], Vcl(stream, offsets, at[1])>>] = f[<<at[1 + 1], offsets[1], TRUE>>]
    BY <1>2, <2>1, <2>2 DEF Skips
  <2>4. f[<<1, offsets[1], FALSE>>] = f[<<1 + 1, offsets[1], FALSE \/ Vcl(stream, offsets, 1)>>]
    <3>1. ~(1 > Len(offsets))
      BY <1>1, <2>2 DEF n
    <3> QED BY <2>1, <2>2, <3>1 DEF Splits
  <2>5. (FALSE \/ Vcl(stream, offsets, 1)) = Vcl(stream, offsets, 1)
    BY DEF Vcl
  <2>6. v[1] = f[<<at[1 + 1], offsets[1], TRUE>>]
    BY <2>1, <2>2
  <2> HIDE DEF v
  <2> QED BY <2>2, <2>3, <2>4, <2>5, <2>6
<1>6. u \in Seq(T) /\ Len(u) = k
  <2>1. ASSUME NEW b \in 1 .. k PROVE u[b] \in T
    <3> DEFINE first == offsets[at[b]]
               last == IF b = k THEN Len(stream) ELSE offsets[at[b + 1]] - 1
    <3>1. first \in Places /\ last \in Int /\ last <= Len(stream)
      <4>1. b # k => offsets[at[b + 1]] \in Nat /\ offsets[at[b + 1]] <= Len(stream)
        BY <1>1, <1>3 DEF Places, n
      <4>2. Len(stream) \in Nat
        OBVIOUS
      <4> QED BY <1>3, <4>1, <4>2
    <3>2. u[b] = SubSeq(stream, first, last)
      BY DEF Pieces
    <3> HIDE DEF first, last
    <3>3. <<SubSeq(stream, first, last)>> \in Seq(Seq(Nat))
      BY <3>1, SliceTyped
    <3> DEFINE s == SubSeq(stream, first, last)
    <3>4. <<s>> \in Seq(T)
      BY <3>3
    <3> HIDE DEF s, T
    <3>5. s \in T
      BY <3>4
    <3> QED BY <3>2, <3>5 DEF s
  <2>2. u = [b \in 1 .. k |-> u[b]]
    BY DEF Pieces
  <2> HIDE DEF u, T
  <2>3. u \in [1 .. k -> T]
    BY <2>1, <2>2
  <2> QED BY <1>1, <2>3
<1>7. Chain(v, u, k)
  <2> HIDE DEF u, v
  <2> QED BY <1>4 DEF Chain
<1> HIDE DEF u, v, T
<1>8. v[1] = u
  BY <1>1, <1>6, <1>7, ChainCollects
<1> QED BY <1>5, <1>8 DEF u

-----------------------------------------------------------------------------
(***************************************************************************)
(* The stream of many pictures splits where the pictures end.              *)
(***************************************************************************)

\* The units of one picture: its slice comes last.
AccessUnit(units) ==
    /\ Streamable(units)
    /\ \A i \in 1 .. Len(units) :
          /\ NalUnitType(units[i]) \in {IDR_SLICE, NON_IDR_SLICE, SPS, PPS, SEI, AUD}
          /\ NalUnitType(units[i]) \in {IDR_SLICE, NON_IDR_SLICE} <=> i = Len(units)

\* A picture, with its parameter sets, has one slice, the last of its units: what
\* split_access_units takes for one access unit.
LEMMA DescribedAccessUnit ==
    ASSUME env \in Environments, NEW nals \in Pictures
    PROVE  AccessUnit(Described(nals))
<1> DEFINE T == Seq(Nat)
           p == Params
           c == Cat(p, nals)
           d == Described(nals)
           slices == {IDR_SLICE, NON_IDR_SLICE}
           others == {SPS, PPS, SEI, AUD}
           type(u) == NalUnitType(u)
<1>1. /\ p \in Seq(T) /\ Len(p) = 2 /\ type(p[1]) = SPS /\ type(p[2]) = PPS
  BY ParamsLed DEF Led
<1>2. /\ nals \in Seq(T) /\ Len(nals) \in Nat \ {0}
      /\ \A i \in 1 .. Len(nals) : type(nals[i]) \in IF i = Len(nals) THEN slices ELSE others
  <2>1. nals \in Seq(T) /\ nals # <<>> /\ Picture(nals)
    BY PicturesAre DEF Picture, Streamable
  <2>2. \A i \in DOMAIN nals : NalUnitType(nals[i]) \in
                    IF i = Len(nals) THEN {IDR_SLICE, NON_IDR_SLICE} ELSE {SEI, AUD}
    BY PicturesAssumption
  <2> HIDE DEF T
  <2>3. DOMAIN nals = 1 .. Len(nals) /\ Len(nals) \in Nat \ {0}
    BY <2>1
  <2> QED BY <2>1, <2>2, <2>3
<1>3. Streamable(d)
  BY PicturesAre, DescribedUnits
<1>4. slices \cap others = {}
  BY DEF IDR_SLICE, NON_IDR_SLICE, SPS, PPS, SEI, AUD
<1>5. SPS \in others /\ PPS \in others
  OBVIOUS
<1> HIDE DEF p, T, slices, others, type
<1>6. /\ Len(c) = 2 + Len(nals)
      /\ \A i \in 1 .. 2 : c[i] = p[i]
      /\ \A j \in 1 .. Len(nals) : c[2 + j] = nals[j]
  <2>1. c = p \o nals
    BY DEF Cat
  <2> HIDE DEF c
  <2>2. /\ Len(c) = Len(p) + Len(nals)
        /\ \A i \in 1 .. Len(p) : c[i] = p[i]
        /\ \A j \in 1 .. Len(nals) : c[Len(p) + j] = nals[j]
    <3>1. p \in Seq(T) /\ nals \in Seq(T)
      BY <1>1, <1>2
    <3> QED BY ONLY <2>1, <3>1, CatAt
  <2> QED BY <1>1, <2>2
<1> HIDE DEF c
<1>7. \A i \in 1 .. Len(c) : type(c[i]) \in IF i = Len(c) THEN slices ELSE others
  <2> TAKE i \in 1 .. Len(c)
  <2>1. CASE i \in 1 .. 2
    <3>1. i # Len(c) /\ (i = 1 \/ i = 2)
      BY <1>2, <1>6, <2>1
    <3>2. type(c[i]) \in others
      BY <1>1, <1>5, <1>6, <2>1, <3>1
    <3> QED BY <3>1, <3>2
  <2>2. CASE i \notin 1 .. 2
    <3> DEFINE j == i - 2
    <3>1. j \in 1 .. Len(nals) /\ 2 + j = i /\ (i = Len(c) <=> j = Len(nals))
      BY <1>2, <1>6, <2>2
    <3> HIDE DEF j
    <3>2. c[i] = nals[j]
      BY <1>6, <3>1
    <3> QED BY <1>2, <3>1, <3>2
  <2> QED BY <2>1, <2>2
<1>8. \A i \in 1 .. Len(d) : type(d[i]) \in IF i = Len(d) THEN slices ELSE others
  <2>1. CASE Idr(nals)
    <3>1. d = c
      BY <2>1 DEF Described, Cat, c, p
    <3> HIDE DEF d
    <3> QED BY <1>7, <3>1
  <2>2. CASE ~Idr(nals)
    <3>1. <<>> \o nals = nals
      BY <1>2
    <3>2. d = nals
      BY <2>2, <3>1 DEF Described
    <3> HIDE DEF d
    <3> QED BY <1>2, <3>2
  <2> QED BY <2>1, <2>2
<1> HIDE DEF d
<1>9. \A i \in 1 .. Len(d) : /\ type(d[i]) \in slices \cup others
                             /\ type(d[i]) \in slices <=> i = Len(d)
  BY <1>4, <1>8
<1>10. slices \cup others = {IDR_SLICE, NON_IDR_SLICE, SPS, PPS, SEI, AUD}
  BY DEF slices, others
<1>11. \A i \in 1 .. Len(d) :
        /\ NalUnitType(d[i]) \in {IDR_SLICE, NON_IDR_SLICE, SPS, PPS, SEI, AUD}
        /\ NalUnitType(d[i]) \in {IDR_SLICE, NON_IDR_SLICE} <=> i = Len(d)
  BY <1>9, <1>10 DEF type, slices
<1> QED BY <1>3, <1>11 DEF AccessUnit, d

\* A stream of streams is the stream of all their units.
LEMMA AnnexBFlattens ==
    ASSUME NEW k, k \in Nat \ {0}, NEW groups, groups \in [1 .. k -> Seq(Seq(Nat))]
    PROVE  /\ FlattenSeq([b \in 1 .. k |-> AnnexB(groups[b])]) = AnnexB(FlattenSeq(groups))
           /\ FlattenSeq(groups) \in Seq(Seq(Nat))
<1> DEFINE T == Seq(Seq(Nat))
           U == Seq(Nat)
           codes == [b \in 1 .. k |-> AnnexB(groups[b])]
<1>1. Monoid(T) /\ Monoid(U)
  BY SeqMonoid
<1>2. \A b \in 1 .. k : groups[b] \in T
  OBVIOUS
<1>3. \A x, y \in T : AnnexB(Cat(x, y)) = Cat(AnnexB(x), AnnexB(y)) /\ AnnexB(x) \in U
  BY AnnexBJoins
<1>4. groups \in [1 .. k -> T]
  OBVIOUS
<1> HIDE DEF T, U
<1>5. codes \in [1 .. k -> U]
  BY <1>2, <1>3
<1>6. PICK f \in [1 .. k -> T] : Flattens(f, groups, k)
  BY <1>1, <1>4, FlattensExists
<1>7. FlattenSeq(groups) = f[k] /\ f[k] \in T
  <2>1. Monoid(T) /\ k \in Nat \ {0} /\ groups \in [1 .. k -> T] /\ Flattens(f, groups, k)
    BY <1>1, <1>4, <1>6
  <2>2. FlattenSeq(groups) = f[k]
    BY ONLY <2>1, FlattenIs
  <2>3. k \in 1 .. k
    OBVIOUS
  <2> QED BY <1>6, <2>2, <2>3
<1> DEFINE h == [b \in 1 .. k |-> AnnexB(f[b])]
<1>8. Flattens(h, codes, k)
  <2> SUFFICES ASSUME NEW i \in 1 .. k
               PROVE  h[i] = IF i = 1 THEN codes[i] ELSE Cat(h[i - 1], codes[i])
    BY DEF Flattens, Cat
  <2>1. f[i] = IF i = 1 THEN groups[i] ELSE Cat(f[i - 1], groups[i])
    BY <1>6 DEF Flattens, Cat
  <2>2. h[i] = AnnexB(f[i]) /\ codes[i] = AnnexB(groups[i])
    OBVIOUS
  <2>3. CASE i = 1
    <3> HIDE DEF h, codes
    <3> QED BY <2>1, <2>2, <2>3
  <2>4. CASE i # 1
    <3>1. i - 1 \in 1 .. k
      BY <2>4
    <3>2. h[i - 1] = AnnexB(f[i - 1]) /\ f[i - 1] \in T /\ groups[i] \in T
      BY <1>2, <3>1
    <3> HIDE DEF h, codes
    <3>3. AnnexB(Cat(f[i - 1], groups[i])) = Cat(AnnexB(f[i - 1]), AnnexB(groups[i]))
      BY <1>3, <3>2
    <3> QED BY <2>1, <2>2, <2>4, <3>2, <3>3
  <2> QED BY <2>3, <2>4
<1>9. h[k] = AnnexB(f[k])
  <2>1. k \in 1 .. k
    OBVIOUS
  <2> QED BY <2>1
<1> HIDE DEF codes, h
<1>10. FlattenSeq(codes) = h[k]
  BY <1>1, <1>5, <1>8, FlattenIs
<1> QED BY <1>7, <1>9, <1>10 DEF codes, T

\* A unit behind a code, as split_access_units and is_keyframe see it.
SeenAs(stream, p, u) ==
    /\ NalUnitType(SubSeq(stream, p + 3, Len(stream))) = NalUnitType(u)
    /\ TypeAt(stream, p) = NalUnitType(u)
    /\ NalUnitType(u) # 0 => stream[p + 3] # 0

\* What split_access_units sees behind each code.
LEMMA StreamedType ==
    ASSUME NEW stream, NEW units, NEW n, NEW pos, Streamed(stream, units, n, pos), NEW j \in 1 .. n
    PROVE  SeenAs(stream, pos[j] + 1, units[j])
<1> DEFINE q == pos[j]
           u == units[j]
           l == Len(u)
           d == (q + 1) + 3
           e == Len(stream)
<1>1. /\ q \in Nat \ {0} /\ l \in Nat \ {0} /\ u \in Seq(Nat)
      /\ q + 3 + l \in 1 .. e /\ e \in Nat
      /\ \A i \in 1 .. l : stream[q + 3 + i] = u[i]
  <2>1. UnitAt(stream, q, pos[j + 1], u, l)
    BY StreamedAt
  <2> HIDE DEF q, u, l
  <2> QED BY <2>1 DEF UnitAt, e
<1>2. stream \in Seq(Nat)
  BY DEF Streamed, Framed
<1>3. u # <<>>
  <2>1. l # 0
    BY <1>1
  <2> QED BY <2>1
<1> HIDE DEF q, u, l, e
<1>4. d \in Nat \ {0} /\ e \in d .. e /\ d = q + 3 + 1 /\ 1 \in 1 .. l
  BY ONLY <1>1
<1>5. stream[d] = u[1] /\ u[1] \in Nat
  <2>1. u[1] \in Nat
    BY <1>1, <1>4 DEF l
  <2> QED BY <1>1, <1>4, <2>1
<1>6. NalUnitType(u) = stream[d] % 32
  BY <1>3, <1>5 DEF NalUnitType
<1> HIDE DEF d
<1>7. NalUnitType(SubSeq(stream, d, Len(stream))) = stream[d] % 32
  BY <1>2, <1>4, UnitType DEF Places, e
<1>8. NalUnitType(u) # 0 => stream[d] # 0
  BY <1>6
<1> QED BY <1>6, <1>7, <1>8 DEF SeenAs, TypeAt, d, q, u

\* The access units of a stream, where the first unit of each is among all the
\* units, and where the code of each unit is in the stream.
Stacked(stream, groups, k, at, units, n, pos) ==
    /\ k \in Nat \ {0} /\ n \in Nat \ {0} /\ at \in [1 .. k + 1 -> Nat \ {0}]
    /\ at[1] = 1 /\ at[k + 1] = n + 1
    /\ \A b \in 1 .. k :
          /\ AccessUnit(groups[b]) /\ Len(groups[b]) \in Nat \ {0}
          /\ at[b + 1] = at[b] + Len(groups[b]) /\ at[b + 1] <= n + 1
          /\ \A i \in 1 .. Len(groups[b]) : units[at[b] + i - 1] = groups[b][i]
    /\ Streamed(stream, units, n, pos)
    /\ \A j \in 1 .. n : \E b \in 1 .. k : j \in at[b] .. at[b + 1] - 1

\* A stream of access units has all their units, each at its place.
LEMMA StreamsStack ==
    ASSUME NEW k, k \in Nat \ {0}, NEW groups, groups \in [1 .. k -> Seq(Seq(Nat))],
           \A b \in 1 .. k : AccessUnit(groups[b])
    PROVE  \E at, units, n, pos :
              Stacked(FlattenSeq([b \in 1 .. k |-> AnnexB(groups[b])]), groups, k, at, units, n, pos)
<1> DEFINE U == Seq(Nat)
           units == FlattenSeq(groups)
           n == Len(units)
<1>1. /\ FlattenSeq([b \in 1 .. k |-> AnnexB(groups[b])]) = AnnexB(units)
      /\ units \in Seq(U)
  BY AnnexBFlattens
<1>2. PICK at : Layout(U, units, groups, k, at)
  <2>1. groups \in [1 .. k -> Seq(U)]
    OBVIOUS
  <2> HIDE DEF U
  <2> QED BY <2>1, FlattenLayout
<1>3. ASSUME NEW b \in 1 .. k
      PROVE  /\ Len(groups[b]) \in Nat \ {0} /\ groups[b] \in Seq(U)
             /\ \A i \in 1 .. Len(groups[b]) : IsUnit(groups[b][i])
  <2>1. groups[b] \in Seq(U) /\ groups[b] # <<>> /\ \A i \in DOMAIN groups[b] : IsUnit(groups[b][i])
    BY DEF AccessUnit, Streamable
  <2> DEFINE g == groups[b]
  <2> HIDE DEF g, U
  <2>2. g \in Seq(U) /\ g # <<>> /\ \A i \in DOMAIN g : IsUnit(g[i])
    BY <2>1 DEF g
  <2>3. Len(g) \in Nat \ {0} /\ DOMAIN g = 1 .. Len(g)
    BY <2>2
  <2> QED BY <2>2, <2>3 DEF g
<1>4. /\ at \in [1 .. k + 1 -> Nat \ {0}] /\ at[1] = 1 /\ at[k + 1] = n + 1
      /\ \A b \in 1 .. k :
            /\ at[b + 1] = at[b] + Len(groups[b])
            /\ \A i \in 1 .. Len(groups[b]) : units[at[b] + i - 1] = groups[b][i]
  BY <1>2 DEF Layout
<1> HIDE DEF U, units
<1>5. /\ \A a \in 1 .. k + 1 : \A b \in a .. k + 1 : at[a] <= at[b]
      /\ \A j \in 1 .. n : \E b \in 1 .. k : j \in at[b] .. at[b + 1] - 1
  BY <1>2, LayoutOrder
<1>6. n \in Nat
  BY <1>1
<1> HIDE DEF n
<1>7. \A b \in 1 .. k : at[b + 1] <= n + 1 /\ at[b] \in Nat \ {0} /\ at[b + 1] \in Nat \ {0}
  <2> TAKE b \in 1 .. k
  <2>1. b \in 1 .. k + 1 /\ b + 1 \in 1 .. k + 1 /\ k + 1 \in b + 1 .. k + 1
    BY ONLY k \in Nat \ {0}, b \in 1 .. k
  <2> QED BY <1>4, <1>5, <2>1
<1>8. n # 0
  <2>1. 1 \in 1 .. k
    OBVIOUS
  <2>2. at[1 + 1] = at[1] + Len(groups[1]) /\ Len(groups[1]) \in Nat \ {0} /\ at[1 + 1] <= n + 1
    BY <1>3, <1>4, <1>7, <2>1
  <2> QED BY ONLY <1>4, <1>6, <2>2
<1>9. ASSUME NEW j \in 1 .. n PROVE IsUnit(units[j])
  <2>1. PICK b \in 1 .. k : j \in at[b] .. at[b + 1] - 1
    BY <1>5
  <2> DEFINE l == Len(groups[b])
             x == at[b]
             i == j - x + 1
  <2>2. l \in Nat \ {0} /\ x \in Nat \ {0} /\ j \in x .. (x + l) - 1
    BY <1>3, <1>4, <1>7, <2>1
  <2> HIDE DEF l, x
  <2>3. i \in 1 .. l /\ x + i - 1 = j
    BY ONLY <2>2
  <2> HIDE DEF i
  <2>4. units[x + i - 1] = groups[b][i] /\ IsUnit(groups[b][i])
    BY <1>3, <1>4, <2>3 DEF l, x
  <2> QED BY <2>3, <2>4
<1>10. PICK pos : Streamed(AnnexB(units), units, n, pos)
  <2>1. units \in Seq(Seq(Nat)) /\ units # <<>> /\ \A i \in DOMAIN units : IsUnit(units[i])
    <3>1. DOMAIN units = 1 .. n /\ units # <<>>
      BY <1>1, <1>8 DEF n
    <3> QED BY <1>1, <1>9, <3>1 DEF U
  <2> QED BY <2>1, AnnexBUnits DEF n
<1>11. Stacked(AnnexB(units), groups, k, at, units, n, pos)
  BY <1>3, <1>4, <1>5, <1>6, <1>7, <1>8, <1>10 DEF Stacked
<1> QED BY <1>1, <1>11

\* The positions of the codes of the units, and where the piece of an access unit ends.
CodesAt(n, pos) == [j \in 1 .. n |-> pos[j] + 1]
PieceEnd(stream, k, at, pos, b) == IF b = k THEN Len(stream) ELSE pos[at[b + 1]]

\* The codes of the stream fall into the runs split_access_units cuts it into.
LEMMA StackedGroups ==
    ASSUME NEW stream, NEW groups, NEW k, NEW at, NEW units, NEW n, NEW pos,
           Stacked(stream, groups, k, at, units, n, pos)
    PROVE  /\ Groups(stream, CodesAt(n, pos), k, at) /\ Len(CodesAt(n, pos)) = n
           /\ \A j \in 1 .. n : CodesAt(n, pos)[j] <= Len(stream)
<1> DEFINE offsets == CodesAt(n, pos)
           slices == {IDR_SLICE, NON_IDR_SLICE}
<1>1. /\ k \in Nat \ {0} /\ n \in Nat \ {0} /\ at \in [1 .. k + 1 -> Nat \ {0}]
      /\ at[1] = 1 /\ at[k + 1] = n + 1
      /\ Streamed(stream, units, n, pos)
  BY DEF Stacked
<1>2. ASSUME NEW j \in 1 .. n
      PROVE  pos[j] + 1 \in Places /\ pos[j] + 1 <= Len(stream)
  <2> DEFINE q == pos[j]
             l == Len(units[j])
             e == Len(stream)
  <2>1. q \in Nat \ {0} /\ l \in Nat \ {0} /\ q + 3 + l \in 1 .. e /\ e \in Nat
    <3>1. UnitAt(stream, q, pos[j + 1], units[j], l)
      BY <1>1, StreamedAt
    <3> HIDE DEF q, l
    <3> QED BY <3>1 DEF UnitAt
  <2> HIDE DEF q, l, e
  <2>2. q + 1 \in Nat \ {0} /\ q + 1 <= e
    BY ONLY <2>1
  <2> QED BY <2>2 DEF Places, q, e
<1>3. offsets \in Seq(Places) /\ Len(offsets) = n /\ \A j \in 1 .. n : offsets[j] = pos[j] + 1
  BY <1>1, <1>2 DEF CodesAt
<1> HIDE DEF offsets
<1>4. \A j \in 1 .. n : CodeType(stream, offsets, j) = NalUnitType(units[j])
  <2> TAKE j \in 1 .. n
  <2>1. NalUnitType(SubSeq(stream, (pos[j] + 1) + 3, Len(stream))) = NalUnitType(units[j])
    BY <1>1, StreamedType DEF SeenAs
  <2> QED BY <1>3, <2>1 DEF CodeType
<1>5. ASSUME NEW b \in 1 .. k
      PROVE  /\ at[b] < at[b + 1] /\ at[b + 1] <= n + 1
             /\ \A i \in at[b] .. at[b + 1] - 1 :
                   Opens(stream, offsets, i) /\ (Vcl(stream, offsets, i) <=> i = at[b + 1] - 1)
  <2> DEFINE g == groups[b]
             l == Len(g)
             x == at[b]
             y == at[b + 1]
  <2>1. /\ AccessUnit(g) /\ l \in Nat \ {0} /\ y = x + l /\ y <= n + 1
        /\ \A i \in 1 .. l : units[x + i - 1] = g[i]
    BY DEF Stacked
  <2>2. \A i \in 1 .. l : /\ NalUnitType(g[i]) \in {IDR_SLICE, NON_IDR_SLICE, SPS, PPS, SEI, AUD}
                          /\ NalUnitType(g[i]) \in slices <=> i = l
    BY <2>1 DEF AccessUnit
  <2>3. x \in Nat \ {0}
    <3>1. b \in 1 .. k + 1
      BY ONLY <1>1, b \in 1 .. k
    <3> QED BY <1>1, <3>1
  <2> HIDE DEF x, y, l, g
  <2>4. x < y
    BY ONLY <2>1, <2>3
  <2>5. ASSUME NEW i \in x .. y - 1
        PROVE  Opens(stream, offsets, i) /\ (Vcl(stream, offsets, i) <=> i = y - 1)
    <3> DEFINE m == i - x + 1
    <3>1. m \in 1 .. l /\ x + m - 1 = i /\ i \in 1 .. n /\ (m = l <=> i = y - 1)
      BY ONLY <1>1, <2>1, <2>3, i \in x .. y - 1
    <3> HIDE DEF m
    <3>2. CodeType(stream, offsets, i) = NalUnitType(g[m])
      BY <1>4, <2>1, <3>1
    <3> QED BY <2>2, <3>1, <3>2 DEF Vcl, Opens
  <2> QED BY <2>1, <2>4, <2>5 DEF x, y
<1>6. Groups(stream, offsets, k, at)
  BY <1>1, <1>3, <1>5 DEF Groups
<1>7. \A j \in 1 .. n : offsets[j] <= Len(stream)
  BY <1>2, <1>3
<1> QED BY <1>3, <1>6, <1>7 DEF offsets

\* The piece of the stream has the types of its access unit.
PieceTyped(stream, groups, k, at, pos, b) ==
    \A type : type \in TypesIn(SubSeq(stream, pos[at[b]] + 1, PieceEnd(stream, k, at, pos, b)))
                  <=> \E i \in 1 .. Len(groups[b]) : NalUnitType(groups[b][i]) = type

\* The piece of an access unit has its types.
LEMMA PieceTypes ==
    ASSUME NEW stream, NEW groups, NEW k, NEW at, NEW units, NEW n, NEW pos,
           Stacked(stream, groups, k, at, units, n, pos), NEW b, b \in 1 .. k
    PROVE  PieceTyped(stream, groups, k, at, pos, b)
<1> DEFINE g == groups[b]
           l == Len(g)
           x == at[b]
           y == at[b + 1]
           a == pos[x] + 1
           c == PieceEnd(stream, k, at, pos, b)
           e == Len(stream)
<1>1. /\ k \in Nat \ {0} /\ n \in Nat \ {0} /\ at \in [1 .. k + 1 -> Nat \ {0}]
      /\ at[k + 1] = n + 1 /\ Streamed(stream, units, n, pos)
      /\ AccessUnit(g) /\ l \in Nat \ {0} /\ y = x + l /\ y <= n + 1
      /\ \A i \in 1 .. l : units[x + i - 1] = g[i]
  BY DEF Stacked
<1>2. /\ stream \in Seq(Nat) /\ pos \in [1 .. n + 1 -> Nat \ {0}] /\ pos[n + 1] = e + 1
      /\ \A i \in 1 .. n + 1 : \A m \in i .. n + 1 : pos[i] <= pos[m]
  BY <1>1 DEF Streamed, Framed
<1>3. e \in Nat /\ x \in Nat \ {0}
  <2>1. b \in 1 .. k + 1
    BY ONLY <1>1, b \in 1 .. k
  <2> QED BY <1>1, <1>2, <2>1
<1>4. (b = k => y = n + 1) /\ (b # k => y <= n /\ c = pos[y])
  <2>1. ASSUME b # k PROVE y <= n
    <3>1. b + 1 \in 1 .. k /\ (b + 1) + 1 \in 1 .. k + 1
      BY ONLY <1>1, b \in 1 .. k, b # k
    <3> DEFINE m == Len(groups[b + 1])
    <3>2. m \in Nat \ {0} /\ at[(b + 1) + 1] = at[b + 1] + m /\ at[(b + 1) + 1] <= n + 1
      BY <3>1 DEF Stacked
    <3>3. y \in Nat
      BY ONLY <1>1, <1>3
    <3> HIDE DEF m
    <3> QED BY ONLY <1>1, <3>2, <3>3
  <2> QED BY <1>1, <2>1 DEF PieceEnd
<1>5. b = k => c = e
  BY DEF PieceEnd
<1>6. ASSUME NEW j \in 1 .. n
      PROVE  /\ pos[j] \in Nat \ {0} /\ Len(units[j]) \in Nat \ {0}
             /\ pos[j + 1] = pos[j] + 4 + Len(units[j]) /\ j + 1 \in 1 .. n + 1
             /\ TypeAt(stream, pos[j] + 1) = NalUnitType(units[j])
             /\ NalUnitType(units[j]) # 0 => stream[(pos[j] + 1) + 3] # 0
  <2>1. pos[j] \in Nat \ {0} /\ Len(units[j]) \in Nat \ {0} /\ pos[j + 1] = pos[j] + 4 + Len(units[j])
    <3>1. Streamed(stream, units, n, pos) /\ j \in 1 .. n
      BY <1>1
    <3> QED BY ONLY <3>1, StreamedSpan
  <2>2. j + 1 \in 1 .. n + 1
    BY ONLY <1>1, j \in 1 .. n
  <2>3. /\ TypeAt(stream, pos[j] + 1) = NalUnitType(units[j])
        /\ NalUnitType(units[j]) # 0 => stream[(pos[j] + 1) + 3] # 0
    <3>1. SeenAs(stream, pos[j] + 1, units[j])
      BY <1>1, StreamedType
    <3> QED BY ONLY <3>1 DEF SeenAs
  <2> QED BY ONLY <2>1, <2>2, <2>3
<1> HIDE DEF x, y, l, g, e, a, c
<1>7. y \in 1 .. n + 1 /\ x \in 1 .. n /\ x < y
  BY ONLY <1>1, <1>3
<1>8. pos[y] \in Nat /\ pos[y] - 1 <= c /\ c \in Nat /\ c <= e
  <2>1. CASE b = k
    BY <1>2, <1>3, <1>4, <1>5, <2>1
  <2>2. CASE b # k
    <3>1. y \in 1 .. n
      BY ONLY <1>4, <1>7, <2>2
    <3>2. pos[y] \in Nat \ {0} /\ pos[y + 1] = pos[y] + 4 + Len(units[y]) /\ Len(units[y]) \in Nat
          /\ y + 1 \in 1 .. n + 1
      BY <1>6, <3>1
    <3>3. pos[y + 1] <= pos[n + 1]
      <4>1. n + 1 \in y + 1 .. n + 1
        BY ONLY <1>1, <3>1
      <4> QED BY <1>2, <3>2, <4>1
    <3> DEFINE w == Len(units[y])
    <3> HIDE DEF w
    <3>4. w \in Nat /\ pos[y + 1] = pos[y] + 4 + w
      BY <3>2 DEF w
    <3> QED BY ONLY <1>2, <1>3, <1>4, <2>2, <3>2, <3>3, <3>4
  <2> QED BY <2>1, <2>2
<1>9. ASSUME NEW j \in 1 .. n
      PROVE  /\ j \in x .. y - 1 => a <= pos[j] + 1 /\ (pos[j] + 1) + 3 <= c
             /\ j \notin x .. y - 1 => ~(a <= pos[j] + 1 /\ (pos[j] + 1) + 2 <= c)
  <2> DEFINE p == pos[j]
             w == Len(units[j])
  <2>1. p \in Nat \ {0} /\ w \in Nat \ {0} /\ pos[j + 1] = p + 4 + w /\ j + 1 \in 1 .. n + 1
    BY <1>6
  <2>2. pos[x] \in Nat \ {0} /\ a = pos[x] + 1
    BY <1>6, <1>7 DEF a
  <2>3. j < x <=> p + 4 < pos[x] + 4
    BY <1>1, <1>7, StreamedOrder
  <2> HIDE DEF p, w
  <2>4. ASSUME j < x
        PROVE  j \notin x .. y - 1 /\ ~(a <= p + 1 /\ (p + 1) + 2 <= c)
    BY ONLY <2>1, <2>2, <2>3, <2>4, <1>3, <1>7
  <2>5. ASSUME j \in x .. y - 1
        PROVE  a <= p + 1 /\ (p + 1) + 3 <= c
    <3>1. y \in j + 1 .. n + 1
      BY ONLY <1>1, <1>3, <1>7, <2>5
    <3>2. pos[j + 1] <= pos[y]
      BY <1>2, <2>1, <3>1
    <3>3. ~(j < x)
      BY ONLY <1>1, <1>3, <2>5
    <3> QED BY ONLY <1>8, <2>1, <2>2, <2>3, <2>5, <3>2, <3>3
  <2>6. ASSUME ~(j < x), j \notin x .. y - 1
        PROVE  ~(a <= p + 1 /\ (p + 1) + 2 <= c)
    <3>1. j >= y /\ y \in Nat
      BY ONLY <1>1, <1>3, <1>7, <2>6, j \in 1 .. n
    <3>2. b # k /\ y \in 1 .. n
      BY ONLY <1>1, <1>4, <1>7, <3>1, j \in 1 .. n
    <3>3. p >= pos[y]
      <4>1. j \in y .. n + 1
        BY ONLY <1>1, <3>1, j \in 1 .. n
      <4>2. pos[y] <= pos[j]
        BY <1>2, <1>7, <4>1
      <4> QED BY <1>8, <2>1, <4>2 DEF p
    <3> QED BY ONLY <1>4, <1>8, <2>1, <2>2, <2>6, <3>2, <3>3
  <2> QED BY <2>4, <2>5, <2>6 DEF p
<1>10. ASSUME NEW j \in x .. y - 1
       PROVE  /\ j \in 1 .. n /\ j - x + 1 \in 1 .. l /\ units[j] = g[j - x + 1]
              /\ NalUnitType(units[j]) # 0
  <2>1. j \in 1 .. n /\ j - x + 1 \in 1 .. l /\ x + (j - x + 1) - 1 = j
    BY ONLY <1>1, <1>3, j \in x .. y - 1
  <2>2. units[j] = g[j - x + 1]
    BY <1>1, <2>1
  <2>3. NalUnitType(g[j - x + 1]) \in {IDR_SLICE, NON_IDR_SLICE, SPS, PPS, SEI, AUD}
    BY <1>1, <2>1 DEF AccessUnit, l
  <2>4. 0 \notin {IDR_SLICE, NON_IDR_SLICE, SPS, PPS, SEI, AUD}
    BY DEF IDR_SLICE, NON_IDR_SLICE, SPS, PPS, SEI, AUD
  <2> QED BY <2>1, <2>2, <2>3, <2>4
<1>11. \A m \in Marks(stream) : \E j \in 1 .. n : m = pos[j] + 1
  BY <1>1, StreamedMarks
<1>12. \A j \in 1 .. n : pos[j] + 1 \in Marks(stream)
  BY <1>1, StreamedMarks
<1>13. \A m \in Marks(stream) : a <= m /\ m + 2 <= c => m + 3 <= c /\ stream[m + 3] # 0
  <2> TAKE m \in Marks(stream)
  <2> SUFFICES ASSUME a <= m, m + 2 <= c PROVE m + 3 <= c /\ stream[m + 3] # 0
    OBVIOUS
  <2>1. PICK j \in 1 .. n : m = pos[j] + 1
    BY <1>11
  <2>2. j \in x .. y - 1
    BY <1>9, <2>1
  <2> QED BY <1>6, <1>9, <1>10, <2>1, <2>2
<1>14. a \in 1 .. Len(stream) /\ c \in a .. Len(stream)
  <2>1. x \in x .. y - 1
    BY ONLY <1>1, <1>3
  <2>2. a <= pos[x] + 1 /\ (pos[x] + 1) + 3 <= c /\ pos[x] \in Nat \ {0} /\ a = pos[x] + 1
    BY <1>6, <1>7, <1>9, <2>1 DEF a
  <2>3. a \in 1 .. e /\ c \in a .. e
    BY ONLY <1>3, <1>8, <2>2
  <2> QED BY <2>3 DEF e
<1>15. \A type : type \in TypesIn(SubSeq(stream, a, c))
                    <=> \E m \in Marks(stream) : a <= m /\ m + 2 <= c /\ TypeAt(stream, m) = type
  <2>1. stream \in Seq(Nat) /\ a \in 1 .. Len(stream) /\ c \in a .. Len(stream)
    BY ONLY <1>2, <1>14
  <2>2. CodesHeaded(stream, a, c)
    BY ONLY <1>13 DEF CodesHeaded
  <2>3. TypesShown(SubSeq(stream, a, c), stream, a, c)
    BY ONLY <2>1, <2>2, SliceTypes
  <2> QED BY ONLY <2>3 DEF TypesShown
<1>16. ASSUME NEW type
       PROVE  (\E m \in Marks(stream) : a <= m /\ m + 2 <= c /\ TypeAt(stream, m) = type)
                <=> \E i \in 1 .. l : NalUnitType(g[i]) = type
  <2>1. ASSUME NEW m \in Marks(stream), a <= m, m + 2 <= c, TypeAt(stream, m) = type
        PROVE  \E i \in 1 .. l : NalUnitType(g[i]) = type
    <3>1. PICK j \in 1 .. n : m = pos[j] + 1
      BY <1>11
    <3>2. j \in x .. y - 1
      BY <1>9, <2>1, <3>1
    <3>3. NalUnitType(units[j]) = type
      BY <1>6, <2>1, <3>1
    <3> QED BY <1>10, <3>2, <3>3
  <2>2. ASSUME NEW i \in 1 .. l, NalUnitType(g[i]) = type
        PROVE  \E m \in Marks(stream) : a <= m /\ m + 2 <= c /\ TypeAt(stream, m) = type
    <3> DEFINE j == x + i - 1
    <3>1. j \in x .. y - 1 /\ j \in 1 .. n
      BY ONLY <1>1, <1>3, i \in 1 .. l
    <3>2. units[j] = g[i]
      BY <1>1
    <3> HIDE DEF j
    <3>3. TypeAt(stream, pos[j] + 1) = type
      BY <1>6, <2>2, <3>1, <3>2
    <3>4. a <= pos[j] + 1 /\ (pos[j] + 1) + 3 <= c /\ pos[j] \in Nat
      BY <1>6, <1>9, <3>1
    <3>5. (pos[j] + 1) + 2 <= c
      BY ONLY <1>8, <3>4
    <3> QED BY <1>12, <3>1, <3>3, <3>4, <3>5
  <2> QED BY <2>1, <2>2
<1> QED BY <1>15, <1>16 DEF PieceTyped, a, c, x, l, g

\* A stream of access units splits into pieces with the types of each.
LEMMA Resplits ==
    ASSUME NEW k, k \in Nat \ {0}, NEW groups, groups \in [1 .. k -> Seq(Seq(Nat))],
           \A b \in 1 .. k : AccessUnit(groups[b])
    PROVE  LET units == SplitAccessUnits(FlattenSeq([b \in 1 .. k |-> AnnexB(groups[b])]))
           IN  /\ Len(units) = k
               /\ \A b \in 1 .. k : TypesIn(units[b]) = TypesIn(AnnexB(groups[b]))
<1>1. PICK stream : stream = FlattenSeq([b \in 1 .. k |-> AnnexB(groups[b])])
  OBVIOUS
<1>2. PICK at, all, n, pos : Stacked(stream, groups, k, at, all, n, pos)
  BY <1>1, StreamsStack
<1> DEFINE offsets == StartCodeOffsets(stream)
           units == SplitAccessUnits(stream)
<1>3. Streamed(stream, all, n, pos) /\ stream \in Seq(Nat) /\ n \in Nat \ {0}
  BY <1>2 DEF Stacked, Streamed, Framed
<1>4. offsets = CodesAt(n, pos)
  BY <1>3, StreamedOffsets DEF CodesAt
<1>5. /\ Groups(stream, offsets, k, at) /\ Len(offsets) = n
      /\ \A j \in 1 .. n : offsets[j] <= Len(stream)
  <2>1. /\ Groups(stream, CodesAt(n, pos), k, at) /\ Len(CodesAt(n, pos)) = n
        /\ \A j \in 1 .. n : CodesAt(n, pos)[j] <= Len(stream)
    BY <1>2, StackedGroups
  <2> HIDE DEF offsets
  <2> QED BY ONLY <1>4, <2>1
<1>6. offsets \in Seq(Places) /\ offsets # <<>>
  <2> HIDE DEF offsets
  <2>1. offsets \in Seq(Places)
    BY <1>5 DEF Groups
  <2> QED BY <1>3, <1>5, <2>1
<1>7. PICK f : Splits(stream, offsets, f) /\ units = f[<<1, offsets[1], FALSE>>]
  BY <1>3, <1>5, <1>6, SplitWalk
<1> HIDE DEF offsets, units
<1>8. units = Pieces(stream, offsets, k, at)
  BY <1>3, <1>5, <1>7, SplitRuns
<1>9. Len(units) = k
  BY <1>8 DEF Pieces
<1>10. ASSUME NEW b \in 1 .. k PROVE TypesIn(units[b]) = TypesIn(AnnexB(groups[b]))
  <2>1. /\ at[b] \in 1 .. n /\ at[b] \in Nat /\ (b # k => at[b + 1] \in 1 .. n)
        /\ AccessUnit(groups[b])
    <3>1. /\ k \in Nat \ {0} /\ at \in [1 .. k + 1 -> Nat \ {0}] /\ at[k + 1] = n + 1
          /\ \A d \in 1 .. k : at[d] < at[d + 1] /\ at[d + 1] <= n + 1
      BY <1>2, <1>5 DEF Stacked, Groups
    <3>2. b \in 1 .. k + 1 /\ b + 1 \in 1 .. k + 1
          /\ (b # k => b + 1 \in 1 .. k /\ (b + 1) + 1 \in 1 .. k + 1)
      BY ONLY <3>1, b \in 1 .. k
    <3>3. at[b] \in Nat \ {0} /\ at[b + 1] \in Nat \ {0} /\ at[b] < at[b + 1] /\ at[b + 1] <= n + 1
      BY <3>1, <3>2
    <3>4. ASSUME b # k PROVE at[b + 1] <= n
      <4>1. at[b + 1] < at[(b + 1) + 1] /\ at[(b + 1) + 1] <= n + 1 /\ at[(b + 1) + 1] \in Nat
        BY <3>1, <3>2, <3>4
      <4> QED BY ONLY <1>3, <3>3, <4>1
    <3> QED BY <1>3, <3>3, <3>4
  <2> DEFINE c == PieceEnd(stream, k, at, pos, b)
  <2>2. units[b] = SubSeq(stream, pos[at[b]] + 1, c)
    <3>1. units[b] = SubSeq(stream, offsets[at[b]], IF b = k THEN Len(stream) ELSE offsets[at[b + 1]] - 1)
      BY <1>8 DEF Pieces
    <3>2. offsets[at[b]] = pos[at[b]] + 1 /\ (b # k => offsets[at[b + 1]] = pos[at[b + 1]] + 1)
      BY <1>4, <2>1 DEF CodesAt
    <3>3. b # k => pos[at[b + 1]] \in Nat
      BY <1>3, <2>1, StreamedSpan
    <3>4. b # k => offsets[at[b + 1]] - 1 = pos[at[b + 1]]
      BY ONLY <3>2, <3>3
    <3> QED BY <3>1, <3>2, <3>4 DEF PieceEnd
  <2>3. \A type : type \in TypesIn(SubSeq(stream, pos[at[b]] + 1, c))
                    <=> \E i \in 1 .. Len(groups[b]) : NalUnitType(groups[b][i]) = type
    <3>1. PieceTyped(stream, groups, k, at, pos, b)
      BY <1>2, PieceTypes
    <3> QED BY ONLY <3>1 DEF PieceTyped
  <2>4. \A type : type \in TypesIn(AnnexB(groups[b]))
                    <=> \E i \in 1 .. Len(groups[b]) : NalUnitType(groups[b][i]) = type
    <3>1. Streamable(groups[b])
      BY <2>1 DEF AccessUnit
    <3>2. DOMAIN groups[b] = 1 .. Len(groups[b])
      BY <3>1 DEF Streamable
    <3> QED BY <3>1, <3>2, AnnexBTypes
  <2> HIDE DEF c
  <2>5. \A type : type \in TypesIn(units[b]) <=> type \in TypesIn(AnnexB(groups[b]))
    BY <2>2, <2>3, <2>4
  <2>6. TypesIn(units[b]) = {type \in TypesIn(units[b]) : TRUE}
    OBVIOUS
  <2> QED BY <2>5
<1> QED BY <1>1, <1>9, <1>10 DEF units

-----------------------------------------------------------------------------
(***************************************************************************)
(* The writer and the reader, in the variables of the model.               *)
(***************************************************************************)

\* The packets that can be on their way.
Bounded(us) == \A i \in DOMAIN us : Len(us[i]) \in 1 .. PacketMax

\* What is written is cut into packets, and all of it is on its way.
LEMMA Written ==
    ASSUME NEW msgs, Wire(frame, rbuf, usb, msgs), Bounded(usb), buffer = <<>>,
           NEW cells, cells \in Seq(Nat), WriteFlushed(cells),
           NEW next, next \in Seq(HostMessages), Stream(next) = Cat(Stream(msgs), cells)
    PROVE  Wire(frame, rbuf, usb', next) /\ Bounded(usb') /\ buffer' = <<>>
<1> DEFINE p == Packets(cells)
           T == Seq(Nat)
<1>1. <<>> \o cells = cells
  OBVIOUS
<1>2. usb' = Cat(usb, p) /\ buffer' = <<>>
  BY <1>1 DEF WriteFlushed, Cat
<1>3. Wire(frame, rbuf, Cat(usb, p), next)
  BY WireSend
<1>4. p \in Seq(T) /\ Bounded(p) /\ usb \in Seq(T)
  BY PacketsFlatten DEF Wire, Bounded
<1> HIDE DEF p, T
<1>5. Bounded(Cat(usb, p))
  <2> DEFINE c == usb \o p
  <2>1. c = usb \o p
    OBVIOUS
  <2> HIDE DEF c
  <2>2. /\ c \in Seq(T) /\ Len(usb) \in Nat /\ Len(p) \in Nat /\ Len(c) = Len(usb) + Len(p)
        /\ \A i \in 1 .. Len(usb) : c[i] = usb[i]
        /\ \A j \in 1 .. Len(p) : c[Len(usb) + j] = p[j]
    BY ONLY <1>4, <2>1, CatAt
  <2>3. DOMAIN usb = 1 .. Len(usb) /\ DOMAIN p = 1 .. Len(p) /\ DOMAIN c = 1 .. Len(usb) + Len(p)
    BY <1>4, <2>2
  <2>4. ASSUME NEW i \in DOMAIN c PROVE Len(c[i]) \in 1 .. PacketMax
    <3>1. CASE i \in 1 .. Len(usb)
      BY <1>4, <2>2, <2>3, <3>1 DEF Bounded
    <3>2. CASE i \notin 1 .. Len(usb)
      <4> DEFINE j == i - Len(usb)
      <4>1. j \in 1 .. Len(p) /\ Len(usb) + j = i
        BY <2>2, <2>3, <3>2
      <4> HIDE DEF j
      <4>2. c[Len(usb) + j] = p[j] /\ Len(p[j]) \in 1 .. PacketMax
        BY <1>4, <2>2, <2>3, <4>1 DEF Bounded
      <4> QED BY <4>1, <4>2
    <3> QED BY <3>1, <3>2
  <2>5. Cat(usb, p) = c
    BY DEF Cat, c
  <2> QED BY <2>4, <2>5 DEF Bounded
<1> QED BY <1>2, <1>3, <1>5

\* A message that is sent is on its way behind the others.
LEMMA WrittenOne ==
    ASSUME NEW msgs, Wire(frame, rbuf, usb, msgs), Bounded(usb), buffer = <<>>,
           NEW m, m \in HostMessages, WriteFlushed(WriteFrame(m))
    PROVE  Wire(frame, rbuf, usb', Append(msgs, m)) /\ Bounded(usb') /\ buffer' = <<>>
<1>1. msgs \in Seq(HostMessages)
  BY DEF Wire
<1>2. Append(msgs, m) \in Seq(HostMessages) /\ Stream(Append(msgs, m)) = Cat(Stream(msgs), WriteFrame(m))
  BY <1>1, StreamAppend
<1>3. WriteFrame(m) \in Seq(Nat)
  BY FrameWritten
<1> QED BY <1>2, <1>3, Written

\* A picture that is sent with its configuration is on its way behind it.
LEMMA WrittenTwo ==
    ASSUME NEW msgs, Wire(frame, rbuf, usb, msgs), Bounded(usb), buffer = <<>>,
           NEW m, m \in HostMessages, NEW k, k \in HostMessages,
           WriteFlushed(WriteFrame(m) \o WriteFrame(k))
    PROVE  Wire(frame, rbuf, usb', Append(Append(msgs, m), k)) /\ Bounded(usb') /\ buffer' = <<>>
<1> DEFINE a == Append(msgs, m)
           b == Append(a, k)
           s == Stream(msgs)
           x == WriteFrame(m)
           y == WriteFrame(k)
           T == Seq(Nat)
<1>1. msgs \in Seq(HostMessages)
  BY DEF Wire
<1>2. a \in Seq(HostMessages) /\ Stream(a) = Cat(s, x)
  BY <1>1, StreamAppend
<1>3. b \in Seq(HostMessages) /\ Stream(b) = Cat(Stream(a), y)
  <2> HIDE DEF a
  <2> QED BY <1>2, StreamAppend
<1>4. x \in T /\ y \in T /\ s \in T /\ Monoid(T)
  BY <1>1, FrameWritten, FramesTyped, SeqMonoid
<1> HIDE DEF a, b, s, x, y, T
<1>5. Stream(b) = Cat(s, Cat(x, y)) /\ Cat(x, y) \in T
  BY <1>2, <1>3, <1>4, CatThree
<1>6. WriteFlushed(Cat(x, y))
  BY DEF x, y, Cat
<1>7. Wire(frame, rbuf, usb', b) /\ Bounded(usb') /\ buffer' = <<>>
  BY <1>3, <1>5, <1>6, Written DEF T, s
<1> QED BY <1>7 DEF a, b

\* A chunked read (transport.rs) serves cells from the front, keeps the rest of the
\* packet for the next and drops none: the read is as large as any packet.
LEMMA ReadServes ==
    ASSUME NEW msgs, Wire(frame, rbuf, usb, msgs), Bounded(usb), rbuf # <<>> \/ usb # <<>>,
           Len(rbuf) <= Chunk,
           NEW read, read = ChunkedRead(IF rbuf = <<>> THEN Head(usb) ELSE <<>>, frame.want),
           NEW us, us = IF rbuf = <<>> THEN Tail(usb) ELSE usb
    PROVE  /\ Reading(frame, read[1], read[2], us, msgs)
           /\ Bounded(us) /\ Len(read[2]) <= Chunk
<1> DEFINE data == IF rbuf = <<>> THEN Head(usb) ELSE rbuf
           k == Min({frame.want, Len(data)})
           T == Seq(Nat)
<1>1. rbuf \in T /\ usb \in Seq(T) /\ WellFormed(frame) /\ msgs \in Seq(HostMessages)
  BY DEF Wire
<1>2. usb # <<>> => /\ Head(usb) \in T /\ Len(Head(usb)) \in 1 .. PacketMax
                    /\ SubSeq(Head(usb), 1, Min({Chunk, Len(Head(usb))})) = Head(usb)
  <2> SUFFICES ASSUME usb # <<>>
               PROVE  /\ Head(usb) \in T /\ Len(Head(usb)) \in 1 .. PacketMax
                      /\ SubSeq(Head(usb), 1, Min({Chunk, Len(Head(usb))})) = Head(usb)
    OBVIOUS
  <2> HIDE DEF T
  <2>1. Head(usb) \in T /\ 1 \in DOMAIN usb /\ Head(usb) = usb[1]
    BY <1>1, HeadTail
  <2>2. Len(Head(usb)) \in 1 .. PacketMax
    BY <2>1 DEF Bounded
  <2> DEFINE h == Head(usb)
             l == Len(h)
  <2>3. l \in 1 .. PacketMax /\ h \in Seq(Nat)
    BY <2>1, <2>2 DEF T
  <2>4. SubSeq(h, 1, l) = h
    BY <2>3, SubSeqFull
  <2> HIDE DEF h, l
  <2>5. Min({Chunk, l}) = l
    <3>1. Chunk \in Int /\ l \in Int /\ PacketMax \in Nat /\ PacketMax <= Chunk
      BY <2>3, PacketsAssumption
    <3>2. Min({Chunk, l}) = IF Chunk <= l THEN Chunk ELSE l
      BY <3>1, MinOfTwo
    <3> QED BY ONLY <2>3, <3>1, <3>2
  <2> QED BY <2>1, <2>2, <2>4, <2>5 DEF h, l
<1>3. read = <<SubSeq(data, 1, k), SubSeq(data, k + 1, Len(data))>>
  BY <1>2 DEF ChunkedRead
<1>4. Len(data) <= Chunk /\ Len(data) \in Nat
  <2>1. CASE rbuf = <<>>
    <3> DEFINE l == Len(Head(usb))
    <3>1. l \in 1 .. PacketMax
      BY <1>2, <2>1
    <3> HIDE DEF l
    <3>2. l <= Chunk /\ l \in Nat
      BY <3>1, PacketsAssumption
    <3> QED BY <2>1, <3>2 DEF l
  <2>2. CASE rbuf # <<>>
    BY <1>1, <2>2
  <2> QED BY <2>1, <2>2
<1> DEFINE got == SubSeq(data, 1, k)
           rest == SubSeq(data, k + 1, Len(data))
<1>5. Served(frame, rbuf, usb, msgs, data, k, got, rest, us)
  BY DEF Bounded, Served
<1>6. read = <<got, rest>>
  BY <1>3
<1> HIDE DEF data, T, got, rest, k
<1>7. read[1] = got /\ read[2] = rest
  BY ONLY <1>6
<1>8. /\ got \in Seq(Nat) /\ Len(got) = k
      /\ k \in 1 .. frame.want
      /\ rest \in Seq(Nat) /\ us \in Seq(Seq(Nat)) /\ Len(rest) <= Len(data)
      /\ Cat(Cat(Begun(frame), got), Pending(rest, us)) = Stream(msgs)
  BY ONLY <1>5, WireRead
<1>9. Reading(frame, got, rest, us, msgs)
  BY <1>1, <1>8 DEF Reading
<1>10. Bounded(us)
  <2>1. CASE rbuf = <<>>
    <3>1. usb # <<>> /\ us = Tail(usb)
      BY <2>1
    <3>2. \A i \in DOMAIN Tail(usb) : i + 1 \in DOMAIN usb /\ Tail(usb)[i] = usb[i + 1]
      BY <1>1, <3>1
    <3> QED BY <3>1, <3>2 DEF Bounded
  <2>2. CASE rbuf # <<>>
    BY <2>2
  <2> QED BY <2>1, <2>2
<1>11. Len(rest) <= Chunk
  <2>1. Len(rest) \in Nat /\ Chunk \in Nat
    BY <1>8, PacketsAssumption
  <2> QED BY <1>4, <1>8, <2>1
<1> QED BY <1>7, <1>9, <1>10, <1>11

\* What a step of the reader does with the messages on their way: it takes none
\* of them, or the first, whole and as it was written.
LEMMA PhoneGets ==
    ASSUME NEW msgs, Wire(frame, rbuf, usb, msgs), Bounded(usb), Len(rbuf) <= Chunk, PhoneReads
    PROVE  /\ Bounded(usb') /\ Len(rbuf') <= Chunk
           /\ \/ /\ Wire(frame', rbuf', usb', msgs)
                 /\ UNCHANGED <<up, phoneVars>>
              \/ /\ msgs # <<>> /\ Head(msgs) \in HostMessages
                 /\ Wire(frame', rbuf', usb', Tail(msgs))
                 /\ \/ phone = "offer" /\ OnOffer(Head(msgs))
                    \/ phone = "loop" /\ OnFrame(Head(msgs)) /\ UNCHANGED phoneAgreed
<1> DEFINE read == ChunkedRead(IF rbuf = <<>> THEN Head(usb) ELSE <<>>, frame.want)
           got == read[1]
           rest == read[2]
           us == IF rbuf = <<>> THEN Tail(usb) ELSE usb
           cells == frame.cells \o got
           left == frame.want - Len(got)
           header == frame.tag = 0
           complete == left = 0 /\ (header => cells[2] = 0)
           tag == IF header THEN cells[1] ELSE frame.tag
           c == Cat(frame.cells, got)
<1>1. rbuf # <<>> \/ usb # <<>>
  BY DEF PhoneReads
<1>2. Reading(frame, got, rest, us, msgs) /\ Bounded(us) /\ Len(rest) <= Chunk
  <2> HIDE DEF read
  <2>1. read = ChunkedRead(IF rbuf = <<>> THEN Head(usb) ELSE <<>>, frame.want)
    BY DEF read
  <2> QED BY <1>1, <2>1, ReadServes
<1>3. /\ rbuf' = rest /\ usb' = us
      /\ \/ /\ left > 0
            /\ frame' = [frame EXCEPT !.want = left, !.cells = cells]
            /\ UNCHANGED <<up, phoneVars>>
         \/ /\ left = 0 /\ ~complete
            /\ frame' = [tag |-> tag, want |-> cells[2], cells |-> <<>>]
            /\ UNCHANGED <<up, phoneVars>>
         \/ /\ complete
            /\ frame' = NewFrame
            /\ \E f \in {Decode(tag, IF header THEN <<>> ELSE cells)} :
                   \/ phone = "offer" /\ OnOffer(f)
                   \/ phone = "loop" /\ OnFrame(f) /\ UNCHANGED phoneAgreed
  BY DEF PhoneReads
<1>4. cells = c
  BY DEF Cat
<1> HIDE DEF read, got, rest, us, cells
<1>5. /\ Len(got) \in 1 .. frame.want /\ frame.want \in Nat \ {0}
  BY ONLY <1>2 DEF Reading, WellFormed
<1>6. CASE left > 0 /\ frame' = [frame EXCEPT !.want = left, !.cells = cells]
           /\ UNCHANGED <<up, phoneVars>>
  <2>1. Len(got) < frame.want
    BY <1>5, <1>6
  <2>2. frame' = [frame EXCEPT !.want = frame.want - Len(got), !.cells = Cat(frame.cells, got)]
    BY <1>4, <1>6
  <2>3. Wire(frame', rest, us, msgs)
    BY <1>2, <2>1, <2>2, ReadMore
  <2> QED BY <1>2, <1>3, <1>6, <2>3
<1>7. CASE left = 0 /\ ~complete /\ frame' = [tag |-> tag, want |-> cells[2], cells |-> <<>>]
           /\ UNCHANGED <<up, phoneVars>>
  <2>1. Len(got) = frame.want /\ frame.tag = 0 /\ c[2] # 0
    BY <1>4, <1>5, <1>7
  <2>2. Wire([tag |-> c[1], want |-> c[2], cells |-> <<>>], rest, us, msgs)
    BY <1>2, <2>1, ReadHeader
  <2>3. frame' = [tag |-> c[1], want |-> c[2], cells |-> <<>>]
    BY <1>4, <1>7, <2>1
  <2> QED BY <1>2, <1>3, <1>7, <2>2, <2>3
<1>8. CASE complete /\ frame' = NewFrame
           /\ \E f \in {Decode(tag, IF header THEN <<>> ELSE cells)} :
                   \/ phone = "offer" /\ OnOffer(f)
                   \/ phone = "loop" /\ OnFrame(f) /\ UNCHANGED phoneAgreed
  <2>1. Len(got) = frame.want /\ (frame.tag = 0 => c[2] = 0)
    BY <1>4, <1>5, <1>8
  <2>2. /\ msgs # <<>> /\ Head(msgs) \in HostMessages
        /\ Decode(IF frame.tag = 0 THEN c[1] ELSE frame.tag, IF frame.tag = 0 THEN <<>> ELSE c) = Head(msgs)
        /\ Wire(NewFrame, rest, us, Tail(msgs))
    BY <1>2, <2>1, ReadComplete
  <2>3. \/ phone = "offer" /\ OnOffer(Head(msgs))
        \/ phone = "loop" /\ OnFrame(Head(msgs)) /\ UNCHANGED phoneAgreed
    BY <1>4, <1>8, <2>2
  <2> QED BY <1>2, <1>3, <1>8, <2>2, <2>3
<1> QED BY <1>3, <1>6, <1>7, <1>8

\* With nothing left to read, no message is on its way either.
LEMMA Drained ==
    ASSUME NEW fr, NEW msgs, Wire(fr, <<>>, <<>>, msgs)
    PROVE  msgs = <<>> /\ fr = NewFrame
<1>1. /\ WellFormed(fr) /\ msgs \in Seq(HostMessages)
      /\ Cat(Begun(fr), Pending(<<>>, <<>>)) = Stream(msgs)
  BY DEF Wire
<1>2. Begun(fr) \in Seq(Nat)
  BY <1>1, BegunTyped
<1>3. Begun(fr) = Stream(msgs)
  <2>1. Pending(<<>>, <<>>) = <<>>
    BY FlattenEmpty DEF Pending, Cat
  <2>2. Cat(Begun(fr), <<>>) = Begun(fr)
    BY <1>2 DEF Cat
  <2> QED BY <1>1, <2>1, <2>2
<1>4. /\ fr \in [tag : Nat, want : Nat \ {0}, cells : Seq(Nat)]
      /\ fr.tag = 0 => Len(fr.cells) + fr.want = 2
      /\ Len(fr.cells) \in Nat
  BY <1>1 DEF WellFormed, HeaderLen
<1>5. /\ fr.tag = 0 => Begun(fr) = fr.cells
      /\ fr.tag # 0 => /\ Len(Begun(fr)) = 2 + Len(fr.cells)
                       /\ Begun(fr)[2] = fr.want + Len(fr.cells)
  <2> DEFINE h == <<fr.tag, fr.want + Len(fr.cells)>>
  <2>1. h \in Seq(Nat) /\ Len(h) = 2 /\ h[2] = fr.want + Len(fr.cells)
    BY <1>4
  <2> HIDE DEF h
  <2>2. h \in Seq(Nat) /\ fr.cells \in Seq(Nat)
    BY <1>4, <2>1
  <2>3. Len(Cat(h, fr.cells)) = Len(h) + Len(fr.cells)
        /\ \A i \in 1 .. Len(h) : Cat(h, fr.cells)[i] = h[i]
    BY ONLY <2>2, CatSeq
  <2>4. fr.tag # 0 => Begun(fr) = Cat(h, fr.cells)
    BY DEF Begun, h
  <2>5. fr.tag = 0 => Begun(fr) = fr.cells
    BY DEF Begun
  <2> QED BY <2>1, <2>3, <2>4, <2>5
<1>6. msgs = <<>>
  <2> SUFFICES ASSUME msgs # <<>> PROVE FALSE
    OBVIOUS
  <2> DEFINE m == Head(msgs)
             w == WriteFrame(m)
             s == Stream(Tail(msgs))
             q == ToTagPayload(m)[2]
             b == Begun(fr)
  <2>1. m \in HostMessages /\ Tail(msgs) \in Seq(HostMessages) /\ Stream(msgs) = Cat(w, s)
    BY <1>1, StreamNext
  <2>2. s \in Seq(Nat)
    BY <2>1, FramesTyped
  <2>3. w \in Seq(Nat) /\ q \in Seq(Nat) /\ w[2] = Len(q) /\ Len(w) = 2 + Len(q)
    BY <2>1, FrameWritten
  <2> HIDE DEF m, w, s, q
  <2>4. Len(Cat(w, s)) = Len(w) + Len(s) /\ \A i \in 1 .. Len(w) : Cat(w, s)[i] = w[i]
    <3>1. w \in Seq(Nat) /\ s \in Seq(Nat)
      BY <2>2, <2>3
    <3> QED BY ONLY <3>1, CatSeq
  <2>5. Len(q) \in Nat /\ Len(s) \in Nat
    BY <2>2, <2>3
  <2>6. Len(b) = 2 + Len(q) + Len(s) /\ b[2] = Len(q)
    <3>1. 2 \in 1 .. Len(w)
      BY <2>3, <2>5
    <3> QED BY <1>3, <2>1, <2>3, <2>4, <2>5, <3>1
  <2>7. CASE fr.tag = 0
    <3>1. Len(b) + fr.want = 2
      BY <1>4, <1>5, <2>7
    <3> HIDE DEF b
    <3> QED BY <1>4, <2>5, <2>6, <3>1
  <2>8. CASE fr.tag # 0
    <3>1. Len(b) = 2 + Len(fr.cells) /\ b[2] = fr.want + Len(fr.cells)
      BY <1>5, <2>8
    <3> HIDE DEF b
    <3> QED BY <1>4, <2>5, <2>6, <3>1
  <2> QED BY <2>7, <2>8
<1>7. Len(Begun(fr)) = 0
  BY <1>3, <1>6, StreamEmpty
<1>8. fr.tag = 0 /\ fr.cells = <<>> /\ fr.want = 2
  <2>1. fr.tag = 0
    BY <1>4, <1>5, <1>7
  <2>2. fr.cells = <<>>
    BY <1>3, <1>5, <1>6, <2>1, StreamEmpty
  <2> QED BY <1>4, <2>1, <2>2
<1>9. fr = NewFrame
  BY <1>4, <1>8 DEF NewFrame, HeaderLen
<1> QED BY <1>6, <1>9

-----------------------------------------------------------------------------
(***************************************************************************)
(* Which pictures are on their way.                                        *)
(***************************************************************************)

\* Config and Described, of an environment.
ConfigOf(e) == [sps |-> e.encoder.params.sps, pps |-> e.encoder.params.pps]
UnitsOf(e, nals) ==
    (IF Idr(nals) THEN <<e.encoder.params.sps, e.encoder.params.pps>> ELSE <<>>) \o nals

\* The message that carries the n-th of some pictures.
VideoOf(e, n, pics) ==
    [kind |-> "Video", pts |-> n, keyframe |-> Idr(pics[n]), nal |-> AnnexB(UnitsOf(e, pics[n]))]

\* A message that carries a picture.
IsVideo(m) == m.kind = "Video"

\* The pictures behind the first fed are on their way, each once, in order.
Numbered(e, msgs, fed, pics) ==
    /\ fed \in 0 .. Len(pics)
    /\ \A i \in 1 .. Len(msgs) :
          IsVideo(msgs[i]) => /\ msgs[i].pts \in fed + 1 .. Len(pics)
                              /\ msgs[i] = VideoOf(e, msgs[i].pts, pics)
    /\ \A i \in 1 .. Len(msgs), j \in 1 .. Len(msgs) :
          i < j /\ IsVideo(msgs[i]) /\ IsVideo(msgs[j]) => msgs[i].pts < msgs[j].pts
    /\ \A n \in fed + 1 .. Len(pics) :
          \E i \in 1 .. Len(msgs) : IsVideo(msgs[i]) /\ msgs[i].pts = n

\* A picture is a keyframe or not.
LEMMA Idrs == \A nals : Idr(nals) \in BOOLEAN
BY DEF Idr

\* The tail of a sequence, element by element.
LEMMA TailAt ==
    ASSUME NEW T, NEW s, s \in Seq(T), s # <<>>
    PROVE  /\ Tail(s) \in Seq(T) /\ Len(s) \in Nat \ {0} /\ Len(Tail(s)) = Len(s) - 1
           /\ Head(s) = s[1] /\ s[1] \in T
           /\ \A i \in 1 .. Len(s) - 1 : Tail(s)[i] = s[i + 1]
OBVIOUS

\* A sequence with one element more, element by element.
LEMMA AppendAt ==
    ASSUME NEW T, NEW s, s \in Seq(T), NEW x, x \in T
    PROVE  /\ Append(s, x) \in Seq(T) /\ Len(s) \in Nat /\ Len(Append(s, x)) = Len(s) + 1
           /\ Append(s, x)[Len(s) + 1] = x
           /\ \A i \in 1 .. Len(s) : Append(s, x)[i] = s[i]
OBVIOUS

\* The next message that carries a picture carries the first that was not fed.
LEMMA NumberedNext ==
    ASSUME NEW e, NEW msgs, msgs \in Seq(HostMessages), msgs # <<>>,
           NEW fed, NEW pics, pics \in Seq(Pictures), Numbered(e, msgs, fed, pics)
    PROVE  /\ IsVideo(Head(msgs)) => /\ fed + 1 \in 1 .. Len(pics)
                                     /\ Head(msgs) = VideoOf(e, fed + 1, pics)
                                     /\ Numbered(e, Tail(msgs), fed + 1, pics)
           /\ ~IsVideo(Head(msgs)) => Numbered(e, Tail(msgs), fed, pics)
<1> DEFINE l == Len(msgs)
           p == Len(pics)
           t == Tail(msgs)
           h == Head(msgs)
<1>1. /\ l \in Nat \ {0} /\ Len(t) = l - 1 /\ h = msgs[1]
      /\ \A i \in 1 .. l - 1 : t[i] = msgs[i + 1]
  BY TailAt
<1>2. p \in Nat
  OBVIOUS
<1>3. /\ fed \in 0 .. p
      /\ \A i \in 1 .. l :
            IsVideo(msgs[i]) => /\ msgs[i].pts \in fed + 1 .. p
                                /\ msgs[i] = VideoOf(e, msgs[i].pts, pics)
      /\ \A i \in 1 .. l, j \in 1 .. l :
            i < j /\ IsVideo(msgs[i]) /\ IsVideo(msgs[j]) => msgs[i].pts < msgs[j].pts
      /\ \A n \in fed + 1 .. p :
            \E i \in 1 .. l : IsVideo(msgs[i]) /\ msgs[i].pts = n
  BY DEF Numbered
<1> HIDE DEF l, p, t, h
<1>4. \A i \in 1 .. l - 1 : i + 1 \in 1 .. l
  BY <1>1
<1>5. \A i \in 1 .. l - 1, j \in 1 .. l - 1 :
         i < j /\ IsVideo(t[i]) /\ IsVideo(t[j]) => t[i].pts < t[j].pts
  <2> TAKE i \in 1 .. l - 1, j \in 1 .. l - 1
  <2>1. i + 1 \in 1 .. l /\ j + 1 \in 1 .. l /\ (i < j => i + 1 < j + 1)
        /\ t[i] = msgs[i + 1] /\ t[j] = msgs[j + 1]
    BY <1>1, <1>4
  <2> QED BY <1>3, <2>1
<1>6. \A n \in fed + 1 .. p : \/ IsVideo(h) /\ h.pts = n
                              \/ \E i \in 1 .. l - 1 : IsVideo(t[i]) /\ t[i].pts = n
  <2> TAKE n \in fed + 1 .. p
  <2>1. PICK i \in 1 .. l : IsVideo(msgs[i]) /\ msgs[i].pts = n
    BY <1>3
  <2>2. CASE i = 1
    BY <1>1, <2>1, <2>2
  <2>3. CASE i # 1
    <3>1. i - 1 \in 1 .. l - 1 /\ (i - 1) + 1 = i
      BY <1>1, <2>1, <2>3
    <3>2. t[i - 1] = msgs[i]
      BY <1>1, <3>1
    <3> QED BY <2>1, <3>1, <3>2
  <2> QED BY <2>2, <2>3
<1>7. ASSUME IsVideo(h)
      PROVE  /\ fed + 1 \in 1 .. p /\ h = VideoOf(e, fed + 1, pics) /\ h.pts = fed + 1
             /\ Numbered(e, t, fed + 1, pics)
  <2>1. 1 \in 1 .. l /\ h.pts \in fed + 1 .. p /\ h = VideoOf(e, h.pts, pics)
    BY <1>1, <1>3, <1>7
  <2>2. fed + 1 \in 1 .. p /\ fed + 1 \in fed + 1 .. p
    BY <1>2, <1>3, <2>1
  <2>3. \A i \in 1 .. l - 1 : IsVideo(t[i]) => h.pts < t[i].pts
    <3> TAKE i \in 1 .. l - 1
    <3>1. i + 1 \in 1 .. l /\ 1 < i + 1 /\ t[i] = msgs[i + 1]
      BY <1>1, <1>4
    <3> QED BY <1>1, <1>3, <1>7, <2>1, <3>1
  <2>4. h.pts = fed + 1
    <3> SUFFICES ASSUME h.pts # fed + 1 PROVE FALSE
      OBVIOUS
    <3>1. PICK i \in 1 .. l - 1 : IsVideo(t[i]) /\ t[i].pts = fed + 1
      BY <1>6, <2>2
    <3>2. h.pts < fed + 1
      BY <2>3, <3>1
    <3> QED BY <1>2, <1>3, <2>1, <3>2
  <2>5. \A i \in 1 .. l - 1 : IsVideo(t[i]) => /\ t[i].pts \in (fed + 1) + 1 .. p
                                               /\ t[i] = VideoOf(e, t[i].pts, pics)
    <3> TAKE i \in 1 .. l - 1
    <3> SUFFICES ASSUME IsVideo(t[i])
                 PROVE  t[i].pts \in (fed + 1) + 1 .. p /\ t[i] = VideoOf(e, t[i].pts, pics)
      OBVIOUS
    <3>1. i + 1 \in 1 .. l /\ t[i] = msgs[i + 1]
      BY <1>1, <1>4
    <3>2. t[i].pts \in fed + 1 .. p /\ t[i] = VideoOf(e, t[i].pts, pics)
      BY <1>3, <3>1
    <3>3. fed + 1 < t[i].pts
      BY <2>3, <2>4
    <3>4. t[i].pts \in (fed + 1) + 1 .. p
      BY <1>2, <1>3, <3>2, <3>3
    <3> QED BY <3>2, <3>4
  <2>6. \A n \in (fed + 1) + 1 .. p : \E i \in 1 .. l - 1 : IsVideo(t[i]) /\ t[i].pts = n
    <3> TAKE n \in (fed + 1) + 1 .. p
    <3>1. n \in fed + 1 .. p /\ n # fed + 1
      BY <1>2, <1>3
    <3> QED BY <1>6, <2>4, <3>1
  <2>7. fed + 1 \in 0 .. p
    BY <2>2
  <2> QED BY <1>1, <1>5, <2>1, <2>2, <2>4, <2>5, <2>6, <2>7 DEF Numbered, p
<1>8. ASSUME ~IsVideo(h) PROVE Numbered(e, t, fed, pics)
  <2>1. \A i \in 1 .. l - 1 : IsVideo(t[i]) => /\ t[i].pts \in fed + 1 .. p
                                               /\ t[i] = VideoOf(e, t[i].pts, pics)
    <3> TAKE i \in 1 .. l - 1
    <3>1. i + 1 \in 1 .. l /\ t[i] = msgs[i + 1]
      BY <1>1, <1>4
    <3> QED BY <1>3, <3>1
  <2>2. \A n \in fed + 1 .. p : \E i \in 1 .. l - 1 : IsVideo(t[i]) /\ t[i].pts = n
    BY <1>6, <1>8
  <2> QED BY <1>1, <1>3, <1>5, <2>1, <2>2 DEF Numbered, p
<1> QED BY <1>7, <1>8 DEF p, t, h

\* A message that carries no picture changes nothing.
LEMMA NumberedSkip ==
    ASSUME NEW e, NEW msgs, msgs \in Seq(HostMessages), NEW m, m \in HostMessages, ~IsVideo(m),
           NEW fed, NEW pics, pics \in Seq(Pictures), Numbered(e, msgs, fed, pics)
    PROVE  Numbered(e, Append(msgs, m), fed, pics)
<1> DEFINE l == Len(msgs)
           a == Append(msgs, m)
<1>1. /\ l \in Nat /\ Len(a) = l + 1 /\ a[l + 1] = m
      /\ \A i \in 1 .. l : a[i] = msgs[i]
  BY AppendAt
<1>2. /\ fed \in 0 .. Len(pics)
      /\ \A i \in 1 .. l :
            IsVideo(msgs[i]) => /\ msgs[i].pts \in fed + 1 .. Len(pics)
                                /\ msgs[i] = VideoOf(e, msgs[i].pts, pics)
      /\ \A i \in 1 .. l, j \in 1 .. l :
            i < j /\ IsVideo(msgs[i]) /\ IsVideo(msgs[j]) => msgs[i].pts < msgs[j].pts
      /\ \A n \in fed + 1 .. Len(pics) :
            \E i \in 1 .. l : IsVideo(msgs[i]) /\ msgs[i].pts = n
  BY DEF Numbered
<1> HIDE DEF l, a
<1>3. \A i \in 1 .. l + 1 : (IsVideo(a[i]) => i \in 1 .. l) /\ (i \in 1 .. l => a[i] = msgs[i])
  BY <1>1
<1>4. \A i \in 1 .. l + 1 : IsVideo(a[i]) => /\ a[i].pts \in fed + 1 .. Len(pics)
                                             /\ a[i] = VideoOf(e, a[i].pts, pics)
  BY <1>2, <1>3
<1>5. \A i \in 1 .. l + 1, j \in 1 .. l + 1 :
            i < j /\ IsVideo(a[i]) /\ IsVideo(a[j]) => a[i].pts < a[j].pts
  BY <1>2, <1>3
<1>6. \A n \in fed + 1 .. Len(pics) : \E i \in 1 .. l + 1 : IsVideo(a[i]) /\ a[i].pts = n
  <2> TAKE n \in fed + 1 .. Len(pics)
  <2>1. PICK i \in 1 .. l : IsVideo(msgs[i]) /\ msgs[i].pts = n
    BY <1>2
  <2>2. i \in 1 .. l + 1
    BY <1>1
  <2> QED BY <1>1, <2>1, <2>2
<1> QED BY <1>1, <1>2, <1>4, <1>5, <1>6 DEF Numbered, a

\* A picture that is sent is the last on its way.
LEMMA NumberedSend ==
    ASSUME NEW e, NEW msgs, msgs \in Seq(HostMessages),
           NEW fed, NEW pics, pics \in Seq(Pictures), Numbered(e, msgs, fed, pics),
           NEW nals, nals \in Pictures, NEW next, next = Append(pics, nals),
           NEW m, m \in HostMessages, m = VideoOf(e, Len(pics) + 1, next)
    PROVE  Numbered(e, Append(msgs, m), fed, next)
<1> DEFINE l == Len(msgs)
           a == Append(msgs, m)
           p == Len(pics)
<1>1. /\ l \in Nat /\ Len(a) = l + 1 /\ a[l + 1] = m
      /\ \A i \in 1 .. l : a[i] = msgs[i]
  BY AppendAt
<1>2. /\ p \in Nat /\ Len(next) = p + 1
      /\ \A i \in 1 .. p : next[i] = pics[i]
  BY AppendAt
<1>3. /\ fed \in 0 .. p
      /\ \A i \in 1 .. l :
            IsVideo(msgs[i]) => /\ msgs[i].pts \in fed + 1 .. p
                                /\ msgs[i] = VideoOf(e, msgs[i].pts, pics)
      /\ \A i \in 1 .. l, j \in 1 .. l :
            i < j /\ IsVideo(msgs[i]) /\ IsVideo(msgs[j]) => msgs[i].pts < msgs[j].pts
      /\ \A n \in fed + 1 .. p :
            \E i \in 1 .. l : IsVideo(msgs[i]) /\ msgs[i].pts = n
  BY DEF Numbered
<1>4. IsVideo(m) /\ m.pts = p + 1 /\ m = VideoOf(e, m.pts, next)
  BY DEF VideoOf, IsVideo
<1> HIDE DEF l, a, p
<1>5. \A n \in 1 .. p : VideoOf(e, n, pics) = VideoOf(e, n, next)
  BY <1>2 DEF VideoOf
<1>6. \A i \in 1 .. l : a[i] = msgs[i] /\ (IsVideo(a[i]) => a[i].pts \in fed + 1 .. p /\ a[i].pts \in 1 .. p)
  BY <1>1, <1>2, <1>3
<1>7. \A i \in 1 .. l + 1 : IsVideo(a[i]) => /\ a[i].pts \in fed + 1 .. p + 1
                                             /\ a[i] = VideoOf(e, a[i].pts, next)
  <2> TAKE i \in 1 .. l + 1
  <2> SUFFICES ASSUME IsVideo(a[i])
               PROVE  a[i].pts \in fed + 1 .. p + 1 /\ a[i] = VideoOf(e, a[i].pts, next)
    OBVIOUS
  <2>1. CASE i = l + 1
    <3>1. p + 1 \in fed + 1 .. p + 1
      BY <1>2, <1>3
    <3> QED BY <1>1, <1>4, <2>1, <3>1
  <2>2. CASE i # l + 1
    <3>1. i \in 1 .. l
      BY <1>1, <2>2
    <3>2. a[i].pts \in fed + 1 .. p /\ a[i].pts \in 1 .. p /\ a[i] = VideoOf(e, a[i].pts, pics)
      BY <1>3, <1>6, <3>1
    <3>3. a[i].pts \in fed + 1 .. p + 1
      BY <1>2, <1>3, <3>2
    <3> QED BY <1>5, <3>2, <3>3
  <2> QED BY <2>1, <2>2
<1>8. \A i \in 1 .. l + 1, j \in 1 .. l + 1 :
            i < j /\ IsVideo(a[i]) /\ IsVideo(a[j]) => a[i].pts < a[j].pts
  <2> TAKE i \in 1 .. l + 1, j \in 1 .. l + 1
  <2> SUFFICES ASSUME i < j, IsVideo(a[i]), IsVideo(a[j]) PROVE a[i].pts < a[j].pts
    OBVIOUS
  <2>1. i \in 1 .. l
    BY <1>1
  <2>2. CASE j = l + 1
    <3>1. a[i].pts \in 1 .. p /\ a[j].pts = p + 1
      BY <1>1, <1>4, <1>6, <2>1, <2>2
    <3> QED BY <1>2, <3>1
  <2>3. CASE j # l + 1
    <3>1. j \in 1 .. l
      BY <1>1, <2>3
    <3> QED BY <1>3, <1>6, <2>1, <3>1
  <2> QED BY <2>2, <2>3
<1>9. \A n \in fed + 1 .. p + 1 : \E i \in 1 .. l + 1 : IsVideo(a[i]) /\ a[i].pts = n
  <2> TAKE n \in fed + 1 .. p + 1
  <2>1. CASE n = p + 1
    <3>1. l + 1 \in 1 .. l + 1
      BY <1>1
    <3> QED BY <1>1, <1>4, <2>1, <3>1
  <2>2. CASE n # p + 1
    <3>1. n \in fed + 1 .. p
      BY <1>2, <1>3, <2>2
    <3>2. PICK i \in 1 .. l : IsVideo(msgs[i]) /\ msgs[i].pts = n
      BY <1>3, <3>1
    <3>3. i \in 1 .. l + 1
      BY <1>1
    <3> QED BY <1>1, <3>2, <3>3
  <2> QED BY <2>1, <2>2
<1>10. fed \in 0 .. p + 1
  BY <1>2, <1>3
<1> QED BY <1>1, <1>2, <1>7, <1>8, <1>9, <1>10 DEF Numbered, a

-----------------------------------------------------------------------------
(***************************************************************************)
(* The inductive invariant.                                                *)
(***************************************************************************)

\* What both peers negotiate.
Result(e) == Negotiate(e.offer, e.caps)

\* A message of the phone's that its reader can rely on.
Upward == {u \in Nat \X Seq(Int) : Heard(u)}

\* The pong a ping gets with these delays.
PongAfter(d, e) == PongOf(PingAt, PingAt + d + Offset, PingAt + d + e + Offset)

\* What the decoder is called with.
Calls(e) ==
    [call : {"configure"}, size : {e.encoder.size}, csd0 : Seq(Nat)]
    \cup [call : {"decode"}, pts : Nat, keyframe : BOOLEAN, annex_b : Seq(Nat)]

\* The calls that MediaPath!PicturesIntact wants of the decoder.
ConfigureCall(e) ==
    [call |-> "configure", size |-> e.encoder.size, csd0 |-> CodecConfigToAnnexB(ConfigOf(e))]

DecodeCall(e, n, pics) ==
    [call |-> "decode", pts |-> n, keyframe |-> Idr(pics[n]), annex_b |-> AnnexB(UnitsOf(e, pics[n]))]

\* The decoder is configured with the encoder's parameter sets, then gets the
\* pictures in order.
Fed(e, cfg, made, pics) ==
    /\ made \in Seq(Calls(e))
    /\ \/ cfg = Nothing /\ made = <<>>
       \/ cfg = ConfigOf(e) /\ made # <<>> /\ made[1] = ConfigureCall(e)
    /\ \A i \in 1 .. Len(made) - 1 : made[i + 1] = DecodeCall(e, i, pics)

\* How many of the pictures the decoder has.
Taken(made) == IF made = <<>> THEN 0 ELSE Len(made) - 1

\* What the messages on their way to the phone carry.
Carries(e, state, m) ==
    /\ m.kind = "VideoConfig" => m.sps_pps = CodecConfigToAnnexB(ConfigOf(e))
    /\ m = Bye => state = "ended"

\* How far the two have come, given the messages on their way to the phone.
Stage(msgs) ==
    /\ phone = "offer" =>
          /\ host \in {"offer", "reply"} /\ up = <<>> /\ phoneAgreed = Nothing
          /\ msgs = IF host = "offer" THEN <<>> ELSE <<env.offer>>
    /\ phone # "offer" => phoneAgreed = Result(env) /\ host # "offer"
    /\ phone = "loop" => Agreed(Result(env))
    /\ phone = "ended" /\ Agreed(Result(env)) => host = "ended"
    /\ host \in {"offer", "reply"} => hostAgreed = Nothing
    /\ host \notin {"offer", "reply"} =>
          hostAgreed = Result(env) /\ Agreed(Result(env)) /\ phone # "offer"
    /\ host = "reply" /\ phone # "offer" => msgs = <<>>
    /\ host = "reply" /\ phone = "loop" => up = <<ToTagPayload(ReplyOf(env.caps))>>
    /\ host = "reply" /\ phone = "ended" => up = <<>>
    /\ host = "ping" => phone = "loop" /\ up = <<>> /\ msgs = <<>>
    /\ host = "pong" =>
          /\ phone = "loop"
          /\ \/ msgs = <<Ping>> /\ up = <<>>
             \/ msgs = <<>> /\ \E d \in env.delays, e \in env.delays :
                                  up = <<ToTagPayload(PongAfter(d, e))>>
    /\ host \in {"offer", "reply", "ping", "pong"} =>
          /\ sent = <<>> /\ calls = <<>> /\ offset = Nothing
          /\ config = Nothing /\ hostConfig = Nothing /\ seenKeyframe = FALSE

\* What the host has of its encoder.
Encoding ==
    /\ sent \in Seq(Pictures) /\ seenKeyframe \in BOOLEAN
    /\ seenKeyframe => sent # <<>>
    /\ sent # <<>> => Idr(sent[1])
    /\ hostConfig \in {Nothing, ConfigOf(env)}

\* Where the two sessions are, and what is between them.
Shape ==
    /\ env \in Environments /\ session \in 1 .. env.sessions
    /\ host \in {"offer", "reply", "ping", "pong", "stream", "ended"}
    /\ phone \in {"offer", "loop", "ended"}
    /\ buffer = <<>> /\ Len(rbuf) <= Chunk /\ Bounded(usb)
    /\ up \in Seq(Upward)

\* Everything the messages on their way have to agree with.
InStep(msgs) ==
    /\ Wire(frame, rbuf, usb, msgs)
    /\ Stage(msgs)
    /\ Numbered(env, msgs, Taken(calls), sent)
    /\ \A i \in 1 .. Len(msgs) : Carries(env, host, msgs[i])

\* An estimate is off by half the round trip at most, give or take the half
\* microsecond of the division, and so is what is fused with it: at any time, for
\* any interval.
Bounds(off) ==
    /\ 2 * Distance(off.us, Offset) <= off.rtt + 1
    /\ \A at \in Nat, took \in Nat :
          2 * Distance(Fused(at, at + took + Offset, off), took) <= off.rtt + 1

\* What the host knows of the phone's clock, if it knows anything.
FusionBound == offset # Nothing => Bounds(offset)

\* The inductive invariant: some messages are on their way to the phone that agree
\* with all the two sessions have.
MediaInv ==
    /\ Shape
    /\ Encoding
    /\ FusionBound
    /\ Fed(env, config, calls, sent)
    /\ \E msgs : InStep(msgs)

\* Init
LEMMA Fresh ==
    ASSUME NEW e, NEW state
    PROVE  /\ Wire(NewFrame, <<>>, <<>>, <<>>) /\ Bounded(<<>>)
           /\ Numbered(e, <<>>, Taken(<<>>), <<>>)
           /\ Fed(e, Nothing, <<>>, <<>>)
           /\ \A i \in 1 .. Len(<<>>) : Carries(e, state, <<>>[i])
<1>1. Wire(NewFrame, <<>>, <<>>, <<>>)
  <2>1. WellFormed(NewFrame) /\ Begun(NewFrame) = <<>>
    BY DEF WellFormed, NewFrame, Begun, HeaderLen
  <2>2. Cat(<<>>, Pending(<<>>, <<>>)) = <<>>
    BY FlattenEmpty DEF Pending, Cat
  <2> QED BY <2>1, <2>2, StreamEmpty DEF Wire
<1>2. Numbered(e, <<>>, Taken(<<>>), <<>>)
  BY DEF Numbered, Taken
<1> QED BY <1>1, <1>2 DEF Fed, Bounded

\* It holds when the first pair of sessions starts.
LEMMA InitInv == Init => MediaInv
<1> SUFFICES ASSUME Init PROVE MediaInv
  OBVIOUS
<1> USE DEF Init
<1>1. env \in Environments /\ env.sessions \in Nat \ {0}
  BY EnvironmentsAssumption
<1>2. Shape
  <2>1. Bounded(<<>>)
    BY Fresh
  <2>2. Len(<<>>) <= Chunk /\ <<>> \in Seq(Upward)
    BY PacketsAssumption
  <2> QED BY <1>1, <2>1, <2>2 DEF Shape
<1>3. Encoding
  <2>1. <<>> \in Seq(Pictures) /\ Nothing \in {Nothing, ConfigOf(env)}
    OBVIOUS
  <2> QED BY <2>1 DEF Encoding
<1>4. FusionBound
  BY DEF FusionBound
<1>5. InStep(<<>>)
  <2>1. Stage(<<>>)
    BY DEF Stage
  <2> QED BY <2>1, Fresh DEF InStep
<1> QED BY <1>2, <1>3, <1>4, <1>5, Fresh DEF MediaInv

\* A new pair of sessions starts with nothing on its way.
LEMMA ReconnectInv == MediaInv /\ Reconnect => MediaInv'
<1> SUFFICES ASSUME MediaInv, Reconnect PROVE MediaInv'
  OBVIOUS
<1> USE DEF Reconnect
<1>1. env \in Environments /\ env.sessions \in Nat \ {0} /\ session \in 1 .. env.sessions
  BY EnvironmentsAssumption DEF MediaInv, Shape
<1>2. Shape'
  <2>1. Bounded(<<>>)
    BY Fresh
  <2>2. Len(<<>>) <= Chunk /\ <<>> \in Seq(Upward)
    BY PacketsAssumption
  <2>3. session + 1 \in 1 .. env.sessions
    BY <1>1
  <2> QED BY <1>1, <2>1, <2>2, <2>3 DEF Shape
<1>3. Encoding'
  <2>1. <<>> \in Seq(Pictures) /\ Nothing \in {Nothing, ConfigOf(env')}
    OBVIOUS
  <2> QED BY <2>1 DEF Encoding
<1>4. FusionBound'
  BY DEF FusionBound
<1>5. InStep(<<>>)'
  <2>1. Stage(<<>>)'
    BY DEF Stage
  <2>2. /\ Wire(NewFrame, <<>>, <<>>, <<>>)
        /\ Numbered(env', <<>>, Taken(<<>>), <<>>)
        /\ \A i \in 1 .. Len(<<>>) : Carries(env', host', <<>>[i])
    BY Fresh
  <2> QED BY <2>1, <2>2 DEF InStep
<1>6. Fed(env', config', calls', sent')
  BY Fresh
<1> QED BY <1>2, <1>3, <1>4, <1>5, <1>6 DEF MediaInv

-----------------------------------------------------------------------------
(***************************************************************************)
(* The steps of the host.                                                  *)
(***************************************************************************)

\* A sequence of one.
LEMMA Singleton ==
    ASSUME NEW T, NEW x, x \in T
    PROVE  Append(<<>>, x) = <<x>> /\ <<x>> \in Seq(T)
OBVIOUS

\* One message more that carries what it should.
LEMMA CarriesMore ==
    ASSUME NEW e, NEW msgs, msgs \in Seq(HostMessages), NEW m, m \in HostMessages,
           NEW before, NEW after, before = "ended" => after = "ended",
           \A i \in 1 .. Len(msgs) : Carries(e, before, msgs[i]), Carries(e, after, m)
    PROVE  \A i \in 1 .. Len(Append(msgs, m)) : Carries(e, after, Append(msgs, m)[i])
<1> DEFINE l == Len(msgs)
           a == Append(msgs, m)
<1>1. /\ l \in Nat /\ Len(a) = l + 1 /\ a[l + 1] = m
      /\ \A i \in 1 .. l : a[i] = msgs[i]
  BY AppendAt
<1> HIDE DEF l, a
<1>2. \A i \in 1 .. l : Carries(e, after, msgs[i])
  BY DEF Carries, l
<1>3. \A i \in 1 .. l + 1 : i \in 1 .. l \/ i = l + 1
  BY <1>1
<1>4. \A i \in 1 .. l + 1 : Carries(e, after, a[i])
  BY <1>1, <1>2, <1>3
<1> QED BY <1>1, <1>4 DEF a

\* The host sends its offer: the phone is at the offer and has nothing else.
LEMMA SendOfferInv == MediaInv /\ SendOffer => MediaInv'
<1> SUFFICES ASSUME MediaInv, SendOffer PROVE MediaInv'
  OBVIOUS
<1> USE DEF SendOffer, hostVars, pipeVars, readVars, phoneVars
<1>1. PICK msgs : InStep(msgs)
  BY DEF MediaInv
<1>2. Shape /\ Encoding /\ FusionBound /\ Fed(env, config, calls, sent)
  BY DEF MediaInv
<1>3. Wire(frame, rbuf, usb, msgs) /\ msgs \in Seq(HostMessages)
  BY <1>1 DEF InStep, Wire
<1>4. env.offer \in Offers /\ env.offer \in HostMessages
  BY <1>2, EnvironmentsAssumption DEF Shape, HostMessages
<1>5. phone = "offer" /\ msgs = <<>>
  BY <1>1, <1>2 DEF InStep, Stage, Shape
<1>6. PICK next : next = Append(msgs, env.offer)
  OBVIOUS
<1>7. Wire(frame, rbuf, usb', next) /\ Bounded(usb') /\ buffer' = <<>>
  BY <1>6, <1>2, <1>3, <1>4, WrittenOne DEF Shape
<1>8. next = <<env.offer>>
  BY <1>6, <1>4, <1>5, Singleton
<1>9. ~IsVideo(env.offer) /\ Carries(env, "reply", env.offer)
  BY <1>4 DEF Offers, Carries, IsVideo, Bye
<1>10. Numbered(env, next, Taken(calls), sent)
  BY <1>1, <1>2, <1>3, <1>4, <1>9, <1>6, NumberedSkip DEF InStep, Encoding
<1>11. \A i \in 1 .. Len(next) : Carries(env, "reply", next[i])
  BY <1>1, <1>3, <1>4, <1>9, <1>6, CarriesMore DEF InStep
<1>12. Stage(next)'
  BY <1>1, <1>2, <1>5, <1>8 DEF InStep, Stage, Shape
<1>13. Shape'
  BY <1>2, <1>7 DEF Shape
<1>14. Encoding'
  BY <1>2 DEF Encoding
<1>15. FusionBound'
  BY <1>2 DEF FusionBound
<1>16. InStep(next)'
  BY <1>7, <1>10, <1>11, <1>12 DEF InStep
<1> QED BY <1>2, <1>13, <1>14, <1>15, <1>16 DEF MediaInv

\* The reply makes both peers negotiate from the same offer and the same caps.
LEMMA ReplyRead ==
    ASSUME NEW e, e \in Environments
    PROVE  /\ ToTagPayload(ReplyOf(e.caps)) \in Upward
           /\ Decode(ToTagPayload(ReplyOf(e.caps))[1], ToTagPayload(ReplyOf(e.caps))[2]) = ReplyOf(e.caps)
           /\ Negotiate(e.offer, CapsOf(ReplyOf(e.caps))) = Result(e)
           /\ Result(e) # Nothing
<1>1. e.caps \in ClientCaps /\ e.offer \in Offers
  BY EnvironmentsAssumption
<1>2. Heard(ToTagPayload(ReplyOf(e.caps))) /\ CapsOf(ReplyOf(e.caps)) = e.caps
      /\ Decode(ToTagPayload(ReplyOf(e.caps))[1], ToTagPayload(ReplyOf(e.caps))[2]) = ReplyOf(e.caps)
  BY <1>1, ReplyHeard
<1>3. ReplyOf(e.caps) \in Offers
  BY <1>1 DEF ReplyOf, ClientCaps, Offers
<1> DEFINE u == ToTagPayload(ReplyOf(e.caps))
<1>4. u[1] = 1 /\ u[2] \in Seq(Nat)
  BY <1>3, DecodesHandshake
<1>5. u = <<u[1], u[2]>>
  BY DEF ToTagPayload
<1> HIDE DEF u
<1>6. u[2] \in Seq(Int)
  BY <1>4
<1>7. u \in Nat \X Seq(Int)
  BY <1>4, <1>5, <1>6
<1>8. Negotiate(e.offer, e.caps) # Nothing
  BY <1>1, NegotiateServes
<1> QED BY <1>2, <1>7, <1>8 DEF Upward, Result, u

\* The host reads the reply and negotiates what the phone has.
LEMMA ReadReplyInv == MediaInv /\ ReadReply => MediaInv'
<1> SUFFICES ASSUME MediaInv, ReadReply PROVE MediaInv'
  OBVIOUS
<1>1. PICK msgs : InStep(msgs)
  BY DEF MediaInv
<1>2. Shape /\ Encoding /\ FusionBound /\ Fed(env, config, calls, sent)
  BY DEF MediaInv
<1>3. /\ UNCHANGED <<env, session, offset, hostConfig, seenKeyframe, sent, pipeVars,
                   readVars, phoneVars>>
      /\ host = "reply" /\ up # <<>> /\ up' = Tail(up)
  BY DEF ReadReply
<1>4. phone = "loop" /\ up = <<ToTagPayload(ReplyOf(env.caps))>> /\ msgs = <<>>
  BY <1>1, <1>2, <1>3 DEF InStep, Stage, Shape
<1>5. hostAgreed' = Result(env)
  <2>1. Head(up) = ToTagPayload(ReplyOf(env.caps))
    BY <1>4
  <2> QED BY <1>2, <2>1, ReplyRead DEF ReadReply, Shape
<1>6. Agreed(Result(env)) /\ host' = "ping" /\ phoneAgreed = Result(env) /\ up' = <<>>
  <2>1. Agreed(Result(env)) /\ phoneAgreed = Result(env)
    BY <1>1, <1>4 DEF InStep, Stage
  <2>2. up' = <<>>
    BY <1>3, <1>4
  <2> QED BY <1>5, <2>1, <2>2 DEF ReadReply
<1> USE DEF hostVars, pipeVars, readVars, phoneVars
<1>7. Stage(msgs)'
  BY <1>1, <1>3, <1>4, <1>5, <1>6 DEF InStep, Stage
<1>8. Shape'
  BY <1>2, <1>3, <1>6 DEF Shape
<1>9. Encoding'
  BY <1>2, <1>3 DEF Encoding
<1>10. FusionBound'
  BY <1>2, <1>3 DEF FusionBound
<1>11. InStep(msgs)'
  <2>1. \A i \in 1 .. Len(msgs) : Carries(env', host', msgs[i])
    BY <1>1, <1>3 DEF InStep, Carries
  <2> QED BY <1>1, <1>3, <1>7, <2>1 DEF InStep
<1> QED BY <1>2, <1>3, <1>8, <1>9, <1>10, <1>11 DEF MediaInv

\* The host pings with nothing else on its way.
LEMMA SendPingInv == MediaInv /\ SendPing => MediaInv'
<1> SUFFICES ASSUME MediaInv, SendPing PROVE MediaInv'
  OBVIOUS
<1> USE DEF SendPing, hostVars, pipeVars, readVars, phoneVars
<1>1. PICK msgs : InStep(msgs)
  BY DEF MediaInv
<1>2. Shape /\ Encoding /\ FusionBound /\ Fed(env, config, calls, sent)
  BY DEF MediaInv
<1>3. Wire(frame, rbuf, usb, msgs) /\ msgs \in Seq(HostMessages)
  BY <1>1 DEF InStep, Wire
<1>4. Ping \in HostMessages /\ WriteFlushed(WriteFrame(Ping))
  BY DEF HostMessages, Ping
<1>5. phone = "loop" /\ msgs = <<>> /\ up = <<>>
  BY <1>1, <1>2 DEF InStep, Stage, Shape
<1>6. PICK next : next = Append(msgs, Ping)
  OBVIOUS
<1>7. Wire(frame, rbuf, usb', next) /\ Bounded(usb') /\ buffer' = <<>>
  BY <1>6, <1>2, <1>3, <1>4, WrittenOne DEF Shape
<1>8. next = <<Ping>>
  BY <1>6, <1>4, <1>5, Singleton
<1>9. ~IsVideo(Ping) /\ Carries(env, "pong", Ping)
  BY DEF Ping, Carries, IsVideo, Bye
<1>10. Numbered(env, next, Taken(calls), sent)
  BY <1>1, <1>2, <1>3, <1>4, <1>9, <1>6, NumberedSkip DEF InStep, Encoding
<1>11. \A i \in 1 .. Len(next) : Carries(env, "pong", next[i])
  BY <1>1, <1>3, <1>4, <1>9, <1>6, CarriesMore DEF InStep
<1>12. Stage(next)'
  BY <1>1, <1>2, <1>5, <1>8 DEF InStep, Stage, Shape
<1>13. Shape'
  BY <1>2, <1>7 DEF Shape
<1>14. Encoding'
  BY <1>2 DEF Encoding
<1>15. FusionBound'
  BY <1>2 DEF FusionBound
<1>16. InStep(next)'
  BY <1>7, <1>10, <1>11, <1>12 DEF InStep
<1> QED BY <1>2, <1>13, <1>14, <1>15, <1>16 DEF MediaInv

\* Without a pong in time the stream starts with no offset.
LEMMA SyncTimeoutInv == MediaInv /\ SyncTimeout => MediaInv'
<1> SUFFICES ASSUME MediaInv, SyncTimeout PROVE MediaInv'
  OBVIOUS
<1> USE DEF SyncTimeout, pipeVars, readVars, phoneVars
<1>1. PICK msgs : InStep(msgs)
  BY DEF MediaInv
<1>2. Shape /\ Encoding /\ FusionBound /\ Fed(env, config, calls, sent)
  BY DEF MediaInv
<1>3. Stage(msgs)'
  BY <1>1 DEF InStep, Stage
<1>4. Shape'
  BY <1>2 DEF Shape
<1>5. Encoding'
  BY <1>2 DEF Encoding
<1>6. FusionBound'
  BY <1>2 DEF FusionBound
<1>7. InStep(msgs)'
  <2>1. \A i \in 1 .. Len(msgs) : Carries(env', host', msgs[i])
    BY <1>1 DEF InStep, Carries
  <2> QED BY <1>1, <1>3, <2>1 DEF InStep
<1> QED BY <1>2, <1>4, <1>5, <1>6, <1>7 DEF MediaInv

\* An idle probe or a goodbye changes nothing of the pictures; only the goodbye
\* lets the phone end.
LEMMA SendControlInv == MediaInv /\ SendControl => MediaInv'
<1> SUFFICES ASSUME MediaInv, SendControl PROVE MediaInv'
  OBVIOUS
<1> USE DEF pipeVars, readVars, phoneVars
<1>1. PICK msgs : InStep(msgs)
  BY DEF MediaInv
<1>2. Shape /\ Encoding /\ FusionBound /\ Fed(env, config, calls, sent)
  BY DEF MediaInv
<1>3. Wire(frame, rbuf, usb, msgs) /\ msgs \in Seq(HostMessages)
  BY <1>1 DEF InStep, Wire
<1>4. PICK m \in {Heartbeat, Bye} :
         /\ WriteFlushed(WriteFrame(m))
         /\ host = "stream" /\ host' \in {"stream", "ended"} /\ (m = Bye => host' = "ended")
         /\ UNCHANGED <<env, session, hostAgreed, offset, hostConfig, seenKeyframe, sent,
                        up, readVars, phoneVars>>
  BY DEF SendControl, Heartbeat, Bye
<1>5. m \in HostMessages
  BY DEF HostMessages
<1>6. PICK next : next = Append(msgs, m)
  OBVIOUS
<1>7. Wire(frame, rbuf, usb', next) /\ Bounded(usb') /\ buffer' = <<>>
  BY <1>6, <1>2, <1>3, <1>4, <1>5, WrittenOne DEF Shape
<1>8. ~IsVideo(m) /\ m.kind # "VideoConfig"
  BY DEF Heartbeat, Bye, IsVideo
<1>9. Carries(env, host', m)
  BY <1>4, <1>8 DEF Carries
<1>10. Numbered(env, next, Taken(calls), sent)
  BY <1>1, <1>2, <1>3, <1>5, <1>8, <1>6, NumberedSkip DEF InStep, Encoding
<1>11. \A i \in 1 .. Len(next) : Carries(env, host', next[i])
  BY <1>1, <1>3, <1>4, <1>5, <1>9, <1>6, CarriesMore DEF InStep
<1>12. Stage(next)'
  BY <1>1, <1>2, <1>4 DEF InStep, Stage, Shape
<1>13. Shape'
  BY <1>2, <1>4, <1>7 DEF Shape
<1>14. Encoding'
  BY <1>2, <1>4 DEF Encoding
<1>15. FusionBound'
  BY <1>2, <1>4 DEF FusionBound
<1>16. InStep(next)'
  BY <1>4, <1>7, <1>10, <1>11, <1>12 DEF InStep
<1> QED BY <1>2, <1>4, <1>13, <1>14, <1>15, <1>16 DEF MediaInv

\* Reports reach the host while it streams, and it decodes each.
LEMMA PhoneReportsInv == MediaInv /\ PhoneReports => MediaInv'
<1> SUFFICES ASSUME MediaInv, PhoneReports PROVE MediaInv'
  OBVIOUS
<1> USE DEF hostVars, pipeVars, readVars, phoneVars
<1>1. PICK msgs : InStep(msgs)
  BY DEF MediaInv
<1>2. Shape /\ Encoding /\ FusionBound /\ Fed(env, config, calls, sent)
  BY DEF MediaInv
<1>3. PICK f \in env.reports : up' = <<ToTagPayload(f)>>
  BY DEF PhoneReports
<1>4. phone = "loop" /\ host = "stream"
      /\ UNCHANGED <<env, session, hostVars, pipeVars, readVars, phoneVars>>
  BY DEF PhoneReports
<1>5. ToTagPayload(f) \in Upward
  <2>1. Reportable(f)
    BY <1>2, EnvironmentsAssumption DEF Shape
  <2>2. ToTagPayload(f)[1] \in Nat /\ ToTagPayload(f)[2] \in Seq(Int)
        /\ ToTagPayload(f) = <<ToTagPayload(f)[1], ToTagPayload(f)[2]>>
    BY <2>1, Tags DEF Reportable, ToTagPayload
  <2>3. Heard(ToTagPayload(f))
    BY <2>1, ReportHeard
  <2> DEFINE u == ToTagPayload(f)
  <2> HIDE DEF u
  <2>4. u \in Nat \X Seq(Int)
    BY <2>2 DEF u
  <2> QED BY <2>3, <2>4 DEF Upward, u
<1>6. up' \in Seq(Upward)
  BY <1>3, <1>5, Singleton
<1>7. Stage(msgs)'
  BY <1>1, <1>4 DEF InStep, Stage
<1>8. Shape'
  BY <1>2, <1>4, <1>6 DEF Shape
<1>9. Encoding'
  BY <1>2, <1>4 DEF Encoding
<1>10. FusionBound'
  BY <1>2, <1>4 DEF FusionBound
<1>11. InStep(msgs)'
  BY <1>1, <1>4, <1>7 DEF InStep
<1> QED BY <1>2, <1>4, <1>8, <1>9, <1>10, <1>11 DEF MediaInv

\* A negative number counts as zero.
LEMMA MaxOfZero ==
    ASSUME NEW n \in Int
    PROVE  Max({0, n}) = IF n < 0 THEN 0 ELSE n
<1>1. \A x : x \in {0, n} /\ (\A y \in {0, n} : x >= y) => x = IF n < 0 THEN 0 ELSE n
  OBVIOUS
<1>2. \E x \in {0, n} : \A y \in {0, n} : x >= y
  OBVIOUS
<1> QED BY <1>1, <1>2 DEF Max

\* Rust's halving is off by one at most.
LEMMA HalveBound ==
    ASSUME NEW n \in Int
    PROVE  Halve(n) \in Int /\ 2 * Halve(n) \in n - 1 .. n + 1
BY DEF Halve

\* estimate (clock.rs): the offset is off by at most half the round trip, whatever
\* the delays of the two ways, and so is every interval fused with it.
LEMMA EstimateBound ==
    ASSUME NEW d \in Nat, NEW e \in Nat, NEW delay \in Nat,
           NEW t1, t1 = PingAt + d + Offset, NEW t2, t2 = PingAt + d + e + Offset,
           NEW off, off = Estimate(PingAt, t1, t2, t2 - Offset + delay)
    PROVE  off # Nothing /\ Bounds(off)
<1>1. Offset \in Int /\ PingAt = 0
  BY PacketsAssumption DEF PingAt
<1> DEFINE n == 2 * Offset + d - delay
           us == Halve(n)
           rtt == d + delay
<1>2. (t1 - PingAt) + (t2 - (t2 - Offset + delay)) = n
      /\ ((t2 - Offset + delay) - PingAt) - (t2 - t1) = rtt
  BY <1>1
<1>3. Max({0, rtt}) = rtt
  BY MaxOfZero
<1>4. off = [us |-> us, rtt |-> rtt]
  BY <1>2, <1>3 DEF Estimate
<1>5. us \in Int /\ 2 * us \in n - 1 .. n + 1
  <2>1. n \in Int
    BY <1>1
  <2> HIDE DEF n
  <2> QED BY <2>1, HalveBound
<1> HIDE DEF us
<1>6. off.us = us /\ off.rtt = rtt /\ off # Nothing
  BY <1>4 DEF Nothing
<1>7. 2 * (us - Offset) <= rtt + 1 /\ 2 * (Offset - us) <= rtt + 1
  BY <1>1, <1>5
<1>8. 2 * Distance(us, Offset) <= rtt + 1
  BY <1>1, <1>5, <1>7 DEF Distance
<1>9. ASSUME NEW at \in Nat, NEW took \in Nat
      PROVE  2 * Distance(Fused(at, at + took + Offset, off), took) <= rtt + 1
  <2> DEFINE f == took + Offset - us
             g == Fused(at, at + took + Offset, off)
  <2>1. f \in Int /\ ((at + took + Offset) - us) - at = f
    BY <1>1, <1>5
  <2> HIDE DEF f, g
  <2>2. g = IF f < 0 THEN 0 ELSE f
    <3>1. g = Max({0, f})
      BY <1>6, <2>1 DEF Fused, g
    <3> QED BY <2>1, <3>1, MaxOfZero
  <2>3. 2 * (g - took) <= rtt + 1 /\ 2 * (took - g) <= rtt + 1 /\ g \in Int
    <3>1. CASE f < 0
      BY <1>1, <1>5, <1>7, <2>1, <2>2, <3>1 DEF f
    <3>2. CASE ~(f < 0)
      BY <1>1, <1>5, <1>7, <2>1, <2>2, <3>2 DEF f
    <3> QED BY <3>1, <3>2
  <2> QED BY <2>3 DEF Distance, g
<1> QED BY <1>6, <1>8, <1>9 DEF Bounds

\* The pong to a ping with some delays, as the host reads it.
LEMMA PongRead ==
    ASSUME NEW d \in Nat, NEW e \in Nat
    PROVE  /\ ToTagPayload(PongAfter(d, e)) \in Upward
           /\ Decode(ToTagPayload(PongAfter(d, e))[1], ToTagPayload(PongAfter(d, e))[2]) = PongAfter(d, e)
           /\ PongAfter(d, e).kind = "ClockPong"
           /\ PongAfter(d, e).fields[2] = PingAt + d + Offset
           /\ PongAfter(d, e).fields[3] = PingAt + d + e + Offset
<1> DEFINE a == PingAt + d + Offset
           b == PingAt + d + e + Offset
           u == ToTagPayload(PongOf(PingAt, a, b))
<1>1. PingAt \in Int /\ a \in Int /\ b \in Int
  BY PacketsAssumption DEF PingAt
<1> HIDE DEF a, b
<1>2. Heard(u) /\ Decode(u[1], u[2]) = PongOf(PingAt, a, b)
  BY <1>1, PongHeard
<1>3. u[1] = 7 /\ u[2] = <<PingAt, a, b>> /\ u = <<u[1], u[2]>>
  BY Tags DEF ToTagPayload, PongOf
<1>4. <<PingAt, a, b>> \in Seq(Int)
  BY <1>1
<1> HIDE DEF u
<1>5. u \in Nat \X Seq(Int)
  <2>1. u = <<u[1], u[2]>> /\ u[1] \in Nat /\ u[2] \in Seq(Int)
    BY <1>3, <1>4
  <2> QED BY ONLY <2>1
<1>6. PongAfter(d, e) = PongOf(PingAt, a, b)
  BY DEF PongAfter, a, b
<1>7. u \in Upward
  BY <1>2, <1>5 DEF Upward
<1> QED BY <1>2, <1>6, <1>7 DEF PongOf, u, a, b

\* The pong ends the clock exchange within its bound; other messages change nothing.
LEMMA ReadsInv == MediaInv /\ Reads => MediaInv'
<1> SUFFICES ASSUME MediaInv, Reads PROVE MediaInv'
  OBVIOUS
<1> USE DEF hostVars, pipeVars, readVars, phoneVars
<1>1. PICK msgs : InStep(msgs)
  BY DEF MediaInv
<1>2. Shape /\ Encoding /\ FusionBound /\ Fed(env, config, calls, sent)
  BY DEF MediaInv
<1>3. /\ UNCHANGED <<env, session, hostAgreed, hostConfig, seenKeyframe, sent, pipeVars,
                     readVars, phoneVars>>
      /\ host \in {"pong", "stream"} /\ up # <<>> /\ up' = Tail(up)
  BY DEF Reads
<1>4. up' \in Seq(Upward)
  BY <1>2, <1>3, TailAt DEF Shape
<1>5. host' = "stream" /\ FusionBound'
  <2> DEFINE got == Decode(Head(up)[1], Head(up)[2])
  <2>1. CASE host = "stream"
    <3>1. UNCHANGED <<offset, host>>
      BY <2>1 DEF Reads
    <3> QED BY <1>2, <2>1, <3>1 DEF FusionBound
  <2>2. CASE host = "pong"
    <3>1. PICK d \in env.delays, e \in env.delays : up = <<ToTagPayload(PongAfter(d, e))>>
      BY <1>1, <1>3, <2>2 DEF InStep, Stage
    <3>2. env.delays \subseteq Nat
      BY <1>2, EnvironmentsAssumption DEF Shape
    <3>3. Head(up) = ToTagPayload(PongAfter(d, e))
      BY <3>1
    <3>4. got = PongAfter(d, e) /\ got.kind = "ClockPong"
          /\ got.fields[2] = PingAt + d + Offset /\ got.fields[3] = PingAt + d + e + Offset
      <4>1. d \in Nat /\ e \in Nat
        BY <3>2
      <4>2. /\ Decode(ToTagPayload(PongAfter(d, e))[1], ToTagPayload(PongAfter(d, e))[2])
                 = PongAfter(d, e)
            /\ PongAfter(d, e).kind = "ClockPong"
            /\ PongAfter(d, e).fields[2] = PingAt + d + Offset
            /\ PongAfter(d, e).fields[3] = PingAt + d + e + Offset
        BY ONLY <4>1, PongRead
      <4>3. got = PongAfter(d, e)
        BY ONLY <3>3, <4>2
      <4> HIDE DEF got
      <4> QED BY ONLY <4>2, <4>3
    <3>5. host' = "stream" /\ \E delay \in env.delays :
                    offset' = Estimate(PingAt, got.fields[2], got.fields[3],
                                       got.fields[3] - Offset + delay)
      BY <2>2, <3>4 DEF Reads
    <3> HIDE DEF got
    <3>6. PICK delay \in Nat :
             offset' = Estimate(PingAt, got.fields[2], got.fields[3], got.fields[3] - Offset + delay)
      BY <3>2, <3>5
    <3>7. Bounds(offset')
      <4>1. d \in Nat /\ e \in Nat
        BY <3>2
      <4>2. PICK off : off = offset'
        OBVIOUS
      <4> QED BY ONLY <3>4, <3>6, <4>1, <4>2, EstimateBound
    <3> QED BY <3>5, <3>7 DEF FusionBound
  <2> QED BY <1>3, <2>1, <2>2
<1>6. Stage(msgs)'
  BY <1>1, <1>2, <1>3, <1>5 DEF InStep, Stage, Shape
<1>7. Shape'
  BY <1>2, <1>3, <1>4, <1>5 DEF Shape
<1>8. Encoding'
  BY <1>2, <1>3 DEF Encoding
<1>9. InStep(msgs)'
  <2>1. \A i \in 1 .. Len(msgs) : Carries(env', host', msgs[i])
    BY <1>1, <1>3, <1>5 DEF InStep, Carries
  <2> QED BY <1>1, <1>3, <1>6, <2>1 DEF InStep
<1> QED BY <1>2, <1>3, <1>5, <1>7, <1>8, <1>9 DEF MediaInv

\* What the encoder's conversion makes of a picture, and what the phone's does
\* of the message with it.
LEMMA Conversions ==
    ASSUME env \in Environments, NEW nals, nals \in Pictures
    PROVE  /\ EncodedFrame(nals) = [pts |-> Len(sent) + 1, keyframe |-> Idr(nals),
                                    annex_b |-> AnnexB(UnitsOf(env, nals))]
           /\ AnnexB(UnitsOf(env, nals)) \in Seq(Nat) /\ AnnexB(UnitsOf(env, nals)) # <<>>
           /\ NalUnits(AnnexB(UnitsOf(env, nals))) = UnitsOf(env, nals)
           /\ IsKeyframe(AnnexB(UnitsOf(env, nals))) = Idr(nals)
           /\ Idr(nals) => ExtractCodecConfig(AnnexB(UnitsOf(env, nals))) = ConfigOf(env)
           /\ ToAnnexBAccessUnit(AnnexB(UnitsOf(env, nals)), Idr(nals), ConfigOf(env))
                 = AnnexB(UnitsOf(env, nals))
<1>1. Picture(nals)
  BY PicturesAre
<1>2. Described(nals) = UnitsOf(env, nals) /\ Config = ConfigOf(env)
  BY DEF Described, UnitsOf, Config, ConfigOf, Params
<1> QED BY <1>1, <1>2, EncodedIs, HandedOn, DescribedUnits

\* What the host sends as the configuration, the phone configures its decoder with.
LEMMA ConfigSent ==
    ASSUME env \in Environments
    PROVE  /\ CodecConfigToAnnexB(ConfigOf(env)) \in Seq(Nat)
           /\ ExtractCodecConfig(CodecConfigToAnnexB(ConfigOf(env))) = ConfigOf(env)
           /\ NalUnits(CodecConfigToAnnexB(ConfigOf(env))) = Params
           /\ ConfigOf(env) # Nothing
           /\ Configure(ConfigOf(env)) = ConfigureCall(env)
<1>1. Config = ConfigOf(env)
  BY DEF Config, ConfigOf
<1> QED BY <1>1, ConfigExtracted, ParamsLed DEF Configure, ConfigureCall

\* The decoder is configured before it has any picture.
LEMMA FedStart ==
    ASSUME NEW e, NEW pics, CodecConfigToAnnexB(ConfigOf(e)) \in Seq(Nat)
    PROVE  /\ Fed(e, ConfigOf(e), <<ConfigureCall(e)>>, pics)
           /\ Taken(<<ConfigureCall(e)>>) = Taken(<<>>)
<1> DEFINE c == ConfigureCall(e)
           s == <<c>>
           T == Calls(e)
<1>1. c \in T
  BY DEF Calls, ConfigureCall
<1> HIDE DEF c, T
<1>2. s \in Seq(T) /\ s # <<>> /\ s[1] = c /\ Len(s) = 1
  BY <1>1
<1> HIDE DEF s
<1>3. \A i \in 1 .. Len(s) - 1 : s[i + 1] = DecodeCall(e, i, pics)
  BY <1>2
<1>4. Fed(e, ConfigOf(e), s, pics)
  BY <1>2, <1>3 DEF Fed, c, T
<1>5. Taken(s) = Taken(<<>>)
  BY <1>2 DEF Taken
<1> QED BY <1>4, <1>5 DEF s, c

\* The next picture that is fed is the next in order.
LEMMA FedNext ==
    ASSUME NEW e, NEW pics, NEW made, NEW cfg, Fed(e, cfg, made, pics), made # <<>>,
           AnnexB(UnitsOf(e, pics[Len(made)])) \in Seq(Nat)
    PROVE  /\ Fed(e, cfg, Append(made, DecodeCall(e, Len(made), pics)), pics)
           /\ Taken(Append(made, DecodeCall(e, Len(made), pics))) = Taken(made) + 1
<1>1. PICK next : next = Append(made, DecodeCall(e, Len(made), pics))
  OBVIOUS
<1> DEFINE l == Len(made)
           T == Calls(e)
           d == DecodeCall(e, l, pics)
<1>2. made \in Seq(T) /\ l \in Nat \ {0}
  <2> HIDE DEF T
  <2>1. made \in Seq(T)
    BY DEF Fed, T
  <2> QED BY <2>1
<1>3. d \in T
  BY <1>2, Idrs DEF Calls, DecodeCall
<1> HIDE DEF T, d
<1>4. /\ next \in Seq(T) /\ Len(next) = l + 1 /\ next[l + 1] = d
      /\ \A i \in 1 .. l : next[i] = made[i]
  <2>1. next = Append(made, d)
    BY <1>1 DEF d
  <2> QED BY <1>2, <1>3, <2>1, AppendAt
<1>5. \A i \in 1 .. l - 1 : made[i + 1] = DecodeCall(e, i, pics)
  BY DEF Fed
<1> HIDE DEF l
<1>6. \A i \in 1 .. Len(next) - 1 : next[i + 1] = DecodeCall(e, i, pics)
  <2> TAKE i \in 1 .. Len(next) - 1
  <2>1. CASE i = l
    BY <1>4, <2>1 DEF d
  <2>2. CASE i # l
    <3>1. i \in 1 .. l - 1 /\ i + 1 \in 1 .. l
      BY <1>2, <1>4, <2>2
    <3> QED BY <1>4, <1>5, <3>1
  <2> QED BY <2>1, <2>2
<1>7. next # <<>> /\ next[1] = made[1]
  BY <1>2, <1>4
<1>8. Fed(e, cfg, next, pics)
  BY <1>4, <1>6, <1>7 DEF Fed, T
<1>9. Taken(next) = Taken(made) + 1
  BY <1>2, <1>4, <1>7 DEF Taken, l
<1> QED BY <1>1, <1>8, <1>9

\* A picture more on the host leaves what the decoder has.
LEMMA FedMore ==
    ASSUME NEW e, NEW pics, pics \in Seq(Pictures), NEW made, NEW cfg, Fed(e, cfg, made, pics),
           Taken(made) <= Len(pics), NEW nals, nals \in Pictures
    PROVE  Fed(e, cfg, made, Append(pics, nals))
<1>1. made \in Seq(Calls(e))
  BY DEF Fed
<1>2. \A i \in 1 .. Len(made) - 1 : i \in 1 .. Len(pics)
  <2> DEFINE T == Calls(e)
  <2> HIDE DEF T
  <2>1. Len(made) \in Nat /\ (made = <<>> => Len(made) = 0) /\ Len(pics) \in Nat
    BY <1>1 DEF T
  <2> QED BY <2>1 DEF Taken
<1>3. \A i \in 1 .. Len(pics) : Append(pics, nals)[i] = pics[i]
  BY AppendAt
<1>4. \A i \in 1 .. Len(made) - 1 : DecodeCall(e, i, Append(pics, nals)) = DecodeCall(e, i, pics)
  BY <1>2, <1>3 DEF DecodeCall
<1> QED BY <1>4 DEF Fed

\* The host sends a picture, behind its configuration if it is a keyframe.
LEMMA SendPictureInv == MediaInv /\ SendPicture => MediaInv'
<1> SUFFICES ASSUME MediaInv, SendPicture PROVE MediaInv'
  OBVIOUS
<1> USE DEF pipeVars, readVars, phoneVars
<1>1. PICK msgs : InStep(msgs)
  BY DEF MediaInv
<1>2. Shape /\ Encoding /\ FusionBound /\ Fed(env, config, calls, sent)
  BY DEF MediaInv
<1>3. Wire(frame, rbuf, usb, msgs) /\ msgs \in Seq(HostMessages)
  BY <1>1 DEF InStep, Wire
<1>4. /\ host = "stream" /\ seenKeyframe' = TRUE
      /\ UNCHANGED <<env, session, host, hostAgreed, offset, up, readVars, phoneVars>>
  BY DEF SendPicture
<1>5. PICK nals \in Pictures :
          /\ seenKeyframe \/ EncodedFrame(nals).keyframe
          /\ SendEncodedFrame(EncodedFrame(nals))
          /\ sent' = Append(sent, nals)
  BY DEF SendPicture
<1>6. env \in Environments /\ sent \in Seq(Pictures)
  BY <1>2 DEF Shape, Encoding
<1> DEFINE annexB == AnnexB(UnitsOf(env, nals))
<1>7. /\ EncodedFrame(nals) = [pts |-> Len(sent) + 1, keyframe |-> Idr(nals), annex_b |-> annexB]
      /\ annexB \in Seq(Nat)
      /\ Idr(nals) => ExtractCodecConfig(annexB) = ConfigOf(env)
  BY <1>6, Conversions
<1>8. /\ sent' \in Seq(Pictures) /\ Len(sent) \in Nat /\ Len(sent') = Len(sent) + 1
      /\ sent'[Len(sent) + 1] = nals
      /\ \A i \in 1 .. Len(sent) : sent'[i] = sent[i]
  BY <1>5, <1>6, AppendAt
<1>9. PICK m : m = VideoOf(env, Len(sent) + 1, sent')
  OBVIOUS
<1>10. m = [kind |-> "Video", pts |-> Len(sent) + 1, keyframe |-> Idr(nals), nal |-> annexB]
  BY <1>8, <1>9 DEF VideoOf
<1>11. m \in HostMessages /\ m.kind = "Video"
  BY <1>7, <1>8, <1>10, Idrs DEF HostMessages
<1> HIDE DEF annexB
<1>12. /\ hostConfig' = IF hostConfig = Nothing /\ Idr(nals)
                        THEN ExtractCodecConfig(annexB) ELSE hostConfig
       /\ WriteFlushed(IF Idr(nals) /\ hostConfig' # Nothing
                       THEN WriteFrame([kind |-> "VideoConfig", codec |-> hostAgreed[4],
                                        sps_pps |-> CodecConfigToAnnexB(hostConfig')])
                            \o WriteFrame(m)
                       ELSE WriteFrame(m))
  BY <1>5, <1>7, <1>10 DEF SendEncodedFrame
<1>13. seenKeyframe \/ Idr(nals)
  BY <1>5, <1>7
<1>14. hostConfig' \in {Nothing, ConfigOf(env)} /\ (Idr(nals) => hostConfig' = ConfigOf(env))
  BY <1>2, <1>7, <1>12 DEF Encoding
<1>15. \E next : /\ Wire(frame, rbuf, usb', next) /\ Bounded(usb') /\ buffer' = <<>>
                 /\ Numbered(env, next, Taken(calls), sent')
                 /\ \A i \in 1 .. Len(next) : Carries(env, host, next[i])
  <2>1. CASE Idr(nals)
    <3>1. PICK c : c = [kind |-> "VideoConfig", codec |-> hostAgreed[4],
                        sps_pps |-> CodecConfigToAnnexB(ConfigOf(env))]
      OBVIOUS
    <3>2. hostAgreed[4] \in Nat
      <4>1. hostAgreed = Result(env) /\ Agreed(Result(env))
        BY <1>1, <1>4 DEF InStep, Stage
      <4> QED BY <1>6, <4>1, NegotiateServes, EnvironmentsAssumption DEF Result
    <3>3. c \in HostMessages /\ c.kind = "VideoConfig" /\ ~IsVideo(c)
      BY <1>6, <3>1, <3>2, ConfigSent DEF HostMessages, IsVideo
    <3>4. Carries(env, host, c) /\ Carries(env, host, m)
      BY <1>11, <3>1, <3>3 DEF Carries, Bye
    <3>5. WriteFlushed(WriteFrame(c) \o WriteFrame(m))
      BY <1>6, <1>12, <1>14, <2>1, <3>1, ConfigSent
    <3>6. PICK mid : mid = Append(msgs, c)
      OBVIOUS
    <3>7. PICK next : next = Append(mid, m)
      OBVIOUS
    <3>8. Wire(frame, rbuf, usb', next) /\ Bounded(usb') /\ buffer' = <<>>
      BY <1>2, <1>3, <1>11, <3>3, <3>5, <3>6, <3>7, WrittenTwo DEF Shape
    <3>9. mid \in Seq(HostMessages)
      BY <1>3, <3>3, <3>6
    <3>10. Numbered(env, mid, Taken(calls), sent)
      BY <1>1, <1>3, <1>6, <3>3, <3>6, NumberedSkip DEF InStep
    <3>11. Numbered(env, next, Taken(calls), sent')
      BY <1>5, <1>6, <1>9, <1>11, <3>7, <3>9, <3>10, NumberedSend
    <3>12. \A i \in 1 .. Len(mid) : Carries(env, host, mid[i])
      BY <1>1, <1>3, <3>3, <3>4, <3>6, CarriesMore DEF InStep
    <3>13. \A i \in 1 .. Len(next) : Carries(env, host, next[i])
      BY <1>11, <3>4, <3>7, <3>9, <3>12, CarriesMore
    <3> QED BY <3>8, <3>11, <3>13
  <2>2. CASE ~Idr(nals)
    <3>1. WriteFlushed(WriteFrame(m))
      BY <1>12, <2>2
    <3>2. PICK next : next = Append(msgs, m)
      OBVIOUS
    <3>3. Wire(frame, rbuf, usb', next) /\ Bounded(usb') /\ buffer' = <<>>
      BY <1>2, <1>3, <1>11, <3>1, <3>2, WrittenOne DEF Shape
    <3>4. Numbered(env, next, Taken(calls), sent')
      BY <1>1, <1>3, <1>5, <1>6, <1>9, <1>11, <3>2, NumberedSend DEF InStep
    <3>5. Carries(env, host, m)
      BY <1>11 DEF Carries, Bye
    <3>6. \A i \in 1 .. Len(next) : Carries(env, host, next[i])
      BY <1>1, <1>3, <1>11, <3>2, <3>5, CarriesMore DEF InStep
    <3> QED BY <3>3, <3>4, <3>6
  <2> QED BY <2>1, <2>2
<1>16. PICK next : /\ Wire(frame, rbuf, usb', next) /\ Bounded(usb') /\ buffer' = <<>>
                   /\ Numbered(env, next, Taken(calls), sent')
                   /\ \A i \in 1 .. Len(next) : Carries(env, host, next[i])
  BY <1>15
<1>17. Stage(next)'
  BY <1>1, <1>2, <1>4 DEF InStep, Stage, Shape
<1>18. Shape'
  BY <1>2, <1>4, <1>16 DEF Shape
<1>19. Encoding'
  <2>1. sent' # <<>> /\ Idr(sent'[1])
    <3>1. CASE sent = <<>>
      <4>1. Idr(nals) /\ Len(sent) = 0
        BY <1>2, <1>13, <3>1 DEF Encoding
      <4>2. sent'[1] = nals /\ Len(sent') = 1
        BY <1>8, <4>1
      <4> QED BY <4>1, <4>2
    <3>2. CASE sent # <<>>
      BY <1>2, <1>8, <3>2 DEF Encoding
    <3> QED BY <3>1, <3>2
  <2> QED BY <1>4, <1>8, <1>14, <2>1 DEF Encoding
<1>20. FusionBound'
  BY <1>2, <1>4 DEF FusionBound
<1>21. InStep(next)'
  BY <1>4, <1>16, <1>17 DEF InStep
<1>22. Fed(env, config, calls, sent')
  <2>1. Taken(calls) <= Len(sent)
    BY <1>1, <1>8 DEF InStep, Numbered
  <2> QED BY <1>2, <1>5, <1>6, <2>1, FedMore
<1> QED BY <1>4, <1>18, <1>19, <1>20, <1>21, <1>22 DEF MediaInv

-----------------------------------------------------------------------------
(***************************************************************************)
(* The steps of the phone.                                                 *)
(***************************************************************************)

\* The message that is taken, and those behind it, carry what they should.
LEMMA CarriesLess ==
    ASSUME NEW e, NEW msgs, msgs \in Seq(HostMessages), msgs # <<>>, NEW state,
           \A i \in 1 .. Len(msgs) : Carries(e, state, msgs[i])
    PROVE  /\ Carries(e, state, Head(msgs))
           /\ \A i \in 1 .. Len(Tail(msgs)) : Carries(e, state, Tail(msgs)[i])
<1> DEFINE l == Len(msgs)
           t == Tail(msgs)
<1>1. /\ l \in Nat \ {0} /\ Len(t) = l - 1 /\ Head(msgs) = msgs[1]
      /\ \A i \in 1 .. l - 1 : t[i] = msgs[i + 1]
  BY TailAt
<1> HIDE DEF l, t
<1>2. \A i \in 1 .. l - 1 : i + 1 \in 1 .. l
  BY <1>1
<1>3. \A i \in 1 .. l - 1 : Carries(e, state, t[i])
  BY <1>1, <1>2 DEF l
<1>4. Carries(e, state, msgs[1])
  BY <1>1 DEF l
<1> QED BY <1>1, <1>3, <1>4 DEF t

\* What the host sends is no error, and its only ping is the one of the exchange.
LEMMA HostKinds ==
    ASSUME NEW m, m \in HostMessages
    PROVE  /\ m.kind # "Error"
           /\ m.kind = "ClockPing" => m = Ping
           /\ m.kind = "Video" => ~(m = Bye)
BY DEF HostMessages, Offers, Ping, Heartbeat, Bye

\* What a step of the phone's reader does to the invariant when it completes no
\* frame.
LEMMA NothingTaken ==
    ASSUME MediaInv, UNCHANGED <<env, session, hostVars, buffer>>,
           NEW msgs, InStep(msgs), Wire(frame', rbuf', usb', msgs),
           Bounded(usb'), Len(rbuf') <= Chunk, UNCHANGED <<up, phoneVars>>
    PROVE  MediaInv'
<1> USE DEF hostVars, phoneVars
<1>1. Shape /\ Encoding /\ FusionBound /\ Fed(env, config, calls, sent)
  BY DEF MediaInv
<1>2. Shape'
  BY <1>1 DEF Shape
<1>3. Encoding'
  BY <1>1 DEF Encoding
<1>4. FusionBound'
  BY <1>1 DEF FusionBound
<1>5. Stage(msgs)'
  BY DEF InStep, Stage
<1>6. InStep(msgs)'
  BY <1>5 DEF InStep
<1> QED BY <1>1, <1>2, <1>3, <1>4, <1>6 DEF MediaInv

\* The phone takes the offer: it negotiates what the host will, and replies or ends.
LEMMA OfferTaken ==
    ASSUME MediaInv, UNCHANGED <<env, session, hostVars, buffer>>,
           NEW msgs, InStep(msgs), msgs # <<>>, Wire(frame', rbuf', usb', Tail(msgs)),
           Bounded(usb'), Len(rbuf') <= Chunk, phone = "offer", OnOffer(Head(msgs))
    PROVE  MediaInv'
<1> USE DEF hostVars
<1>1. Shape /\ Encoding /\ FusionBound /\ Fed(env, config, calls, sent)
  BY DEF MediaInv
<1>2. host = "reply" /\ up = <<>> /\ msgs = <<env.offer>>
  BY <1>1 DEF InStep, Stage, Shape
<1>3. Head(msgs) = env.offer /\ Tail(msgs) = <<>>
  BY <1>2
<1>4. env.offer.kind = "Handshake" /\ env \in Environments
  BY <1>1, EnvironmentsAssumption DEF Shape, Offers
<1>5. /\ phoneAgreed' = Result(env)
      /\ IF Agreed(Result(env))
         THEN phone' = "loop" /\ up' = Append(<<>>, ToTagPayload(ReplyOf(env.caps)))
         ELSE phone' = "ended" /\ up' = <<>>
      /\ UNCHANGED <<config, calls>>
  BY <1>2, <1>3, <1>4 DEF OnOffer, Result
<1>6. /\ up' = IF Agreed(Result(env)) THEN <<ToTagPayload(ReplyOf(env.caps))>> ELSE <<>>
      /\ up' \in Seq(Upward)
  <2>1. ToTagPayload(ReplyOf(env.caps)) \in Upward
    BY <1>4, ReplyRead
  <2> DEFINE u == ToTagPayload(ReplyOf(env.caps))
             T == Upward
  <2>2. u \in T /\ IF Agreed(Result(env)) THEN up' = Append(<<>>, u) ELSE up' = <<>>
    BY <1>5, <2>1
  <2> HIDE DEF u, T
  <2>3. Append(<<>>, u) = <<u>> /\ <<u>> \in Seq(T) /\ <<>> \in Seq(T)
    BY ONLY <2>2
  <2> QED BY <2>2, <2>3 DEF u, T
<1>7. Shape'
  BY <1>1, <1>5, <1>6 DEF Shape
<1>8. Encoding'
  BY <1>1 DEF Encoding
<1>9. FusionBound'
  BY <1>1 DEF FusionBound
<1>10. Stage(<<>>)'
  BY <1>1, <1>2, <1>5, <1>6 DEF InStep, Stage
<1>11. Numbered(env, <<>>, Taken(calls), sent)
  <2>1. sent = <<>> /\ calls = <<>>
    BY <1>2 DEF InStep, Stage
  <2> QED BY <2>1, Fresh
<1>12. \A i \in 1 .. Len(<<>>) : Carries(env', host', <<>>[i])
  BY Fresh
<1>13. InStep(<<>>)'
  BY <1>3, <1>5, <1>10, <1>11, <1>12 DEF InStep
<1> QED BY <1>1, <1>5, <1>7, <1>8, <1>9, <1>13 DEF MediaInv

\* One element or none behind a sequence.
LEMMA Joined ==
    ASSUME NEW T, NEW s, s \in Seq(T), NEW x
    PROVE  s \o <<>> = s /\ s \o <<x>> = Append(s, x)
<1>1. s \o <<>> = s
  OBVIOUS
<1>2. s \o <<x>> = Append(s, x)
  OBVIOUS
<1> QED BY <1>1, <1>2

\* The decode session's part of a message.
LEMMA DecoderFed ==
    ASSUME MediaInv, NEW msgs, InStep(msgs), msgs # <<>>, phone = "loop", NEW f, f = Head(msgs)
    PROVE  /\ f.kind = "VideoConfig" /\ FeedConfig(f) =>
                 /\ Fed(env, config', calls', sent) /\ Taken(calls') = Taken(calls)
           /\ f.kind = "Video" /\ FeedVideo(f) =>
                 /\ Fed(env, config', calls', sent) /\ Taken(calls') = Taken(calls) + 1
                 /\ phone' = phone
<1>1. Shape /\ Encoding /\ FusionBound /\ Fed(env, config, calls, sent)
  BY DEF MediaInv
<1>2. env \in Environments /\ sent \in Seq(Pictures)
  BY <1>1 DEF Shape, Encoding
<1>3. msgs \in Seq(HostMessages) /\ f \in HostMessages
  BY TailAt DEF InStep, Wire
<1>4. /\ CodecConfigToAnnexB(ConfigOf(env)) \in Seq(Nat)
      /\ ExtractCodecConfig(CodecConfigToAnnexB(ConfigOf(env))) = ConfigOf(env)
      /\ ConfigOf(env) # Nothing
      /\ Configure(ConfigOf(env)) = ConfigureCall(env)
  BY <1>2, ConfigSent
<1>5. \/ config = Nothing /\ calls = <<>>
      \/ config = ConfigOf(env) /\ calls # <<>>
  BY <1>1 DEF Fed
<1>6. PICK made : /\ made = IF config = Nothing THEN <<ConfigureCall(env)>> ELSE calls
                  /\ Fed(env, ConfigOf(env), made, sent) /\ Taken(made) = Taken(calls)
                  /\ made # <<>>
  <2>1. CASE config = Nothing
    <3>1. calls = <<>>
      BY <1>4, <1>5, <2>1
    <3>2. Fed(env, ConfigOf(env), <<ConfigureCall(env)>>, sent)
          /\ Taken(<<ConfigureCall(env)>>) = Taken(<<>>)
      BY <1>4, FedStart
    <3>3. <<ConfigureCall(env)>> # <<>>
      OBVIOUS
    <3> QED BY <2>1, <3>1, <3>2, <3>3
  <2>2. CASE config # Nothing
    BY <1>1, <1>5, <2>2
  <2> QED BY <2>1, <2>2
<1>7. ASSUME f.kind = "VideoConfig", FeedConfig(f)
      PROVE  Fed(env, config', calls', sent) /\ Taken(calls') = Taken(calls)
  <2>1. f.sps_pps = CodecConfigToAnnexB(ConfigOf(env))
    BY <1>3, <1>7, CarriesLess DEF InStep, Carries
  <2>2. IF ConfigOf(env) # Nothing /\ ConfigOf(env) # config
        THEN config' = ConfigOf(env) /\ calls' = Append(calls, Configure(ConfigOf(env)))
        ELSE UNCHANGED <<config, calls>>
    BY <1>4, <1>7, <2>1 DEF FeedConfig
  <2>3. CASE config = Nothing
    <3>1. config' = ConfigOf(env) /\ calls' = Append(<<>>, ConfigureCall(env))
      BY <1>4, <1>5, <2>2, <2>3
    <3>2. calls' = made
      BY <1>6, <2>3, <3>1, Singleton
    <3> QED BY <1>6, <3>1, <3>2
  <2>4. CASE config # Nothing
    BY <1>1, <1>5, <2>2, <2>4
  <2> QED BY <2>3, <2>4
<1>8. ASSUME f.kind = "Video", FeedVideo(f)
      PROVE  /\ Fed(env, config', calls', sent) /\ Taken(calls') = Taken(calls) + 1
             /\ phone' = phone
  <2> DEFINE n == Taken(calls) + 1
             nals == sent[n]
             annexB == AnnexB(UnitsOf(env, nals))
  <2>1. n \in 1 .. Len(sent) /\ f = VideoOf(env, n, sent)
    BY <1>2, <1>3, <1>8, NumberedNext DEF InStep, IsVideo
  <2>2. nals \in Pictures
    BY <1>2, <2>1
  <2>3. /\ annexB \in Seq(Nat) /\ annexB # <<>>
        /\ Idr(nals) => ExtractCodecConfig(annexB) = ConfigOf(env)
        /\ ToAnnexBAccessUnit(annexB, Idr(nals), ConfigOf(env)) = annexB
    BY <1>2, <2>2, Conversions
  <2>4. f.pts = n /\ f.keyframe = Idr(nals) /\ f.nal = annexB
    BY <2>1 DEF VideoOf
  <2>5. config = Nothing => Idr(nals)
    <3> SUFFICES ASSUME config = Nothing PROVE Idr(nals)
      OBVIOUS
    <3>1. n = 1
      BY <1>4, <1>5 DEF Taken
    <3>2. sent # <<>>
      BY <2>1
    <3> QED BY <1>1, <3>1, <3>2 DEF Encoding
  <2> HIDE DEF annexB, nals, n
  <2>6. PICK inBand : /\ inBand = IF config = Nothing THEN ConfigOf(env) ELSE Nothing
                      /\ config' = ConfigOf(env) /\ phone' = phone
                      /\ calls' = calls
                            \o (IF inBand = Nothing THEN <<>> ELSE <<Configure(inBand)>>)
                            \o <<[call |-> "decode", pts |-> n, keyframe |-> Idr(nals),
                                  annex_b |-> annexB]>>
    <3>1. PICK inBand \in {IF config = Nothing /\ f.keyframe THEN ExtractCodecConfig(f.nal) ELSE Nothing} :
            \E using \in {IF inBand # Nothing THEN inBand ELSE config} :
                IF using = Nothing \/ f.nal = <<>>
                THEN phone' = "ended" /\ UNCHANGED <<config, calls>>
                ELSE /\ config' = using
                     /\ calls' = calls
                            \o (IF inBand = Nothing THEN <<>> ELSE <<Configure(inBand)>>)
                            \o <<[call |-> "decode", pts |-> f.pts, keyframe |-> f.keyframe,
                                  annex_b |-> ToAnnexBAccessUnit(f.nal, f.keyframe, using)]>>
                     /\ phone' = phone
      BY ONLY <1>8 DEF FeedVideo
    <3>2. inBand = IF config = Nothing THEN ConfigOf(env) ELSE Nothing
      BY <2>3, <2>4, <2>5, <3>1
    <3>3. (IF inBand # Nothing THEN inBand ELSE config) = ConfigOf(env)
      BY <1>4, <1>5, <3>2
    <3> QED BY <1>4, <2>3, <2>4, <3>1, <3>2, <3>3
  <2>7. [call |-> "decode", pts |-> n, keyframe |-> Idr(nals), annex_b |-> annexB]
           = DecodeCall(env, n, sent)
    BY DEF DecodeCall, nals, annexB
  <2>8. calls \in Seq(Calls(env))
    BY <1>1 DEF Fed
  <2>9. calls \o (IF inBand = Nothing THEN <<>> ELSE <<Configure(inBand)>>) = made
    <3>1. CASE config = Nothing
      <4>1. calls = <<>> /\ inBand = ConfigOf(env)
        BY <1>4, <1>5, <2>6, <3>1
      <4>2. <<>> \o <<ConfigureCall(env)>> = <<ConfigureCall(env)>>
        OBVIOUS
      <4> QED BY <1>4, <1>6, <3>1, <4>1, <4>2
    <3>2. CASE config # Nothing
      <4>1. calls \o <<>> = calls
        BY <2>8, Joined
      <4> QED BY <1>6, <2>6, <3>2, <4>1
    <3> QED BY <3>1, <3>2
  <2>10. calls' = Append(made, DecodeCall(env, n, sent))
    <3>1. made \in Seq(Calls(env))
      BY <1>6 DEF Fed
    <3>2. made \o <<DecodeCall(env, n, sent)>> = Append(made, DecodeCall(env, n, sent))
      BY <3>1, Joined
    <3> QED BY <2>6, <2>7, <2>9, <3>2
  <2>11. Len(made) = n
    <3>1. Len(made) \in Int
      BY <1>6 DEF Fed
    <3> QED BY <1>6, <3>1 DEF Taken, n
  <2>12. Fed(env, ConfigOf(env), calls', sent) /\ Taken(calls') = Taken(made) + 1
    <3>1. AnnexB(UnitsOf(env, sent[Len(made)])) \in Seq(Nat)
      BY <2>3, <2>11 DEF annexB, nals
    <3>2. Fed(env, ConfigOf(env), made, sent) /\ made # <<>>
      BY <1>6
    <3>3. /\ Fed(env, ConfigOf(env), Append(made, DecodeCall(env, Len(made), sent)), sent)
          /\ Taken(Append(made, DecodeCall(env, Len(made), sent))) = Taken(made) + 1
      BY ONLY <3>1, <3>2, FedNext
    <3> QED BY ONLY <2>10, <2>11, <3>3
  <2> QED BY <1>6, <2>6, <2>12
<1> QED BY <1>7, <1>8

\* The phone takes a message in its loop.
LEMMA FrameTaken ==
    ASSUME MediaInv, UNCHANGED <<env, session, hostVars, buffer>>,
           NEW msgs, InStep(msgs), msgs # <<>>, Wire(frame', rbuf', usb', Tail(msgs)),
           Bounded(usb'), Len(rbuf') <= Chunk, phone = "loop", OnFrame(Head(msgs)),
           UNCHANGED phoneAgreed
    PROVE  MediaInv'
<1> USE DEF hostVars
<1> DEFINE f == Head(msgs)
           rest == Tail(msgs)
<1>1. Shape /\ Encoding /\ FusionBound /\ Fed(env, config, calls, sent)
  BY DEF MediaInv
<1>2. env \in Environments /\ sent \in Seq(Pictures) /\ up \in Seq(Upward)
  BY <1>1 DEF Shape, Encoding
<1>3. msgs \in Seq(HostMessages) /\ f \in HostMessages
  BY TailAt DEF InStep, Wire
<1>4. /\ f.kind # "Error"
      /\ f.kind = "ClockPing" => f = Ping
      /\ f.kind = "Video" => ~(f = Bye)
  BY <1>3, HostKinds
<1>5. /\ host \in {"pong", "stream", "ended"}
      /\ host = "pong" => msgs = <<Ping>> /\ up = <<>> /\ config = Nothing /\ calls = <<>>
      /\ Agreed(Result(env)) /\ phoneAgreed = Result(env) /\ hostAgreed = Result(env)
  BY <1>1 DEF InStep, Stage, Shape
<1>6. Carries(env, host, f) /\ \A i \in 1 .. Len(rest) : Carries(env, host, rest[i])
  BY <1>3, CarriesLess DEF InStep
<1>7. /\ f.kind = "VideoConfig" /\ FeedConfig(f) =>
               /\ Fed(env, config', calls', sent) /\ Taken(calls') = Taken(calls)
      /\ f.kind = "Video" /\ FeedVideo(f) =>
               /\ Fed(env, config', calls', sent) /\ Taken(calls') = Taken(calls) + 1
               /\ phone' = phone
  BY DecoderFed
<1>8. /\ IsVideo(f) => Numbered(env, rest, Taken(calls) + 1, sent)
      /\ ~IsVideo(f) => Numbered(env, rest, Taken(calls), sent)
  BY <1>2, <1>3, NumberedNext DEF InStep
<1>9. host = "pong" => rest = <<>> /\ f = Ping
  <2>1. \A x : Head(<<x>>) = x /\ Tail(<<x>>) = <<>>
    OBVIOUS
  <2> QED BY <1>5, <2>1
<1> HIDE DEF f, rest
<1>10. PICK next : next = Tail(msgs)
  OBVIOUS
<1>11. /\ phone' \in {"loop", "ended"} /\ up' \in Seq(Upward)
       /\ phone' = "ended" => host = "ended"
       /\ Fed(env, config', calls', sent) /\ Numbered(env, next, Taken(calls'), sent)
       /\ host = "pong" =>
             /\ phone' = "loop" /\ calls' = <<>> /\ config' = Nothing /\ next = <<>>
             /\ \E d \in env.delays, e \in env.delays :
                   up' = <<ToTagPayload(PongAfter(d, e))>>
  <2>1. CASE f.kind = "VideoConfig" /\ FeedConfig(f) /\ UNCHANGED <<phone, up>>
    BY <1>2, <1>5, <1>7, <1>8, <1>9, <1>10, <2>1 DEF IsVideo, Ping, rest
  <2>2. CASE f.kind = "Video" /\ FeedVideo(f) /\ up' = up
    BY <1>2, <1>5, <1>7, <1>8, <1>9, <1>10, <2>2 DEF IsVideo, Ping, rest
  <2>3. CASE /\ f.kind = "ClockPing"
             /\ \E pong \in Pongs(f) : up' = Append(up, ToTagPayload(pong))
             /\ UNCHANGED <<phone, config, calls>>
    <3>1. PICK d \in env.delays, e \in env.delays : up' = Append(up, ToTagPayload(PongAfter(d, e)))
      <4>1. f = Ping /\ f.fields[1] = PingAt
        BY <1>4, <2>3 DEF Ping
      <4>2. PICK pong \in Pongs(f) : up' = Append(up, ToTagPayload(pong))
        BY <2>3
      <4>3. PICK d \in env.delays, e \in env.delays :
               pong = [kind |-> "ClockPong",
                       fields |-> <<f.fields[1], f.fields[1] + d + Offset, f.fields[1] + d + e + Offset>>]
        BY <4>2 DEF Pongs
      <4>4. pong = PongAfter(d, e)
        BY <4>1, <4>3 DEF PongAfter, PongOf
      <4> QED BY <4>2, <4>4
    <3>2. env.delays \subseteq Nat
      BY <1>2, EnvironmentsAssumption
    <3>3. ToTagPayload(PongAfter(d, e)) \in Upward
      BY <3>2, PongRead
    <3>4. up' \in Seq(Upward)
      BY <1>2, <3>1, <3>3, AppendAt
    <3>5. host = "pong" => up' = <<ToTagPayload(PongAfter(d, e))>>
      BY <1>5, <3>1, <3>3, Singleton
    <3> QED BY <1>1, <1>5, <1>8, <1>9, <1>10, <2>3, <3>4, <3>5 DEF IsVideo, rest
  <2>4. CASE f = Bye /\ phone' = "ended" /\ UNCHANGED <<config, calls, up>>
    <3>1. host = "ended" /\ ~IsVideo(f)
      BY <1>6, <2>4 DEF Carries, IsVideo, Bye
    <3> QED BY <1>1, <1>2, <1>8, <1>10, <2>4, <3>1 DEF rest
  <2>5. CASE /\ f.kind \notin {"VideoConfig", "Video", "ClockPing", "Error"}
             /\ UNCHANGED <<phone, config, calls, up>>
    BY <1>1, <1>2, <1>5, <1>8, <1>9, <1>10, <2>5 DEF IsVideo, Ping, rest
  <2>6. OnFrame(f)
    BY DEF f
  <2> QED BY <1>4, <2>1, <2>2, <2>3, <2>4, <2>5, <2>6 DEF OnFrame
<1>12. Shape'
  BY <1>1, <1>11 DEF Shape
<1>13. Encoding'
  BY <1>1 DEF Encoding
<1>14. FusionBound'
  BY <1>1 DEF FusionBound
<1>15. Stage(next)'
  <2>1. \/ sent = <<>> /\ offset = Nothing /\ hostConfig = Nothing /\ seenKeyframe = FALSE
        \/ host # "pong"
    BY DEF InStep, Stage
  <2> QED BY <1>5, <1>11, <2>1 DEF Stage
<1>16. InStep(next)'
  BY <1>6, <1>10, <1>11, <1>15 DEF InStep, rest
<1> QED BY <1>11, <1>12, <1>13, <1>14, <1>16 DEF MediaInv

\* A read of the phone's, whether it ends a message or not.
LEMMA PhoneReadsInv == MediaInv /\ PhoneReads => MediaInv'
<1> SUFFICES ASSUME MediaInv, PhoneReads PROVE MediaInv'
  OBVIOUS
<1>1. PICK msgs : InStep(msgs)
  BY DEF MediaInv
<1>2. UNCHANGED <<env, session, hostVars, buffer>>
  BY DEF PhoneReads
<1>3. /\ Bounded(usb') /\ Len(rbuf') <= Chunk
      /\ \/ /\ Wire(frame', rbuf', usb', msgs)
            /\ UNCHANGED <<up, phoneVars>>
         \/ /\ msgs # <<>> /\ Head(msgs) \in HostMessages
            /\ Wire(frame', rbuf', usb', Tail(msgs))
            /\ \/ phone = "offer" /\ OnOffer(Head(msgs))
               \/ phone = "loop" /\ OnFrame(Head(msgs)) /\ UNCHANGED phoneAgreed
  <2>1. Wire(frame, rbuf, usb, msgs) /\ Bounded(usb) /\ Len(rbuf) <= Chunk
    BY <1>1 DEF InStep, MediaInv, Shape
  <2> QED BY <2>1, PhoneGets
<1> QED BY <1>1, <1>2, <1>3, NothingTaken, OfferTaken, FrameTaken

\* A step that changes nothing.
LEMMA StutterInv == MediaInv /\ UNCHANGED vars => MediaInv'
<1> SUFFICES ASSUME MediaInv, UNCHANGED vars PROVE MediaInv'
  OBVIOUS
<1>1. PICK msgs : InStep(msgs)
  BY DEF MediaInv
<1>2. UNCHANGED <<env, session, hostVars, buffer>> /\ UNCHANGED <<up, phoneVars>>
      /\ UNCHANGED <<frame, rbuf, usb>>
  BY DEF vars, hostVars, pipeVars, readVars, phoneVars
<1>3. Wire(frame', rbuf', usb', msgs) /\ Bounded(usb') /\ Len(rbuf') <= Chunk
  BY <1>1, <1>2 DEF InStep, MediaInv, Shape
<1> QED BY <1>1, <1>2, <1>3, NothingTaken

-----------------------------------------------------------------------------
(***************************************************************************)
(* The theorems.                                                           *)
(***************************************************************************)

\* The inductive invariant holds of every behaviour: what is on its way between the
\* two sessions, in packets, in the chunk and in the frame being read, are whole
\* messages that agree with the state of both.
THEOREM MediaInvariant == Spec => []MediaInv
<1>1. MediaInv /\ [Next]_vars => MediaInv'
  BY ReconnectInv, SendOfferInv, ReadReplyInv, SendPingInv, ReadsInv, SyncTimeoutInv,
     SendPictureInv, SendControlInv, PhoneReadsInv, PhoneReportsInv, StutterInv DEF Next
<1> QED BY <1>1, InitInv, PTL DEF Spec

\* TypeOK: every variable has its type, no packet is longer than a transfer, and the
\* host's reader never meets a message it does not decode.
THEOREM MediaTypeCorrect == Spec => []TypeOK
<1>1. MediaInv => TypeOK
  <2> SUFFICES ASSUME MediaInv PROVE TypeOK
    OBVIOUS
  <2>1. Shape /\ seenKeyframe \in BOOLEAN
    BY DEF MediaInv, Encoding
  <2>2. \A i \in DOMAIN up : Heard(up[i])
    BY <2>1 DEF Shape, Upward
  <2> QED BY <2>1, <2>2 DEF Shape, Bounded, Heard, TypeOK
<1> QED BY <1>1, MediaInvariant, PTL

\* SameAgreement: both peers negotiate the same configuration from the handshake, one
\* that the phone can serve, and neither streams without it.
THEOREM Agreement == Spec => []SameAgreement
<1>1. MediaInv => SameAgreement
  <2> SUFFICES ASSUME MediaInv PROVE SameAgreement
    OBVIOUS
  <2>1. PICK msgs : Stage(msgs)
    BY DEF MediaInv, InStep
  <2>2. env \in Environments /\ host \in {"offer", "reply", "ping", "pong", "stream", "ended"}
    BY DEF MediaInv, Shape
  <2>3. hostAgreed # Nothing => hostAgreed = phoneAgreed
    BY <2>1, <2>2 DEF Stage
  <2>4. host \in {"ping", "pong", "stream"} => Agreed(phoneAgreed)
    BY <2>1, <2>2 DEF Stage
  <2>5. Agreed(phoneAgreed) => Serves(phoneAgreed, env.offer, env.caps)
    <3> SUFFICES ASSUME Agreed(phoneAgreed) PROVE Serves(phoneAgreed, env.offer, env.caps)
      OBVIOUS
    <3>1. phoneAgreed # Nothing
      BY DEF Agreed, Nothing
    <3>2. phoneAgreed = Negotiate(env.offer, env.caps)
      BY <2>1, <3>1 DEF Stage, Result
    <3> QED BY <2>2, <3>2, NegotiateServes, EnvironmentsAssumption
  <2> QED BY <2>3, <2>4, <2>5 DEF Serves, SameAgreement
<1> QED BY <1>1, MediaInvariant, PTL

\* The offset the host fuses latencies with is off by at most half the round trip,
\* up to the half microsecond of the division, and so is every interval fused with
\* it: those that TLC tries (ClockBound) and all others.
THEOREM ClockCorrect == Spec => [](ClockBound /\ FusionBound)
<1>1. FusionBound => ClockBound
  BY DEF FusionBound, Bounds, ClockBound
<1>2. MediaInv => FusionBound
  BY DEF MediaInv
<1> QED BY <1>1, <1>2, MediaInvariant, PTL

\* Nothing splits into nothing.
LEMMA NothingSplits == SplitAccessUnits(<<>>) = <<>>
<1>1. <<>> \in Seq(Nat) /\ Marks(<<>>) = {}
  BY DEF Marks
<1>2. PICK f : Codes(<<>>, f) /\ StartCodeOffsets(<<>>) = f[1]
  BY <1>1, OffsetsWalk
<1>3. f[1] = <<>>
  <2>1. 1 \in Places
    BY DEF Places
  <2>2. Later(<<>>, 1) = {}
    BY <1>1 DEF Later
  <2>3. Codes(<<>>, f)
    BY <1>2
  <2> QED BY ONLY <2>1, <2>2, <2>3 DEF Codes
<1> QED BY <1>2, <1>3 DEF SplitAccessUnits

\* What the decoder has is the pictures, unit for unit.
LEMMA PicturesGot ==
    ASSUME env \in Environments, NEW pics, pics \in Seq(Pictures), NEW made, made \in Seq(Calls(env)),
           made # <<>>, Fed(env, ConfigOf(env), made, pics), Len(made) - 1 <= Len(pics)
    PROVE  LET inputs == Tail(made)
           IN  /\ made[1].call = "configure" /\ made[1].size = env.encoder.size
               /\ NalUnits(made[1].csd0) = Params
               /\ Len(inputs) = Len(made) - 1
               /\ \A i \in DOMAIN inputs :
                     /\ inputs[i].call = "decode" /\ inputs[i].pts = i
                     /\ inputs[i].keyframe = Idr(pics[i])
                     /\ IsKeyframe(inputs[i].annex_b) = Idr(pics[i])
                     /\ NalUnits(inputs[i].annex_b) = Described(pics[i])
                     /\ inputs[i].annex_b = AnnexB(Described(pics[i]))
                     /\ pics[i] \in Pictures
<1> DEFINE inputs == Tail(made)
<1>1. /\ inputs \in Seq(Calls(env)) /\ Len(inputs) = Len(made) - 1 /\ Len(made) \in Nat \ {0}
      /\ \A i \in 1 .. Len(made) - 1 : inputs[i] = made[i + 1]
  BY TailAt
<1>2. DOMAIN inputs = 1 .. Len(made) - 1
  BY <1>1
<1>3. made[1] = ConfigureCall(env) /\ \A i \in 1 .. Len(made) - 1 : made[i + 1] = DecodeCall(env, i, pics)
  BY DEF Fed
<1> HIDE DEF inputs
<1>4. /\ made[1].call = "configure" /\ made[1].size = env.encoder.size
      /\ NalUnits(made[1].csd0) = Params
  BY <1>3, ConfigSent DEF ConfigureCall
<1>5. ASSUME NEW i \in DOMAIN inputs
      PROVE  /\ inputs[i].call = "decode" /\ inputs[i].pts = i
             /\ inputs[i].keyframe = Idr(pics[i])
             /\ IsKeyframe(inputs[i].annex_b) = Idr(pics[i])
             /\ NalUnits(inputs[i].annex_b) = Described(pics[i])
             /\ inputs[i].annex_b = AnnexB(Described(pics[i]))
             /\ pics[i] \in Pictures
  <2>1. inputs[i] = DecodeCall(env, i, pics)
    BY <1>1, <1>2, <1>3
  <2>2. pics[i] \in Pictures
    <3>1. i \in 1 .. Len(pics)
      <4>1. i \in 1 .. Len(made) - 1 /\ Len(pics) \in Nat
        BY <1>2
      <4> QED BY ONLY <1>1, <4>1, Len(made) - 1 <= Len(pics)
    <3> QED BY <3>1
  <2>3. UnitsOf(env, pics[i]) = Described(pics[i])
    BY DEF UnitsOf, Described, Params
  <2>4. /\ IsKeyframe(AnnexB(Described(pics[i]))) = Idr(pics[i])
        /\ NalUnits(AnnexB(Described(pics[i]))) = Described(pics[i])
    BY <2>2, <2>3, Conversions
  <2>5. /\ inputs[i].call = "decode" /\ inputs[i].pts = i
        /\ inputs[i].keyframe = Idr(pics[i])
        /\ inputs[i].annex_b = AnnexB(Described(pics[i]))
    BY <2>1, <2>3 DEF DecodeCall
  <2> QED BY <2>2, <2>4, <2>5
<1> QED BY <1>1, <1>4, <1>5 DEF inputs

\* ... and the byte stream of all of it splits where the pictures end.
LEMMA PicturesSplit ==
    ASSUME env \in Environments, NEW pics, NEW inputs, inputs \in Seq(Calls(env)),
           \A i \in DOMAIN inputs : /\ inputs[i].annex_b = AnnexB(Described(pics[i]))
                                    /\ pics[i] \in Pictures
    PROVE  LET units == SplitAccessUnits(FlattenSeq([i \in DOMAIN inputs |-> inputs[i].annex_b]))
           IN  /\ Len(units) = Len(inputs)
               /\ \A i \in DOMAIN inputs : TypesIn(units[i]) = TypesIn(inputs[i].annex_b)
<1> DEFINE k == Len(inputs)
           groups == [i \in 1 .. k |-> Described(pics[i])]
           stream == FlattenSeq([i \in DOMAIN inputs |-> inputs[i].annex_b])
           units == SplitAccessUnits(stream)
<1>1. DOMAIN inputs = 1 .. k /\ k \in Nat
  OBVIOUS
<1>2. CASE k = 0
  <2>1. [i \in DOMAIN inputs |-> inputs[i].annex_b] = <<>>
    BY <1>1, <1>2
  <2>2. stream = <<>>
    BY <2>1, FlattenEmpty
  <2>3. units = <<>>
    BY <2>2, NothingSplits
  <2> QED BY <1>1, <1>2, <2>3
<1>3. CASE k # 0
  <2>1. \A i \in 1 .. k : AccessUnit(Described(pics[i])) /\ Described(pics[i]) \in Seq(Seq(Nat))
    BY <1>1, DescribedAccessUnit DEF AccessUnit, Streamable
  <2>2. groups \in [1 .. k -> Seq(Seq(Nat))] /\ \A i \in 1 .. k : AccessUnit(groups[i])
    BY <2>1
  <2>3. [i \in DOMAIN inputs |-> inputs[i].annex_b] = [i \in 1 .. k |-> AnnexB(groups[i])]
    BY <1>1
  <2>4. \A i \in 1 .. k : inputs[i].annex_b = AnnexB(groups[i])
    BY <1>1
  <2> HIDE DEF groups, k
  <2>5. /\ Len(SplitAccessUnits(FlattenSeq([i \in 1 .. k |-> AnnexB(groups[i])]))) = k
        /\ \A i \in 1 .. k : TypesIn(SplitAccessUnits(FlattenSeq([b \in 1 .. k |-> AnnexB(groups[b])]))[i])
                               = TypesIn(AnnexB(groups[i]))
    <3>1. k \in Nat \ {0}
      BY ONLY <1>1, <1>3
    <3> QED BY <2>2, <3>1, Resplits
  <2>6. units = SplitAccessUnits(FlattenSeq([i \in 1 .. k |-> AnnexB(groups[i])]))
    BY <2>3
  <2> HIDE DEF units
  <2>7. Len(units) = k /\ \A i \in DOMAIN inputs : TypesIn(units[i]) = TypesIn(inputs[i].annex_b)
    BY <1>1, <2>4, <2>5, <2>6
  <2> QED BY <2>7 DEF units, k
<1> QED BY <1>2, <1>3

\* PicturesIntact: whatever the pictures, the packets and the reads, the decoder is
\* configured once with the encoder's parameter sets, then gets each picture in order,
\* unit for unit, and the stream of all of them splits where the pictures end.
THEOREM PicturesArrive == Spec => []PicturesIntact
<1>1. MediaInv => PicturesIntact
  <2> SUFFICES ASSUME MediaInv PROVE PicturesIntact
    OBVIOUS
  <2> DEFINE inputs == IF calls = <<>> THEN <<>> ELSE Tail(calls)
             stream == FlattenSeq([i \in DOMAIN inputs |-> inputs[i].annex_b])
             units == SplitAccessUnits(stream)
  <2>1. PICK msgs : InStep(msgs)
    BY DEF MediaInv
  <2>2. /\ env \in Environments /\ sent \in Seq(Pictures) /\ calls \in Seq(Calls(env))
        /\ Fed(env, config, calls, sent)
        /\ phone \in {"offer", "loop", "ended"}
    BY DEF MediaInv, Shape, Encoding, Fed
  <2>3. phone = "ended" /\ Agreed(phoneAgreed) => host = "ended"
    BY <2>1 DEF InStep, Stage
  <2>4. Len(inputs) = Taken(calls) /\ Taken(calls) \in 0 .. Len(sent)
    <3>1. CASE calls = <<>>
      BY <2>1, <3>1 DEF InStep, Numbered, Taken
    <3>2. CASE calls # <<>>
      <4>1. Len(Tail(calls)) = Len(calls) - 1
        BY <2>2, <3>2, TailAt
      <4> QED BY <2>1, <3>2, <4>1 DEF InStep, Numbered, Taken
    <3> QED BY <3>1, <3>2
  <2>5. ASSUME usb = <<>>, rbuf = <<>>, phone # "ended"
        PROVE  /\ frame = NewFrame /\ (phone = "offer" => host = "offer")
               /\ Len(inputs) = Len(sent)
    <3>1. msgs = <<>> /\ frame = NewFrame
      BY <2>1, <2>5, Drained DEF InStep
    <3>2. phone = "offer" => host = "offer"
      <4>1. <<env.offer>> # <<>>
        OBVIOUS
      <4> QED BY <2>1, <3>1, <4>1 DEF InStep, Stage
    <3>3. Taken(calls) = Len(sent)
      <4>1. \A m \in Taken(calls) + 1 .. Len(sent) : FALSE
        BY <2>1, <3>1 DEF InStep, Numbered
      <4>2. Len(sent) \in Nat
        BY <2>2
      <4> QED BY ONLY <2>4, <4>1, <4>2
    <3> QED BY <2>4, <3>1, <3>2, <3>3
  <2>6. ASSUME calls # <<>>
        PROVE  /\ calls[1].call = "configure" /\ calls[1].size = env.encoder.size
               /\ NalUnits(calls[1].csd0) = Params
               /\ Len(inputs) <= Len(sent)
               /\ \A i \in DOMAIN inputs :
                     /\ inputs[i].call = "decode" /\ inputs[i].pts = i
                     /\ inputs[i].keyframe = Idr(sent[i])
                     /\ IsKeyframe(inputs[i].annex_b) = Idr(sent[i])
                     /\ NalUnits(inputs[i].annex_b) = Described(sent[i])
               /\ Len(units) = Len(inputs)
               /\ \A i \in DOMAIN inputs : TypesIn(units[i]) = TypesIn(inputs[i].annex_b)
    <3>1. Fed(env, ConfigOf(env), calls, sent)
      BY <2>2, <2>6 DEF Fed
    <3>2. Len(calls) - 1 <= Len(sent)
      BY <2>4, <2>6 DEF Taken
    <3> DEFINE t == Tail(calls)
    <3>3. /\ calls[1].call = "configure" /\ calls[1].size = env.encoder.size
          /\ NalUnits(calls[1].csd0) = Params
          /\ \A i \in DOMAIN t :
                /\ t[i].call = "decode" /\ t[i].pts = i
                /\ t[i].keyframe = Idr(sent[i])
                /\ IsKeyframe(t[i].annex_b) = Idr(sent[i])
                /\ NalUnits(t[i].annex_b) = Described(sent[i])
                /\ t[i].annex_b = AnnexB(Described(sent[i]))
                /\ sent[i] \in Pictures
      BY <2>2, <2>6, <3>1, <3>2, PicturesGot
    <3>4. t \in Seq(Calls(env))
      BY <2>2, <2>6, TailAt
    <3> HIDE DEF t
    <3>5. LET parts == SplitAccessUnits(FlattenSeq([i \in DOMAIN t |-> t[i].annex_b]))
          IN  /\ Len(parts) = Len(t)
              /\ \A i \in DOMAIN t : TypesIn(parts[i]) = TypesIn(t[i].annex_b)
      BY <2>2, <3>3, <3>4, PicturesSplit
    <3>6. inputs = t
      BY <2>6 DEF t
    <3>7. Len(inputs) <= Len(sent)
      BY <2>4
    <3> HIDE DEF inputs
    <3>8. /\ Len(units) = Len(inputs)
          /\ \A i \in DOMAIN inputs : TypesIn(units[i]) = TypesIn(inputs[i].annex_b)
      BY ONLY <3>5, <3>6
    <3>9. /\ \A i \in DOMAIN inputs :
                /\ inputs[i].call = "decode" /\ inputs[i].pts = i
                /\ inputs[i].keyframe = Idr(sent[i])
                /\ IsKeyframe(inputs[i].annex_b) = Idr(sent[i])
                /\ NalUnits(inputs[i].annex_b) = Described(sent[i])
      BY ONLY <3>3, <3>6
    <3> HIDE DEF units
    <3> QED BY ONLY <3>3, <3>7, <3>8, <3>9
  <2> QED BY <2>3, <2>5, <2>6 DEF PicturesIntact
<1> QED BY <1>1, MediaInvariant, PTL
=============================================================================
