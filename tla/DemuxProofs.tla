----------------------------- MODULE DemuxProofs ----------------------------
(* Theorems about Demux: whatever units, widths and numbers of sets, and   *)
(* wherever tags end, the demuxer hands on what of the recorder's meaning  *)
(* has arrived.                                                            *)
EXTENDS Demux, SequenceTheorems, WellFoundedInduction, TLAPS

-----------------------------------------------------------------------------
(* Recursion over natural numbers.                                         *)

\* A set of natural numbers has a least element.
LEMMA LeastNumber ==
  ASSUME NEW T, T \subseteq Nat, T # {}
  PROVE  \E n \in T : \A m \in T : n <= m
<1> DEFINE R == {p \in Nat \X Nat : p[1] < p[2]}
<1>1. IsWellFoundedOn(R, Nat)
  BY NatLessThanWellFounded DEF OpToRel
<1>2. \A x, y \in Nat : x < y => <<x, y>> \in R
  OBVIOUS
<1> HIDE DEF R
<1>3. PICK n \in T : \A m \in T : <<m, n>> \notin R
  BY <1>1, WFMin
<1>4. ASSUME NEW m \in T PROVE n <= m
  <2>1. m \in Nat /\ n \in Nat /\ ~(m < n)
    BY <1>2, <1>3
  <2>2. QED
    BY <2>1
<1>5. QED
  BY <1>4

\* Induction, for a set in place of a predicate.
LEMMA SetInduction ==
  ASSUME NEW T, 0 \in T, \A n \in Nat : n \in T => n + 1 \in T
  PROVE  Nat \subseteq T
<1> DEFINE U == Nat \ T
<1>1. SUFFICES ASSUME U # {} PROVE FALSE
  OBVIOUS
<1>2. PICK n \in U : \A m \in U : n <= m
  BY <1>1, LeastNumber
<1>3. n - 1 \in Nat /\ n - 1 \notin U
  BY <1>2
<1>4. QED
  BY <1>2, <1>3

\* The same up to a bound.
LEMMA BoundedInduction ==
  ASSUME NEW n \in Nat, NEW T, 0 \in T, \A k \in 0 .. n - 1 : k \in T => k + 1 \in T
  PROVE  0 .. n \subseteq T
<1> DEFINE U == T \cup {k \in Nat : k > n}
<1>1. 0 \in U /\ \A k \in Nat : k \in U => k + 1 \in U
  OBVIOUS
<1> HIDE DEF U
<1>2. Nat \subseteq U
  BY <1>1, SetInduction
<1>3. QED
  BY <1>2 DEF U

\* What to make of the value before, at each of n steps, and the values from x on.
Steps(S, n) == [(1 .. n) \X S -> S]
Run(S, x, n, f, g) ==
  /\ g \in [0 .. n -> S]
  /\ g[0] = x
  /\ \A k \in 1 .. n : g[k] = f[<<k, g[k - 1]>>]

LEMMA Iteration ==
  ASSUME NEW S, NEW x \in S, NEW n \in Nat, NEW f \in Steps(S, n)
  PROVE  \E g : Run(S, x, n, f, g)
<1> DEFINE T == {m \in 0 .. n : \E g : Run(S, x, m, f, g)}
<1>1. 0 \in T
  <2> DEFINE g == [k \in 0 .. 0 |-> x]
  <2>1. g \in [0 .. 0 -> S] /\ g[0] = x
    OBVIOUS
  <2>2. Run(S, x, 0, f, g)
    BY <2>1 DEF Run
  <2>3. 0 \in 0 .. n
    OBVIOUS
  <2> HIDE DEF g
  <2>4. QED
    BY <2>2, <2>3
<1>2. ASSUME NEW m \in 0 .. n - 1, m \in T PROVE m + 1 \in T
  <2>1. PICK g : Run(S, x, m, f, g)
    BY <1>2
  <2>2. g \in [0 .. m -> S] /\ g[0] = x /\ \A k \in 1 .. m : g[k] = f[<<k, g[k - 1]>>]
    BY <2>1 DEF Run
  <2> DEFINE y == f[<<m + 1, g[m]>>]
             h == [k \in 0 .. m + 1 |-> IF k = m + 1 THEN y ELSE g[k]]
  <2>3. y \in S
    BY <2>2 DEF Steps
  <2>4. h \in [0 .. m + 1 -> S] /\ h[0] = x
    BY <2>2, <2>3
  <2>5. ASSUME NEW k \in 1 .. m + 1 PROVE h[k] = f[<<k, h[k - 1]>>]
    <3>1. k - 1 \in 0 .. m + 1 /\ k - 1 # m + 1 /\ k \in 0 .. m + 1
      OBVIOUS
    <3>2. h[k - 1] = g[k - 1]
      BY <3>1
    <3>3. CASE k = m + 1
      BY <3>1, <3>2, <3>3
    <3>4. CASE k # m + 1
      <4>1. k \in 1 .. m
        BY <3>4
      <4>2. h[k] = g[k]
        BY <3>1, <3>4
      <4>3. QED
        BY <4>1, <4>2, <3>2, <2>2
    <3>5. QED
      BY <3>3, <3>4
  <2> HIDE DEF h
  <2>6. Run(S, x, m + 1, f, h)
    BY <2>4, <2>5 DEF Run
  <2>7. m + 1 \in 0 .. n
    OBVIOUS
  <2>8. QED
    BY <2>6, <2>7
<1> HIDE DEF T
<1>3. 0 .. n \subseteq T
  BY <1>1, <1>2, BoundedInduction
<1>4. QED
  BY <1>3 DEF T

-----------------------------------------------------------------------------
(* Sequences of parts.                                                     *)

\* A function on 1 .. n is a sequence of length n.
LEMMA FunctionIsSeq ==
  ASSUME NEW S, NEW n \in Nat, NEW s \in [1 .. n -> S]
  PROVE  s \in Seq(S) /\ Len(s) = n
<1>1. s \in Seq(S)
  BY SeqDef
<1>2. Len(s) \in Nat /\ 1 .. Len(s) = 1 .. n
  BY <1>1, LenProperties
<1>3. QED
  BY <1>1, <1>2

\* What First is made of.
LEMMA FirstParts ==
  ASSUME NEW S, NEW parts \in Seq(Seq(S))
  PROVE  /\ First(parts, 0) = <<>>
         /\ \A k \in 0 .. Len(parts) : First(parts, k) \in Seq(S)
         /\ \A k \in 1 .. Len(parts) : First(parts, k) = First(parts, k - 1) \o parts[k]
<1> DEFINE n == Len(parts)
           nil == <<>>
           f == [p \in (1 .. n) \X Seq(S) |-> p[2] \o parts[p[1]]]
           Loop(h) == [k \in 0 .. n |-> IF k = 0 THEN nil ELSE h[k - 1] \o parts[k]]
           up == CHOOSE h : h = Loop(h)
<1>1. n \in Nat /\ nil \in Seq(S) /\ \A k \in 1 .. n : parts[k] \in Seq(S)
  OBVIOUS
<1>2. f \in Steps(Seq(S), n)
  BY <1>1 DEF Steps
<1>3. \A k \in 1 .. n : \A s \in Seq(S) : f[<<k, s>>] = s \o parts[k]
  BY <1>1
<1> HIDE DEF n, nil, f
<1>4. PICK g \in [0 .. n -> Seq(S)] :
        g[0] = nil /\ \A k \in 1 .. n : g[k] = f[<<k, g[k - 1]>>]
  <2>1. \E g : Run(Seq(S), nil, n, f, g)
    BY <1>1, <1>2, Iteration
  <2>2. QED
    BY <2>1 DEF Run
<1>5. \A k \in 1 .. n : g[k - 1] \in Seq(S) /\ g[k] = g[k - 1] \o parts[k]
  <2> SUFFICES ASSUME NEW k \in 1 .. n PROVE g[k - 1] \in Seq(S) /\ g[k] = g[k - 1] \o parts[k]
    OBVIOUS
  <2>1. k - 1 \in 0 .. n
    BY <1>1
  <2>2. QED
    BY <2>1, <1>3, <1>4
<1>6. g = Loop(g)
  <2>1. \A k \in 0 .. n : k # 0 => k \in 1 .. n
    BY <1>1
  <2>2. \A k \in 0 .. n : g[k] = IF k = 0 THEN nil ELSE g[k - 1] \o parts[k]
    BY <2>1, <1>4, <1>5
  <2>3. QED
    BY <2>2
<1>7. up = Loop(up)
  BY <1>6
<1>8. \A k \in 0 .. n : First(parts, k) = up[k]
  BY DEF First, n, nil
<1> HIDE DEF up
<1>9. 0 \in 0 .. n /\ \A k \in 1 .. n : k \in 0 .. n /\ k - 1 \in 0 .. n /\ k # 0
  BY <1>1
<1>10. up[0] = nil /\ \A k \in 1 .. n : up[k] = up[k - 1] \o parts[k]
  BY <1>7, <1>9
<1>11. \A k \in 0 .. n : up[k] \in Seq(S)
  <2> DEFINE T == {k \in 0 .. n : up[k] \in Seq(S)}
  <2>1. 0 \in T
    BY <1>1, <1>9, <1>10
  <2>2. ASSUME NEW k \in 0 .. n - 1, k \in T PROVE k + 1 \in T
    <3>1. k + 1 \in 1 .. n /\ (k + 1) - 1 = k
      BY <1>1
    <3>2. up[k + 1] = up[k] \o parts[k + 1]
      BY <3>1, <1>10
    <3>3. up[k] \in Seq(S) /\ parts[k + 1] \in Seq(S)
      BY <2>2, <3>1, <1>1
    <3>4. up[k + 1] \in Seq(S) /\ k + 1 \in 0 .. n
      BY <3>1, <3>2, <3>3, <1>9
    <3> HIDE DEF up
    <3>5. QED
      BY <3>4
  <2> HIDE DEF T
  <2>3. 0 .. n \subseteq T
    BY <1>1, <2>1, <2>2, BoundedInduction
  <2>4. QED
    BY <2>3 DEF T
<1>12. QED
  BY <1>8, <1>9, <1>10, <1>11 DEF n, nil

\* Each First is a beginning of the later ones.
LEMMA FirstGrows ==
  ASSUME NEW S, NEW parts \in Seq(Seq(S)), NEW k \in 1 .. Len(parts)
  PROVE  /\ Len(First(parts, k)) = Len(First(parts, k - 1)) + Len(parts[k])
         /\ \A j \in 1 .. Len(First(parts, k - 1)) : First(parts, k)[j] = First(parts, k - 1)[j]
         /\ \A j \in 1 .. Len(parts[k]) :
              First(parts, k)[Len(First(parts, k - 1)) + j] = parts[k][j]
<1> DEFINE a == First(parts, k - 1)
           b == parts[k]
<1>1. k - 1 \in 0 .. Len(parts) /\ b \in Seq(S)
  OBVIOUS
<1>2. a \in Seq(S) /\ First(parts, k) = a \o b
  BY <1>1, FirstParts
<1> HIDE DEF a, b
<1>3. /\ Len(a \o b) = Len(a) + Len(b)
      /\ \A j \in 1 .. Len(a) : (a \o b)[j] = a[j]
      /\ \A j \in 1 .. Len(b) : (a \o b)[Len(a) + j] = b[j]
  BY <1>1, <1>2
<1>4. QED
  BY <1>2, <1>3 DEF a, b

LEMMA FirstInside ==
  ASSUME NEW S, NEW parts \in Seq(Seq(S)), NEW k \in 0 .. Len(parts), NEW m \in k .. Len(parts)
  PROVE  /\ Len(First(parts, k)) <= Len(First(parts, m))
         /\ \A j \in 1 .. Len(First(parts, k)) : First(parts, m)[j] = First(parts, k)[j]
<1> DEFINE L(n) == Len(First(parts, n))
           Same(n) == L(k) <= L(n) /\ \A j \in 1 .. L(k) : First(parts, n)[j] = First(parts, k)[j]
           T == {d \in 0 .. m - k : Same(k + d)}
<1>1. m - k \in Nat /\ k + (m - k) = m /\ k + 0 = k /\ k \in Nat
  OBVIOUS
<1>2. ASSUME NEW n \in 0 .. Len(parts) PROVE First(parts, n) \in Seq(S) /\ L(n) \in Nat
  <2>1. First(parts, n) \in Seq(S)
    BY FirstParts
  <2>2. QED
    BY <2>1
<1>3. ASSUME NEW n \in 1 .. Len(parts)
      PROVE  /\ L(n) = L(n - 1) + Len(parts[n])
             /\ \A j \in 1 .. L(n - 1) : First(parts, n)[j] = First(parts, n - 1)[j]
  <2>1. L(n) = L(n - 1) + Len(parts[n])
    BY FirstGrows
  <2> DEFINE a == First(parts, n)
             b == First(parts, n - 1)
  <2>2. \A j \in 1 .. Len(b) : a[j] = b[j]
    BY FirstGrows, ZenonT(60)
  <2> HIDE DEF a, b
  <2>3. \A j \in 1 .. L(n - 1) : a[j] = b[j]
    BY <2>2 DEF b
  <2>4. QED
    BY <2>1, <2>3 DEF a, b
<1> HIDE DEF L
<1>4. 0 \in T
  BY <1>1, <1>2
<1>5. ASSUME NEW d \in 0 .. (m - k) - 1, d \in T PROVE d + 1 \in T
  <2>1. PICK n \in 1 .. Len(parts) : n = k + d + 1
    BY <1>1
  <2>2. n - 1 = k + d /\ n = k + (d + 1) /\ n - 1 \in 0 .. Len(parts) /\ d + 1 \in 0 .. m - k
    BY <2>1, <1>1
  <2>3. Same(n - 1)
    BY <1>5, <2>2
  <2>4. L(n) = L(n - 1) + Len(parts[n]) /\ Len(parts[n]) \in Nat
    BY <1>3
  <2>5. L(k) \in Nat /\ L(n - 1) \in Nat
    BY <1>2, <2>2
  <2>6. L(k) <= L(n)
    BY <2>3, <2>4, <2>5
  <2>7. ASSUME NEW j \in 1 .. L(k) PROVE First(parts, n)[j] = First(parts, k)[j]
    <3>1. j \in 1 .. L(n - 1)
      BY <2>3, <2>5
    <3>2. QED
      BY <3>1, <2>3, <1>3
  <2>8. Same(n)
    BY <2>6, <2>7
  <2> HIDE DEF Same
  <2>9. QED
    BY <2>2, <2>8
<1> HIDE DEF T
<1>6. 0 .. m - k \subseteq T
  BY <1>1, <1>4, <1>5, BoundedInduction
<1>7. m - k \in T
  BY <1>1, <1>6
<1>8. QED
  BY <1>1, <1>7 DEF T, L

-----------------------------------------------------------------------------
(* Numbers as bytes.                                                       *)

Byte == 0 .. Base - 1
Symbol == Byte \cup {StartCode}

LEMMA BaseIs == Base \in Nat /\ Base >= 32 /\ Base % 32 = 0
  BY DemuxAssumption DEF DemuxAssumption

LEMMA LastByte ==
  ASSUME NEW q \in Nat
  PROVE  q \div Base \in Nat /\ q % Base \in Byte /\ q = (q \div Base) * Base + (q % Base)
  BY BaseIs DEF Byte

LEMMA ShiftedBytes ==
  ASSUME NEW n \in Nat
  PROVE  /\ Shifted(n, 0) = n
         /\ \A k \in 0 .. 4 : Shifted(n, k) \in Nat
         /\ \A k \in 1 .. 4 : Shifted(n, k) = Shifted(n, k - 1) \div Base
<1> DEFINE f == [p \in (1 .. 4) \X Nat |-> p[2] \div Base]
           Loop(h) == [k \in 0 .. 4 |-> IF k = 0 THEN n ELSE h[k - 1] \div Base]
           up == CHOOSE h : h = Loop(h)
<1>1. f \in Steps(Nat, 4)
  BY LastByte DEF Steps
<1>2. \A k \in 1 .. 4 : \A q \in Nat : f[<<k, q>>] = q \div Base
  OBVIOUS
<1> HIDE DEF f
<1>3. PICK g \in [0 .. 4 -> Nat] : g[0] = n /\ \A k \in 1 .. 4 : g[k] = f[<<k, g[k - 1]>>]
  <2>1. \E g : Run(Nat, n, 4, f, g)
    BY <1>1, Iteration
  <2>2. QED
    BY <2>1 DEF Run
<1>4. \A k \in 1 .. 4 : k - 1 \in 0 .. 4 /\ g[k] = g[k - 1] \div Base
  BY <1>2, <1>3
<1>5. g = Loop(g)
  <2>1. \A k \in 0 .. 4 : k # 0 => k \in 1 .. 4
    OBVIOUS
  <2>2. \A k \in 0 .. 4 : g[k] = IF k = 0 THEN n ELSE g[k - 1] \div Base
    BY <2>1, <1>3, <1>4
  <2>3. QED
    BY <2>2
<1>6. up = Loop(up)
  BY <1>5
<1>7. \A k \in 0 .. 4 : Shifted(n, k) = up[k]
  BY DEF Shifted
<1> HIDE DEF up
<1>8. up[0] = n /\ \A k \in 1 .. 4 : up[k] = up[k - 1] \div Base
  BY <1>6
<1>9. /\ up[0] \in Nat /\ up[1] = up[0] \div Base /\ up[2] = up[1] \div Base
      /\ up[3] = up[2] \div Base /\ up[4] = up[3] \div Base
  BY <1>8
<1>10. up[0] \in Nat /\ up[1] \in Nat /\ up[2] \in Nat /\ up[3] \in Nat /\ up[4] \in Nat
  BY <1>9, LastByte
<1>11. \A k \in 0 .. 4 : up[k] \in Nat
  BY <1>10
<1>12. QED
  BY <1>7, <1>8, <1>11


LEMMA PutIs ==
  ASSUME NEW n \in Nat, NEW w \in 1 .. 4
  PROVE  /\ Put(n, w) \in Seq(Byte) /\ Len(Put(n, w)) = w
         /\ \A k \in 1 .. w : Put(n, w)[k] = Shifted(n, w - k) % Base
<1>1. \A k \in 1 .. w : w - k \in 0 .. 4
  OBVIOUS
<1>2. \A k \in 1 .. w : Shifted(n, w - k) % Base \in Byte
  BY <1>1, ShiftedBytes, LastByte
<1>3. Put(n, w) \in [1 .. w -> Byte]
  BY <1>2 DEF Put
<1>4. QED
  BY <1>3, FunctionIsSeq DEF Put

\* A length below Base * Base fits in two bytes.
LEMMA TwoBytes ==
  ASSUME NEW n \in Nat, n < Base * Base
  PROVE  Fits(n, 2)
<1> DEFINE q == n \div Base
           p == q \div Base
           r == n % Base
           s == q % Base
<1>1. q \in Nat /\ r \in Nat /\ n = q * Base + r
  BY LastByte, BaseIs DEF Byte
<1> HIDE DEF q, r
<1>2. p \in Nat /\ s \in Nat /\ q = p * Base + s
  BY <1>1, LastByte, BaseIs DEF Byte
<1> HIDE DEF p, s
<1>3. q < Base
  <2>1. SUFFICES ASSUME q >= Base PROVE FALSE
    BY <1>1, BaseIs
  <2>2. q * Base >= Base * Base
    BY <2>1, <1>1, BaseIs
  <2>3. q * Base \in Nat /\ Base * Base \in Nat
    BY <1>1, BaseIs
  <2>4. QED
    BY <2>2, <2>3, <1>1
<1>4. p = 0
  <2>1. SUFFICES ASSUME p >= 1 PROVE FALSE
    BY <1>2
  <2>2. p * Base >= Base /\ p * Base \in Nat
    BY <2>1, <1>2, BaseIs
  <2>3. QED
    BY <2>2, <1>2, <1>3, BaseIs
<1>5. Shifted(n, 1) = q /\ Shifted(n, 2) = p
  <2>1. Shifted(n, 0) = n /\ Shifted(n, 1) = Shifted(n, 0) \div Base
    BY ShiftedBytes
  <2>2. Shifted(n, 2) = Shifted(n, 1) \div Base
    BY ShiftedBytes
  <2>3. QED
    BY <2>1, <2>2 DEF p, q
<1>6. QED
  BY <1>4, <1>5 DEF Fits

\* The loop over the bytes of a length.
LEMMA NumberSteps ==
  ASSUME NEW b \in Seq(Byte), NEW i \in Nat, NEW w \in 1 .. 4, i + w <= Len(b)
  PROVE  \E N \in [0 .. w -> Nat] :
           /\ N[0] = 0 /\ Number(b, i, w) = N[w]
           /\ \A k \in 1 .. w : N[k] = N[k - 1] * Base + b[i + k]
<1> DEFINE f == [p \in (1 .. w) \X Nat |-> p[2] * Base + b[i + p[1]]]
           Loop(h) == [k \in 0 .. w |-> IF k = 0 THEN 0 ELSE h[k - 1] * Base + b[i + k]]
           up == CHOOSE h : h = Loop(h)
<1>1. \A k \in 1 .. w : b[i + k] \in Nat
  <2>1. \A k \in 1 .. w : i + k \in 1 .. Len(b)
    OBVIOUS
  <2>2. \A k \in 1 .. w : b[i + k] \in Byte
    BY <2>1
  <2>3. QED
    BY <2>2, BaseIs DEF Byte
<1>2. ASSUME NEW k \in 1 .. w, NEW q \in Nat PROVE q * Base + b[i + k] \in Nat
  <2> DEFINE x == b[i + k]
  <2>1. x \in Nat /\ Base \in Nat
    BY <1>1, BaseIs
  <2> HIDE DEF x
  <2>2. q * Base \in Nat
    BY <2>1
  <2>3. q * Base + x \in Nat
    BY <2>1, <2>2
  <2>4. QED
    BY <2>3 DEF x
<1>3. f \in Steps(Nat, w)
  BY <1>2 DEF Steps
<1>4. \A k \in 1 .. w : \A q \in Nat : f[<<k, q>>] = q * Base + b[i + k]
  OBVIOUS
<1> HIDE DEF f
<1>5. PICK g \in [0 .. w -> Nat] : g[0] = 0 /\ \A k \in 1 .. w : g[k] = f[<<k, g[k - 1]>>]
  <2>1. 0 \in Nat /\ w \in Nat
    OBVIOUS
  <2>2. \E g : Run(Nat, 0, w, f, g)
    BY <1>3, <2>1, Iteration
  <2>3. QED
    BY <2>2 DEF Run
<1>6. ASSUME NEW k \in 1 .. w PROVE g[k] = g[k - 1] * Base + b[i + k]
  <2>1. k - 1 \in 0 .. w
    OBVIOUS
  <2>2. g[k - 1] \in Nat
    BY <2>1, <1>5
  <2>3. QED
    BY <2>2, <1>4, <1>5
<1>7. g = Loop(g)
  <2>1. \A k \in 0 .. w : k # 0 => k \in 1 .. w
    OBVIOUS
  <2>2. \A k \in 0 .. w : g[k] = IF k = 0 THEN 0 ELSE g[k - 1] * Base + b[i + k]
    BY <2>1, <1>5, <1>6
  <2>3. QED
    BY <2>2
<1>8. up = Loop(up)
  BY <1>7
<1>9. Number(b, i, w) = up[w]
  BY DEF Number
<1> HIDE DEF up
<1>10. up[0] = 0 /\ \A k \in 1 .. w : up[k] = up[k - 1] * Base + b[i + k]
  BY <1>8
<1>11. up \in [0 .. w -> Nat]
  <2> DEFINE T == {k \in 0 .. w : up[k] \in Nat}
  <2>1. 0 \in T
    BY <1>10
  <2>2. ASSUME NEW k \in 0 .. w - 1, k \in T PROVE k + 1 \in T
    <3>1. k + 1 \in 1 .. w /\ (k + 1) - 1 = k /\ k + 1 \in 0 .. w
      OBVIOUS
    <3>2. up[k + 1] = up[k] * Base + b[i + (k + 1)]
      BY <3>1, <1>10
    <3>3. up[k + 1] \in Nat
      BY <2>2, <3>1, <3>2, <1>2
    <3> HIDE DEF up
    <3>4. QED
      BY <3>1, <3>3
  <2> HIDE DEF T
  <2>3. 0 .. w \subseteq T
    BY <2>1, <2>2, BoundedInduction, SMTT(20)
  <2>4. \A k \in 0 .. w : up[k] \in Nat
    BY <2>3 DEF T
  <2>5. \E h : up = [k \in 0 .. w |-> h[k]]
    BY <1>8
  <2>6. QED
    BY <2>4, <2>5
<1>12. QED
  BY <1>9, <1>10, <1>11

\* What was put is read back.
LEMMA NumberOfPut ==
  ASSUME NEW b \in Seq(Byte), NEW i \in Nat, NEW w \in 1 .. 4, i + w <= Len(b),
         NEW n \in Nat, Fits(n, w), \A k \in 1 .. w : b[i + k] = Put(n, w)[k]
  PROVE  Number(b, i, w) = n
<1>1. PICK N \in [0 .. w -> Nat] :
        /\ N[0] = 0 /\ Number(b, i, w) = N[w]
        /\ \A k \in 1 .. w : N[k] = N[k - 1] * Base + b[i + k]
  BY NumberSteps
<1> DEFINE T == {k \in 0 .. w : N[k] = Shifted(n, w - k)}
<1>2. 0 \in T
  BY <1>1 DEF Fits
<1>3. ASSUME NEW k \in 0 .. w - 1, k \in T PROVE k + 1 \in T
  <2>1. /\ k + 1 \in 1 .. w /\ (k + 1) - 1 = k /\ k + 1 \in 0 .. w
        /\ w - k \in 1 .. 4 /\ (w - k) - 1 = w - (k + 1) /\ w - (k + 1) \in 0 .. 4
    OBVIOUS
  <2> DEFINE q == Shifted(n, w - (k + 1))
  <2>2. q \in Nat /\ Shifted(n, w - k) = q \div Base
    <3> DEFINE v == w - k
    <3>1. v \in 1 .. 4 /\ v - 1 \in 0 .. 4 /\ v - 1 = w - (k + 1)
      BY <2>1
    <3> HIDE DEF v
    <3>2. Shifted(n, v - 1) \in Nat /\ Shifted(n, v) = Shifted(n, v - 1) \div Base
      BY <3>1, ShiftedBytes
    <3>3. QED
      BY <3>1, <3>2 DEF v
  <2>3. N[k + 1] = N[k] * Base + b[i + (k + 1)]
    BY <2>1, <1>1
  <2>4. b[i + (k + 1)] = q % Base
    BY <2>1, PutIs
  <2>5. N[k] = q \div Base
    BY <1>3, <2>2
  <2> HIDE DEF q
  <2>6. N[k + 1] = q
    BY <2>2, <2>3, <2>4, <2>5, LastByte
  <2>7. QED
    BY <2>1, <2>6 DEF q
<1> HIDE DEF T
<1>4. 0 .. w \subseteq T
  <2>1. w \in Nat
    OBVIOUS
  <2>2. QED
    BY <1>2, <1>3, <2>1, BoundedInduction
<1>5. N[w] = Shifted(n, w - w) /\ w - w = 0
  BY <1>4 DEF T
<1>6. QED
  BY <1>1, <1>5, ShiftedBytes

\* The number read is one.
LEMMA NumberIs ==
  ASSUME NEW b \in Seq(Byte), NEW i \in Nat, NEW w \in 1 .. 4, i + w <= Len(b)
  PROVE  Number(b, i, w) \in Nat
  BY NumberSteps, SMTT(20)


-----------------------------------------------------------------------------
(* Units in a tag.                                                         *)

\* s is in b after the first i bytes; b ends in it, and agrees with it so far.
Holds(b, i, s) == i + Len(s) <= Len(b) /\ \A k \in 1 .. Len(s) : b[i + k] = s[k]
HoldsCut(b, i, s) ==
  i <= Len(b) /\ Len(b) < i + Len(s) /\ \A k \in 1 .. Len(b) - i : b[i + k] = s[k]

LEMMA PieceIs ==
  ASSUME NEW nal \in Seq(Byte), NEW w \in 1 .. 4
  PROVE  /\ Piece(nal, w) \in Seq(Byte) /\ Len(Piece(nal, w)) = w + Len(nal)
         /\ \A k \in 1 .. w : Piece(nal, w)[k] = Put(Len(nal), w)[k]
         /\ \A k \in 1 .. Len(nal) : Piece(nal, w)[w + k] = nal[k]
<1> DEFINE p == Put(Len(nal), w)
<1>1. p \in Seq(Byte) /\ Len(p) = w
  <2>1. Len(nal) \in Nat
    OBVIOUS
  <2>2. QED
    BY <2>1, PutIs
<1> HIDE DEF p
<1>2. /\ p \o nal \in Seq(Byte) /\ Len(p \o nal) = Len(p) + Len(nal)
      /\ \A k \in 1 .. Len(p) : (p \o nal)[k] = p[k]
      /\ \A k \in 1 .. Len(nal) : (p \o nal)[Len(p) + k] = nal[k]
  BY <1>1
<1>3. QED
  BY <1>1, <1>2 DEF Piece, p

\* A part is where the ones before it end.
LEMMA PartHeld ==
  ASSUME NEW S, NEW parts \in Seq(Seq(S)), NEW m \in 0 .. Len(parts), NEW k \in 1 .. m,
         NEW b \in Seq(S), NEW i \in Nat, Holds(b, i, First(parts, m))
  PROVE  Holds(b, i + Len(First(parts, k - 1)), parts[k])
<1> DEFINE L(n) == Len(First(parts, n))
<1>1. k \in 1 .. Len(parts) /\ k \in 0 .. Len(parts) /\ k - 1 \in 0 .. Len(parts)
      /\ m \in k .. Len(parts)
  OBVIOUS
<1>2. First(parts, k) \in Seq(S) /\ First(parts, k - 1) \in Seq(S) /\ First(parts, m) \in Seq(S)
  BY <1>1, FirstParts
<1>3. L(k) \in Nat /\ L(k - 1) \in Nat /\ L(m) \in Nat /\ Len(parts[k]) \in Nat /\ Len(b) \in Nat
  <2>1. parts[k] \in Seq(S)
    BY <1>1
  <2>2. QED
    BY <2>1, <1>2
<1>4. L(k) = L(k - 1) + Len(parts[k])
      /\ \A j \in 1 .. Len(parts[k]) : First(parts, k)[L(k - 1) + j] = parts[k][j]
  BY <1>1, FirstGrows
<1>5. L(k) <= L(m) /\ \A j \in 1 .. L(k) : First(parts, m)[j] = First(parts, k)[j]
  BY <1>1, FirstInside
<1>6. i + L(m) <= Len(b) /\ \A j \in 1 .. L(m) : b[i + j] = First(parts, m)[j]
  BY DEF Holds
<1> HIDE DEF L
<1>7. ASSUME NEW j \in 1 .. Len(parts[k])
      PROVE  b[(i + L(k - 1)) + j] = parts[k][j]
  <2>1. /\ L(k - 1) + j \in 1 .. L(k) /\ L(k - 1) + j \in 1 .. L(m)
        /\ (i + L(k - 1)) + j = i + (L(k - 1) + j)
    <3> DEFINE x == L(k - 1)
               y == Len(parts[k])
               z == L(m)
    <3>1. x \in Nat /\ y \in Nat /\ z \in Nat /\ j \in 1 .. y /\ L(k) = x + y /\ x + y <= z
      BY <1>3, <1>4, <1>5
    <3> HIDE DEF x, y, z
    <3>2. x + j \in 1 .. x + y /\ x + j \in 1 .. z /\ (i + x) + j = i + (x + j)
      BY <3>1
    <3>3. QED
      BY <3>1, <3>2 DEF x, z
  <2>2. QED
    BY <2>1, <1>4, <1>5, <1>6
<1>8. i + L(k - 1) + Len(parts[k]) <= Len(b)
  <2> DEFINE x == L(k - 1)
             y == Len(parts[k])
             z == L(m)
             l == Len(b)
  <2>1. x \in Nat /\ y \in Nat /\ z \in Nat /\ l \in Nat /\ x + y <= z /\ i + z <= l
    BY <1>3, <1>4, <1>5, <1>6
  <2> HIDE DEF x, y, z, l
  <2>2. i + x + y <= l
    BY <2>1
  <2>3. QED
    BY <2>2 DEF x, y, l
<1>9. QED
  BY <1>7, <1>8 DEF Holds, L

\* What a parser is.
Parser == [ok : BOOLEAN, i : Nat, out : Seq(Symbol)]

LEMMA MarkedIs ==
  ASSUME NEW nal \in Seq(Byte)
  PROVE  Marked(nal) \in Seq(Symbol) /\ Marked(nal) # <<>>
<1>1. nal \in Seq(Symbol) /\ <<StartCode>> \in Seq(Symbol)
  BY DEF Symbol
<1>2. QED
  BY <1>1 DEF Marked

LEMMA UnitTypes ==
  ASSUME NEW b \in Seq(Byte), NEW r \in Parser, NEW w \in 1 .. 4, r.i + w <= Len(b)
  PROVE  Unit(b, r, w) \in Parser
<1> DEFINE next == r.i + w + Number(b, r.i, w)
           nal == SubSeq(b, r.i + w + 1, next)
<1>1. r.i \in Nat /\ r.out \in Seq(Symbol)
  BY DEF Parser
<1>2. Number(b, r.i, w) \in Nat
  BY <1>1, NumberIs
<1>3. next \in Nat
  BY <1>1, <1>2
<1>4. CASE next > Len(b)
  BY <1>4 DEF Unit, Bad, Parser
<1>5. CASE ~(next > Len(b))
  <2>1. nal \in Seq(Byte)
    BY <1>1, <1>3, <1>5
  <2>2. Marked(nal) \in Seq(Symbol)
    BY <2>1, MarkedIs
  <2>3. r.out \o Marked(nal) \in Seq(Symbol)
    BY <1>1, <2>2
  <2>4. QED
    BY <1>3, <1>5, <2>3 DEF Unit, Parser
<1>6. QED
  BY <1>4, <1>5

\* A whole unit is put out, behind its marker.
LEMMA UnitWhole ==
  ASSUME NEW b \in Seq(Byte), NEW r \in Parser, NEW w \in 1 .. 4,
         NEW nal \in Seq(Byte), Fits(Len(nal), w), Holds(b, r.i, Piece(nal, w))
  PROVE  /\ Number(b, r.i, w) = Len(nal)
         /\ Unit(b, r, w) = [ok |-> TRUE, i |-> r.i + Len(Piece(nal, w)),
                             out |-> r.out \o Marked(nal)]
<1> DEFINE i == r.i
           n == Len(nal)
           l == Len(b)
           next == i + w + n
           s == SubSeq(b, i + w + 1, next)
<1>1. i \in Nat /\ n \in Nat /\ l \in Nat
  BY DEF Parser
<1>2. Len(Piece(nal, w)) = w + n
  BY PieceIs
<1>3. i + (w + n) <= l /\ \A k \in 1 .. w + n : b[i + k] = Piece(nal, w)[k]
  BY <1>2 DEF Holds
<1> HIDE DEF i, n, l
<1>4. i + w <= l /\ next <= l /\ next \in Nat /\ i + w + 1 \in 1 .. l + 1
  BY <1>1, <1>3
<1>5. ASSUME NEW k \in 1 .. w PROVE b[i + k] = Put(n, w)[k]
  <2>1. k \in 1 .. w + n
    BY <1>1
  <2>2. Piece(nal, w)[k] = Put(n, w)[k]
    BY PieceIs DEF n
  <2>3. QED
    BY <2>1, <2>2, <1>3
<1>6. Number(b, i, w) = n
  <2>1. i + w <= Len(b) /\ Fits(n, w)
    BY <1>4 DEF l, n
  <2>2. QED
    BY <1>1, <1>5, <2>1, NumberOfPut
<1>7. ASSUME NEW k \in 1 .. n PROVE b[i + w + k] = nal[k]
  <2>1. w + k \in 1 .. w + n /\ i + (w + k) = i + w + k
    BY <1>1
  <2>2. b[i + (w + k)] = Piece(nal, w)[w + k]
    BY <2>1, <1>3
  <2>3. Piece(nal, w)[w + k] = nal[k]
    BY PieceIs DEF n
  <2>4. QED
    BY <2>1, <2>2, <2>3
<1>8. s = nal
  <2>1. s \in Seq(Byte) /\ Len(s) = n /\ \A k \in 1 .. n : s[k] = b[i + w + k]
    <3>1. next \in i + w .. Len(b) /\ i + w + 1 \in 1 .. Len(b) + 1 /\ next - (i + w + 1) + 1 = n
      BY <1>1, <1>4 DEF l
    <3>2. QED
      BY <1>1, <3>1, SubSeqProperties
  <2> HIDE DEF s
  <2>2. Len(s) = Len(nal) /\ \A k \in 1 .. Len(s) : s[k] = nal[k]
    BY <2>1, <1>7 DEF n
  <2>3. QED
    BY <2>1, <2>2, SeqEqual
<1>9. ~(next > Len(b)) /\ next = i + Len(Piece(nal, w))
  BY <1>1, <1>2, <1>4 DEF l
<1>10. QED
  BY <1>6, <1>8, <1>9 DEF Unit, i, n


-----------------------------------------------------------------------------
(* The loop of avcc_to_annexb.                                             *)

Marks(units) == [k \in DOMAIN units |-> Marked(units[k])]

LEMMA UnitsAre ==
  ASSUME NEW units \in Seq(Seq(Byte)), NEW w \in 1 .. 4
  PROVE  /\ Pieces(units, w) \in Seq(Seq(Byte)) /\ Len(Pieces(units, w)) = Len(units)
         /\ Marks(units) \in Seq(Seq(Symbol)) /\ Len(Marks(units)) = Len(units)
         /\ Meanings(units) \in Seq(Seq(Symbol)) /\ Len(Meanings(units)) = Len(units)
         /\ \A k \in 1 .. Len(units) : /\ units[k] \in Seq(Byte)
                                       /\ Pieces(units, w)[k] = Piece(units[k], w)
                                       /\ Marks(units)[k] = Marked(units[k])
                                       /\ Meanings(units)[k] = Meant(units[k])
<1>1. Len(units) \in Nat /\ DOMAIN units = 1 .. Len(units)
      /\ \A k \in 1 .. Len(units) : units[k] \in Seq(Byte)
  OBVIOUS
<1>2. ASSUME NEW nal \in Seq(Byte)
      PROVE  Piece(nal, w) \in Seq(Byte) /\ Marked(nal) \in Seq(Symbol) /\ Meant(nal) \in Seq(Symbol)
  <2>1. <<>> \in Seq(Symbol)
    OBVIOUS
  <2>2. QED
    BY <2>1, PieceIs, MarkedIs DEF Meant
<1>3. /\ Pieces(units, w) \in [1 .. Len(units) -> Seq(Byte)]
      /\ Marks(units) \in [1 .. Len(units) -> Seq(Symbol)]
      /\ Meanings(units) \in [1 .. Len(units) -> Seq(Symbol)]
  BY <1>1, <1>2 DEF Pieces, Marks, Meanings
<1>4. /\ Pieces(units, w) \in Seq(Seq(Byte)) /\ Len(Pieces(units, w)) = Len(units)
      /\ Marks(units) \in Seq(Seq(Symbol)) /\ Len(Marks(units)) = Len(units)
      /\ Meanings(units) \in Seq(Seq(Symbol)) /\ Len(Meanings(units)) = Len(units)
  BY <1>1, <1>3, FunctionIsSeq
<1>5. \A k \in 1 .. Len(units) : /\ units[k] \in Seq(Byte)
                                 /\ Pieces(units, w)[k] = Piece(units[k], w)
                                 /\ Marks(units)[k] = Marked(units[k])
                                 /\ Meanings(units)[k] = Meant(units[k])
  BY <1>1 DEF Pieces, Marks, Meanings
<1>6. QED
  BY <1>4, <1>5

\* A unit takes a byte or more.
LEMMA PiecesLong ==
  ASSUME NEW units \in Seq(Seq(Byte)), NEW w \in 1 .. 4, NEW k \in 0 .. Len(units)
  PROVE  Len(First(Pieces(units, w), k)) \in Nat /\ k <= Len(First(Pieces(units, w), k))
<1> DEFINE parts == Pieces(units, w)
           L(j) == Len(First(parts, j))
           T == {j \in 0 .. Len(units) : L(j) \in Nat /\ j <= L(j)}
<1>0. Len(units) \in Nat
  OBVIOUS
<1>1. parts \in Seq(Seq(Byte)) /\ Len(parts) = Len(units) /\ Len(units) \in Nat
      /\ \A j \in 1 .. Len(units) : units[j] \in Seq(Byte) /\ parts[j] = Piece(units[j], w)
  BY <1>0, UnitsAre, Zenon
<1> HIDE DEF parts
<1>2. First(parts, 0) = <<>> /\ \A j \in 0 .. Len(units) : First(parts, j) \in Seq(Byte)
  BY <1>1, FirstParts
<1>3. 0 \in T
  BY <1>1, <1>2
<1>4. ASSUME NEW j \in 0 .. Len(units) - 1, j \in T PROVE j + 1 \in T
  <2>1. PICK n \in 1 .. Len(units) : n = j + 1
    BY <1>1
  <2>2. n \in 1 .. Len(parts) /\ n - 1 = j /\ n \in 0 .. Len(units)
    BY <1>1, <2>1
  <2>3. L(n) = L(n - 1) + Len(parts[n])
    BY <1>1, <2>2, FirstGrows
  <2>4. Len(parts[n]) = w + Len(units[n]) /\ Len(units[n]) \in Nat
    <3> DEFINE nal == units[n]
    <3>1. nal \in Seq(Byte) /\ parts[n] = Piece(nal, w)
      BY <1>1
    <3> HIDE DEF nal
    <3>2. Len(Piece(nal, w)) = w + Len(nal)
      BY <3>1, PieceIs
    <3>3. Len(nal) \in Nat
      BY <3>1
    <3>4. QED
      BY <3>1, <3>2, <3>3 DEF nal
  <2> DEFINE x == L(j)
             y == L(n)
             z == Len(units[n])
  <2>5. x \in Nat /\ j <= x /\ y = x + (w + z) /\ z \in Nat
    BY <1>4, <2>2, <2>3, <2>4
  <2> HIDE DEF x, y, z
  <2>6. y \in Nat /\ n <= y
    BY <2>1, <2>5
  <2>7. QED
    BY <2>1, <2>2, <2>6 DEF y
<1> HIDE DEF T
<1>5. 0 .. Len(units) \subseteq T
  BY <1>1, <1>3, <1>4, BoundedInduction
<1>6. QED
  BY <1>5 DEF T, parts

\* Where units are cut, one of them is, and those before it are whole.
LEMMA CutAt ==
  ASSUME NEW units \in Seq(Seq(Byte)), NEW w \in 1 .. 4, NEW b \in Seq(Byte), NEW i \in Nat,
         HoldsCut(b, i, Prefixed(units, w))
  PROVE  \E k \in 1 .. Len(units) :
           /\ Holds(b, i, First(Pieces(units, w), k - 1))
           /\ HoldsCut(b, i + Len(First(Pieces(units, w), k - 1)), Piece(units[k], w))
<1> DEFINE parts == Pieces(units, w)
           m == Len(units)
           l == Len(b)
           whole == First(parts, m)
           L(k) == Len(First(parts, k))
           T == {k \in 0 .. m : l < i + L(k)}
<1>1. /\ parts \in Seq(Seq(Byte)) /\ Len(parts) = m
      /\ \A k \in 1 .. m : units[k] \in Seq(Byte) /\ parts[k] = Piece(units[k], w)
  BY UnitsAre
<1>2. m \in Nat /\ l \in Nat
  OBVIOUS
<1>3. i <= l /\ l < i + L(m) /\ \A k \in 1 .. l - i : b[i + k] = whole[k]
  BY <1>1 DEF HoldsCut, Prefixed, Joined
<1> HIDE DEF parts, m, l, whole
<1>4. First(parts, 0) = <<>> /\ \A k \in 0 .. m : First(parts, k) \in Seq(Byte)
  BY <1>1, FirstParts
<1>5. L(0) = 0 /\ \A k \in 0 .. m : L(k) \in Nat
  BY <1>4
<1> HIDE DEF L
<1>6. T \subseteq Nat /\ m \in T
  BY <1>2, <1>3
<1>7. PICK k \in T : \A n \in T : k <= n
  BY <1>6, LeastNumber
<1>8. k \in 0 .. m /\ l < i + L(k) /\ k # 0
  <2>1. k \in 0 .. m /\ l < i + L(k)
    BY <1>7
  <2>2. k = 0 => l < i + 0
    BY <2>1, <1>5
  <2>3. i + 0 = i /\ ~(l < i)
    BY <1>2, <1>3
  <2>4. QED
    BY <2>1, <2>2, <2>3
<1> DEFINE h == k - 1
<1>9. k \in 1 .. m /\ h \in 0 .. m /\ ~(k <= h) /\ m \in 0 .. m
  BY <1>2, <1>8
<1>10. i + L(h) <= l
  BY <1>2, <1>5, <1>7, <1>9
<1> HIDE DEF T
<1>11. /\ L(k) = L(h) + Len(parts[k])
       /\ \A j \in 1 .. Len(parts[k]) : First(parts, k)[L(h) + j] = parts[k][j]
  <2>1. k \in 1 .. Len(parts)
    BY <1>1, <1>9
  <2>2. QED
    BY <1>1, <2>1, FirstGrows DEF L
<1>12. /\ \A j \in 1 .. L(k) : whole[j] = First(parts, k)[j]
       /\ \A j \in 1 .. L(h) : whole[j] = First(parts, h)[j]
       /\ L(k) <= L(m)
  <2>1. /\ k \in 0 .. Len(parts) /\ m \in k .. Len(parts)
        /\ h \in 0 .. Len(parts) /\ m \in h .. Len(parts)
    BY <1>1, <1>2, <1>9
  <2>2. L(k) <= L(m) /\ \A j \in 1 .. L(k) : whole[j] = First(parts, k)[j]
    BY <1>1, <2>1, FirstInside DEF L, whole
  <2>3. \A j \in 1 .. L(h) : whole[j] = First(parts, h)[j]
    BY <1>1, <2>1, FirstInside DEF L, whole
  <2>4. QED
    BY <2>2, <2>3
<1> DEFINE x == L(h)
           y == Len(parts[k])
<1>13. x \in Nat /\ y \in Nat /\ L(k) = x + y /\ i + x <= l /\ l < i + (x + y)
  <2>1. parts[k] \in Seq(Byte)
    BY <1>1, <1>9
  <2>2. QED
    BY <2>1, <1>5, <1>8, <1>9, <1>10, <1>11
<1> HIDE DEF x, y, h
<1>14. Holds(b, i, First(parts, h))
  <2>1. ASSUME NEW j \in 1 .. x PROVE b[i + j] = First(parts, h)[j]
    <3>1. j \in 1 .. l - i
      BY <1>2, <1>13
    <3>2. QED
      BY <3>1, <1>3, <1>12 DEF x
  <2>2. QED
    BY <2>1, <1>10 DEF Holds, x, L, l
<1>15. HoldsCut(b, i + x, parts[k])
  <2>1. i + x <= l /\ l < (i + x) + y
    BY <1>2, <1>13
  <2>2. ASSUME NEW j \in 1 .. l - (i + x) PROVE b[(i + x) + j] = parts[k][j]
    <3>1. x + j \in 1 .. l - i /\ x + j \in 1 .. L(k) /\ j \in 1 .. y /\ (i + x) + j = i + (x + j)
      BY <1>2, <1>13
    <3>2. b[i + (x + j)] = whole[x + j] /\ whole[x + j] = First(parts, k)[x + j]
      BY <3>1, <1>3, <1>12
    <3>3. First(parts, k)[x + j] = parts[k][j]
      BY <3>1, <1>11 DEF x, y
    <3>4. QED
      BY <3>1, <3>2, <3>3
  <2>3. QED
    BY <2>1, <2>2 DEF HoldsCut, l, y
<1>16. QED
  BY <1>1, <1>9, <1>14, <1>15 DEF parts, m, x, L, h

\* A unit that is cut is an error, unless its length is cut already.
LEMMA UnitCut ==
  ASSUME NEW b \in Seq(Byte), NEW r \in Parser, NEW w \in 1 .. 4, r.i + w <= Len(b),
         NEW nal \in Seq(Byte), Fits(Len(nal), w), HoldsCut(b, r.i, Piece(nal, w))
  PROVE  Number(b, r.i, w) # 0 /\ Unit(b, r, w) = Bad
<1> DEFINE i == r.i
           n == Len(nal)
           l == Len(b)
<1>1. i \in Nat /\ n \in Nat /\ l \in Nat
  BY DEF Parser
<1>2. Len(Piece(nal, w)) = w + n
  BY PieceIs
<1>3. i + w <= l /\ l < i + (w + n) /\ \A k \in 1 .. l - i : b[i + k] = Piece(nal, w)[k]
  BY <1>2 DEF HoldsCut
<1> HIDE DEF i, n, l
<1>4. ASSUME NEW k \in 1 .. w PROVE b[i + k] = Put(n, w)[k]
  <2>1. k \in 1 .. l - i
    BY <1>1, <1>3
  <2>2. Piece(nal, w)[k] = Put(n, w)[k]
    BY PieceIs DEF n
  <2>3. QED
    BY <2>1, <2>2, <1>3
<1>5. Number(b, i, w) = n
  <2>1. i + w <= Len(b) /\ Fits(n, w)
    BY <1>3 DEF l, n
  <2>2. QED
    BY <1>1, <1>4, <2>1, NumberOfPut
<1>6. n # 0 /\ i + w + n > l
  BY <1>1, <1>3
<1>7. QED
  BY <1>5, <1>6 DEF Unit, i, l

LEMMA TurnTypes ==
  ASSUME NEW b \in Seq(Byte), NEW r \in Parser, NEW w \in 1 .. 4
  PROVE  AnnexBTurn(b, r, w) \in Parser
<1>1. r.i \in Nat /\ Len(b) \in Nat
  BY DEF Parser
<1>2. CASE Over(b, r, w)
  BY <1>2 DEF AnnexBTurn
<1>3. CASE ~Over(b, r, w)
  <2>1. r.i + w <= Len(b)
    BY <1>1, <1>3 DEF Over
  <2>2. Unit(b, r, w) \in Parser
    BY <2>1, UnitTypes
  <2>3. [r EXCEPT !.i = @ + w] \in Parser
    BY <1>1 DEF Parser
  <2>4. QED
    BY <1>3, <2>2, <2>3 DEF AnnexBTurn
<1>4. QED
  BY <1>2, <1>3

\* The turns of the loop.
LEMMA AnnexBTurns ==
  ASSUME NEW b \in Seq(Byte), NEW w \in 1 .. 4
  PROVE  \E turn \in [0 .. Len(b) -> Parser] :
           /\ turn[0] = StartAt(0)
           /\ \A k \in 1 .. Len(b) : turn[k] = AnnexBTurn(b, turn[k - 1], w)
           /\ AnnexB(b, w) = turn[CHOOSE k \in 0 .. Len(b) : Over(b, turn[k], w)]
<1> DEFINE n == Len(b)
           first == StartAt(0)
           f == [p \in (1 .. n) \X Parser |-> AnnexBTurn(b, p[2], w)]
           Loop(h) == [k \in 0 .. n |-> IF k = 0 THEN first ELSE AnnexBTurn(b, h[k - 1], w)]
           up == CHOOSE h : h = Loop(h)
<1>1. n \in Nat /\ first \in Parser
  BY DEF StartAt, Parser
<1>2. f \in Steps(Parser, n)
  BY TurnTypes DEF Steps
<1>3. \A k \in 1 .. n : \A r \in Parser : f[<<k, r>>] = AnnexBTurn(b, r, w)
  OBVIOUS
<1>4. AnnexB(b, w) = up[CHOOSE k \in 0 .. n : Over(b, up[k], w)]
  BY DEF AnnexB
<1> HIDE DEF n, first, f
<1>5. PICK g \in [0 .. n -> Parser] :
        g[0] = first /\ \A k \in 1 .. n : g[k] = f[<<k, g[k - 1]>>]
  <2>1. \E g : Run(Parser, first, n, f, g)
    BY <1>1, <1>2, Iteration
  <2>2. QED
    BY <2>1 DEF Run
<1>6. ASSUME NEW k \in 1 .. n PROVE g[k] = AnnexBTurn(b, g[k - 1], w)
  <2>1. k - 1 \in 0 .. n
    BY <1>1
  <2>2. g[k - 1] \in Parser
    BY <2>1, <1>5
  <2>3. QED
    BY <2>2, <1>3, <1>5
<1>7. g = Loop(g)
  <2>1. \A k \in 0 .. n : k # 0 => k \in 1 .. n
    BY <1>1
  <2>2. \A k \in 0 .. n : g[k] = IF k = 0 THEN first ELSE AnnexBTurn(b, g[k - 1], w)
    BY <2>1, <1>5, <1>6
  <2>3. QED
    BY <2>2
<1>8. up = Loop(up)
  BY <1>7
<1> HIDE DEF up
<1>9. 0 \in 0 .. n /\ \A k \in 1 .. n : k \in 0 .. n /\ k # 0
  BY <1>1
<1>10. up[0] = first /\ \A k \in 1 .. n : up[k] = AnnexBTurn(b, up[k - 1], w)
  BY <1>8, <1>9
<1>11. up \in [0 .. n -> Parser]
  <2> DEFINE T == {k \in 0 .. n : up[k] \in Parser}
  <2>1. 0 \in T
    BY <1>1, <1>9, <1>10
  <2>2. ASSUME NEW k \in 0 .. n - 1, k \in T PROVE k + 1 \in T
    <3>1. k + 1 \in 1 .. n /\ (k + 1) - 1 = k /\ k + 1 \in 0 .. n
      BY <1>1
    <3>2. up[k + 1] = AnnexBTurn(b, up[k], w)
      BY <3>1, <1>10
    <3>3. up[k + 1] \in Parser
      BY <2>2, <3>2, TurnTypes
    <3>4. QED
      BY <3>1, <3>3
  <2> HIDE DEF T
  <2>3. 0 .. n \subseteq T
    BY <1>1, <2>1, <2>2, BoundedInduction
  <2>4. \A k \in 0 .. n : up[k] \in Parser
    BY <2>3 DEF T
  <2>5. \E h : up = [k \in 0 .. n |-> h[k]]
    BY <1>8
  <2>6. QED
    BY <2>4, <2>5
<1>12. QED
  BY <1>4, <1>10, <1>11 DEF n, first


\* A turn at a whole unit.
LEMMA TurnReads ==
  ASSUME NEW b \in Seq(Byte), NEW r \in Parser, r.ok, NEW w \in 1 .. 4,
         NEW nal \in Seq(Byte), Fits(Len(nal), w), Holds(b, r.i, Piece(nal, w))
  PROVE  /\ ~Over(b, r, w)
         /\ AnnexBTurn(b, r, w) = [ok |-> TRUE, i |-> r.i + Len(Piece(nal, w)),
                                   out |-> r.out \o Meant(nal)]
<1>1. r.i \in Nat /\ r.out \in Seq(Symbol) /\ r = [ok |-> TRUE, i |-> r.i, out |-> r.out]
  BY DEF Parser
<1>2. Len(Piece(nal, w)) = w + Len(nal)
  BY PieceIs
<1>3. Len(nal) \in Nat /\ Len(b) \in Nat
  OBVIOUS
<1>4. r.i + w <= Len(b)
  <2> DEFINE n == Len(nal)
             l == Len(b)
             i == r.i
  <2>1. i + (w + n) <= l
    BY <1>2 DEF Holds
  <2>2. i \in Nat /\ n \in Nat /\ l \in Nat
    BY <1>1, <1>3
  <2> HIDE DEF n, l, i
  <2>3. i + w <= l
    BY <2>1, <2>2
  <2>4. QED
    BY <2>3 DEF i, l
<1>5. ~Over(b, r, w)
  BY <1>1, <1>3, <1>4 DEF Over
<1>6. /\ Number(b, r.i, w) = Len(nal)
      /\ Unit(b, r, w) = [ok |-> TRUE, i |-> r.i + Len(Piece(nal, w)),
                          out |-> r.out \o Marked(nal)]
  <2>1. Number(b, r.i, w) = Len(nal)
    BY UnitWhole
  <2>2. Unit(b, r, w) = [ok |-> TRUE, i |-> r.i + Len(Piece(nal, w)),
                         out |-> r.out \o Marked(nal)]
    BY UnitWhole, SMTT(60)
  <2>3. QED
    BY <2>1, <2>2
<1>7. CASE nal = <<>>
  <2>1. Number(b, r.i, w) = 0 /\ Len(Piece(nal, w)) = w
    BY <1>2, <1>6, <1>7
  <2>2. r.out \o Meant(nal) = r.out
    BY <1>1, <1>7 DEF Meant
  <2>3. [r EXCEPT !.i = @ + w] = [ok |-> TRUE, i |-> r.i + w, out |-> r.out]
    <3> DEFINE s == [r EXCEPT !.i = @ + w]
    <3>1. r.i + w \in Nat
      BY <1>1
    <3>2. s \in Parser
      BY <3>1 DEF Parser
    <3>3. s.ok /\ s.out = r.out
      BY DEF Parser
    <3>4. s.i = r.i + w
      BY DEF Parser
    <3> HIDE DEF s
    <3>5. s = [ok |-> TRUE, i |-> s.i, out |-> s.out]
      BY <3>2, <3>3 DEF Parser
    <3>6. QED
      BY <3>3, <3>4, <3>5 DEF s
  <2>4. AnnexBTurn(b, r, w) = [r EXCEPT !.i = @ + w]
    BY <2>1, <1>5 DEF AnnexBTurn
  <2>5. QED
    BY <2>1, <2>2, <2>3, <2>4, <1>5
<1>8. CASE nal # <<>>
  <2>1. Number(b, r.i, w) # 0
    BY <1>3, <1>6, <1>8
  <2>2. AnnexBTurn(b, r, w) = Unit(b, r, w)
    BY <2>1, <1>5 DEF AnnexBTurn
  <2>3. Meant(nal) = Marked(nal)
    BY <1>8 DEF Meant
  <2>4. QED
    BY <2>2, <2>3, <1>5, <1>6
<1>9. QED
  BY <1>7, <1>8

\* The loop gives what the turn gives at which it is over.
LEMMA AnnexBStops ==
  ASSUME NEW b \in Seq(Byte), NEW w \in 1 .. 4, NEW turn \in [0 .. Len(b) -> Parser],
         \A k \in 1 .. Len(b) : turn[k] = AnnexBTurn(b, turn[k - 1], w),
         NEW m \in 0 .. Len(b), Over(b, turn[m], w),
         \A k \in 0 .. m - 1 : ~Over(b, turn[k], w)
  PROVE  turn[CHOOSE k \in 0 .. Len(b) : Over(b, turn[k], w)] = turn[m]
<1> DEFINE n == Len(b)
           T == {d \in 0 .. n - m : turn[m + d] = turn[m]}
           c == CHOOSE k \in 0 .. n : Over(b, turn[k], w)
<1>1. n \in Nat /\ n - m \in Nat /\ m \in 0 .. n
  OBVIOUS
<1>2. c \in 0 .. n /\ Over(b, turn[c], w)
  OBVIOUS
<1> HIDE DEF c
<1>3. \A k \in 1 .. n : turn[k] = AnnexBTurn(b, turn[k - 1], w)
  OBVIOUS
<1> HIDE DEF n
<1>4. 0 \in T
  BY <1>1
<1>5. ASSUME NEW d \in 0 .. (n - m) - 1, d \in T PROVE d + 1 \in T
  <2>1. /\ m + (d + 1) \in 1 .. n /\ (m + (d + 1)) - 1 = m + d
        /\ d + 1 \in 0 .. n - m
    BY <1>1
  <2>2. turn[m + (d + 1)] = AnnexBTurn(b, turn[m], w)
    BY <2>1, <1>3, <1>5
  <2>3. QED
    BY <2>1, <2>2 DEF AnnexBTurn
<1> HIDE DEF T
<1>6. 0 .. n - m \subseteq T
  BY <1>1, <1>4, <1>5, BoundedInduction
<1>7. c >= m
  BY <1>1, <1>2
<1>8. c - m \in T /\ m + (c - m) = c
  BY <1>1, <1>2, <1>6, <1>7
<1>9. QED
  BY <1>8 DEF T, c, n

\* As far as whole units go, the loop reads one at each turn.
LEMMA AnnexBReads ==
  ASSUME NEW b \in Seq(Byte), NEW w \in 1 .. 4, NEW turn \in [0 .. Len(b) -> Parser],
         turn[0] = StartAt(0),
         \A k \in 1 .. Len(b) : turn[k] = AnnexBTurn(b, turn[k - 1], w),
         NEW units \in Seq(Seq(Byte)), \A k \in 1 .. Len(units) : Fits(Len(units[k]), w),
         NEW m \in 0 .. Len(units), Holds(b, 0, First(Pieces(units, w), m))
  PROVE  /\ m <= Len(b)
         /\ \A k \in 0 .. m : turn[k] = [ok |-> TRUE, i |-> Len(First(Pieces(units, w), k)),
                                         out |-> First(Meanings(units), k)]
         /\ \A k \in 0 .. m - 1 : ~Over(b, turn[k], w)
<1> DEFINE parts == Pieces(units, w)
           means == Meanings(units)
           L(k) == Len(First(parts, k))
           At(k) == [ok |-> TRUE, i |-> L(k), out |-> First(means, k)]
           n == Len(b)
           T == {k \in 0 .. m : turn[k] = At(k)}
<1>1. Len(units) \in Nat /\ n \in Nat /\ m \in Nat /\ m <= Len(units)
  OBVIOUS
<1>2. /\ parts \in Seq(Seq(Byte)) /\ Len(parts) = Len(units)
      /\ means \in Seq(Seq(Symbol)) /\ Len(means) = Len(units)
      /\ \A k \in 1 .. Len(units) : /\ units[k] \in Seq(Byte) /\ parts[k] = Piece(units[k], w)
                                    /\ means[k] = Meant(units[k])
  BY UnitsAre
<1>3. ASSUME NEW k \in 0 .. m PROVE L(k) \in Nat /\ k <= L(k)
  <2>1. k \in 0 .. Len(units)
    BY <1>1
  <2>2. QED
    BY <2>1, PiecesLong
<1>4. L(m) <= n
  BY <1>3 DEF Holds
<1>5. m <= n
  <2>1. L(m) \in Nat /\ m <= L(m)
    BY <1>1, <1>3
  <2> HIDE DEF L, n
  <2>2. QED
    BY <2>1, <1>1, <1>4
<1>6. First(parts, 0) = <<>> /\ First(means, 0) = <<>>
  BY <1>2, FirstParts
<1>7. \A k \in 1 .. n : turn[k] = AnnexBTurn(b, turn[k - 1], w)
  OBVIOUS
<1>8. \A k \in 0 .. n : turn[k] \in Parser
  OBVIOUS
<1>9. Holds(b, 0, First(parts, m))
  OBVIOUS
<1>10. \A k \in 1 .. Len(units) : Fits(Len(units[k]), w)
  OBVIOUS
<1> HIDE DEF parts, means, n
<1>11. 0 \in T
  <2>1. L(0) = 0
    BY <1>6
  <2>2. turn[0] = At(0)
    BY <2>1, <1>6 DEF StartAt
  <2> HIDE DEF At
  <2>3. QED
    BY <2>2, <1>1
<1>12. ASSUME NEW k \in 1 .. m, turn[k - 1] = At(k - 1)
       PROVE  turn[k] = At(k) /\ ~Over(b, turn[k - 1], w)
  <2> DEFINE r == turn[k - 1]
             nal == units[k]
  <2>1. k \in 1 .. n /\ k - 1 \in 0 .. n /\ k \in 1 .. Len(units) /\ k - 1 \in 0 .. m
    BY <1>1, <1>5
  <2>2. r \in Parser /\ r.ok /\ r.i = L(k - 1) /\ r.out = First(means, k - 1)
    BY <1>8, <1>12, <2>1
  <2>3. nal \in Seq(Byte) /\ parts[k] = Piece(nal, w) /\ means[k] = Meant(nal) /\ Fits(Len(nal), w)
    BY <1>2, <1>10, <2>1
  <2>4. Holds(b, 0 + L(k - 1), parts[k])
    <3>1. m \in 0 .. Len(parts)
      BY <1>2
    <3>2. QED
      BY <3>1, <1>2, <1>9, PartHeld
  <2>5. 0 + L(k - 1) = L(k - 1)
    BY <2>1, <1>3
  <2>6. L(k) = L(k - 1) + Len(parts[k]) /\ First(means, k) = First(means, k - 1) \o means[k]
    BY <1>2, <2>1, FirstGrows, FirstParts
  <2> HIDE DEF r, nal, L
  <2>7. /\ ~Over(b, r, w)
        /\ AnnexBTurn(b, r, w) = [ok |-> TRUE, i |-> r.i + Len(Piece(nal, w)),
                                  out |-> r.out \o Meant(nal)]
    <3>1. Holds(b, r.i, Piece(nal, w))
      BY <2>2, <2>3, <2>4, <2>5
    <3>2. r \in Parser /\ r.ok /\ nal \in Seq(Byte) /\ Fits(Len(nal), w)
      BY <2>2, <2>3
    <3>3. QED
      BY <3>1, <3>2, TurnReads
  <2>8. QED
    BY <2>1, <2>2, <2>3, <2>6, <2>7, <1>7 DEF r
<1>13. ASSUME NEW k \in 0 .. m - 1, k \in T PROVE k + 1 \in T
  <2>1. k + 1 \in 1 .. m /\ (k + 1) - 1 = k /\ k + 1 \in 0 .. m
    BY <1>1
  <2>2. turn[k + 1] = At(k + 1)
    BY <2>1, <1>12, <1>13
  <2> HIDE DEF At
  <2>3. QED
    BY <2>1, <2>2
<1> HIDE DEF T
<1>14. 0 .. m \subseteq T
  BY <1>1, <1>11, <1>13, BoundedInduction
<1>15. \A k \in 0 .. m : turn[k] = At(k)
  BY <1>14 DEF T
<1>16. ASSUME NEW k \in 0 .. m - 1 PROVE ~Over(b, turn[k], w)
  <2>1. k + 1 \in 1 .. m /\ (k + 1) - 1 = k /\ k \in 0 .. m
    BY <1>1
  <2>2. QED
    BY <2>1, <1>12, <1>15
<1>17. QED
  BY <1>5, <1>15, <1>16 DEF parts, means, n


\* A tag that lacks no byte: the units that are not empty, behind their markers.
LEMMA AnnexBWhole ==
  ASSUME NEW w \in 1 .. 4, NEW units \in Seq(Seq(Byte)),
         \A k \in 1 .. Len(units) : Fits(Len(units[k]), w)
  PROVE  LET r == AnnexB(Prefixed(units, w), w)
         IN  r \in Parser /\ r.ok /\ r.out = Joined(Meanings(units))
<1> DEFINE parts == Pieces(units, w)
           m == Len(units)
           b == First(parts, m)
<1>1. /\ parts \in Seq(Seq(Byte)) /\ Len(parts) = m
      /\ Meanings(units) \in Seq(Seq(Symbol)) /\ Len(Meanings(units)) = m
  BY UnitsAre
<1>2. m \in 0 .. m /\ m \in Nat
  OBVIOUS
<1>3. Prefixed(units, w) = b
  BY <1>1 DEF Prefixed, Joined, Pieces, Piece
<1>4. Joined(Meanings(units)) = First(Meanings(units), m)
  BY <1>1 DEF Joined
<1> HIDE DEF m
<1>5. b \in Seq(Byte)
  BY <1>1, <1>2, FirstParts
<1> HIDE DEF parts, b
<1>6. Holds(b, 0, b)
  BY <1>5 DEF Holds
<1>7. PICK turn \in [0 .. Len(b) -> Parser] :
        /\ turn[0] = StartAt(0)
        /\ \A k \in 1 .. Len(b) : turn[k] = AnnexBTurn(b, turn[k - 1], w)
        /\ AnnexB(b, w) = turn[CHOOSE k \in 0 .. Len(b) : Over(b, turn[k], w)]
  BY <1>5, AnnexBTurns
<1>8. /\ m <= Len(b)
      /\ \A k \in 0 .. m : turn[k] = [ok |-> TRUE, i |-> Len(First(parts, k)),
                                      out |-> First(Meanings(units), k)]
      /\ \A k \in 0 .. m - 1 : ~Over(b, turn[k], w)
  <2>1. Holds(b, 0, First(Pieces(units, w), m)) /\ m \in 0 .. Len(units)
    BY <1>2, <1>6 DEF b, parts, m
  <2>2. QED
    BY <1>5, <1>7, <2>1, AnnexBReads DEF parts
<1>9. turn[m] = [ok |-> TRUE, i |-> Len(b), out |-> First(Meanings(units), m)]
  BY <1>2, <1>8 DEF b
<1>10. Over(b, turn[m], w) /\ m \in 0 .. Len(b)
  <2>1. Len(b) \in Nat
    BY <1>5
  <2> DEFINE l == Len(b)
  <2> HIDE DEF l
  <2>2. l \in Nat => l + w > l
    OBVIOUS
  <2>3. QED
    BY <1>2, <1>8, <1>9, <2>1, <2>2 DEF Over, l
<1>11. AnnexB(b, w) = turn[m]
  BY <1>5, <1>7, <1>8, <1>10, AnnexBStops
<1>12. turn[m] \in Parser
  BY <1>7, <1>10
<1>13. QED
  BY <1>3, <1>4, <1>9, <1>11, <1>12

\* What is left of a tag.
LEMMA PrefixIs ==
  ASSUME NEW S, NEW s \in Seq(S), NEW d \in Nat, NEW b, b = SubSeq(s, 1, Len(s) - d)
  PROVE  /\ b \in Seq(S) /\ Len(b) <= Len(s) /\ \A k \in 1 .. Len(b) : b[k] = s[k]
         /\ Len(b) = Len(s) => b = s
         /\ d = 0 => b = s
<1> DEFINE n == Len(s)
           e == n - d
<1>1. n \in Nat /\ e \in Int /\ e <= n /\ (d = 0 => e = n)
  OBVIOUS
<1>2. \A k \in 1 .. n : s[k] \in S
  OBVIOUS
<1>3. /\ SubSeq(s, 1, e) \in Seq(S)
      /\ Len(SubSeq(s, 1, e)) = IF 1 <= e THEN e - 1 + 1 ELSE 0
      /\ \A k \in 1 .. e - 1 + 1 : SubSeq(s, 1, e)[k] = s[1 + k - 1]
  <2>1. \A k \in 1 .. e : s[k] \in S
    BY <1>1, <1>2
  <2> HIDE DEF e, n
  <2>2. 1 \in Int
    OBVIOUS
  <2>3. QED
    BY <2>1, <2>2, <1>1, SubSeqProperties
<1>4. b = SubSeq(s, 1, e)
  OBVIOUS
<1> HIDE DEF e, n
<1>5. b \in Seq(S) /\ Len(b) = (IF 1 <= e THEN e ELSE 0)
  BY <1>1, <1>3, <1>4
<1>6. Len(b) <= n /\ (d = 0 => Len(b) = n)
  BY <1>1, <1>5
<1>7. ASSUME NEW k \in 1 .. Len(b) PROVE b[k] = s[k]
  <2>1. k \in 1 .. e - 1 + 1 /\ 1 + k - 1 = k
    BY <1>1, <1>5
  <2>2. QED
    BY <2>1, <1>3, <1>4
<1>8. Len(b) = n => b = s
  <2> SUFFICES ASSUME Len(b) = Len(s) PROVE b = s
    BY DEF n
  <2>1. \A k \in 1 .. Len(b) : b[k] = s[k]
    BY <1>7
  <2>2. QED
    BY <2>1, <1>5, SeqEqual
<1>9. QED
  BY <1>5, <1>6, <1>7, <1>8 DEF n

\* A tag that lacks bytes: an error, unless less than a length is left of the
\* unit that is cut; those before it are put out.
LEMMA AnnexBCut ==
  ASSUME NEW w \in 1 .. 4, NEW units \in Seq(Seq(Byte)),
         \A k \in 1 .. Len(units) : Fits(Len(units[k]), w),
         NEW b \in Seq(Byte), HoldsCut(b, 0, Prefixed(units, w))
  PROVE  LET r == AnnexB(b, w)
         IN  /\ r \in Parser
             /\ r.ok => \E n \in 0 .. Len(units) :
                          /\ Len(First(Pieces(units, w), n)) <= Len(b)
                          /\ Len(b) < Len(First(Pieces(units, w), n)) + w
                          /\ r.out = First(Meanings(units), n)
<1> DEFINE parts == Pieces(units, w)
           means == Meanings(units)
           m == Len(units)
           l == Len(b)
           L(n) == Len(First(parts, n))
<1>1. m \in Nat /\ l \in Nat
  OBVIOUS
<1>2. PICK k \in 1 .. m : /\ Holds(b, 0, First(parts, k - 1))
                          /\ HoldsCut(b, 0 + L(k - 1), Piece(units[k], w))
  <2>1. 0 \in Nat
    OBVIOUS
  <2>2. QED
    BY <2>1, CutAt
<1>3. units[k] \in Seq(Byte) /\ Fits(Len(units[k]), w)
  OBVIOUS
<1>4. PICK h \in 0 .. m : h = k - 1
  BY <1>1
<1> DEFINE nal == units[k]
           x == L(h)
<1>5. x \in Nat /\ h <= x
  BY <1>4, PiecesLong
<1>6. Holds(b, 0, First(parts, h)) /\ HoldsCut(b, x, Piece(nal, w))
  <2>1. 0 + L(k - 1) = x
    BY <1>4, <1>5
  <2>2. QED
    BY <2>1, <1>2, <1>4
<1>7. PICK turn \in [0 .. Len(b) -> Parser] :
        /\ turn[0] = StartAt(0)
        /\ \A n \in 1 .. Len(b) : turn[n] = AnnexBTurn(b, turn[n - 1], w)
        /\ AnnexB(b, w) = turn[CHOOSE n \in 0 .. Len(b) : Over(b, turn[n], w)]
  BY AnnexBTurns
<1>8. /\ h <= Len(b)
      /\ \A n \in 0 .. h : turn[n] = [ok |-> TRUE, i |-> L(n), out |-> First(means, n)]
      /\ \A n \in 0 .. h - 1 : ~Over(b, turn[n], w)
  BY <1>6, <1>7, AnnexBReads
<1>9. \A n \in 1 .. Len(b) : turn[n] = AnnexBTurn(b, turn[n - 1], w)
  BY <1>7
<1> HIDE DEF parts, means, m, l, L, nal, x
<1>10. h \in 0 .. Len(b) /\ h \in 0 .. h /\ k = h + 1 /\ h = k - 1
  BY <1>1, <1>4, <1>8 DEF l
<1>11. turn[h] = [ok |-> TRUE, i |-> x, out |-> First(means, h)] /\ turn[h] \in Parser
  BY <1>7, <1>8, <1>10 DEF x
<1>12. x <= l
  BY <1>6 DEF HoldsCut, l
<1>13. CASE x + w > l
  <2>1. Over(b, turn[h], w)
    BY <1>11, <1>13 DEF Over, l
  <2>2. AnnexB(b, w) = turn[h]
    BY <1>7, <1>8, <1>10, <2>1, AnnexBStops
  <2>3. l < x + w
    BY <1>1, <1>5, <1>13
  <2>4. h \in 0 .. Len(units)
    BY <1>4 DEF m
  <2>5. AnnexB(b, w) \in Parser /\ AnnexB(b, w).out = First(means, h)
    BY <1>11, <2>2
  <2>6. Len(First(parts, h)) <= Len(b) /\ Len(b) < Len(First(parts, h)) + w
    BY <1>12, <2>3 DEF x, L, l
  <2>7. QED
    BY <2>4, <2>5, <2>6 DEF parts, means
<1>14. CASE ~(x + w > l)
  <2>1. x + w <= l
    BY <1>1, <1>5, <1>14
  <2>2. ~Over(b, turn[h], w)
    BY <1>11, <1>14 DEF Over, l
  <2>3. Number(b, x, w) # 0 /\ Unit(b, turn[h], w) = Bad
    <3> DEFINE r == turn[h]
    <3>1. r \in Parser /\ r.i = x /\ r.i + w <= Len(b)
      BY <2>1, <1>11 DEF l
    <3>2. nal \in Seq(Byte) /\ Fits(Len(nal), w) /\ HoldsCut(b, r.i, Piece(nal, w))
      BY <3>1, <1>3, <1>6 DEF nal
    <3> HIDE DEF r
    <3>3. Number(b, r.i, w) # 0 /\ Unit(b, r, w) = Bad
      BY <3>1, <3>2, UnitCut
    <3>4. QED
      BY <3>1, <3>3 DEF r
  <2>4. AnnexBTurn(b, turn[h], w) = Bad
    BY <2>2, <2>3, <1>11 DEF AnnexBTurn
  <2>5. k \in 1 .. Len(b) /\ k \in 0 .. Len(b)
    <3>1. k <= l /\ k >= 1 /\ k \in Nat
      BY <2>1, <1>1, <1>4, <1>5, <1>10
    <3>2. QED
      BY <3>1, <1>1 DEF l
  <2>6. turn[k] = Bad
    BY <2>4, <2>5, <1>9, <1>10
  <2>7. \A n \in 0 .. k - 1 : ~Over(b, turn[n], w)
    <3>1. \A n \in 0 .. k - 1 : n = h \/ n \in 0 .. h - 1
      BY <1>4, <1>10
    <3>2. QED
      BY <3>1, <1>8, <2>2
  <2>8. Over(b, turn[k], w)
    BY <2>6 DEF Over, Bad
  <2>9. AnnexB(b, w) = turn[k]
    BY <1>7, <2>5, <2>7, <2>8, AnnexBStops
  <2>10. AnnexB(b, w) = Bad /\ turn[k] \in Parser
    BY <1>7, <2>5, <2>6, <2>9
  <2>11. ~AnnexB(b, w).ok /\ AnnexB(b, w) \in Parser
    BY <2>9, <2>10 DEF Bad
  <2>12. QED
    BY <2>11
<1>15. QED
  BY <1>13, <1>14


-----------------------------------------------------------------------------
(* The loops of parse_avcc.                                                *)

LEMMA SetTurnTypes ==
  ASSUME NEW b \in Seq(Byte), NEW r \in Parser
  PROVE  SetTurn(b, r) \in Parser
<1>1. r.i \in Nat /\ Len(b) \in Nat
  BY DEF Parser
<1>2. CASE ~r.ok \/ r.i + 2 > Len(b)
  BY <1>2 DEF SetTurn, Bad, Parser
<1>3. CASE ~(~r.ok \/ r.i + 2 > Len(b))
  <2>1. r.i + 2 <= Len(b) /\ 2 \in 1 .. 4
    BY <1>1, <1>3
  <2>2. Unit(b, r, 2) \in Parser
    BY <2>1, UnitTypes
  <2>3. QED
    BY <1>3, <2>2 DEF SetTurn
<1>4. QED
  BY <1>2, <1>3

LEMMA SetTurns ==
  ASSUME NEW b \in Seq(Byte), NEW i \in Nat, NEW n \in Nat
  PROVE  \E turn \in [0 .. n -> Parser] :
           /\ turn[0] = StartAt(i)
           /\ \A k \in 1 .. n : turn[k] = SetTurn(b, turn[k - 1])
           /\ ParameterSets(b, i, n) = turn[n]
<1> DEFINE first == StartAt(i)
           f == [p \in (1 .. n) \X Parser |-> SetTurn(b, p[2])]
           Loop(h) == [k \in 0 .. n |-> IF k = 0 THEN first ELSE SetTurn(b, h[k - 1])]
           up == CHOOSE h : h = Loop(h)
<1>1. first \in Parser
  BY DEF StartAt, Parser
<1>2. f \in Steps(Parser, n)
  BY SetTurnTypes DEF Steps
<1>3. \A k \in 1 .. n : \A r \in Parser : f[<<k, r>>] = SetTurn(b, r)
  OBVIOUS
<1>4. ParameterSets(b, i, n) = up[n]
  BY DEF ParameterSets
<1> HIDE DEF first, f
<1>5. PICK g \in [0 .. n -> Parser] :
        g[0] = first /\ \A k \in 1 .. n : g[k] = f[<<k, g[k - 1]>>]
  <2>1. \E g : Run(Parser, first, n, f, g)
    BY <1>1, <1>2, Iteration
  <2>2. QED
    BY <2>1 DEF Run
<1>6. ASSUME NEW k \in 1 .. n PROVE g[k] = SetTurn(b, g[k - 1])
  <2>1. k - 1 \in 0 .. n
    OBVIOUS
  <2>2. g[k - 1] \in Parser
    BY <2>1, <1>5
  <2>3. QED
    BY <2>2, <1>3, <1>5
<1>7. g = Loop(g)
  <2>1. \A k \in 0 .. n : k # 0 => k \in 1 .. n
    OBVIOUS
  <2>2. \A k \in 0 .. n : g[k] = IF k = 0 THEN first ELSE SetTurn(b, g[k - 1])
    BY <2>1, <1>5, <1>6
  <2>3. QED
    BY <2>2
<1>8. up = Loop(up)
  BY <1>7
<1> HIDE DEF up
<1>9. 0 \in 0 .. n /\ \A k \in 1 .. n : k \in 0 .. n /\ k # 0
  OBVIOUS
<1>10. up[0] = first /\ \A k \in 1 .. n : up[k] = SetTurn(b, up[k - 1])
  BY <1>8, <1>9
<1>11. up \in [0 .. n -> Parser]
  <2> DEFINE T == {k \in 0 .. n : up[k] \in Parser}
  <2>1. 0 \in T
    BY <1>1, <1>9, <1>10
  <2>2. ASSUME NEW k \in 0 .. n - 1, k \in T PROVE k + 1 \in T
    <3>1. k + 1 \in 1 .. n /\ (k + 1) - 1 = k /\ k + 1 \in 0 .. n
      OBVIOUS
    <3>2. up[k + 1] = SetTurn(b, up[k])
      BY <3>1, <1>10
    <3>3. up[k + 1] \in Parser
      BY <2>2, <3>2, SetTurnTypes
    <3>4. QED
      BY <3>1, <3>3
  <2> HIDE DEF T
  <2>3. 0 .. n \subseteq T
    BY <2>1, <2>2, BoundedInduction
  <2>4. \A k \in 0 .. n : up[k] \in Parser
    BY <2>3 DEF T
  <2>5. \E h : up = [k \in 0 .. n |-> h[k]]
    BY <1>8
  <2>6. QED
    BY <2>4, <2>5
<1>12. QED
  BY <1>4, <1>10, <1>11 DEF first

LEMMA ParameterSetsTypes ==
  ASSUME NEW b \in Seq(Byte), NEW i \in Nat, NEW n \in Nat
  PROVE  ParameterSets(b, i, n) \in Parser
<1>1. n \in 0 .. n
  OBVIOUS
<1>2. PICK turn \in [0 .. n -> Parser] : ParameterSets(b, i, n) = turn[n]
  BY SetTurns
<1>3. QED
  BY <1>1, <1>2

\* A turn at a whole set.
LEMMA SetTurnReads ==
  ASSUME NEW b \in Seq(Byte), NEW r \in Parser, r.ok,
         NEW nal \in Seq(Byte), Fits(Len(nal), 2), Holds(b, r.i, Piece(nal, 2))
  PROVE  SetTurn(b, r) = [ok |-> TRUE, i |-> r.i + Len(Piece(nal, 2)),
                          out |-> r.out \o Marked(nal)]
<1> DEFINE n == Len(nal)
           l == Len(b)
           i == r.i
           w == 2
<1>1. w \in 1 .. 4
  OBVIOUS
<1>2. i \in Nat /\ n \in Nat /\ l \in Nat
  BY DEF Parser
<1>3. Len(Piece(nal, w)) = w + n
  BY <1>1, PieceIs
<1>4. i + (w + n) <= l
  BY <1>3 DEF Holds
<1> HIDE DEF n, l, i
<1>5. ~(i + w > l)
  BY <1>2, <1>4
<1>6. Unit(b, r, w) = [ok |-> TRUE, i |-> r.i + Len(Piece(nal, w)),
                       out |-> r.out \o Marked(nal)]
  BY <1>1, UnitWhole
<1>7. QED
  BY <1>5, <1>6 DEF SetTurn, i, l

\* As far as whole sets go, the loop reads one at each turn.
LEMMA SetsRead ==
  ASSUME NEW b \in Seq(Byte), NEW i \in Nat, NEW n \in Nat, NEW turn \in [0 .. n -> Parser],
         turn[0] = StartAt(i), \A k \in 1 .. n : turn[k] = SetTurn(b, turn[k - 1]),
         NEW units \in Seq(Seq(Byte)), \A k \in 1 .. Len(units) : Fits(Len(units[k]), 2),
         NEW m \in 0 .. Len(units), m <= n, Holds(b, i, First(Pieces(units, 2), m))
  PROVE  \A k \in 0 .. m : turn[k] = [ok |-> TRUE, i |-> i + Len(First(Pieces(units, 2), k)),
                                      out |-> First(Marks(units), k)]
<1> DEFINE parts == Pieces(units, 2)
           marks == Marks(units)
           L(k) == Len(First(parts, k))
           At(k) == [ok |-> TRUE, i |-> i + L(k), out |-> First(marks, k)]
           T == {k \in 0 .. m : turn[k] = At(k)}
<1>1. Len(units) \in Nat /\ m \in Nat /\ m <= Len(units)
  OBVIOUS
<1>2. 2 \in 1 .. 4
  OBVIOUS
<1>3. /\ parts \in Seq(Seq(Byte)) /\ Len(parts) = Len(units)
      /\ marks \in Seq(Seq(Symbol)) /\ Len(marks) = Len(units)
      /\ \A k \in 1 .. Len(units) : /\ units[k] \in Seq(Byte) /\ parts[k] = Piece(units[k], 2)
                                    /\ marks[k] = Marked(units[k])
  BY <1>2, UnitsAre
<1>4. ASSUME NEW k \in 0 .. m PROVE L(k) \in Nat
  <2>1. k \in 0 .. Len(units)
    BY <1>1
  <2>2. QED
    BY <2>1, <1>2, PiecesLong
<1>5. First(parts, 0) = <<>> /\ First(marks, 0) = <<>>
  BY <1>3, FirstParts
<1>6. Holds(b, i, First(parts, m)) /\ \A k \in 1 .. Len(units) : Fits(Len(units[k]), 2)
  OBVIOUS
<1> HIDE DEF parts, marks
<1>7. 0 \in T
  <2>1. i + L(0) = i
    BY <1>5
  <2>2. turn[0] = At(0)
    BY <2>1, <1>5 DEF StartAt
  <2> HIDE DEF At
  <2>3. QED
    BY <2>2, <1>1
<1>8. ASSUME NEW k \in 1 .. m, turn[k - 1] = At(k - 1)
      PROVE  turn[k] = At(k)
  <2> DEFINE r == turn[k - 1]
             nal == units[k]
             x == L(k - 1)
  <2>1. k \in 1 .. n /\ k - 1 \in 0 .. n /\ k \in 1 .. Len(units) /\ k - 1 \in 0 .. m
    BY <1>1
  <2>2. r \in Parser /\ r.ok /\ r.i = i + x /\ r.out = First(marks, k - 1)
    BY <1>8, <2>1
  <2>3. nal \in Seq(Byte) /\ parts[k] = Piece(nal, 2) /\ marks[k] = Marked(nal)
        /\ Fits(Len(nal), 2)
    BY <1>3, <1>6, <2>1
  <2>4. Holds(b, i + x, parts[k])
    <3>1. m \in 0 .. Len(parts)
      BY <1>3
    <3>2. QED
      BY <3>1, <1>3, <1>6, PartHeld
  <2>5. x \in Nat
    BY <2>1, <1>4
  <2>6. L(k) = x + Len(parts[k]) /\ First(marks, k) = First(marks, k - 1) \o marks[k]
    <3>1. /\ parts \in Seq(Seq(Byte)) /\ k \in 1 .. Len(parts)
          /\ marks \in Seq(Seq(Symbol)) /\ k \in 1 .. Len(marks)
      BY <1>3, <2>1
    <3>2. L(k) = x + Len(parts[k])
      BY <3>1, FirstGrows
    <3>3. First(marks, k) = First(marks, k - 1) \o marks[k]
      BY <3>1, FirstParts
    <3>4. QED
      BY <3>2, <3>3
  <2>7. Len(parts[k]) \in Nat
    <3>1. parts \in Seq(Seq(Byte)) /\ k \in 1 .. Len(parts)
      BY <1>3, <2>1
    <3>2. parts[k] \in Seq(Byte)
      BY <3>1
    <3>3. QED
      BY <3>2
  <2>8. turn[k] = SetTurn(b, r)
    BY <2>1
  <2> HIDE DEF r, nal, L, x
  <2>9. SetTurn(b, r) = [ok |-> TRUE, i |-> r.i + Len(Piece(nal, 2)),
                         out |-> r.out \o Marked(nal)]
    BY <2>2, <2>3, <2>4, SetTurnReads
  <2>10. r.i + Len(Piece(nal, 2)) = i + L(k)
    BY <2>2, <2>3, <2>5, <2>6, <2>7
  <2>11. QED
    BY <2>2, <2>3, <2>6, <2>8, <2>9, <2>10
<1>9. ASSUME NEW k \in 0 .. m - 1, k \in T PROVE k + 1 \in T
  <2>1. k + 1 \in 1 .. m /\ (k + 1) - 1 = k /\ k + 1 \in 0 .. m
    BY <1>1
  <2>2. turn[k + 1] = At(k + 1)
    BY <2>1, <1>8, <1>9
  <2> HIDE DEF At
  <2>3. QED
    BY <2>1, <2>2
<1> HIDE DEF T
<1>10. 0 .. m \subseteq T
  BY <1>1, <1>7, <1>9, BoundedInduction
<1>11. QED
  BY <1>10 DEF T, parts, marks


\* Sets that are all there.
LEMMA ParameterSetsWhole ==
  ASSUME NEW b \in Seq(Byte), NEW i \in Nat, NEW units \in Seq(Seq(Byte)),
         \A k \in 1 .. Len(units) : Fits(Len(units[k]), 2), Holds(b, i, Prefixed(units, 2))
  PROVE  ParameterSets(b, i, Len(units))
           = [ok |-> TRUE, i |-> i + Len(Prefixed(units, 2)), out |-> Stream(units)]
<1> DEFINE m == Len(units)
<1>1. m \in Nat /\ m \in 0 .. m /\ 2 \in 1 .. 4
  OBVIOUS
<1>2. Len(Pieces(units, 2)) = m /\ Len(Marks(units)) = m
  BY <1>1, UnitsAre
<1>3. Prefixed(units, 2) = First(Pieces(units, 2), m) /\ Stream(units) = First(Marks(units), m)
  BY <1>2 DEF Prefixed, Stream, Joined, Pieces, Piece, Marks
<1> HIDE DEF m
<1>4. PICK turn \in [0 .. m -> Parser] :
        /\ turn[0] = StartAt(i)
        /\ \A k \in 1 .. m : turn[k] = SetTurn(b, turn[k - 1])
        /\ ParameterSets(b, i, m) = turn[m]
  BY <1>1, SetTurns
<1>5. Holds(b, i, First(Pieces(units, 2), m)) /\ m \in 0 .. Len(units) /\ m <= m
  BY <1>1, <1>3 DEF m
<1>6. \A k \in 0 .. m : turn[k] = [ok |-> TRUE, i |-> i + Len(First(Pieces(units, 2), k)),
                                   out |-> First(Marks(units), k)]
  BY <1>1, <1>4, <1>5, SetsRead
<1>7. QED
  BY <1>1, <1>3, <1>4, <1>6 DEF m

\* Sets that are not all there.
LEMMA ParameterSetsCut ==
  ASSUME NEW b \in Seq(Byte), NEW i \in Nat, NEW units \in Seq(Seq(Byte)),
         \A k \in 1 .. Len(units) : Fits(Len(units[k]), 2), HoldsCut(b, i, Prefixed(units, 2))
  PROVE  ParameterSets(b, i, Len(units)) = Bad
<1> DEFINE m == Len(units)
           w == 2
           parts == Pieces(units, w)
           L(n) == Len(First(parts, n))
           l == Len(b)
<1>1. m \in Nat /\ l \in Nat /\ w \in 1 .. 4 /\ w = 2
  OBVIOUS
<1> HIDE DEF w
<1>2. PICK k \in 1 .. m : /\ Holds(b, i, First(parts, k - 1))
                          /\ HoldsCut(b, i + L(k - 1), Piece(units[k], w))
  <2>1. HoldsCut(b, i, Prefixed(units, w))
    BY DEF w
  <2>2. QED
    BY <2>1, <1>1, CutAt
<1>3. units[k] \in Seq(Byte) /\ Fits(Len(units[k]), w)
  BY DEF w
<1>4. PICK h \in 0 .. m : h = k - 1
  BY <1>1
<1> DEFINE nal == units[k]
           x == L(h)
<1>5. x \in Nat
  BY <1>1, <1>4, PiecesLong
<1>6. Holds(b, i, First(parts, h)) /\ HoldsCut(b, i + x, Piece(nal, w))
  BY <1>2, <1>4
<1>7. PICK turn \in [0 .. m -> Parser] :
        /\ turn[0] = StartAt(i)
        /\ \A n \in 1 .. m : turn[n] = SetTurn(b, turn[n - 1])
        /\ ParameterSets(b, i, m) = turn[m]
  BY <1>1, SetTurns
<1>8. turn[h] = [ok |-> TRUE, i |-> i + x, out |-> First(Marks(units), h)] /\ turn[h] \in Parser
  <2>1. h \in 0 .. Len(units) /\ h <= m /\ h \in 0 .. h /\ h \in 0 .. m
    BY <1>1, <1>4
  <2>2. Holds(b, i, First(Pieces(units, 2), h))
    BY <1>6 DEF w
  <2>3. \A n \in 1 .. Len(units) : Fits(Len(units[n]), 2)
    OBVIOUS
  <2> HIDE DEF m
  <2>4. \A n \in 0 .. h : turn[n] = [ok |-> TRUE, i |-> i + Len(First(Pieces(units, 2), n)),
                                     out |-> First(Marks(units), n)]
    BY <1>1, <1>7, <2>1, <2>2, <2>3, SetsRead
  <2>5. QED
    BY <2>1, <2>4, <1>7 DEF w
<1> HIDE DEF parts, L, l, m, nal, x
<1>9. SetTurn(b, turn[h]) = Bad
  <2>1. CASE i + x + 2 > l
    BY <2>1, <1>8 DEF SetTurn, l
  <2>2. CASE ~(i + x + 2 > l)
    <3> DEFINE r == turn[h]
    <3>1. r \in Parser /\ r.i = i + x /\ r.i + w <= Len(b)
      BY <2>2, <1>1, <1>5, <1>8 DEF l
    <3>2. nal \in Seq(Byte) /\ Fits(Len(nal), w) /\ HoldsCut(b, r.i, Piece(nal, w))
      BY <3>1, <1>3, <1>6 DEF nal
    <3>3. r.ok
      BY <1>8
    <3> HIDE DEF r
    <3>4. Unit(b, r, w) = Bad
      BY <3>1, <3>2, <1>1, UnitCut
    <3>5. SetTurn(b, r) = Unit(b, r, 2)
      BY <3>1, <3>3, <2>2 DEF SetTurn, l
    <3>6. QED
      BY <3>4, <3>5 DEF r, w
  <2>3. QED
    BY <2>1, <2>2
<1> DEFINE T == {d \in 0 .. m - k : turn[k + d] = Bad}
<1>10. m - k \in Nat /\ k + 0 = k /\ k + (m - k) = m /\ k \in 1 .. m
  BY <1>1
<1>11. 0 \in T
  BY <1>4, <1>7, <1>9, <1>10
<1>12. ASSUME NEW d \in 0 .. (m - k) - 1, d \in T PROVE d + 1 \in T
  <2>1. k + (d + 1) \in 1 .. m /\ (k + (d + 1)) - 1 = k + d /\ d + 1 \in 0 .. m - k
    BY <1>1
  <2>2. turn[k + (d + 1)] = SetTurn(b, Bad)
    BY <2>1, <1>7, <1>12
  <2>3. SetTurn(b, Bad) = Bad
    BY DEF SetTurn, Bad
  <2>4. QED
    BY <2>1, <2>2, <2>3
<1> HIDE DEF T
<1>13. 0 .. m - k \subseteq T
  BY <1>10, <1>11, <1>12, BoundedInduction
<1>14. turn[m] = Bad
  BY <1>10, <1>13 DEF T
<1>15. QED
  BY <1>7, <1>14 DEF m


-----------------------------------------------------------------------------
(* Records and pictures.                                                   *)

LEMMA NalIs ==
  ASSUME NEW nal \in Nals
  PROVE  nal \in Seq(Byte) /\ Len(nal) \in Nat /\ Fits(Len(nal), 2)
<1>1. nal \in Seq(Byte) /\ Len(nal) < Base * Base
  BY DemuxAssumption DEF DemuxAssumption, Byte
<1>2. Len(nal) \in Nat
  BY <1>1
<1>3. QED
  BY <1>1, <1>2, TwoBytes

LEMMA UnitsBounded ==
  ASSUME NEW n \in Nat, NEW units \in BoundedSeq(Nals, n)
  PROVE  /\ units \in Seq(Seq(Byte)) /\ Len(units) \in 0 .. n
         /\ \A k \in 1 .. Len(units) : units[k] \in Seq(Byte) /\ Fits(Len(units[k]), 2)
<1>1. PICK m \in 0 .. n : units \in [1 .. m -> Nals]
  BY DEF BoundedSeq, SeqOf
<1>2. \A k \in 1 .. m : units[k] \in Seq(Byte) /\ Fits(Len(units[k]), 2)
  BY <1>1, NalIs
<1>3. units \in [1 .. m -> Seq(Byte)] /\ m \in Nat
  BY <1>1, <1>2
<1>4. units \in Seq(Seq(Byte)) /\ Len(units) = m
  BY <1>3, FunctionIsSeq
<1>5. QED
  BY <1>1, <1>2, <1>4

LEMMA ConfigIs ==
  ASSUME NEW c \in Configs
  PROVE  /\ c.sps \in Seq(Seq(Byte)) /\ Len(c.sps) \in 0 .. 31
         /\ \A k \in 1 .. Len(c.sps) : Fits(Len(c.sps[k]), 2)
         /\ c.pps \in Seq(Seq(Byte)) /\ Len(c.pps) \in 0 .. 1
         /\ \A k \in 1 .. Len(c.pps) : Fits(Len(c.pps[k]), 2)
         /\ c.width \in 1 .. 4 /\ c.hasPps \in BOOLEAN
         /\ c.hasPps \/ (c.pps = <<>> /\ c.sps # <<>>)
<1>1. /\ c.sps \in BoundedSeq(Nals, MaxSets) /\ c.pps \in BoundedSeq(Nals, 1)
      /\ c.width \in Widths /\ c.hasPps \in BOOLEAN
      /\ c.hasPps \/ (c.pps = <<>> /\ c.sps # <<>>)
  BY DEF Configs
<1>2. MaxSets \in 0 .. 31 /\ MaxSets \in Nat /\ 1 \in Nat /\ Widths \subseteq 1 .. 4
  BY DemuxAssumption DEF DemuxAssumption
<1>3. /\ c.sps \in Seq(Seq(Byte)) /\ Len(c.sps) \in 0 .. MaxSets
      /\ \A k \in 1 .. Len(c.sps) : Fits(Len(c.sps[k]), 2)
  BY <1>1, <1>2, UnitsBounded
<1>4. /\ c.pps \in Seq(Seq(Byte)) /\ Len(c.pps) \in 0 .. 1
      /\ \A k \in 1 .. Len(c.pps) : Fits(Len(c.pps[k]), 2)
  BY <1>1, <1>2, UnitsBounded
<1>5. \A n \in 0 .. MaxSets : n \in 0 .. 31
  BY <1>2
<1>6. QED
  BY <1>1, <1>2, <1>3, <1>4, <1>5

LEMMA PrefixedIs ==
  ASSUME NEW units \in Seq(Seq(Byte)), NEW w \in 1 .. 4
  PROVE  /\ Prefixed(units, w) \in Seq(Byte)
         /\ Len(units) <= Len(Prefixed(units, w))
         /\ units = <<>> => Prefixed(units, w) = <<>>
<1> DEFINE m == Len(units)
<1>1. Pieces(units, w) \in Seq(Seq(Byte)) /\ Len(Pieces(units, w)) = m
  BY UnitsAre
<1>2. Prefixed(units, w) = First(Pieces(units, w), m)
  BY <1>1 DEF Prefixed, Joined, Pieces, Piece
<1>3. m \in 0 .. m
  OBVIOUS
<1>4. First(Pieces(units, w), m) \in Seq(Byte) /\ First(Pieces(units, w), 0) = <<>>
  BY <1>1, <1>3, FirstParts
<1>5. m <= Len(First(Pieces(units, w), m))
  BY <1>3, PiecesLong
<1>6. units = <<>> => m = 0
  OBVIOUS
<1> HIDE DEF m
<1>7. QED
  BY <1>2, <1>4, <1>5, <1>6 DEF m

LEMMA StreamIs ==
  ASSUME NEW units \in Seq(Seq(Byte))
  PROVE  Stream(units) \in Seq(Symbol) /\ (units = <<>> => Stream(units) = <<>>)
<1> DEFINE m == Len(units)
<1>1. Marks(units) \in Seq(Seq(Symbol)) /\ Len(Marks(units)) = m
  <2>1. 1 \in 1 .. 4
    OBVIOUS
  <2>2. QED
    BY <2>1, UnitsAre
<1>2. Stream(units) = First(Marks(units), m)
  BY <1>1 DEF Stream, Joined, Marks
<1>3. m \in 0 .. m
  OBVIOUS
<1>4. First(Marks(units), m) \in Seq(Symbol) /\ First(Marks(units), 0) = <<>>
  BY <1>1, <1>3, FirstParts
<1>5. units = <<>> => m = 0
  OBVIOUS
<1> HIDE DEF m
<1>6. QED
  BY <1>2, <1>4, <1>5

LEMMA ConcatHolds ==
  ASSUME NEW S, NEW a \in Seq(S), NEW b \in Seq(S)
  PROVE  /\ a \o b \in Seq(S) /\ Len(a \o b) = Len(a) + Len(b)
         /\ \A k \in 1 .. Len(a) : (a \o b)[k] = a[k]
         /\ Holds(a \o b, Len(a), b)
  BY DEF Holds

\* The first six bytes of a record.
LEMMA HeadIs ==
  ASSUME NEW x \in Byte, NEW y \in Byte, NEW h, h = <<1, 0, 0, 0, x, y>>
  PROVE  h \in Seq(Byte) /\ Len(h) = 6 /\ h[5] = x /\ h[6] = y
<1>1. 0 \in Byte /\ 1 \in Byte
  BY BaseIs DEF Byte
<1>2. QED
  BY <1>1


\* The reserved bits do not reach the numbers.
LEMMA ReservedBits ==
  ASSUME NEW v \in 0 .. 3, NEW n \in 0 .. 31
  PROVE  /\ (Base - 4) + v \in Byte /\ ((Base - 4) + v) % 4 = v
         /\ (Base - 32) + n \in Byte /\ ((Base - 32) + n) % 32 = n
<1>1. PICK d \in Nat : Base = 32 * d /\ d >= 1
  BY BaseIs
<1>2. (Base - 4) + v \in Byte /\ (Base - 32) + n \in Byte
  BY <1>1 DEF Byte
<1>3. ((Base - 4) + v) % 4 = v
  <2>1. (Base - 4) + v = 4 * (8 * d - 1) + v /\ 8 * d - 1 \in Nat
    BY <1>1
  <2>2. \A z \in Nat : (4 * z + v) % 4 = v
    OBVIOUS
  <2>3. QED
    BY <2>1, <2>2
<1>4. ((Base - 32) + n) % 32 = n
  <2>1. (Base - 32) + n = 32 * (d - 1) + n /\ d - 1 \in Nat
    BY <1>1
  <2>2. \A z \in Nat : (32 * z + n) % 32 = n
    OBVIOUS
  <2>3. QED
    BY <2>1, <2>2
<1>5. QED
  BY <1>2, <1>3, <1>4

\* Where the parts of a record are.
LEMMA RecordIs ==
  ASSUME NEW c \in Configs
  PROVE  LET rec == Record(c)
             p   == Len(Prefixed(c.sps, 2))
             q   == Len(Prefixed(c.pps, 2))
         IN  /\ rec \in Seq(Byte) /\ p \in Nat /\ q \in Nat
             /\ Len(rec) = 6 + p + (IF c.hasPps THEN 1 + q ELSE 0)
             /\ rec[5] % 4 = c.width - 1 /\ rec[6] % 32 = Len(c.sps)
             /\ Holds(rec, 6, Prefixed(c.sps, 2))
             /\ c.hasPps => rec[7 + p] = Len(c.pps) /\ Holds(rec, 7 + p, Prefixed(c.pps, 2))
<1> DEFINE x == (Base - 4) + (c.width - 1)
           y == (Base - 32) + Len(c.sps)
           head == <<1, 0, 0, 0, x, y>>
           sps == Prefixed(c.sps, 2)
           pps == Prefixed(c.pps, 2)
           front == head \o sps
           one == <<Len(c.pps)>>
           rest == one \o pps
           rec == Record(c)
           p == Len(sps)
           q == Len(pps)
<1>1. /\ c.width \in 1 .. 4 /\ Len(c.sps) \in 0 .. 31 /\ Len(c.pps) \in 0 .. 1
      /\ c.sps \in Seq(Seq(Byte)) /\ c.pps \in Seq(Seq(Byte)) /\ c.hasPps \in BOOLEAN
  BY ConfigIs
<1>2. sps \in Seq(Byte) /\ pps \in Seq(Byte)
  <2>1. 2 \in 1 .. 4
    OBVIOUS
  <2>2. QED
    BY <1>1, <2>1, PrefixedIs
<1>3. Len(c.pps) \in Byte
  <2>1. 0 .. 1 \subseteq Byte
    BY BaseIs DEF Byte
  <2>2. QED
    BY <2>1, <1>1
<1>4. x \in Byte /\ y \in Byte /\ x % 4 = c.width - 1 /\ y % 32 = Len(c.sps)
  <2>1. c.width - 1 \in 0 .. 3
    BY <1>1
  <2>2. QED
    BY <2>1, <1>1, ReservedBits
<1>5. rec = front \o (IF c.hasPps THEN rest ELSE <<>>)
  BY DEF Record, SpsPart
<1> HIDE DEF sps, pps, x, y, rec
<1>6. head \in Seq(Byte) /\ Len(head) = 6 /\ head[5] = x /\ head[6] = y
  <2>1. head = <<1, 0, 0, 0, x, y>>
    OBVIOUS
  <2> HIDE DEF head
  <2>2. x \in Byte /\ y \in Byte
    BY <1>4
  <2>3. QED
    BY <2>1, <2>2, HeadIs
<1>7. one \in Seq(Byte) /\ Len(one) = 1 /\ one[1] = Len(c.pps)
  BY <1>3
<1> DEFINE six == 6
           a == Len(head)
<1> HIDE DEF head, one
<1>8. /\ front \in Seq(Byte) /\ Len(front) = a + p
      /\ \A k \in 1 .. a : front[k] = head[k]
      /\ Holds(front, a, sps)
  BY <1>2, <1>6, ConcatHolds
<1>9. /\ rest \in Seq(Byte) /\ Len(rest) = Len(one) + q
      /\ \A k \in 1 .. Len(one) : rest[k] = one[k]
      /\ Holds(rest, Len(one), pps)
  BY <1>2, <1>7, ConcatHolds
<1>10. a = 6 /\ p \in Nat /\ q \in Nat /\ Len(front) \in Nat
  BY <1>2, <1>6, <1>8
<1>11. \A j \in 1 .. p : front[a + j] = sps[j]
  BY <1>8 DEF Holds
<1>12. \A j \in 1 .. q : rest[1 + j] = pps[j]
  BY <1>7, <1>9 DEF Holds
<1>13. rest[1] = Len(c.pps)
  BY <1>7, <1>9
<1>14. Len(rest) = 1 + q
  BY <1>7, <1>9
<1> HIDE DEF front, rest, p, q, a
<1>15. 6 \in 1 .. a /\ 5 \in 1 .. a
  BY <1>10
<1>16. front[5] = x /\ front[6] = y
  BY <1>6, <1>8, <1>15
<1>17. CASE c.hasPps
  <2>1. rec = front \o rest
    BY <1>5, <1>17
  <2>2. /\ rec \in Seq(Byte) /\ Len(rec) = Len(front) + Len(rest)
        /\ \A k \in 1 .. Len(front) : rec[k] = front[k]
        /\ Holds(rec, Len(front), rest)
    BY <2>1, <1>8, <1>9, ConcatHolds
  <2>3. \A j \in 1 .. Len(rest) : rec[Len(front) + j] = rest[j]
    BY <2>2 DEF Holds
  <2> DEFINE l == Len(rec)
             f == Len(front)
             r == Len(rest)
  <2>4. l = f + r /\ f = a + p /\ r = 1 + q /\ f \in Nat /\ r \in Nat
    BY <2>2, <1>8, <1>10, <1>14
  <2>5. /\ \A k \in 1 .. f : rec[k] = front[k]
        /\ \A j \in 1 .. r : rec[f + j] = rest[j]
    BY <2>2, <2>3
  <2> HIDE DEF l, f, r
  <2>6. l = 6 + p + (1 + q) /\ f = 6 + p
    BY <2>4, <1>10
  <2>7. rec[5] = x /\ rec[6] = y
    BY <2>5, <2>6, <1>10, <1>16
  <2>8. Holds(rec, 6, sps)
    <3>1. 6 + p <= l
      BY <2>6, <1>10
    <3>2. \A j \in 1 .. p : rec[6 + j] = sps[j]
      BY <2>5, <2>6, <1>10, <1>11
    <3>3. QED
      BY <3>1, <3>2 DEF Holds, l, p
  <2>9. rec[7 + p] = Len(c.pps)
    <3>1. 1 \in 1 .. r /\ f + 1 = 7 + p
      BY <2>4, <2>6, <1>10
    <3>2. QED
      BY <3>1, <2>5, <1>13
  <2>10. Holds(rec, 7 + p, pps)
    <3>1. (7 + p) + q <= l
      BY <2>6, <1>10
    <3>2. ASSUME NEW j \in 1 .. q PROVE rec[(7 + p) + j] = pps[j]
      <4>1. 1 + j \in 1 .. r /\ f + (1 + j) = (7 + p) + j
        BY <2>4, <2>6, <1>10
      <4>2. QED
        BY <4>1, <2>5, <1>12
    <3>3. QED
      BY <3>1, <3>2 DEF Holds, l, q
  <2>11. QED
    BY <1>4, <1>10, <1>17, <2>2, <2>6, <2>7, <2>8, <2>9, <2>10 DEF sps, pps, rec, l, p, q
<1>18. CASE ~c.hasPps
  <2>1. rec = front
    BY <1>5, <1>8, <1>18
  <2> DEFINE l == Len(rec)
  <2>2. l = 6 + p
    BY <2>1, <1>8, <1>10
  <2>3. rec[5] = x /\ rec[6] = y
    BY <2>1, <1>16
  <2>4. Holds(rec, 6, sps)
    BY <2>1, <1>8, <1>10
  <2> HIDE DEF l
  <2>5. l = 6 + p + 0
    BY <2>2, <1>10
  <2>6. QED
    BY <1>4, <1>8, <1>10, <1>18, <2>1, <2>5, <2>3, <2>4 DEF sps, pps, rec, l, p, q
<1>19. QED
  BY <1>1, <1>17, <1>18


Sets(c) == Stream(c.sps) \o Stream(c.pps)

\* A record that is all there.
LEMMA ParseWhole ==
  ASSUME NEW c \in Configs
  PROVE  LET r == ParseAvcc(Record(c))
         IN  r.ok /\ r.out = Sets(c) /\ Len(Record(c)) >= 7
<1> DEFINE rec == Record(c)
           p == Len(Prefixed(c.sps, 2))
           q == Len(Prefixed(c.pps, 2))
           l == Len(rec)
           n == rec[6] % 32
           sps == ParameterSets(rec, 6, n)
           pps == ParameterSets(rec, sps.i + 1, rec[sps.i + 1])
<1>1. /\ rec \in Seq(Byte) /\ p \in Nat /\ q \in Nat
      /\ l = 6 + p + (IF c.hasPps THEN 1 + q ELSE 0)
      /\ n = Len(c.sps) /\ Holds(rec, 6, Prefixed(c.sps, 2))
      /\ c.hasPps => rec[7 + p] = Len(c.pps) /\ Holds(rec, 7 + p, Prefixed(c.pps, 2))
  BY RecordIs
<1>2. /\ c.sps \in Seq(Seq(Byte)) /\ Len(c.sps) \in 0 .. 31
      /\ \A k \in 1 .. Len(c.sps) : Fits(Len(c.sps[k]), 2)
      /\ c.pps \in Seq(Seq(Byte)) /\ Len(c.pps) \in 0 .. 1
      /\ \A k \in 1 .. Len(c.pps) : Fits(Len(c.pps[k]), 2)
      /\ c.hasPps \/ (c.pps = <<>> /\ c.sps # <<>>)
  BY ConfigIs
<1>3. ~c.hasPps => p >= 1
  <2>1. c.sps # <<>> => Len(c.sps) >= 1
    BY <1>2
  <2>2. Len(c.sps) <= p
    <3>1. 2 \in 1 .. 4
      OBVIOUS
    <3>2. QED
      BY <3>1, <1>2, PrefixedIs
  <2>3. Len(c.sps) \in Nat
    BY <1>2
  <2> DEFINE m == Len(c.sps)
  <2>4. m \in Nat /\ m <= p /\ (~c.hasPps => m >= 1)
    BY <2>1, <2>2, <2>3, <1>2
  <2> HIDE DEF m, p
  <2>5. QED
    BY <2>4, <1>1
<1> HIDE DEF rec, p, q, l, n
<1>4. l >= 7 /\ l \in Nat
  BY <1>1, <1>3
<1>5. sps = [ok |-> TRUE, i |-> 6 + p, out |-> Stream(c.sps)]
  BY <1>1, <1>2, ParameterSetsWhole DEF p
<1>6. ParseAvcc(rec) = IF l < 7 \/ ~sps.ok THEN Bad
                       ELSE IF sps.i >= l THEN sps
                       ELSE IF pps.ok THEN [pps EXCEPT !.out = sps.out \o @] ELSE Bad
  BY DEF ParseAvcc, l, n
<1>7. Stream(c.sps) \in Seq(Symbol) /\ (c.pps = <<>> => Stream(c.pps) = <<>>)
  BY <1>2, StreamIs
<1> HIDE DEF sps
<1>8. CASE ~c.hasPps
  <2>1. ParseAvcc(rec) = sps
    BY <1>1, <1>4, <1>5, <1>6, <1>8
  <2>2. Sets(c) = Stream(c.sps)
    BY <1>2, <1>7, <1>8 DEF Sets
  <2>3. QED
    BY <2>1, <2>2, <1>4, <1>5 DEF rec, l
<1>9. CASE c.hasPps
  <2>1. sps.i + 1 = 7 + p
    BY <1>1, <1>5
  <2>2. pps = ParameterSets(rec, 7 + p, Len(c.pps))
    BY <2>1, <1>1, <1>9
  <2> HIDE DEF pps
  <2>3. pps = [ok |-> TRUE, i |-> (7 + p) + q, out |-> Stream(c.pps)]
    <3>1. 7 + p \in Nat
      BY <1>1
    <3>2. QED
      BY <2>2, <3>1, <1>1, <1>2, <1>9, ParameterSetsWhole DEF q
  <2>4. ~(l < 7) /\ ~(6 + p >= l)
    BY <1>1, <1>4, <1>9
  <2>5. ParseAvcc(rec) = [pps EXCEPT !.out = sps.out \o @]
    BY <2>3, <2>4, <1>5, <1>6
  <2>6. [pps EXCEPT !.out = sps.out \o @].ok /\ [pps EXCEPT !.out = sps.out \o @].out = Sets(c)
    BY <2>3, <1>5 DEF Sets
  <2>7. QED
    BY <2>5, <2>6, <1>4 DEF rec, l
<1>10. QED
  BY <1>8, <1>9

\* A record that lacks bytes: an error, unless it ends right after its SPS.
LEMMA ParseCut ==
  ASSUME NEW c \in Configs, NEW rec \in Seq(Byte), Len(rec) < Len(Record(c)),
         \A k \in 1 .. Len(rec) : rec[k] = Record(c)[k], ParseAvcc(rec).ok
  PROVE  /\ ParseAvcc(rec).out = Stream(c.sps)
         /\ Len(rec) = 6 + Len(Prefixed(c.sps, 2)) /\ Len(rec) >= 7
<1> DEFINE whole == Record(c)
           p == Len(Prefixed(c.sps, 2))
           q == Len(Prefixed(c.pps, 2))
           l == Len(rec)
           n == rec[6] % 32
           sps == ParameterSets(rec, 6, n)
           pps == ParameterSets(rec, sps.i + 1, rec[sps.i + 1])
<1>1. /\ whole \in Seq(Byte) /\ p \in Nat /\ q \in Nat
      /\ Len(whole) = 6 + p + (IF c.hasPps THEN 1 + q ELSE 0)
      /\ whole[6] % 32 = Len(c.sps) /\ Holds(whole, 6, Prefixed(c.sps, 2))
      /\ c.hasPps => whole[7 + p] = Len(c.pps) /\ Holds(whole, 7 + p, Prefixed(c.pps, 2))
  BY RecordIs
<1>2. /\ c.sps \in Seq(Seq(Byte)) /\ Len(c.sps) \in 0 .. 31
      /\ \A k \in 1 .. Len(c.sps) : Fits(Len(c.sps[k]), 2)
      /\ c.pps \in Seq(Seq(Byte)) /\ Len(c.pps) \in 0 .. 1
      /\ \A k \in 1 .. Len(c.pps) : Fits(Len(c.pps[k]), 2)
      /\ c.hasPps \in BOOLEAN
  BY ConfigIs
<1>3. ParseAvcc(rec) = IF l < 7 \/ ~sps.ok THEN Bad
                       ELSE IF sps.i >= l THEN sps
                       ELSE IF pps.ok THEN [pps EXCEPT !.out = sps.out \o @] ELSE Bad
  BY DEF ParseAvcc
<1>4. l \in Nat /\ l < Len(whole) /\ \A k \in 1 .. l : rec[k] = whole[k]
  OBVIOUS
<1>5. ParseAvcc(rec).ok
  OBVIOUS
<1> HIDE DEF whole, p, q, l, n
<1>6. l >= 7 /\ sps.ok
  <2>1. ~Bad.ok
    BY DEF Bad
  <2>2. ~(l < 7 \/ ~sps.ok)
    BY <2>1, <1>3, <1>5
  <2>3. QED
    BY <2>2, <1>4
<1>7. n = Len(c.sps)
  <2>1. 6 \in 1 .. l
    BY <1>4, <1>6
  <2>2. QED
    BY <2>1, <1>1, <1>4 DEF n
<1>8. \A j \in 1 .. p : whole[6 + j] = Prefixed(c.sps, 2)[j]
  BY <1>1 DEF Holds, p
<1>9. ~(l < 6 + p)
  <2> SUFFICES ASSUME l < 6 + p PROVE FALSE
    OBVIOUS
  <2>1. HoldsCut(rec, 6, Prefixed(c.sps, 2))
    <3>1. 6 <= l /\ l < 6 + p
      BY <1>4, <1>6
    <3>2. ASSUME NEW k \in 1 .. l - 6 PROVE rec[6 + k] = Prefixed(c.sps, 2)[k]
      <4>1. 6 + k \in 1 .. l /\ k \in 1 .. p
        BY <3>1, <1>1, <1>4
      <4>2. QED
        BY <4>1, <1>4, <1>8
    <3>3. QED
      BY <3>1, <3>2 DEF HoldsCut, l, p
  <2>2. sps = Bad
    BY <2>1, <1>2, <1>7, ParameterSetsCut
  <2>3. QED
    BY <2>2, <1>6 DEF Bad
<1>10. sps = [ok |-> TRUE, i |-> 6 + p, out |-> Stream(c.sps)]
  <2>1. Holds(rec, 6, Prefixed(c.sps, 2))
    <3>1. 6 + p <= l
      BY <1>1, <1>4, <1>9
    <3>2. ASSUME NEW k \in 1 .. p PROVE rec[6 + k] = Prefixed(c.sps, 2)[k]
      <4>1. 6 + k \in 1 .. l
        BY <3>1, <1>1, <1>4
      <4>2. QED
        BY <4>1, <1>4, <1>8
    <3>3. QED
      BY <3>1, <3>2 DEF Holds, l, p
  <2>2. QED
    BY <2>1, <1>2, <1>7, ParameterSetsWhole DEF p
<1>11. CASE l = 6 + p
  <2>1. sps.i >= l
    BY <1>1, <1>10, <1>11
  <2> HIDE DEF sps, pps
  <2>2. ParseAvcc(rec) = sps
    <3>1. ~(l < 7 \/ ~sps.ok)
      BY <1>4, <1>6
    <3>2. QED
      BY <2>1, <3>1, <1>3, Zenon
  <2>3. ParseAvcc(rec).out = Stream(c.sps)
    BY <2>2, <1>10
  <2>4. QED
    BY <2>3, <1>6, <1>11 DEF l, p
<1>12. CASE l # 6 + p
  <2>1. c.hasPps /\ 7 + p <= l /\ l < (7 + p) + q
    BY <1>1, <1>2, <1>4, <1>9, <1>12
  <2>2. sps.i + 1 = 7 + p /\ ~(sps.i >= l) /\ 7 + p \in 1 .. l /\ 7 + p \in Nat
    BY <2>1, <1>1, <1>4, <1>10
  <2>3. rec[7 + p] = Len(c.pps)
    BY <2>1, <2>2, <1>1, <1>4
  <2>4. HoldsCut(rec, 7 + p, Prefixed(c.pps, 2))
    <3>1. \A j \in 1 .. q : whole[(7 + p) + j] = Prefixed(c.pps, 2)[j]
      BY <2>1, <1>1 DEF Holds, q
    <3>2. ASSUME NEW k \in 1 .. l - (7 + p) PROVE rec[(7 + p) + k] = Prefixed(c.pps, 2)[k]
      <4>1. (7 + p) + k \in 1 .. l /\ k \in 1 .. q
        BY <2>1, <1>1, <1>4
      <4>2. QED
        BY <4>1, <3>1, <1>4
    <3>3. QED
      BY <2>1, <3>2 DEF HoldsCut, l, q
  <2>5. pps = ParameterSets(rec, 7 + p, Len(c.pps))
    BY <2>2, <2>3
  <2>6. ParameterSets(rec, 7 + p, Len(c.pps)) = Bad
    BY <2>2, <2>4, <1>2, ParameterSetsCut
  <2>7. ParseAvcc(rec) = Bad
    BY <2>2, <2>5, <2>6, <1>3 DEF Bad
  <2>8. QED
    BY <2>7, <1>5 DEF Bad
<1>13. QED
  BY <1>11, <1>12


-----------------------------------------------------------------------------
(* Tags.                                                                   *)

\* The size of NAL lengths is taken from the record, if it says one.
LEMMA SizeLenIs ==
  ASSUME NEW rec \in Seq(Byte), nalu_size_len \in 1 .. 4
  PROVE  SizeLen(rec) \in 1 .. 4 /\ (Len(rec) >= 7 => SizeLen(rec) = (rec[5] % 4) + 1)
<1>1. CASE Len(rec) < 7
  BY <1>1 DEF SizeLen
<1>2. CASE ~(Len(rec) < 7)
  <2> DEFINE x == rec[5]
  <2>1. Len(rec) \in Nat /\ SizeLen(rec) = (x % 4) + 1
    BY <1>2 DEF SizeLen
  <2>2. x \in Byte
    BY <1>2, <2>1
  <2>3. x \in Nat
    BY <2>2, BaseIs DEF Byte
  <2> HIDE DEF x
  <2>4. (x % 4) + 1 \in 1 .. 4
    BY <2>3
  <2>5. QED
    BY <2>1, <2>4 DEF x
<1>3. QED
  BY <1>1, <1>2

\* What a tag with a record or a picture says.
LEMMA TagIs ==
  ASSUME NEW t \in Tags, t.head = "avc"
  PROVE  /\ t.packet = 0 => t.content \in Configs /\ t.cut \in Nat
         /\ t.packet = 1 => t.content \in Pictures /\ t.cut \in Nat /\ t.key \in BOOLEAN
<1>0. Cuts \subseteq Nat
  BY DemuxAssumption DEF DemuxAssumption
<1>1. CASE t \in [head: {"avc"}, packet: {0}, key: {TRUE}, content: Configs, cut: Cuts]
  <2>1. t.packet = 0 /\ t.content \in Configs /\ t.cut \in Cuts
    BY <1>1
  <2>2. t.cut \in Nat
    BY <2>1, <1>0, Zenon
  <2>3. QED
    BY <2>1, <2>2
<1>2. CASE t \in [head: {"avc"}, packet: {1}, key: BOOLEAN, content: Pictures, cut: Cuts]
  <2>1. t.packet = 1 /\ t.content \in Pictures /\ t.cut \in Cuts /\ t.key \in BOOLEAN
    BY <1>2
  <2>2. t.cut \in Nat
    BY <2>1, <1>0, Zenon
  <2>3. QED
    BY <2>1, <2>2
<1>3. CASE t \in [head: {"audio", "short", "codec"}, packet: {0, 1}, key: {TRUE},
                  content: {<<n>> : n \in Nals}, cut: {0}]
  BY <1>3
<1>4. CASE t \in [head: {"avc"}, packet: {2}, key: {TRUE}, content: {<<>>}, cut: {0}]
  BY <1>4
<1>5. QED
  BY <1>1, <1>2, <1>3, <1>4 DEF Tags

\* A record that ends with its SPS.
LEMMA WithoutPps ==
  ASSUME NEW c \in Configs, c.sps # <<>>, NEW a, a = [c EXCEPT !.pps = <<>>, !.hasPps = FALSE]
  PROVE  a \in Configs /\ Sets(a) = Stream(c.sps) /\ a.width = c.width
<1>1. /\ c.sps \in BoundedSeq(Nals, MaxSets) /\ c.width \in Widths
      /\ c \in [sps: BoundedSeq(Nals, MaxSets), pps: BoundedSeq(Nals, 1),
                hasPps: BOOLEAN, width: Widths]
  BY DEF Configs
<1>2. <<>> \in BoundedSeq(Nals, 1)
  <2>1. <<>> \in [1 .. 0 -> Nals] /\ 0 \in 0 .. 1
    OBVIOUS
  <2>2. QED
    BY <2>1 DEF BoundedSeq, SeqOf
<1>3. a.sps = c.sps /\ a.pps = <<>> /\ a.hasPps = FALSE /\ a.width = c.width
  BY <1>1
<1>4. a \in [sps: BoundedSeq(Nals, MaxSets), pps: BoundedSeq(Nals, 1),
            hasPps: BOOLEAN, width: Widths]
  BY <1>1, <1>2
<1>5. a \in Configs
  BY <1>3, <1>4 DEF Configs
<1>6. Sets(a) = Stream(c.sps)
  <2>1. c.sps \in Seq(Seq(Byte)) /\ <<>> \in Seq(Seq(Byte))
    BY ConfigIs, EmptySeq
  <2>2. Stream(c.sps) \in Seq(Symbol) /\ Stream(<<>>) = <<>>
    BY <2>1, StreamIs
  <2>3. Stream(c.sps) \o <<>> = Stream(c.sps)
    BY <2>2
  <2>4. QED
    BY <2>2, <2>3, <1>3 DEF Sets
<1>7. QED
  BY <1>3, <1>5, <1>6

\* A record that is accepted is accepted as it arrived; a whole one is.
LEMMA RecordReads ==
  ASSUME NEW t \in Tags, t.head = "avc", t.packet = 0, nalu_size_len \in 1 .. 4
  PROVE  LET rec == Body(t)
             r   == ParseAvcc(rec)
         IN  /\ SizeLen(rec) \in 1 .. 4
             /\ r.ok => /\ Arrived(t) \in Configs /\ r.out = Sets(Arrived(t))
                        /\ SizeLen(rec) = Arrived(t).width
             /\ t.cut = 0 => r.ok
<1> DEFINE c     == t.content
           whole == Record(c)
           rec   == Body(t)
           r     == ParseAvcc(rec)
           p     == Len(Prefixed(c.sps, 2))
           q     == Len(Prefixed(c.pps, 2))
<1>1. c \in Configs /\ t.cut \in Nat
  BY TagIs
<1>2. /\ whole \in Seq(Byte) /\ whole[5] % 4 = c.width - 1 /\ p \in Nat /\ q \in Nat
      /\ Len(whole) = 6 + p + (IF c.hasPps THEN 1 + q ELSE 0)
  BY <1>1, RecordIs
<1>3. ParseAvcc(whole).ok /\ ParseAvcc(whole).out = Sets(c) /\ Len(whole) >= 7
  BY <1>1, ParseWhole
<1>4. c.width \in 1 .. 4 /\ c.hasPps \in BOOLEAN /\ (~c.hasPps => c.pps = <<>> /\ c.sps # <<>>)
      /\ c.sps \in Seq(Seq(Byte))
  BY <1>1, ConfigIs
<1>5. rec = SubSeq(whole, 1, Len(whole) - t.cut)
  BY DEF Body
<1>6. Len(SpsPart(c)) = 6 + p
  <2> DEFINE x == (Base - 4) + (c.width - 1)
             y == (Base - 32) + Len(c.sps)
             head == <<1, 0, 0, 0, x, y>>
             sps == Prefixed(c.sps, 2)
  <2>1. head \in Seq(Byte) /\ Len(head) = 6
    <3>1. c.width - 1 \in 0 .. 3 /\ Len(c.sps) \in 0 .. 31
      BY <1>1, <1>4, ConfigIs
    <3>2. x \in Byte /\ y \in Byte
      BY <3>1, ReservedBits
    <3> HIDE DEF x, y
    <3>3. QED
      BY <3>2, HeadIs
  <2>2. sps \in Seq(Byte)
    <3>1. 2 \in 1 .. 4
      OBVIOUS
    <3>2. QED
      BY <3>1, <1>4, PrefixedIs
  <2>3. SpsPart(c) = head \o sps
    BY DEF SpsPart
  <2> HIDE DEF head, sps
  <2>4. Len(head \o sps) = Len(head) + Len(sps)
    BY <2>1, <2>2, ConcatHolds
  <2>5. QED
    BY <2>1, <2>3, <2>4 DEF sps
<1>7. Arrived(t) = IF Len(rec) > 6 + p THEN c ELSE [c EXCEPT !.pps = <<>>, !.hasPps = FALSE]
  BY <1>6 DEF Arrived
<1> HIDE DEF c, whole, rec, r, p, q
<1>8. /\ rec \in Seq(Byte) /\ Len(rec) <= Len(whole) /\ \A k \in 1 .. Len(rec) : rec[k] = whole[k]
      /\ Len(rec) = Len(whole) => rec = whole
      /\ t.cut = 0 => rec = whole
  BY <1>1, <1>2, <1>5, PrefixIs
<1>9. t.cut = 0 => r.ok
  BY <1>3, <1>8 DEF r
<1> DEFINE l == Len(rec)
           m == Len(whole)
<1>10. l \in Nat /\ m \in Nat /\ l <= m /\ m >= 7 /\ m = 6 + p + (IF c.hasPps THEN 1 + q ELSE 0)
  BY <1>2, <1>3, <1>8
<1>11. SizeLen(rec) \in 1 .. 4 /\ (l >= 7 => SizeLen(rec) = (rec[5] % 4) + 1)
  BY <1>8, SizeLenIs
<1> HIDE DEF l, m
<1>12. l >= 7 => SizeLen(rec) = c.width
  <2> SUFFICES ASSUME l >= 7 PROVE SizeLen(rec) = c.width
    OBVIOUS
  <2>1. 5 \in 1 .. l
    BY <1>10
  <2>2. rec[5] = whole[5]
    BY <2>1, <1>8 DEF l
  <2>3. QED
    BY <2>2, <1>2, <1>4, <1>11
<1>13. l = 6 + p /\ l >= 7 => c.sps # <<>>
  <2> SUFFICES ASSUME c.sps = <<>>, l = 6 + p, l >= 7 PROVE FALSE
    OBVIOUS
  <2>1. 2 \in 1 .. 4
    OBVIOUS
  <2>2. Prefixed(c.sps, 2) = <<>>
    BY <2>1, <1>4, PrefixedIs
  <2>3. p = 0
    BY <2>2 DEF p
  <2>4. QED
    BY <2>3
<1>14. r.ok => \/ l > 6 + p /\ r.out = Sets(c)
               \/ l = 6 + p /\ l >= 7 /\ r.out = Stream(c.sps)
  <2> SUFFICES ASSUME r.ok
               PROVE  \/ l > 6 + p /\ r.out = Sets(c)
                      \/ l = 6 + p /\ l >= 7 /\ r.out = Stream(c.sps)
    OBVIOUS
  <2>1. CASE l = m
    <3>1. r.out = Sets(c)
      BY <2>1, <1>3, <1>8 DEF l, m, r
    <3>2. CASE c.hasPps
      BY <3>1, <3>2, <2>1, <1>2, <1>10
    <3>3. CASE ~c.hasPps
      <4>1. l = 6 + p /\ l >= 7
        BY <3>3, <2>1, <1>2, <1>10
      <4>2. c.pps = <<>>
        BY <3>3, <1>4
      <4>3. <<>> \in Seq(Seq(Byte))
        BY EmptySeq
      <4>4. Stream(c.sps) \in Seq(Symbol) /\ Stream(<<>>) = <<>>
        BY <1>4, <4>3, StreamIs
      <4>5. Stream(c.sps) \o <<>> = Stream(c.sps)
        BY <4>4
      <4>6. Sets(c) = Stream(c.sps)
        BY <4>2, <4>4, <4>5 DEF Sets
      <4>7. QED
        BY <4>1, <4>6, <3>1
    <3>4. QED
      BY <3>2, <3>3, <1>4
  <2>2. CASE l # m
    <3>1. Len(rec) < Len(Record(c))
      BY <2>2, <1>10 DEF l, m, whole
    <3>2. \A k \in 1 .. Len(rec) : rec[k] = Record(c)[k]
      BY <1>8 DEF whole
    <3>3. ParseAvcc(rec).ok
      BY DEF r
    <3>4. /\ ParseAvcc(rec).out = Stream(c.sps)
          /\ Len(rec) = 6 + Len(Prefixed(c.sps, 2)) /\ Len(rec) >= 7
      BY <3>1, <3>2, <3>3, <1>1, <1>8, ParseCut DEF c
    <3>5. QED
      BY <3>4 DEF r, l, p
  <2>3. QED
    BY <2>1, <2>2
<1>15. r.ok => /\ Arrived(t) \in Configs /\ r.out = Sets(Arrived(t))
               /\ SizeLen(rec) = Arrived(t).width
  <2> SUFFICES ASSUME r.ok
               PROVE  /\ Arrived(t) \in Configs /\ r.out = Sets(Arrived(t))
                      /\ SizeLen(rec) = Arrived(t).width
    OBVIOUS
  <2>1. CASE l > 6 + p /\ r.out = Sets(c)
    <3>1. Arrived(t) = c
      BY <2>1, <1>7 DEF l
    <3>2. SizeLen(rec) = c.width
      BY <2>1, <1>2, <1>10, <1>12
    <3>3. QED
      BY <3>1, <3>2, <2>1, <1>1 DEF c
  <2>2. CASE l = 6 + p /\ l >= 7 /\ r.out = Stream(c.sps)
    <3>1. Arrived(t) = [c EXCEPT !.pps = <<>>, !.hasPps = FALSE]
      BY <2>2, <1>7, <1>10 DEF l
    <3>2. c.sps # <<>> /\ c \in Configs
      BY <2>2, <1>1, <1>13 DEF c
    <3>3. /\ Arrived(t) \in Configs /\ Sets(Arrived(t)) = Stream(c.sps)
          /\ Arrived(t).width = c.width
      BY <3>1, <3>2, WithoutPps
    <3>4. QED
      BY <3>3, <2>2, <1>12
  <2>3. QED
    BY <2>1, <2>2, <1>14
<1>16. QED
  BY <1>9, <1>11, <1>15 DEF rec, r

\* The lengths of the units of a picture fit in the size they are written with.
Fitting(units) == \A k \in DOMAIN units : Fits(Len(units[k]), Width)

LEMMA PictureReads ==
  ASSUME NEW t \in Tags, t.head = "avc", t.packet = 1, Width \in 1 .. 4, Fitting(t.content)
  PROVE  LET r == AnnexB(Body(t), Width)
         IN  /\ r \in Parser
             /\ r.ok => \E n \in 0 .. Len(t.content) :
                          Brings(t, n) /\ r.out = First(Meanings(t.content), n)
             /\ t.cut = 0 => r.ok /\ r.out = Joined(Meanings(t.content))
<1> DEFINE units == t.content
           w     == Width
           whole == Prefixed(units, w)
           body  == Body(t)
           m     == Len(units)
<1>1. units \in Pictures /\ t.cut \in Nat
  BY TagIs
<1>2. MaxNals \in Nat
  BY DemuxAssumption DEF DemuxAssumption
<1>3. units \in Seq(Seq(Byte)) /\ m \in Nat /\ m \in 0 .. m
  BY <1>1, <1>2, UnitsBounded DEF Pictures
<1>4. \A k \in 1 .. Len(units) : Fits(Len(units[k]), w)
  BY <1>3 DEF Fitting
<1>5. body = SubSeq(whole, 1, Len(whole) - t.cut)
  BY DEF Body
<1>6. \A n : Brings(t, n) <=>
        /\ Len(First(Pieces(units, w), n)) <= Len(body)
        /\ n = m \/ Len(body) < Len(First(Pieces(units, w), n)) + w
  BY Zenon DEF Brings
<1>7. Width = w /\ w \in 1 .. 4
  OBVIOUS
<1> HIDE DEF w
<1>8. /\ whole \in Seq(Byte) /\ whole = First(Pieces(units, w), m)
      /\ Len(Meanings(units)) = m
  <2>1. Len(Pieces(units, w)) = m /\ Len(Meanings(units)) = m
    BY <1>3, <1>7, UnitsAre
  <2>2. QED
    BY <2>1, <1>3, <1>7, PrefixedIs DEF Prefixed, Joined
<1>9. Joined(Meanings(units)) = First(Meanings(units), m)
  BY <1>8 DEF Joined
<1> HIDE DEF whole, body, units, m
<1>10. /\ body \in Seq(Byte) /\ Len(body) <= Len(whole) /\ \A k \in 1 .. Len(body) : body[k] = whole[k]
       /\ Len(body) = Len(whole) => body = whole
       /\ t.cut = 0 => body = whole
  BY <1>1, <1>5, <1>8, PrefixIs
<1>11. Len(body) \in Nat /\ Len(whole) \in Nat
  BY <1>8, <1>10
<1> DEFINE r == AnnexB(body, w)
<1>12. CASE body = whole
  <2>1. r \in Parser /\ r.ok /\ r.out = Joined(Meanings(units))
    BY <1>3, <1>4, <1>7, <1>12, AnnexBWhole DEF whole
  <2>2. Brings(t, m)
    BY <1>6, <1>8, <1>11, <1>12
  <2>3. QED
    BY <2>1, <2>2, <1>3, <1>7, <1>9 DEF units, body, m
<1>13. CASE body # whole
  <2>1. HoldsCut(body, 0, Prefixed(units, w))
    <3>1. 0 <= Len(body) /\ Len(body) < 0 + Len(whole)
      BY <1>10, <1>11, <1>13
    <3>2. ASSUME NEW k \in 1 .. Len(body) - 0 PROVE body[0 + k] = whole[k]
      <4>1. k \in 1 .. Len(body) /\ 0 + k = k
        BY <1>11
      <4>2. QED
        BY <4>1, <1>10
    <3>3. QED
      BY <3>1, <3>2 DEF HoldsCut, whole
  <2>2. /\ r \in Parser
        /\ r.ok => \E n \in 0 .. Len(units) :
                     /\ Len(First(Pieces(units, w), n)) <= Len(body)
                     /\ Len(body) < Len(First(Pieces(units, w), n)) + w
                     /\ r.out = First(Meanings(units), n)
    BY <2>1, <1>3, <1>4, <1>7, <1>10, AnnexBCut
  <2>3. r.ok => \E n \in 0 .. Len(units) : Brings(t, n) /\ r.out = First(Meanings(units), n)
    BY <2>2, <1>6
  <2>4. t.cut # 0
    BY <1>10, <1>13
  <2>5. QED
    BY <2>2, <2>3, <2>4, <1>7 DEF units, body
<1>14. QED
  BY <1>12, <1>13

\* A picture with something in it means something.
LEMMA SomethingMeant ==
  ASSUME NEW units \in Seq(Seq(Byte)), NEW k \in 1 .. Len(units), units[k] # <<>>
  PROVE  Joined(Meanings(units)) # <<>>
<1> DEFINE means == Meanings(units)
           m     == Len(units)
           L(j)  == Len(First(means, j))
<1>1. /\ means \in Seq(Seq(Symbol)) /\ Len(means) = m /\ m \in Nat
      /\ means[k] = Meant(units[k]) /\ units[k] \in Seq(Byte)
  BY UnitsAre, 1 \in 1 .. 4
<1>2. means[k] \in Seq(Symbol) /\ means[k] # <<>>
  BY <1>1, MarkedIs DEF Meant
<1>3. Len(means[k]) \in Nat /\ Len(means[k]) # 0
  BY <1>2
<1> HIDE DEF means
<1>4. L(k) = L(k - 1) + Len(means[k])
  BY <1>1, FirstGrows
<1>5. k \in 0 .. m /\ k - 1 \in 0 .. m /\ m \in 0 .. m /\ m \in k .. Len(means)
  BY <1>1
<1>6. L(k) <= L(m)
  BY <1>1, <1>5, FirstInside
<1>7. /\ First(means, k) \in Seq(Symbol) /\ First(means, k - 1) \in Seq(Symbol)
      /\ First(means, m) \in Seq(Symbol)
  BY <1>1, <1>5, FirstParts
<1>8. L(k) \in Nat /\ L(k - 1) \in Nat /\ L(m) \in Nat
  BY <1>7
<1> DEFINE x == L(k)
           y == L(k - 1)
           z == L(m)
           d == Len(means[k])
<1>9. z # 0
  <2>1. x = y + d /\ x <= z /\ d \in Nat /\ d # 0 /\ x \in Nat /\ y \in Nat /\ z \in Nat
    BY <1>3, <1>4, <1>6, <1>8
  <2> HIDE DEF x, y, z, d
  <2>2. QED
    BY <2>1
<1>10. Joined(means) = First(means, m)
  BY <1>1 DEF Joined
<1>11. QED
  BY <1>9, <1>10 DEF means

-----------------------------------------------------------------------------
(* The inductive invariant.                                                *)

\* What waits to be looked at is a tag, and a picture was written with the size
\* of lengths of the record in force.
TagWaits ==
  at = "tag" =>
    /\ tag \in Tags
    /\ tag.head = "avc" /\ tag.packet = 1 => Fitting(tag.content)

DemuxInv == TypeOK /\ SetsCurrent /\ UnitExact /\ TagWaits

LEMMA WidthIs ==
  ASSUME config = None \/ config \in Configs
  PROVE  Width \in 1 .. 4 /\ MeantSets \in Seq(Symbol)
<1>1. CASE config = None
  BY <1>1 DEF Width, MeantSets
<1>2. CASE config # None
  <2>1. config \in Configs
    BY <1>2
  <2>2. /\ config.width \in 1 .. 4
        /\ config.sps \in Seq(Seq(Byte)) /\ config.pps \in Seq(Seq(Byte))
    BY <2>1, ConfigIs
  <2>3. Stream(config.sps) \in Seq(Symbol) /\ Stream(config.pps) \in Seq(Symbol)
    BY <2>2, StreamIs
  <2>4. Stream(config.sps) \o Stream(config.pps) \in Seq(Symbol)
    BY <2>3
  <2>5. QED
    BY <1>2, <2>2, <2>4 DEF Width, MeantSets
<1>3. QED
  BY <1>1, <1>2

LEMMA SetsIs ==
  ASSUME NEW c \in Configs
  PROVE  Sets(c) \in Seq(Symbol) /\ c.width \in 1 .. 4 /\ c # None
<1>1. c.sps \in Seq(Seq(Byte)) /\ c.pps \in Seq(Seq(Byte)) /\ c.width \in 1 .. 4
  BY ConfigIs
<1>2. Stream(c.sps) \in Seq(Symbol) /\ Stream(c.pps) \in Seq(Symbol)
  BY <1>1, StreamIs
<1>3. Stream(c.sps) \o Stream(c.pps) \in Seq(Symbol)
  BY <1>2
<1>4. QED
  BY <1>1, <1>3, NoneAssumption DEF Sets

LEMMA TypeIs ==
  TypeOK <=> /\ at \in {"next", "tag", "unit", "ended"}
             /\ sps_pps \in Seq(Symbol)
             /\ nalu_size_len \in 1 .. 4
             /\ tag = None \/ tag \in Tags
             /\ au = None \/ au \in Seq(Symbol) \ {<<>>}
             /\ config = None \/ config \in Configs
BY DEF TypeOK, Symbol, Byte

\* What an access unit is made of is there as long as its tag and the record are.
LEMMA UnitStays ==
  ASSUME UnitExact, at' = at, au' = au, tag' = tag, Width' = Width, MeantSets' = MeantSets
  PROVE  UnitExact'
<1> SUFFICES ASSUME at' = "unit" PROVE UnitExact'
  BY DEF UnitExact
<1>1. tag.head = "avc" /\ tag.packet = 1
  BY DEF UnitExact
<1>2. PICK n \in 0 .. Len(tag.content) :
        /\ Brings(tag, n)
        /\ au = (IF tag.key THEN MeantSets ELSE <<>>) \o First(Meanings(tag.content), n)
  BY DEF UnitExact
<1>3. Body(tag)' = Body(tag)
  BY DEF Body
<1>4. /\ Len(First(Pieces(tag.content, Width), n)) <= Len(Body(tag))
      /\ n = Len(tag.content) \/ Len(Body(tag)) < Len(First(Pieces(tag.content, Width), n)) + Width
  BY <1>2 DEF Brings
<1>5. Brings(tag, n)'
  BY <1>3, <1>4 DEF Brings
<1>6. au' = (IF tag'.key THEN MeantSets' ELSE <<>>) \o First(Meanings(tag'.content), n)
  BY <1>2
<1>7. tag'.head = "avc" /\ tag'.packet = 1 /\ n \in 0 .. Len(tag'.content)
  BY <1>1, <1>2
<1>8. QED
  BY <1>5, <1>6, <1>7 DEF UnitExact

LEMMA DemuxInit == Init => DemuxInv
<1> SUFFICES ASSUME Init
             PROVE  DemuxInv
  OBVIOUS
<1>1. TypeOK
  BY EmptySeq DEF Init, TypeOK
<1>2. SetsCurrent
  BY DEF Init, SetsCurrent, MeantSets, Width
<1>3. UnitExact /\ TagWaits
  BY DEF Init, UnitExact, TagWaits
<1>4. QED
  BY <1>1, <1>2, <1>3 DEF DemuxInv

\* A record: what was kept is replaced by what it says, or the reader ends.
LEMMA ConfigureKeeps ==
  ASSUME DemuxInv, Configure
  PROVE  DemuxInv' /\ (tag.cut = 0 => at' = "next")
<1> DEFINE rec == Body(tag)
           r   == ParseAvcc(rec)
           c   == Arrived(tag)
<1>1. TypeOK /\ TagWaits /\ at = "tag"
  BY DEF DemuxInv, Configure
<1>2. /\ tag \in Tags /\ tag.head = "avc" /\ tag.packet = 0
      /\ sps_pps \in Seq(Symbol) /\ nalu_size_len \in 1 .. 4
      /\ config = None \/ config \in Configs
      /\ au = None \/ au \in Seq(Symbol) \ {<<>>}
  BY <1>1, TypeIs DEF TagWaits, Configure
<1>3. /\ SizeLen(rec) \in 1 .. 4
      /\ r.ok => c \in Configs /\ r.out = Sets(c) /\ SizeLen(rec) = c.width
      /\ tag.cut = 0 => r.ok
  BY <1>2, RecordReads
<1>4. c \in Configs => Sets(c) \in Seq(Symbol) /\ c.width \in 1 .. 4 /\ c # None
  BY SetsIs
<1>5. r.ok => /\ c \in Configs /\ r.out = Sets(c) /\ SizeLen(rec) = c.width
              /\ Sets(c) \in Seq(Symbol) /\ c.width \in 1 .. 4 /\ c # None
  BY <1>3, <1>4
<1>6. /\ nalu_size_len' = SizeLen(rec)
      /\ sps_pps' = IF r.ok THEN r.out ELSE sps_pps
      /\ config' = IF r.ok THEN c ELSE config
      /\ at' = IF r.ok THEN "next" ELSE "ended"
      /\ tag' = None /\ au' = au
  BY DEF Configure
<1> HIDE DEF r, rec, c
<1>7. TypeOK'
  <2>1. sps_pps' \in Seq(Symbol)
    BY <1>2, <1>5, <1>6
  <2>2. nalu_size_len' \in 1 .. 4 /\ at' \in {"next", "ended"}
    BY <1>3, <1>6
  <2>3. config' = None \/ config' \in Configs
    BY <1>2, <1>5, <1>6
  <2>4. (tag' = None \/ tag' \in Tags) /\ (au' = None \/ au' \in Seq(Symbol) \ {<<>>})
    BY <1>2, <1>6
  <2>5. QED
    BY <2>1, <2>2, <2>3, <2>4 DEF TypeOK, Symbol, Byte
<1>8. SetsCurrent'
  <2>1. CASE r.ok
    <3>1. sps_pps' = Sets(c) /\ nalu_size_len' = c.width /\ config' = c
      BY <2>1, <1>5, <1>6
    <3>2. QED
      BY <3>1, <2>1, <1>5 DEF SetsCurrent, MeantSets, Width, Sets
  <2>2. CASE ~r.ok
    BY <2>2, <1>6 DEF SetsCurrent
  <2>3. QED
    BY <2>1, <2>2
<1>9. UnitExact' /\ TagWaits'
  BY <1>6 DEF UnitExact, TagWaits
<1>10. QED
  BY <1>3, <1>6, <1>7, <1>8, <1>9 DEF DemuxInv

\* A picture: what is put out is what it means, behind the sets of a keyframe.
LEMMA PictureKeeps ==
  ASSUME DemuxInv, Picture
  PROVE  /\ DemuxInv'
         /\ tag.cut = 0 =>
              /\ at' # "ended"
              /\ (\E k \in DOMAIN tag.content : tag.content[k] # <<>>) => at' = "unit"
<1> DEFINE r   == AnnexB(Body(tag), nalu_size_len)
           out == (IF tag.key THEN sps_pps ELSE <<>>) \o r.out
<1>1. TypeOK /\ SetsCurrent /\ TagWaits /\ at = "tag"
  BY DEF DemuxInv, Picture
<1>2. /\ tag \in Tags /\ tag.head = "avc" /\ tag.packet = 1 /\ Fitting(tag.content)
      /\ sps_pps \in Seq(Symbol) /\ nalu_size_len \in 1 .. 4
      /\ config = None \/ config \in Configs
  BY <1>1, TypeIs DEF TagWaits, Picture
<1>3. sps_pps = MeantSets /\ nalu_size_len = Width /\ Width \in 1 .. 4
  BY <1>1, <1>2, WidthIs DEF SetsCurrent
<1>4. tag.content \in Pictures /\ tag.key \in BOOLEAN
  BY <1>2, TagIs
<1> DEFINE Whole(n) == Brings(tag, n) /\ r.out = First(Meanings(tag.content), n)
<1>5. /\ r \in Parser /\ (r.ok => \E n \in 0 .. Len(tag.content) : Whole(n))
      /\ tag.cut = 0 => r.ok /\ r.out = Joined(Meanings(tag.content))
  BY <1>2, <1>3, PictureReads
<1>6. /\ at' = IF ~r.ok THEN "ended" ELSE IF out = <<>> THEN "next" ELSE "unit"
      /\ au' = IF at' = "unit" THEN out ELSE None
      /\ tag' = IF at' = "unit" THEN tag ELSE None
      /\ sps_pps' = sps_pps /\ nalu_size_len' = nalu_size_len /\ config' = config
  BY DEF Picture
<1>7. r.out \in Seq(Symbol)
  BY <1>5 DEF Parser
<1>8. out \in Seq(Symbol)
  <2>1. (IF tag.key THEN sps_pps ELSE <<>>) \in Seq(Symbol)
    BY <1>2
  <2>2. QED
    BY <2>1, <1>7
<1>9. r.ok => \E n \in 0 .. Len(tag.content) :
                /\ Brings(tag, n)
                /\ out = (IF tag.key THEN MeantSets ELSE <<>>) \o First(Meanings(tag.content), n)
  BY <1>3, <1>5
<1>10. tag.cut = 0 /\ (\E k \in DOMAIN tag.content : tag.content[k] # <<>>) => out # <<>>
  <2> SUFFICES ASSUME tag.cut = 0, NEW k \in DOMAIN tag.content, tag.content[k] # <<>>
               PROVE  out # <<>>
    OBVIOUS
  <2>1. MaxNals \in Nat
    BY DemuxAssumption DEF DemuxAssumption
  <2>2. tag.content \in Seq(Seq(Byte))
    BY <2>1, <1>4, UnitsBounded DEF Pictures
  <2>3. k \in 1 .. Len(tag.content)
    BY <2>2
  <2>4. Joined(Meanings(tag.content)) # <<>>
    BY <2>2, <2>3, SomethingMeant
  <2>5. r.out # <<>>
    BY <2>4, <1>5
  <2> DEFINE a == IF tag.key THEN sps_pps ELSE <<>>
             b == r.out
  <2>6. a \in Seq(Symbol) /\ b \in Seq(Symbol) /\ b # <<>>
    BY <2>5, <1>2, <1>7
  <2> HIDE DEF a, b
  <2>7. a \o b # <<>>
    BY <2>6
  <2>8. QED
    BY <2>7 DEF a, b
<1>11. at' = "unit" => r.ok /\ out # <<>>
  BY <1>6
<1> HIDE DEF out
<1>12. TypeOK'
  <2>1. at' \in {"next", "unit", "ended"}
    BY <1>6
  <2>2. au' = None \/ au' \in Seq(Symbol) \ {<<>>}
    BY <1>6, <1>8, <1>11
  <2>3. tag' = None \/ tag' \in Tags
    BY <1>2, <1>6
  <2>4. sps_pps' \in Seq(Symbol) /\ nalu_size_len' \in 1 .. 4
        /\ (config' = None \/ config' \in Configs)
    BY <1>2, <1>6
  <2>5. QED
    BY <2>1, <2>2, <2>3, <2>4 DEF TypeOK, Symbol, Byte
<1>13. Width' = Width /\ MeantSets' = MeantSets
  BY <1>6 DEF Width, MeantSets
<1>14. SetsCurrent'
  BY <1>3, <1>6, <1>13 DEF SetsCurrent
<1>15. UnitExact'
  <2> SUFFICES ASSUME at' = "unit" PROVE UnitExact'
    BY DEF UnitExact
  <2>1. tag' = tag /\ au' = out /\ r.ok
    BY <1>6, <1>11
  <2>2. PICK n \in 0 .. Len(tag.content) :
          /\ Brings(tag, n)
          /\ out = (IF tag.key THEN MeantSets ELSE <<>>) \o First(Meanings(tag.content), n)
    BY <2>1, <1>9
  <2>3. /\ Len(First(Pieces(tag.content, Width), n)) <= Len(Body(tag))
        /\ n = Len(tag.content)
           \/ Len(Body(tag)) < Len(First(Pieces(tag.content, Width), n)) + Width
    BY <2>2 DEF Brings
  <2>4. Body(tag)' = Body(tag)
    BY <2>1, <1>13 DEF Body
  <2>5. Brings(tag, n)'
    BY <2>1, <2>3, <2>4, <1>13 DEF Brings
  <2>6. au' = (IF tag'.key THEN MeantSets' ELSE <<>>) \o First(Meanings(tag'.content), n)
    BY <2>1, <2>2, <1>13
  <2>7. tag'.head = "avc" /\ tag'.packet = 1 /\ n \in 0 .. Len(tag'.content)
    BY <2>1, <1>2
  <2>8. QED
    BY <2>5, <2>6, <2>7 DEF UnitExact
<1>16. TagWaits'
  BY <1>6 DEF TagWaits
<1>17. tag.cut = 0 => at' # "ended"
  BY <1>5, <1>6
<1>18. tag.cut = 0 /\ (\E k \in DOMAIN tag.content : tag.content[k] # <<>>) => at' = "unit"
  BY <1>5, <1>6, <1>10
<1>19. QED
  BY <1>12, <1>14, <1>15, <1>16, <1>17, <1>18 DEF DemuxInv

LEMMA DemuxStep == DemuxInv /\ [Next]_vars => DemuxInv'
<1> SUFFICES ASSUME DemuxInv, [Next]_vars
             PROVE  DemuxInv'
  OBVIOUS
<1> USE DEF DemuxInv
<1>1. CASE ReadTag
  <2>1. at = "next" /\ at' = "tag" /\ tag' \in Tags
        /\ sps_pps' = sps_pps /\ nalu_size_len' = nalu_size_len /\ au' = au /\ config' = config
    BY <1>1 DEF ReadTag
  <2>2. TypeOK'
    BY <2>1 DEF TypeOK
  <2>3. Width' = Width /\ MeantSets' = MeantSets
    BY <2>1 DEF Width, MeantSets
  <2>4. SetsCurrent' /\ UnitExact'
    BY <2>1, <2>3 DEF SetsCurrent, UnitExact
  <2>5. tag'.packet = 1 => \A k \in DOMAIN tag'.content : Fits(Len(tag'.content[k]), Width)
    BY <1>1 DEF ReadTag
  <2>6. TagWaits'
    BY <2>1, <2>3, <2>5 DEF TagWaits, Fitting
  <2>7. QED
    BY <2>2, <2>4, <2>6
<1>2. CASE EndOfStream
  BY <1>2 DEF EndOfStream, TypeOK, SetsCurrent, UnitExact, TagWaits
<1>3. CASE Skip
  <2>1. MeantSets' = MeantSets /\ Width' = Width
    BY <1>3 DEF Skip, MeantSets, Width
  <2>2. QED
    BY <1>3, <2>1 DEF Skip, TypeOK, SetsCurrent, UnitExact, TagWaits
<1>4. CASE Configure
  BY <1>4, ConfigureKeeps
<1>5. CASE Picture
  BY <1>5, PictureKeeps
<1>6. CASE Return
  <2>1. MeantSets' = MeantSets /\ Width' = Width
    BY <1>6 DEF Return, MeantSets, Width
  <2>2. QED
    BY <1>6, <2>1 DEF Return, TypeOK, SetsCurrent, UnitExact, TagWaits
<1>7. CASE UNCHANGED vars
  <2>1. /\ at' = at /\ sps_pps' = sps_pps /\ nalu_size_len' = nalu_size_len
        /\ tag' = tag /\ au' = au /\ config' = config
    BY <1>7 DEF vars
  <2>2. MeantSets' = MeantSets /\ Width' = Width
    BY <2>1 DEF MeantSets, Width
  <2>3. UnitExact'
    BY <2>1, <2>2, UnitStays
  <2>4. QED
    BY <2>1, <2>2, <2>3 DEF TypeOK, SetsCurrent, TagWaits, Fitting
<1>8. QED
  BY <1>1, <1>2, <1>3, <1>4, <1>5, <1>6, <1>7 DEF Next

LEMMA DemuxAlways == Spec => []DemuxInv
BY DemuxInit, DemuxStep, PTL DEF Spec

\* Every variable keeps to its type: the bytes put out are bytes and start
\* codes, the length size is one to four (next_au, parse_avcc, avcc_to_annexb).
THEOREM DemuxTypes == Spec => []TypeOK
<1>1. DemuxInv => TypeOK
  BY DEF DemuxInv
<1>2. QED
  BY <1>1, DemuxAlways, PTL

\* The parameter sets and the length size in use are those of the last record
\* that was accepted, as it arrived, whatever records came and wherever each of
\* them ended: all sets of it, or its SPS alone when it ended right after them,
\* which parse_avcc accepts.
THEOREM SetsAreCurrent == Spec => []SetsCurrent
<1>1. DemuxInv => SetsCurrent
  BY DEF DemuxInv
<1>2. QED
  BY <1>1, DemuxAlways, PTL

\* An access unit is the NAL units of its picture that arrived, for all units
\* and lengths and wherever the tag ended, behind the current sets when it is a
\* keyframe.  They are all units of the picture unless less than a length was
\* left of the tag after them: then the rest of the picture is missing and
\* nobody is told (next_au, avcc_to_annexb).
THEOREM UnitsAreExact == Spec => []UnitExact
<1>1. DemuxInv => UnitExact
  BY DEF DemuxInv
<1>2. QED
  BY <1>1, DemuxAlways, PTL

\* No tag that is whole ends the video of the session, and no whole picture with
\* something in it is swallowed (next_au, read_loop).
THEOREM WholeTagsAreServed == Spec => WholeTagsServed
<1> DEFINE Served ==
      at = "tag" /\ tag.cut = 0 =>
        /\ at' # "ended"
        /\ tag.head = "avc" /\ tag.packet = 1 /\ (\E k \in DOMAIN tag.content : tag.content[k] # <<>>)
             => at' = "unit"
<1>1. DemuxInv /\ [Next]_vars => [Served]_vars
  <2> SUFFICES ASSUME DemuxInv, Next, at = "tag", tag.cut = 0
               PROVE  /\ at' # "ended"
                      /\ tag.head = "avc" /\ tag.packet = 1
                         /\ (\E k \in DOMAIN tag.content : tag.content[k] # <<>>) => at' = "unit"
    OBVIOUS
  <2>1. CASE Skip
    BY <2>1 DEF Skip
  <2>2. CASE Configure
    <3>1. at' = "next"
      BY <2>2, ConfigureKeeps
    <3>2. tag.packet = 0
      BY <2>2 DEF Configure
    <3>3. QED
      BY <3>1, <3>2
  <2>3. CASE Picture
    <3>1. at' # "ended" /\ ((\E k \in DOMAIN tag.content : tag.content[k] # <<>>) => at' = "unit")
      BY <2>3, PictureKeeps
    <3>2. QED
      BY <3>1
  <2>4. ~ReadTag /\ ~EndOfStream /\ ~Return
    BY DEF ReadTag, EndOfStream, Return
  <2>5. QED
    BY <2>1, <2>2, <2>3, <2>4 DEF Next
<1>2. QED
  BY <1>1, DemuxAlways, PTL DEF Spec, WholeTagsServed

=============================================================================
