--------------------------- MODULE FramingProofs ---------------------------
(* Theorems about Framing: for every number and size of frames and however *)
(* the transport cuts them, frames dispatched whole stay in order.         *)
EXTENDS Framing, SequenceTheorems, TLAPS

-----------------------------------------------------------------------------
(* Sequences.                                                              *)

\* A function on 1..n is a sequence of length n.
LEMMA SeqOfFunction ==
  ASSUME NEW S, NEW n \in Nat, NEW s \in [1..n -> S]
  PROVE  s \in Seq(S) /\ Len(s) = n
<1>1. s \in Seq(S)
  BY SeqDef
<1>2. Len(s) \in Nat /\ 1..Len(s) = 1..n
  <2>1. DOMAIN s = 1..n
    OBVIOUS
  <2>2. QED
    BY <1>1, <2>1, LenProperties
<1>3. QED
  BY <1>1, <1>2

-----------------------------------------------------------------------------
(* Bytes and frames.                                                       *)

LEMMA TotalIs ==
  /\ Frames \in Nat /\ LenBytes \in Nat /\ LenBytes >= 1
  /\ \A f \in 1..Frames : /\ Size[f] \in Nat /\ Size[f] >= 1
                          /\ Total(f) \in Nat /\ Total(f) = LenBytes + Size[f]
<1>1. \A f \in 1..Frames : Size[f] \in Nat \ {0}
  BY FramingAssumption DEF FramingAssumption
<1>2. Frames \in Nat /\ LenBytes \in Nat \ {0}
  BY FramingAssumption DEF FramingAssumption
<1>3. QED
  BY <1>1, <1>2 DEF Total

LEMMA ByteIs ==
  /\ \A f \in 1..Frames : \A p \in 1..Total(f) : <<f, p>> \in Byte
  /\ \A b \in Byte : \E f \in 1..Frames : \E p \in 1..Total(f) : b = <<f, p>>
  BY DEF Byte

\* The bytes of frame f from one position to another.
LEMMA BytesAre ==
  ASSUME NEW f \in 1..Frames, NEW a \in Nat, NEW b \in Nat, a <= b, b <= Total(f)
  PROVE  /\ Bytes(f, a, b) \in Seq(Byte)
         /\ Len(Bytes(f, a, b)) = b - a
         /\ \A i \in 1..(b - a) : Bytes(f, a, b)[i] = <<f, a + i>>
<1>1. \A i \in 1..(b - a) : <<f, a + i>> \in Byte
  <2> SUFFICES ASSUME NEW i \in 1..(b - a) PROVE <<f, a + i>> \in Byte
    OBVIOUS
  <2>1. a + i \in 1..Total(f)
    BY TotalIs
  <2>2. QED
    BY <2>1, ByteIs
<1>2. Bytes(f, a, b) \in [1..(b - a) -> Byte]
  BY <1>1 DEF Bytes
<1>3. b - a \in Nat
  OBVIOUS
<1>4. Bytes(f, a, b) \in Seq(Byte) /\ Len(Bytes(f, a, b)) = b - a
  BY <1>2, <1>3, SeqOfFunction
<1>5. QED
  BY <1>4 DEF Bytes

LEMMA PrefixIs ==
  ASSUME NEW f \in 1..Frames
  PROVE  /\ Prefix(f) \in Seq(Byte) /\ Len(Prefix(f)) = LenBytes
         /\ \A i \in 1..LenBytes : Prefix(f)[i] = <<f, i>>
<1>1. 0 \in Nat /\ LenBytes \in Nat /\ 0 <= LenBytes /\ LenBytes <= Total(f) /\ LenBytes - 0 = LenBytes
  BY TotalIs
<1>2. /\ Prefix(f) \in Seq(Byte) /\ Len(Prefix(f)) = LenBytes - 0
      /\ \A i \in 1..(LenBytes - 0) : Prefix(f)[i] = <<f, 0 + i>>
  BY <1>1, BytesAre DEF Prefix
<1>3. QED
  BY <1>1, <1>2

\* A frame, prefix and body.
LEMMA WholeIs ==
  ASSUME NEW f \in 1..Frames
  PROVE  /\ Prefix(f) \o Body(f) \in Seq(Byte)
         /\ Len(Prefix(f) \o Body(f)) = Total(f)
         /\ \A i \in 1..Total(f) : (Prefix(f) \o Body(f))[i] = <<f, i>>
<1> DEFINE p == Prefix(f)  q == Body(f)
<1>1. p \in Seq(Byte) /\ Len(p) = LenBytes /\ \A i \in 1..LenBytes : p[i] = <<f, i>>
  BY PrefixIs
<1>2. /\ LenBytes \in Nat /\ Total(f) \in Nat /\ LenBytes <= Total(f)
      /\ Total(f) <= Total(f)
  BY TotalIs
<1>3. /\ q \in Seq(Byte) /\ Len(q) = Total(f) - LenBytes
      /\ \A i \in 1..(Total(f) - LenBytes) : q[i] = <<f, LenBytes + i>>
  BY <1>2, BytesAre DEF Body
<1> HIDE DEF p, q
<1>4. /\ p \o q \in Seq(Byte) /\ Len(p \o q) = Len(p) + Len(q)
      /\ \A i \in 1 .. Len(p) + Len(q) :
           (p \o q)[i] = IF i <= Len(p) THEN p[i] ELSE q[i - Len(p)]
  BY <1>1, <1>3, ConcatProperties
<1>5. Len(p \o q) = Total(f)
  BY <1>1, <1>2, <1>3, <1>4
<1>6. ASSUME NEW i \in 1..Total(f) PROVE (p \o q)[i] = <<f, i>>
  <2>1. CASE i <= LenBytes
    BY <2>1, <1>1, <1>2, <1>3, <1>4
  <2>2. CASE i > LenBytes
    <3>1. i - LenBytes \in 1..(Total(f) - LenBytes) /\ LenBytes + (i - LenBytes) = i
      BY <2>2, <1>2
    <3>2. q[i - LenBytes] = <<f, i>>
      BY <3>1, <1>3
    <3>3. QED
      BY <3>2, <2>2, <1>1, <1>2, <1>3, <1>4
  <2>3. i <= LenBytes \/ i > LenBytes
    BY <1>2
  <2>4. QED
    BY <2>1, <2>2, <2>3
<1>7. QED
  BY <1>4, <1>5, <1>6 DEF p, q

\* What is taken for frame f begins and ends like it.
LEMMA FrameOfIs ==
  ASSUME NEW b, FrameOf(b) # Junk
  PROVE  \E f \in 1..Frames :
           /\ FrameOf(b) = f /\ Len(b) = Total(f)
           /\ \A i \in 1..Total(f) : b[i] = <<f, i>>
<1>1. PICK f \in 1..Frames : b = Prefix(f) \o Body(f)
  BY DEF FrameOf
<1>2. Len(b) = Total(f) /\ \A i \in 1..Total(f) : b[i] = <<f, i>>
  BY <1>1, WholeIs
<1>3. 1 \in 1..Total(f)
  BY TotalIs
<1>4. b[1] = <<f, 1>>
  BY <1>2, <1>3
<1>5. FrameOf(b) = f
  <2>1. FrameOf(b) = b[1][1]
    BY <1>1 DEF FrameOf
  <2>2. b[1][1] = f
    BY <1>4
  <2>3. QED
    BY <2>1, <2>2
<1>6. QED
  BY <1>2, <1>5

\* The bytes of frame f, all of them, are taken for frame f.
LEMMA FrameOfWhole ==
  ASSUME NEW b \in Seq(Byte), NEW f \in 1..Frames, Len(b) = Total(f),
         \A i \in 1..Total(f) : b[i] = <<f, i>>
  PROVE  FrameOf(b) = f
<1> DEFINE w == Prefix(f) \o Body(f)
<1>1. w \in Seq(Byte) /\ Len(w) = Total(f) /\ \A i \in 1..Total(f) : w[i] = <<f, i>>
  BY WholeIs
<1> HIDE DEF w
<1>2. b = w
  BY <1>1, SeqEqual
<1>3. b[1] = <<f, 1>>
  BY TotalIs
<1>4. FrameOf(b) = b[1][1]
  BY <1>2 DEF FrameOf, w
<1>5. b[1][1] = f
  BY <1>3
<1>6. QED
  BY <1>4, <1>5

\* A prefix that is that of frame f decodes to the size of frame f.
LEMMA DecodedWhole ==
  ASSUME NEW b \in Seq(Byte), NEW f \in 1..Frames, Len(b) = LenBytes,
         \A i \in 1..LenBytes : b[i] = <<f, i>>
  PROVE  Decoded(b) = {Size[f]}
<1>1. b = Prefix(f)
  <2>1. /\ Prefix(f) \in Seq(Byte) /\ Len(Prefix(f)) = LenBytes
        /\ \A i \in 1..LenBytes : Prefix(f)[i] = <<f, i>>
    BY PrefixIs
  <2>2. QED
    BY <2>1, SeqEqual
<1>2. \A g \in 1..Frames : b = Prefix(g) => g = f
  <2> SUFFICES ASSUME NEW g \in 1..Frames, b = Prefix(g) PROVE g = f
    OBVIOUS
  <2>1. b[1] = <<g, 1>> /\ b[1] = <<f, 1>>
    BY PrefixIs, TotalIs
  <2>2. QED
    BY <2>1
<1>3. {g \in 1..Frames : b = Prefix(g)} = {f}
  BY <1>1, <1>2
<1>4. QED
  BY <1>1, <1>3 DEF Decoded

LEMMA DecodedNat == \A b : Decoded(b) \subseteq Nat
<1>1. MaxFrame \in Nat
  BY FramingAssumption DEF FramingAssumption
<1>2. QED
  BY <1>1, TotalIs DEF Decoded

-----------------------------------------------------------------------------
(* The invariant.                                                          *)

\* The bytes delivered and not yet dispatched, of which a dropped read has
\* lost some: in order, delivered, and all of later frames than the whole ones
\* dispatched.
Stream == taken \o wire

Before(a, b) == a[1] < b[1] \/ (a[1] = b[1] /\ a[2] < b[2])
Sorted(s)    == \A i, j \in 1..Len(s) : i < j => Before(s[i], s[j])
SentBy(b, f, o) == b[1] < f \/ (b[1] = f /\ b[2] <= o)
Delivered(b) == SentBy(b, nextFrame, offset)

StreamInv ==
  /\ Sorted(Stream)
  /\ \A i \in 1..Len(Stream) : Delivered(Stream[i])
  /\ \A k \in 1..Len(received) : \A i \in 1..Len(Stream) :
       received[k] # Junk => received[k] < Stream[i][1]

Turn == Len(received) + 1
Safe == \A f \in Pieces \ {1} : Turn < f

\* A stream st that is frames a to z, of z the first o bytes, and nothing else;
\* frame f begins after the first s[f] bytes.
Layout(s, a, z, o, st) ==
  /\ s \in [a..z -> Nat]
  /\ s[a] = 0
  /\ \A f \in a..(z - 1) : s[f + 1] = s[f] + Total(f)
  /\ \A f, g \in a..z : f < g => s[f] + Total(f) <= s[g]
  /\ Len(st) = s[z] + o
  /\ \A f \in a..(z - 1) : \A p \in 1..Total(f) : st[s[f] + p] = <<f, p>>
  /\ \A p \in 1..o : st[s[z] + p] = <<z, p>>

\* Until it is the turn of a frame in pieces that is not ClientHello, nothing
\* was lost and, ClientHello apart, nothing waits in the pending future.
Lossless ==
  /\ Turn <= nextFrame
  /\ \E s : Layout(s, Turn, nextFrame, offset, Stream)
  /\ need # 0 => need = Size[Turn]
  /\ Turn > 1 => taken = <<>>

LosslessInv == Safe => Lossless

CutInv == offset > 0 => nextFrame \in Pieces

ReceivedInv ==
  /\ received # <<>> => received[1] = 1
  /\ \A i, j \in 1..Len(received) :
       i < j /\ received[i] # Junk /\ received[j] # Junk => received[i] < received[j]
  /\ \A i \in 1..Len(received) : received[i] # Junk => received[i] < nextFrame

Inv == TypeOK /\ CutInv /\ StreamInv /\ LosslessInv /\ ReceivedInv

LEMMA StreamType ==
  ASSUME taken \in Seq(Byte), wire \in Seq(Byte)
  PROVE  /\ Stream \in Seq(Byte)
         /\ Len(Stream) = Len(taken) + Len(wire)
         /\ \A i \in 1..Len(taken) : Stream[i] = taken[i]
         /\ \A i \in 1..Len(wire) : Stream[Len(taken) + i] = wire[i]
  BY ConcatProperties DEF Stream

LEMMA InvInit == Init => Inv
<1> SUFFICES ASSUME Init PROVE Inv
  OBVIOUS
<1>1. TypeOK
  <2>1. nextFrame \in 1..(Frames + 1)
    BY TotalIs DEF Init
  <2>2. nextFrame <= Frames => offset < Total(nextFrame)
    BY TotalIs DEF Init
  <2>3. need \in 0..MaxFrame
    BY FramingAssumption DEF Init, FramingAssumption
  <2>4. wire \in Seq(Byte) /\ taken \in Seq(Byte) /\ received \in Seq((1..Frames) \cup {Junk})
    BY EmptySeq DEF Init
  <2>5. QED
    BY <2>1, <2>2, <2>3, <2>4 DEF Init, TypeOK
<1>2. Stream = <<>> /\ Len(Stream) = 0
  BY DEF Init, Stream
<1>3. received = <<>> /\ Len(received) = 0
  BY DEF Init
<1>4. LosslessInv
  <2> DEFINE s == [f \in 1..1 |-> 0]
  <2>1. Layout(s, 1, 1, 0, <<>>)
    BY <1>2 DEF Layout
  <2>2. Turn = 1 /\ nextFrame = 1 /\ offset = 0 /\ need = 0
    BY <1>3 DEF Init, Turn
  <2>3. QED
    BY <1>2, <2>1, <2>2 DEF LosslessInv, Lossless
<1>5. QED
  BY <1>1, <1>2, <1>3, <1>4 DEF Init, Inv, CutInv, StreamInv, Sorted, ReceivedInv

\* A part of a sequence.
LEMMA PartIs ==
  ASSUME NEW s \in Seq(Byte), NEW a \in Nat, NEW b \in Nat,
         1 <= a, a <= b + 1, b <= Len(s)
  PROVE  /\ SubSeq(s, a, b) \in Seq(Byte)
         /\ Len(SubSeq(s, a, b)) = b - a + 1
         /\ \A i \in 1..(b - a + 1) : SubSeq(s, a, b)[i] = s[a + i - 1]
<1>1. Len(s) \in Nat /\ a \in Int /\ b \in Int
  BY LenProperties
<1>2. \A i \in a..b : s[i] \in Byte
  BY <1>1, ElementOfSeq
<1>3. /\ SubSeq(s, a, b) \in Seq(Byte)
      /\ Len(SubSeq(s, a, b)) = IF a <= b THEN b - a + 1 ELSE 0
      /\ \A i \in 1..(b - a + 1) : SubSeq(s, a, b)[i] = s[a + i - 1]
  BY <1>1, <1>2, SubSeqProperties
<1>4. QED
  BY <1>1, <1>3

\* A later part of the stream keeps what the invariant says of it.
LEMMA LaterPart ==
  ASSUME StreamInv, Stream \in Seq(Byte), NEW t \in Seq(Byte), NEW k \in Nat,
         Len(Stream) = k + Len(t), \A i \in 1..Len(t) : t[i] = Stream[k + i]
  PROVE  /\ Sorted(t)
         /\ \A i \in 1..Len(t) : Delivered(t[i])
         /\ \A m \in 1..Len(received) : \A i \in 1..Len(t) :
              received[m] # Junk => received[m] < t[i][1]
<1>1. Len(Stream) \in Nat /\ Len(t) \in Nat
  BY LenProperties
<1>2. \A i \in 1..Len(t) : k + i \in 1..Len(Stream)
  BY <1>1
<1>3. ASSUME NEW i \in 1..Len(t), NEW j \in 1..Len(t), i < j
      PROVE  Before(t[i], t[j])
  <2>1. k + i < k + j
    BY <1>3, <1>1
  <2>2. Before(Stream[k + i], Stream[k + j])
    BY <1>2, <2>1 DEF StreamInv, Sorted
  <2>3. QED
    BY <2>2
<1>4. QED
  BY <1>2, <1>3 DEF StreamInv, Sorted

\* st2 is st and then the bytes of frame z from o to to.
Grown(st, st2, z, o, to) ==
  /\ Len(st2) = Len(st) + (to - o)
  /\ \A i \in 1..Len(st) : st2[i] = st[i]
  /\ \A i \in (Len(st) + 1)..(Len(st) + (to - o)) : st2[i] = <<z, o + (i - Len(st))>>

\* st is k bytes and then st2.
Rest(st, st2, k) ==
  /\ Len(st) = k + Len(st2)
  /\ \A i \in 1..Len(st2) : st2[i] = st[k + i]

\* The bytes of a frame that others follow are positions of the stream.
LEMMA Inside ==
  ASSUME NEW u \in Nat, NEW size \in Nat, NEW v \in Nat, NEW o \in Nat, NEW n,
         NEW p \in 1..size, u + size <= v, n = v + o
  PROVE  u + p \in 1..n
  OBVIOUS

\* More bytes of frame z.
LEMMA LayoutMore ==
  ASSUME NEW a \in Nat, a >= 1, NEW z \in 1..Frames, a <= z, NEW o \in Nat, NEW to \in Nat,
         o < to, to <= Total(z), NEW s, NEW st \in Seq(Byte), NEW st2 \in Seq(Byte),
         Layout(s, a, z, o, st), Grown(st, st2, z, o, to)
  PROVE  /\ Layout(s, a, z, to, st2)
         /\ to = Total(z) => \E s2 : Layout(s2, a, z + 1, 0, st2)
<1>1. /\ s \in [a..z -> Nat] /\ s[a] = 0
      /\ \A f \in a..(z - 1) : s[f + 1] = s[f] + Total(f)
      /\ \A f, g \in a..z : f < g => s[f] + Total(f) <= s[g]
      /\ Len(st) = s[z] + o
      /\ \A f \in a..(z - 1) : \A p \in 1..Total(f) : st[s[f] + p] = <<f, p>>
      /\ \A p \in 1..o : st[s[z] + p] = <<z, p>>
  BY DEF Layout
<1>2. Len(st) \in Nat /\ Len(st2) \in Nat /\ z \in Nat /\ Frames \in Nat /\ Total(z) \in Nat
  BY LenProperties, TotalIs
<1>3. s[z] \in Nat /\ \A f \in a..z : s[f] \in Nat /\ Total(f) \in Nat
  <2>1. \A f \in a..z : f \in 1..Frames
    BY <1>2
  <2>2. QED
    BY <2>1, <1>1, <1>2, TotalIs
<1>10. /\ Len(st2) = Len(st) + (to - o)
       /\ \A i \in 1..Len(st) : st2[i] = st[i]
       /\ \A i \in (Len(st) + 1)..(Len(st) + (to - o)) : st2[i] = <<z, o + (i - Len(st))>>
  BY DEF Grown
<1>4. Len(st2) = s[z] + to
  BY <1>1, <1>2, <1>3, <1>10
<1>5. ASSUME NEW f \in a..(z - 1), NEW p \in 1..Total(f)
      PROVE  st2[s[f] + p] = <<f, p>>
  <2>1. f \in a..z /\ z \in a..z /\ f < z
    BY <1>2
  <2>2. s[f] \in Nat /\ Total(f) \in Nat /\ s[z] \in Nat
    BY <2>1, <1>3
  <2>3. s[f] + Total(f) <= s[z] /\ Len(st) = s[z] + o
    BY <2>1, <1>1
  <2>5. s[f] + p \in 1..Len(st)
    BY <2>2, <2>3, Inside
  <2>4. QED
    BY <2>5, <1>1, <1>10
<1>6. ASSUME NEW p \in 1..to PROVE st2[s[z] + p] = <<z, p>>
  <2>1. CASE p <= o
    <3>0. Len(st) = s[z] + o
      BY <1>1
    <3>1. p \in 1..o /\ s[z] + p \in 1..Len(st)
      BY <2>1, <3>0, <1>2, <1>3, SMTT(20)
    <3>2. QED
      BY <3>1, <1>1, <1>10
  <2>2. CASE p > o
    <3>0. Len(st) = s[z] + o
      BY <1>1
    <3> DEFINE u == s[z]  n == Len(st)
    <3>1. u \in Nat /\ n \in Nat /\ n = u + o
      BY <3>0, <1>2, <1>3
    <3> HIDE DEF u, n
    <3>2. u + p \in (n + 1)..(n + (to - o)) /\ o + ((u + p) - n) = p
      BY <2>2, <3>1
    <3>3. st2[u + p] = <<z, o + ((u + p) - n)>>
      BY <3>2, <1>10 DEF n
    <3>4. QED
      BY <3>2, <3>3 DEF u
  <2>3. QED
    BY <2>1, <2>2
<1>7. Layout(s, a, z, to, st2)
  BY <1>1, <1>4, <1>5, <1>6 DEF Layout
<1>8. ASSUME to = Total(z) PROVE \E s2 : Layout(s2, a, z + 1, 0, st2)
  <2> DEFINE s2 == [f \in a..(z + 1) |-> IF f = z + 1 THEN s[z] + Total(z) ELSE s[f]]
  <2>1. /\ s2 \in [a..(z + 1) -> Nat]
        /\ s2[z + 1] = s[z] + Total(z)
        /\ \A f \in a..z : s2[f] = s[f]
    BY <1>2, <1>3
  <2> HIDE DEF s2
  <2>2. a \in a..z /\ z \in a..z
    BY <1>2
  <2>3. \A f \in a..z : s2[f + 1] = s2[f] + Total(f)
    <3> SUFFICES ASSUME NEW f \in a..z PROVE s2[f + 1] = s2[f] + Total(f)
      OBVIOUS
    <3>1. CASE f = z
      BY <3>1, <2>1
    <3>2. CASE f # z
      <4>1. f \in a..(z - 1) /\ f + 1 \in a..z
        BY <3>2, <1>2
      <4>2. QED
        BY <4>1, <2>1, <1>1
    <3>3. QED
      BY <3>1, <3>2
  <2>4. ASSUME NEW f \in a..(z + 1), NEW g \in a..(z + 1), f < g
        PROVE  s2[f] + Total(f) <= s2[g]
    <3>1. f \in a..z
      BY <2>4, <1>2
    <3>2. CASE g # z + 1
      <4>1. g \in a..z
        BY <3>2, <1>2
      <4>2. QED
        BY <4>1, <3>1, <2>1, <2>4, <1>1
    <3>3. CASE g = z + 1 /\ f = z
      BY <3>3, <2>1, <1>2, <1>3
    <3>4. CASE g = z + 1 /\ f # z
      <4>1. f < z
        BY <3>1, <3>4, <1>2
      <4>2. s[f] + Total(f) <= s[z]
        BY <4>1, <3>1, <2>2, <1>1
      <4>3. s[f] \in Nat /\ Total(f) \in Nat /\ s[z] \in Nat /\ Total(z) \in Nat
        BY <3>1, <1>2, <1>3
      <4>4. s2[f] = s[f] /\ s2[g] = s[z] + Total(z)
        BY <3>1, <3>4, <2>1
      <4>5. QED
        BY <4>2, <4>3, <4>4
    <3>5. QED
      BY <3>2, <3>3, <3>4
  <2>5. Len(st2) = s2[z + 1] + 0
    BY <2>1, <1>2, <1>3, <1>4, <1>8
  <2>6. \A f \in a..z : \A p \in 1..Total(f) : st2[s2[f] + p] = <<f, p>>
    <3> SUFFICES ASSUME NEW f \in a..z, NEW p \in 1..Total(f) PROVE st2[s2[f] + p] = <<f, p>>
      OBVIOUS
    <3>1. CASE f = z
      BY <3>1, <2>1, <1>6, <1>8
    <3>2. CASE f # z
      <4>1. f \in a..(z - 1)
        BY <3>2, <1>2
      <4>2. QED
        BY <4>1, <2>1, <1>5
    <3>3. QED
      BY <3>1, <3>2
  <2>7. z + 1 - 1 = z /\ \A p \in 1..0 : FALSE
    BY <1>2
  <2>10. s2[a] = 0 /\ s2 \in [a..(z + 1) -> Nat]
    BY <2>1, <2>2, <1>1
  <2>11. /\ \A f \in a..(z + 1 - 1) : s2[f + 1] = s2[f] + Total(f)
         /\ \A f \in a..(z + 1 - 1) : \A p \in 1..Total(f) : st2[s2[f] + p] = <<f, p>>
    BY <2>3, <2>6, <2>7
  <2>12. \A p \in 1..0 : st2[s2[z + 1] + p] = <<z + 1, p>>
    BY <2>7
  <2>8. Layout(s2, a, z + 1, 0, st2)
    <3> DEFINE y == z + 1
    <3>1. y - 1 = z
      BY <1>2
    <3>2. s2 \in [a..y -> Nat] /\ s2[a] = 0
      BY <2>10
    <3>3. \A f \in a..(y - 1) : s2[f + 1] = s2[f] + Total(f)
      BY <2>11
    <3>4. \A f, g \in a..y : f < g => s2[f] + Total(f) <= s2[g]
      BY <2>4
    <3>5. Len(st2) = s2[y] + 0
      BY <2>5
    <3>6. \A f \in a..(y - 1) : \A p \in 1..Total(f) : st2[s2[f] + p] = <<f, p>>
      BY <2>11
    <3>7. \A p \in 1..0 : st2[s2[y] + p] = <<y, p>>
      BY <2>12
    <3> HIDE DEF y
    <3>8. Layout(s2, a, y, 0, st2)
      BY <3>2, <3>3, <3>4, <3>5, <3>6, <3>7 DEF Layout
    <3>9. QED
      BY <3>8 DEF y
  <2>9. QED
    BY <2>8
<1>9. QED
  BY <1>7, <1>8

\* The first frame is taken away.
LEMMA LayoutLess ==
  ASSUME NEW a \in Nat, a >= 1, NEW z \in Nat, a < z, z <= Frames + 1, NEW o \in Nat,
         NEW s, NEW st \in Seq(Byte), NEW st2 \in Seq(Byte),
         Layout(s, a, z, o, st), Rest(st, st2, Total(a))
  PROVE  \E s2 : Layout(s2, a + 1, z, o, st2)
<1>1. /\ s \in [a..z -> Nat] /\ s[a] = 0
      /\ \A f \in a..(z - 1) : s[f + 1] = s[f] + Total(f)
      /\ \A f, g \in a..z : f < g => s[f] + Total(f) <= s[g]
      /\ Len(st) = s[z] + o
      /\ \A f \in a..(z - 1) : \A p \in 1..Total(f) : st[s[f] + p] = <<f, p>>
      /\ \A p \in 1..o : st[s[z] + p] = <<z, p>>
  BY DEF Layout
<1>0. /\ Len(st) = Total(a) + Len(st2)
      /\ \A i \in 1..Len(st2) : st2[i] = st[Total(a) + i]
  BY DEF Rest
<1>2. Len(st) \in Nat /\ Len(st2) \in Nat /\ Frames \in Nat
  BY LenProperties, TotalIs
<1>3. \A f \in a..(z - 1) : Total(f) \in Nat
  <2>1. \A f \in a..(z - 1) : f \in 1..Frames
    BY <1>2
  <2>2. QED
    BY <2>1, TotalIs
<1>4. a \in a..(z - 1) /\ Total(a) \in Nat /\ a \in a..z /\ a + 1 \in a..z
  BY <1>3
<1>5. \A f \in (a + 1)..z : f \in a..z /\ s[f] \in Nat /\ s[f] >= Total(a)
  <2>1. \A f \in (a + 1)..z : f \in a..z /\ a < f
    OBVIOUS
  <2>2. QED
    BY <2>1, <1>1, <1>4
<1> DEFINE s2 == [f \in (a + 1)..z |-> s[f] - Total(a)]
<1>6. /\ s2 \in [(a + 1)..z -> Nat]
      /\ \A f \in (a + 1)..z : s2[f] = s[f] - Total(a)
  BY <1>4, <1>5
<1> HIDE DEF s2
<1>7. s2[a + 1] = 0
  <2>1. a + 1 \in (a + 1)..z
    OBVIOUS
  <2>2. QED
    BY <2>1, <1>1, <1>4, <1>6
<1>8. \A f \in (a + 1)..(z - 1) : s2[f + 1] = s2[f] + Total(f)
  <2> SUFFICES ASSUME NEW f \in (a + 1)..(z - 1) PROVE s2[f + 1] = s2[f] + Total(f)
    OBVIOUS
  <2>1. f \in a..(z - 1) /\ f \in (a + 1)..z /\ f + 1 \in (a + 1)..z
    OBVIOUS
  <2>2. QED
    BY <2>1, <1>1, <1>3, <1>4, <1>5, <1>6
<1>9. ASSUME NEW f \in (a + 1)..z, NEW g \in (a + 1)..z, f < g
      PROVE  s2[f] + Total(f) <= s2[g]
  <2>1. f \in a..z /\ g \in a..z /\ f \in a..(z - 1)
    BY <1>9
  <2>2. s[f] + Total(f) <= s[g]
    BY <2>1, <1>9, <1>1
  <2>3. /\ s[f] \in Nat /\ s[g] \in Nat /\ Total(f) \in Nat /\ Total(a) \in Nat
        /\ s2[f] = s[f] - Total(a) /\ s2[g] = s[g] - Total(a)
    BY <2>1, <1>3, <1>4, <1>5, <1>6
  <2>4. QED
    BY <2>2, <2>3
<1>10. z \in (a + 1)..z
  OBVIOUS
<1>11. Len(st2) = s2[z] + o
  <2>1. s[z] \in Nat /\ s2[z] = s[z] - Total(a) /\ Len(st) = s[z] + o
    BY <1>10, <1>1, <1>5, <1>6
  <2>3. Len(st) = Total(a) + Len(st2)
    BY <1>0
  <2>2. QED
    BY <2>1, <2>3, <1>2, <1>4
<1>12. ASSUME NEW f \in (a + 1)..(z - 1), NEW p \in 1..Total(f)
       PROVE  st2[s2[f] + p] = <<f, p>>
  <2>1. f \in a..(z - 1) /\ f \in (a + 1)..z /\ f \in a..z /\ z \in a..z /\ f < z
    OBVIOUS
  <2>2. Total(f) \in Nat /\ s[f] \in Nat /\ s[z] \in Nat
    BY <2>1, <1>3, <1>5, <1>10
  <2>3. s[f] + Total(f) <= s[z]
    BY <2>1, <1>1
  <2>6. s2[f] = s[f] - Total(a) /\ s[f] >= Total(a) /\ Len(st) = s[z] + o
        /\ Len(st) = Total(a) + Len(st2)
    BY <2>1, <1>0, <1>1, <1>5, <1>6
  <2>4. s2[f] + p \in 1..Len(st2) /\ Total(a) + (s2[f] + p) = s[f] + p
    <3> DEFINE u == s[f]  k == Total(a)  m == Len(st2)  v == s[z]  size == Total(f)
    <3>1. /\ u \in Nat /\ k \in Nat /\ m \in Nat /\ v \in Nat /\ size \in Nat
          /\ u >= k /\ v + o = k + m /\ u + size <= v /\ s2[f] = u - k
      BY <2>2, <2>3, <2>6, <1>2, <1>4
    <3>4. p \in 1..size
      OBVIOUS
    <3> HIDE DEF u, k, m, v, size
    <3>2. (u - k) + p \in 1..m /\ k + ((u - k) + p) = u + p
      BY <3>1, <3>4
    <3>3. QED
      BY <3>1, <3>2 DEF u, k, m
  <2>5. QED
    BY <2>1, <2>4, <1>0, <1>1
<1>13. ASSUME NEW p \in 1..o PROVE st2[s2[z] + p] = <<z, p>>
  <2>3. s[z] \in Nat /\ s2[z] = s[z] - Total(a) /\ s[z] >= Total(a) /\ Len(st) = s[z] + o
        /\ Len(st) = Total(a) + Len(st2)
    BY <1>10, <1>0, <1>1, <1>5, <1>6
  <2>1. s2[z] + p \in 1..Len(st2) /\ Total(a) + (s2[z] + p) = s[z] + p
    <3> DEFINE u == s[z]  k == Total(a)  m == Len(st2)
    <3>1. /\ u \in Nat /\ k \in Nat /\ m \in Nat /\ u >= k /\ u + o = k + m
          /\ s2[z] = u - k
      BY <2>3, <1>2, <1>4
    <3> HIDE DEF u, k, m
    <3>2. (u - k) + p \in 1..m /\ k + ((u - k) + p) = u + p
      BY <3>1
    <3>3. QED
      BY <3>1, <3>2 DEF u, k, m
  <2>2. QED
    BY <2>1, <1>0, <1>1
<1>14. Layout(s2, a + 1, z, o, st2)
  BY <1>6, <1>7, <1>8, <1>9, <1>11, <1>12, <1>13 DEF Layout
<1>15. QED
  BY <1>14

-----------------------------------------------------------------------------
(* The steps.                                                              *)

\* Bytes that go from the wire into the pending future, or are lost with it.
LEMMA VideoWinsKeeps == Inv /\ VideoWins => Inv'
<1> SUFFICES ASSUME Inv, VideoWins PROVE Inv'
  OBVIOUS
<1>1. /\ taken' = <<>> /\ need' = 0 /\ received # <<>>
      /\ UNCHANGED <<nextFrame, offset, wire, received>> /\ loop' = "writing"
  BY DEF VideoWins
<1>2. taken \in Seq(Byte) /\ wire \in Seq(Byte)
  BY DEF Inv, TypeOK
<1>3. Stream' = wire
  BY <1>1, <1>2, ConcatEmptySeq DEF Stream
<1>4. /\ Sorted(wire) /\ \A i \in 1..Len(wire) : Delivered(wire[i])
      /\ \A m \in 1..Len(received) : \A i \in 1..Len(wire) :
           received[m] # Junk => received[m] < wire[i][1]
  <2>1. Len(taken) \in Nat
    BY <1>2, LenProperties
  <2>2. QED
    BY <1>2, <2>1, StreamType, LaterPart DEF Inv
<1>5. TypeOK'
  BY <1>1, <1>2, EmptySeq, FramingAssumption DEF Inv, TypeOK, FramingAssumption
<1>6. StreamInv'
  BY <1>1, <1>3, <1>4 DEF StreamInv, Sorted, Before, Delivered, SentBy
<1>7. ASSUME Safe PROVE Lossless'
  <2>1. Lossless
    BY <1>7 DEF Inv, LosslessInv
  <2>2. Turn > 1
    BY <1>1, EmptySeq DEF Inv, TypeOK, Turn
  <2>3. Stream = wire
    BY <1>2, <2>1, <2>2, ConcatEmptySeq DEF Lossless, Stream
  <2>4. Turn' = Turn /\ Stream' = Stream
    BY <1>1, <1>3, <2>3 DEF Turn
  <2>5. QED
    BY <1>1, <2>1, <2>4 DEF Lossless
<1>8. LosslessInv'
  BY <1>1, <1>7 DEF LosslessInv, Safe, Turn
<1>9. ReceivedInv' /\ CutInv'
  BY <1>1 DEF Inv, ReceivedInv, CutInv
<1>10. QED
  BY <1>5, <1>6, <1>8, <1>9 DEF Inv

\* More bytes of the frame under way, or the first ones of the next frame.
LEMMA DeliverKeeps == Inv /\ Deliver => Inv'
<1> SUFFICES ASSUME Inv, Deliver PROVE Inv'
  OBVIOUS
<1> DEFINE f == nextFrame
           n == Len(Stream)
<1>1. f \in 1..Frames /\ offset \in Nat /\ offset < Total(f) /\ Total(f) \in Nat
  <2>1. f \in 1..Frames
    BY TotalIs DEF Inv, TypeOK, Deliver
  <2>2. QED
    BY <2>1, TotalIs DEF Inv, TypeOK
<1>2. PICK to \in (offset + 1)..Total(f) :
        /\ f \in Pieces \/ to = Total(f)
        /\ wire' = wire \o Bytes(f, offset, to)
        /\ IF to = Total(f) THEN nextFrame' = f + 1 /\ offset' = 0
                            ELSE offset' = to /\ nextFrame' = f
  BY DEF Deliver
<1>3. UNCHANGED <<taken, need, received, loop>>
  BY DEF Deliver
<1>4. to \in Nat /\ offset < to /\ offset <= to /\ to <= Total(f)
  BY <1>1
<1> DEFINE new == Bytes(f, offset, to)
<1>5. /\ new \in Seq(Byte) /\ Len(new) = to - offset
      /\ \A i \in 1..(to - offset) : new[i] = <<f, offset + i>>
  BY <1>1, <1>4, BytesAre
<1>6. wire' = wire \o new
  BY <1>2
<1> HIDE DEF new
<1>7. taken \in Seq(Byte) /\ wire \in Seq(Byte) /\ Stream \in Seq(Byte) /\ n \in Nat
  <2>1. taken \in Seq(Byte) /\ wire \in Seq(Byte)
    BY DEF Inv, TypeOK
  <2>2. QED
    BY <2>1, StreamType, LenProperties
<1>8. Stream' = Stream \o new
  <2>1. Stream' = taken \o (wire \o new)
    BY <1>3, <1>6 DEF Stream
  <2>2. (taken \o wire) \o new = taken \o (wire \o new)
    BY <1>5, <1>7, ConcatAssociative, SMTT(30)
  <2>3. QED
    BY <2>1, <2>2 DEF Stream
<1>9. /\ Stream' \in Seq(Byte) /\ Len(Stream') = n + (to - offset)
      /\ \A i \in 1..n : Stream'[i] = Stream[i]
      /\ \A i \in (n + 1)..(n + (to - offset)) : Stream'[i] = <<f, offset + (i - n)>>
  <2>1. /\ Stream \o new \in Seq(Byte) /\ Len(Stream \o new) = n + Len(new)
        /\ \A i \in 1..(n + Len(new)) :
             (Stream \o new)[i] = IF i <= n THEN Stream[i] ELSE new[i - n]
    BY <1>5, <1>7, ConcatProperties
  <2>2. to - offset \in Nat
    BY <1>1, <1>4
  <2>3. ASSUME NEW i \in (n + 1)..(n + (to - offset))
        PROVE  (Stream \o new)[i] = <<f, offset + (i - n)>>
    <3>1. i \in 1..(n + Len(new)) /\ ~(i <= n) /\ i - n \in 1..(to - offset)
      BY <1>5, <1>7, <2>2
    <3>2. QED
      BY <3>1, <2>1, <1>5
  <2>4. \A i \in 1..n : i \in 1..(n + Len(new)) /\ i <= n
    BY <1>5, <1>7, <2>2
  <2>5. QED
    BY <1>5, <1>8, <2>1, <2>3, <2>4
<1>10. nextFrame' \in 1..(Frames + 1) /\ offset' \in Nat
       /\ (nextFrame' <= Frames => offset' < Total(nextFrame'))
  <2>1. CASE to = Total(f)
    BY <2>1, <1>1, <1>2, TotalIs
  <2>2. CASE to # Total(f)
    BY <2>2, <1>1, <1>2, <1>4, TotalIs
  <2>3. QED
    BY <2>1, <2>2
<1>11. TypeOK'
  <2>1. wire' \in Seq(Byte)
    BY <1>5, <1>6, <1>7, ConcatProperties
  <2>2. QED
    BY <2>1, <1>3, <1>10 DEF Inv, TypeOK
<1>12. ASSUME NEW b \in Byte, Delivered(b)
       PROVE  /\ SentBy(b, nextFrame', offset')
              /\ \A p \in Nat : p > offset => Before(b, <<f, p>>)
  <2>1. b[1] \in Nat /\ b[2] \in Nat
    BY TotalIs, ByteIs
  <2>2. b[1] < f \/ (b[1] = f /\ b[2] <= offset)
    BY <1>12 DEF Delivered, SentBy
  <2>3. SentBy(b, nextFrame', offset')
    BY <1>1, <1>2, <1>4, <2>1, <2>2 DEF SentBy
  <2>4. QED
    BY <1>1, <2>1, <2>2, <2>3 DEF Before
<1>13. \A i \in 1..n : Stream[i] \in Byte /\ Delivered(Stream[i])
  BY <1>7, ElementOfSeq DEF Inv, StreamInv
<1>14. Sorted(Stream')
  <2> SUFFICES ASSUME NEW i \in 1..Len(Stream'), NEW j \in 1..Len(Stream'), i < j
               PROVE  Before(Stream'[i], Stream'[j])
    BY DEF Sorted
  <2>1. i \in Nat /\ j \in Nat /\ i >= 1 /\ j >= 1 /\ j <= n + (to - offset)
    BY <1>9, <1>7, <1>1, <1>4
  <2>2. CASE j <= n
    <3>1. i \in 1..n /\ j \in 1..n
      BY <2>1, <2>2, <1>7
    <3>2. Before(Stream[i], Stream[j])
      BY <3>1 DEF Inv, StreamInv, Sorted
    <3>3. QED
      BY <3>1, <3>2, <1>9
  <2>3. CASE j > n /\ i <= n
    <3>1. i \in 1..n /\ Stream'[i] = Stream[i]
      BY <2>1, <2>3, <1>7, <1>9
    <3>2. Stream'[j] = <<f, offset + (j - n)>> /\ offset + (j - n) \in Nat
          /\ offset + (j - n) > offset
      BY <2>1, <2>3, <1>1, <1>4, <1>7, <1>9
    <3>3. QED
      BY <3>1, <3>2, <1>12, <1>13
  <2>4. CASE j > n /\ i > n
    <3>1. Stream'[i] = <<f, offset + (i - n)>> /\ Stream'[j] = <<f, offset + (j - n)>>
      BY <2>1, <2>4, <1>1, <1>4, <1>7, <1>9
    <3>2. offset + (i - n) < offset + (j - n)
      BY <2>1, <1>1, <1>7
    <3>3. QED
      BY <3>1, <3>2 DEF Before
  <2>5. QED
    BY <2>1, <2>2, <2>3, <2>4, <1>7
<1>15. ASSUME NEW i \in 1..Len(Stream')
       PROVE  /\ SentBy(Stream'[i], nextFrame', offset')
              /\ \A m \in 1..Len(received) :
                   received[m] # Junk => received[m] < Stream'[i][1]
  <2>1. i \in Nat /\ i >= 1 /\ i <= n + (to - offset)
    BY <1>9, <1>7, <1>1, <1>4
  <2>2. CASE i <= n
    <3>1. i \in 1..n /\ Stream'[i] = Stream[i]
      BY <2>1, <2>2, <1>7, <1>9
    <3>2. QED
      BY <3>1, <1>12, <1>13 DEF Inv, StreamInv
  <2>3. CASE i > n
    <3>1. Stream'[i] = <<f, offset + (i - n)>> /\ offset + (i - n) <= to
          /\ offset + (i - n) \in Nat
      BY <2>1, <2>3, <1>1, <1>4, <1>7, <1>9
    <3>2. \A m \in 1..Len(received) : received[m] # Junk => received[m] < f
      BY DEF Inv, ReceivedInv
    <3>3. SentBy(<<f, offset + (i - n)>>, nextFrame', offset')
      BY <3>1, <1>1, <1>2, <1>4 DEF SentBy
    <3>4. QED
      BY <3>1, <3>2, <3>3
  <2>4. QED
    BY <2>1, <2>2, <2>3, <1>7
<1>16. StreamInv'
  BY <1>3, <1>14, <1>15 DEF StreamInv, Delivered
<1>17. LosslessInv'
  <2> SUFFICES ASSUME Safe PROVE Lossless'
    BY <1>3 DEF LosslessInv, Safe, Turn
  <2>1. Lossless
    BY DEF Inv, LosslessInv
  <2>2. Turn' = Turn /\ Turn \in Nat /\ Turn >= 1
    BY <1>3, LenProperties DEF Turn, Inv, TypeOK
  <2>3. PICK s : Layout(s, Turn, f, offset, Stream)
    BY <2>1 DEF Lossless
  <2>4. Turn <= f
    BY <2>1 DEF Lossless
  <2>9. Grown(Stream, Stream', f, offset, to)
    BY <1>9 DEF Grown
  <2>5. /\ Layout(s, Turn, f, to, Stream')
        /\ to = Total(f) => \E s2 : Layout(s2, Turn, f + 1, 0, Stream')
    BY <2>2, <2>3, <2>4, <2>9, <1>1, <1>4, <1>7, <1>9, LayoutMore
  <2>6. \E s2 : Layout(s2, Turn', nextFrame', offset', Stream')
    BY <2>2, <2>5, <1>2
  <2>7. Turn' <= nextFrame'
    BY <2>2, <2>4, <1>1, <1>2
  <2>8. QED
    BY <2>1, <2>2, <2>6, <2>7, <1>3 DEF Lossless
<1>18. ReceivedInv'
  BY <1>1, <1>2, <1>3 DEF Inv, ReceivedInv, TypeOK
<1>20. CutInv'
  BY <1>2 DEF CutInv
<1>21. QED
  BY <1>11, <1>16, <1>17, <1>18, <1>20 DEF Inv

\* The bytes go on waiting, in the pending future.
LEMMA WaitKeeps ==
  ASSUME Inv, taken' = Stream, wire' = <<>>, need' \in 0..MaxFrame,
         Safe => Turn = 1 /\ (need' # 0 => need' = Size[Turn]),
         UNCHANGED <<nextFrame, offset, received, loop>>
  PROVE  Inv'
<1>1. Stream \in Seq(Byte)
  BY StreamType DEF Inv, TypeOK
<1>2. Stream' = Stream
  BY <1>1, ConcatEmptySeq DEF Stream
<1>3. TypeOK'
  BY <1>1, EmptySeq DEF Inv, TypeOK
<1>4. StreamInv'
  BY <1>2 DEF Inv, StreamInv, Delivered
<1>5. LosslessInv'
  BY <1>2 DEF Inv, LosslessInv, Lossless, Safe, Turn
<1>6. ReceivedInv' /\ CutInv'
  BY DEF Inv, ReceivedInv, CutInv
<1>7. QED
  BY <1>3, <1>4, <1>5, <1>6 DEF Inv

\* What the next frame is, as far as the bytes that have arrived say.
LEMMA TurnLength ==
  ASSUME Inv, Safe, Stream # <<>>
  PROVE  /\ Turn \in 1..Frames
         /\ Turn # 1 => Turn < nextFrame
         /\ Turn < nextFrame => Len(Stream) >= Total(Turn)
         /\ Turn = nextFrame => Len(Stream) < Total(Turn)
         /\ \A i \in 1..Len(Stream) : i <= Total(Turn) => Stream[i] = <<Turn, i>>
         /\ Len(Stream) >= LenBytes => Decoded(SubSeq(Stream, 1, LenBytes)) = {Size[Turn]}
<1>1. /\ Stream \in Seq(Byte) /\ Len(Stream) \in Nat /\ Len(Stream) # 0
      /\ Turn \in Nat /\ Turn >= 1 /\ nextFrame \in 1..(Frames + 1) /\ offset \in Nat
  BY StreamType, LenProperties, EmptySeq DEF Inv, TypeOK, Turn
<1>2. Lossless
  BY DEF Inv, LosslessInv
<1>3. PICK s : Layout(s, Turn, nextFrame, offset, Stream)
  BY <1>2 DEF Lossless
<1>4. /\ s \in [Turn..nextFrame -> Nat] /\ s[Turn] = 0
      /\ \A f, g \in Turn..nextFrame : f < g => s[f] + Total(f) <= s[g]
      /\ Len(Stream) = s[nextFrame] + offset
      /\ \A f \in Turn..(nextFrame - 1) : \A p \in 1..Total(f) : Stream[s[f] + p] = <<f, p>>
      /\ \A p \in 1..offset : Stream[s[nextFrame] + p] = <<nextFrame, p>>
  BY <1>3 DEF Layout
<1>5. Turn <= nextFrame /\ Frames \in Nat
  BY <1>2, TotalIs DEF Lossless
<1>6. Turn = nextFrame => offset > 0 /\ Len(Stream) = offset /\ nextFrame \in Pieces
  BY <1>1, <1>4 DEF Inv, CutInv
<1>7. Turn \in 1..Frames
  <2>1. Pieces \subseteq 1..Frames
    BY FramingAssumption DEF FramingAssumption
  <2>2. QED
    BY <2>1, <1>1, <1>5, <1>6
<1>8. Total(Turn) \in Nat /\ LenBytes \in Nat /\ LenBytes >= 1 /\ LenBytes <= Total(Turn)
  BY <1>7, TotalIs
<1>9. Turn # 1 => Turn < nextFrame
  BY <1>1, <1>5, <1>6 DEF Safe
<1>10. Turn < nextFrame => Len(Stream) >= Total(Turn)
  <2> SUFFICES ASSUME Turn < nextFrame PROVE Len(Stream) >= Total(Turn)
    OBVIOUS
  <2>1. Turn \in Turn..nextFrame /\ nextFrame \in Turn..nextFrame
    BY <1>1
  <2>2. s[nextFrame] \in Nat /\ 0 + Total(Turn) <= s[nextFrame]
    BY <2>1, <1>4
  <2>3. QED
    BY <2>2, <1>1, <1>4, <1>8
<1>11. Turn = nextFrame => Len(Stream) < Total(Turn)
  BY <1>1, <1>6, <1>7 DEF Inv, TypeOK
<1>12. ASSUME NEW i \in 1..Len(Stream), i <= Total(Turn)
       PROVE  Stream[i] = <<Turn, i>>
  <2>1. 0 + i = i /\ i \in 1..Total(Turn)
    BY <1>1, <1>8, <1>12
  <2>2. CASE Turn = nextFrame
    <3>1. i \in 1..offset
      BY <2>2, <1>6
    <3>2. QED
      BY <3>1, <2>1, <2>2, <1>4
  <2>3. CASE Turn # nextFrame
    <3>1. Turn \in Turn..(nextFrame - 1)
      BY <2>3, <1>1, <1>5
    <3>2. QED
      BY <3>1, <2>1, <1>4
  <2>4. QED
    BY <2>2, <2>3
<1>13. ASSUME Len(Stream) >= LenBytes
       PROVE  Decoded(SubSeq(Stream, 1, LenBytes)) = {Size[Turn]}
  <2> DEFINE b == SubSeq(Stream, 1, LenBytes)
  <2>1. 1 <= LenBytes + 1 /\ LenBytes <= Len(Stream) /\ LenBytes - 1 + 1 = LenBytes /\ 1 \in Nat
    BY <1>8, <1>13
  <2>2. /\ b \in Seq(Byte) /\ Len(b) = LenBytes - 1 + 1
        /\ \A i \in 1..(LenBytes - 1 + 1) : b[i] = Stream[1 + i - 1]
    BY <2>1, <1>1, <1>8, PartIs
  <2>3. \A i \in 1..LenBytes : 1 + i - 1 = i /\ i \in 1..Len(Stream) /\ i <= Total(Turn)
    BY <2>1, <1>1, <1>8
  <2>4. \A i \in 1..LenBytes : b[i] = <<Turn, i>>
    BY <2>1, <2>2, <2>3, <1>12
  <2> HIDE DEF b
  <2>5. Decoded(b) = {Size[Turn]}
    BY <2>1, <2>2, <2>4, <1>7, DecodedWhole
  <2>6. QED
    BY <2>5 DEF b
<1>14. QED
  BY <1>7, <1>9, <1>10, <1>11, <1>12, <1>13

\* Before the first frame in pieces, the frame dispatched is the one whose turn
\* it is.
LEMMA DispatchInTurn ==
  ASSUME Inv, Safe, NEW n \in Nat, Len(Stream) >= LenBytes + n, n = Size[Turn]
  PROVE  /\ FrameOf(SubSeq(Stream, 1, LenBytes + n)) = Turn
         /\ Turn < nextFrame /\ Turn \in 1..Frames
<1> DEFINE k == LenBytes + n
           b == SubSeq(Stream, 1, k)
<1>1. Stream \in Seq(Byte) /\ Len(Stream) \in Nat
  BY StreamType, LenProperties DEF Inv, TypeOK
<1>2. k \in Nat /\ k >= 1 /\ k <= Len(Stream)
  BY TotalIs
<1>3. Stream # <<>>
  BY <1>1, <1>2, EmptySeq
<1>4. /\ Turn \in 1..Frames
      /\ Turn = nextFrame => Len(Stream) < Total(Turn)
      /\ \A i \in 1..Len(Stream) : i <= Total(Turn) => Stream[i] = <<Turn, i>>
  BY <1>3, TurnLength
<1>5. k = Total(Turn)
  BY <1>4, TotalIs
<1>6. b \in Seq(Byte) /\ Len(b) = k /\ \A i \in 1..k : b[i] = Stream[i]
  <2>1. 1 \in Nat /\ 1 <= 1 /\ 1 <= k + 1 /\ k - 1 + 1 = k
    BY <1>2
  <2>2. /\ b \in Seq(Byte) /\ Len(b) = k - 1 + 1
        /\ \A i \in 1..(k - 1 + 1) : b[i] = Stream[1 + i - 1]
    BY <2>1, <1>1, <1>2, PartIs
  <2>3. \A i \in 1..k : 1 + i - 1 = i
    BY <1>2
  <2>4. QED
    BY <2>1, <2>2, <2>3
<1> HIDE DEF b, k
<1>7. Turn < nextFrame
  <2>1. Turn # nextFrame
    BY <1>1, <1>2, <1>4, <1>5
  <2>2. Turn <= nextFrame /\ nextFrame \in Nat
    BY DEF Inv, LosslessInv, Lossless, TypeOK
  <2>3. QED
    BY <2>1, <2>2, <1>4
<1>8. \A i \in 1..k : b[i] = <<Turn, i>>
  <2>1. \A i \in 1..k : i \in 1..Len(Stream) /\ i <= Total(Turn)
    BY <1>1, <1>2, <1>5
  <2>2. QED
    BY <2>1, <1>4, <1>6
<1>9. FrameOf(b) = Turn
  BY <1>4, <1>5, <1>6, <1>8, FrameOfWhole
<1>10. QED
  BY <1>4, <1>7, <1>9 DEF b, k

\* ... for its length is what the prefix says.
LEMMA LengthInTurn ==
  ASSUME Inv, Safe, Stream # <<>>, Len(Stream) >= LenBytes,
         NEW n \in IF need = 0 THEN Decoded(SubSeq(Stream, 1, LenBytes)) ELSE {need}
  PROVE  n = Size[Turn]
<1>1. Decoded(SubSeq(Stream, 1, LenBytes)) = {Size[Turn]}
  BY TurnLength
<1>2. need # 0 => need = Size[Turn]
  BY DEF Inv, LosslessInv, Lossless
<1>3. QED
  BY <1>1, <1>2

\* A frame is dispatched, and the bytes after it wait on the wire.
LEMMA DispatchKeeps ==
  ASSUME Inv, NEW n \in Nat, n >= 1, Len(Stream) >= LenBytes + n,
         Safe => n = Size[Turn],
         received' = Append(received, FrameOf(SubSeq(Stream, 1, LenBytes + n))),
         wire' = SubSeq(Stream, LenBytes + n + 1, Len(Stream)),
         taken' = <<>>, need' = 0, UNCHANGED <<nextFrame, offset>>,
         loop' \in {"reading", "writing", "left"}
  PROVE  Inv'
<1> DEFINE k == LenBytes + n
           b == SubSeq(Stream, 1, k)
           t == SubSeq(Stream, k + 1, Len(Stream))
           x == FrameOf(b)
           R == (1..Frames) \cup {Junk}
<1>1. Stream \in Seq(Byte) /\ Len(Stream) \in Nat /\ received \in Seq(R) /\ Len(received) \in Nat
  BY StreamType, LenProperties DEF Inv, TypeOK
<1>2. k \in Nat /\ k >= 1 /\ k <= Len(Stream)
  BY TotalIs
<1>3. b \in Seq(Byte) /\ Len(b) = k /\ \A i \in 1..k : b[i] = Stream[i]
  <2>1. 1 \in Nat /\ 1 <= 1 /\ 1 <= k + 1 /\ k - 1 + 1 = k
    BY <1>2
  <2>2. /\ b \in Seq(Byte) /\ Len(b) = k - 1 + 1
        /\ \A i \in 1..(k - 1 + 1) : b[i] = Stream[1 + i - 1]
    BY <2>1, <1>1, <1>2, PartIs
  <2>3. \A i \in 1..k : 1 + i - 1 = i
    BY <1>2
  <2>4. QED
    BY <2>1, <2>2, <2>3
<1>4. t \in Seq(Byte) /\ Len(Stream) = k + Len(t) /\ \A i \in 1..Len(t) : t[i] = Stream[k + i]
  <2>1. k + 1 \in Nat /\ 1 <= k + 1 /\ k + 1 <= Len(Stream) + 1 /\ Len(Stream) <= Len(Stream)
    BY <1>1, <1>2
  <2>2. /\ t \in Seq(Byte) /\ Len(t) = Len(Stream) - (k + 1) + 1
        /\ \A i \in 1..(Len(Stream) - (k + 1) + 1) : t[i] = Stream[(k + 1) + i - 1]
    BY <2>1, <1>1, PartIs
  <2>3. Len(t) = Len(Stream) - k
    BY <2>2, <1>1, <1>2
  <2>4. \A i \in 1..Len(t) : (k + 1) + i - 1 = k + i
    BY <2>3, <1>1, <1>2
  <2>5. QED
    BY <2>2, <2>3, <2>4, <1>1, <1>2, SMTT(20)
<1>5. x # Junk => x \in 1..Frames /\ k = Total(x) /\ \A i \in 1..k : Stream[i] = <<x, i>>
  <2> SUFFICES ASSUME x # Junk
               PROVE x \in 1..Frames /\ k = Total(x) /\ \A i \in 1..k : Stream[i] = <<x, i>>
    OBVIOUS
  <2>1. \E f \in 1..Frames : x = f /\ Len(b) = Total(f) /\ \A i \in 1..Total(f) : b[i] = <<f, i>>
    BY FrameOfIs
  <2> HIDE DEF x, b, k
  <2>2. QED
    BY <2>1, <1>3
<1>6. x \in R
  BY <1>5
<1> HIDE DEF b, t, x, k
<1>7. wire' = t /\ received' = Append(received, x)
  BY DEF t, x, b, k
<1>8. Stream' = t
  BY <1>4, <1>7, ConcatEmptySeq DEF Stream
<1>9. /\ received' \in Seq(R) /\ received' # <<>> /\ Len(received') = Len(received) + 1
      /\ \A i \in 1..Len(received) : received'[i] = received[i]
      /\ received'[Len(received) + 1] = x
  BY <1>1, <1>6, <1>7, AppendProperties
<1>10. TypeOK'
  <2>1. wire' \in Seq(Byte) /\ taken' \in Seq(Byte)
    BY <1>4, <1>7, EmptySeq
  <2>2. need' \in 0..MaxFrame
    BY FramingAssumption DEF FramingAssumption
  <2>3. received' \in Seq((1..Frames) \cup {Junk})
    BY <1>9
  <2>4. /\ nextFrame' \in 1..(Frames + 1) /\ offset' \in Nat
        /\ loop' \in {"reading", "writing", "left", "refused"}
        /\ nextFrame' <= Frames => offset' < Total(nextFrame')
    BY DEF Inv, TypeOK
  <2>5. QED
    BY <2>1, <2>2, <2>3, <2>4 DEF TypeOK
<1>11. /\ Sorted(t) /\ \A i \in 1..Len(t) : Delivered(t[i])
       /\ \A m \in 1..Len(received) : \A i \in 1..Len(t) :
            received[m] # Junk => received[m] < t[i][1]
  BY <1>1, <1>2, <1>4, LaterPart DEF Inv
<1>12. ASSUME x # Junk, NEW i \in 1..Len(t) PROVE x < t[i][1]
  <2>1. Len(t) \in Nat
    BY <1>4, LenProperties
  <2>2. k \in 1..Len(Stream) /\ k + i \in 1..Len(Stream) /\ k < k + i
    BY <2>1, <1>1, <1>2, <1>4
  <2>3. Before(Stream[k], Stream[k + i])
    BY <2>2 DEF Inv, StreamInv, Sorted
  <2>4. k \in 1..k /\ Stream[k] = <<x, k>> /\ x \in 1..Frames /\ k = Total(x)
    BY <1>2, <1>5, <1>12
  <2>5. PICK f \in 1..Frames : \E p \in 1..Total(f) : Stream[k + i] = <<f, p>>
    BY <2>2, <1>1, ElementOfSeq, ByteIs
  <2>6. PICK p \in 1..Total(f) : Stream[k + i] = <<f, p>>
    BY <2>5
  <2>7. x < f \/ (x = f /\ k < p)
    BY <2>3, <2>4, <2>6 DEF Before
  <2>8. p <= Total(f)
    BY TotalIs
  <2>9. x < f
    BY <2>4, <2>7, <2>8, TotalIs
  <2>10. t[i] = <<f, p>>
    BY <1>4, <2>6
  <2>11. QED
    BY <2>9, <2>10
<1>13. StreamInv'
  <2>1. ASSUME NEW m \in 1..Len(received'), NEW i \in 1..Len(t), received'[m] # Junk
        PROVE  received'[m] < t[i][1]
    <3>1. CASE m = Len(received) + 1
      BY <3>1, <2>1, <1>9, <1>12
    <3>2. CASE m # Len(received) + 1
      <4>1. m \in 1..Len(received)
        BY <3>2, <1>1, <1>9
      <4>2. QED
        BY <4>1, <2>1, <1>9, <1>11
    <3>3. QED
      BY <3>1, <3>2
  <2>2. QED
    BY <2>1, <1>8, <1>11 DEF StreamInv, Delivered
<1>14. Safe => x = Turn /\ Turn < nextFrame /\ k = Total(Turn)
  <2> SUFFICES ASSUME Safe PROVE x = Turn /\ Turn < nextFrame /\ k = Total(Turn)
    OBVIOUS
  <2>1. FrameOf(SubSeq(Stream, 1, LenBytes + n)) = Turn /\ Turn < nextFrame /\ Turn \in 1..Frames
    BY DispatchInTurn
  <2>2. QED
    BY <2>1, TotalIs DEF x, b, k
<1>22. LosslessInv'
  <2> SUFFICES ASSUME Safe' PROVE Lossless'
    BY DEF LosslessInv
  <2>1. Turn' = Turn + 1 /\ Turn \in Nat /\ Turn >= 1
    BY <1>1, <1>9 DEF Turn
  <2>2. Safe
    <3>1. \A f \in Pieces \ {1} : f \in Nat
      BY FramingAssumption DEF FramingAssumption
    <3>2. QED
      BY <3>1, <2>1 DEF Safe
  <2>3. x = Turn /\ Turn < nextFrame /\ k = Total(Turn)
    BY <2>2, <1>14
  <2>4. PICK s : Layout(s, Turn, nextFrame, offset, Stream)
    BY <2>2 DEF Inv, LosslessInv, Lossless
  <2>5. nextFrame \in Nat /\ nextFrame <= Frames + 1 /\ offset \in Nat
    BY TotalIs DEF Inv, TypeOK
  <2>9. Rest(Stream, t, Total(Turn))
    BY <2>3, <1>4 DEF Rest
  <2>6. \E s2 : Layout(s2, Turn + 1, nextFrame, offset, t)
    BY <2>1, <2>3, <2>4, <2>5, <2>9, <1>1, <1>4, LayoutLess
  <2>7. Turn' <= nextFrame'
    BY <2>1, <2>3, <2>5
  <2>8. QED
    BY <2>1, <2>6, <2>7, <1>8 DEF Lossless
<1>15. x # Junk => x < nextFrame
  <2> SUFFICES ASSUME x # Junk PROVE x < nextFrame
    OBVIOUS
  <2>1. k \in 1..k /\ Stream[k] = <<x, k>> /\ x \in 1..Frames /\ k = Total(x)
    BY <1>2, <1>5
  <2>2. k \in 1..Len(Stream)
    BY <1>1, <1>2
  <2>3. x < nextFrame \/ (x = nextFrame /\ k <= offset)
    BY <2>1, <2>2 DEF Inv, StreamInv, Delivered, SentBy
  <2>4. nextFrame <= Frames => offset < Total(nextFrame)
    BY DEF Inv, TypeOK
  <2>5. offset \in Nat /\ Frames \in Nat
    BY TotalIs DEF Inv, TypeOK
  <2>6. QED
    BY <2>1, <2>3, <2>4, <2>5, <1>2, TotalIs
<1>16. received = <<>> => x = 1
  <2> SUFFICES ASSUME received = <<>> PROVE x = 1
    OBVIOUS
  <2>1. Turn = 1
    BY DEF Turn
  <2>2. Safe
    BY <2>1, FramingAssumption DEF Safe, FramingAssumption
  <2>3. QED
    BY <2>1, <2>2, <1>14
<1>17. received'[1] = 1
  <2>1. CASE received = <<>>
    BY <2>1, <1>9, <1>16
  <2>2. CASE received # <<>>
    <3>1. 1 \in 1..Len(received)
      BY <2>2, <1>1, EmptySeq
    <3>2. QED
      BY <3>1, <2>2, <1>9 DEF Inv, ReceivedInv
  <2>3. QED
    BY <2>1, <2>2
<1>18. ASSUME NEW i \in 1..Len(received'), NEW j \in 1..Len(received'), i < j,
              received'[i] # Junk, received'[j] # Junk
       PROVE  received'[i] < received'[j]
  <2>1. i \in 1..Len(received)
    BY <1>18, <1>1, <1>9
  <2>2. CASE j = Len(received) + 1
    <3>1. x # Junk /\ 1 \in 1..k /\ 1 \in 1..Len(Stream)
      BY <2>2, <1>18, <1>9, <1>1, <1>2
    <3>2. Stream[1] = <<x, 1>>
      BY <3>1, <1>5
    <3>3. received[i] < Stream[1][1]
      BY <3>1, <2>1, <1>9, <1>18 DEF Inv, StreamInv
    <3>4. QED
      BY <3>2, <3>3, <2>1, <2>2, <1>9
  <2>3. CASE j # Len(received) + 1
    <3>1. j \in 1..Len(received)
      BY <2>3, <1>1, <1>9
    <3>2. QED
      BY <3>1, <2>1, <1>9, <1>18 DEF Inv, ReceivedInv
  <2>4. QED
    BY <2>2, <2>3
<1>19. ASSUME NEW i \in 1..Len(received'), received'[i] # Junk
       PROVE  received'[i] < nextFrame
  <2>1. CASE i = Len(received) + 1
    BY <2>1, <1>9, <1>15, <1>19
  <2>2. CASE i # Len(received) + 1
    <3>1. i \in 1..Len(received)
      BY <2>2, <1>1, <1>9
    <3>2. QED
      BY <3>1, <1>9, <1>19 DEF Inv, ReceivedInv
  <2>3. QED
    BY <2>1, <2>2
<1>20. ReceivedInv'
  BY <1>17, <1>18, <1>19 DEF ReceivedInv
<1>21. CutInv'
  BY DEF Inv, CutInv
<1>23. QED
  BY <1>10, <1>13, <1>20, <1>21, <1>22 DEF Inv

LEMMA PollKeeps == Inv /\ Poll => Inv'
<1> SUFFICES ASSUME Inv, Poll PROVE Inv'
  OBVIOUS
<1>1. Stream \in Seq(Byte) /\ Len(Stream) \in Nat /\ LenBytes \in Nat
      /\ need \in 0..MaxFrame /\ MaxFrame \in Nat /\ MaxFrame # 0
  BY StreamType, LenProperties, FramingAssumption DEF Inv, TypeOK, FramingAssumption
<1>0. Stream # <<>>
  <2>1. wire # <<>> /\ taken \in Seq(Byte) /\ wire \in Seq(Byte)
    BY DEF Poll, Inv, TypeOK
  <2>2. QED
    BY <2>1, ConcatEqualIffEmpty DEF Stream
<1>2. UNCHANGED <<nextFrame, offset>>
  BY DEF Poll
<1>3. CASE Len(Stream) < LenBytes /\ taken' = Stream /\ wire' = <<>>
           /\ UNCHANGED <<need, received, loop>>
  <2>1. Safe => Turn = 1 /\ (need # 0 => need = Size[Turn])
    <3> SUFFICES ASSUME Safe PROVE Turn = 1 /\ (need # 0 => need = Size[Turn])
      OBVIOUS
    <3>1. /\ Turn \in 1..Frames
          /\ Turn # 1 => Turn < nextFrame
          /\ Turn < nextFrame => Len(Stream) >= Total(Turn)
      BY <1>0, TurnLength
    <3>2. Turn = 1
      BY <3>1, <1>1, <1>3, TotalIs
    <3>3. QED
      BY <3>2 DEF Inv, LosslessInv, Lossless
  <2>2. QED
    BY <2>1, <1>1, <1>2, <1>3, WaitKeeps
<1>4. ASSUME Len(Stream) >= LenBytes,
             NEW n \in IF need = 0 THEN Decoded(SubSeq(Stream, 1, LenBytes)) ELSE {need},
             \/ Refused(n) /\ loop' = "refused" /\ UNCHANGED <<wire, taken, need, received>>
             \/ /\ ~Refused(n) /\ Len(Stream) < LenBytes + n
                /\ taken' = Stream /\ wire' = <<>> /\ need' = n
                /\ UNCHANGED <<received, loop>>
             \/ /\ ~Refused(n) /\ Len(Stream) >= LenBytes + n
                /\ received' = Append(received, FrameOf(SubSeq(Stream, 1, LenBytes + n)))
                /\ wire' = SubSeq(Stream, LenBytes + n + 1, Len(Stream))
                /\ taken' = <<>> /\ need' = 0 /\ loop' \in {"reading", "writing", "left"}
      PROVE  Inv'
  <2>1. n \in Nat
    BY <1>1, DecodedNat
  <2>2. Safe => n = Size[Turn]
    BY <1>0, <1>4, LengthInTurn
  <2>3. CASE Refused(n) /\ loop' = "refused" /\ UNCHANGED <<wire, taken, need, received>>
    BY <2>3, <1>2
    DEF Inv, TypeOK, CutInv, StreamInv, Stream, Delivered, LosslessInv, Lossless, Safe, Turn,
        ReceivedInv
  <2>4. CASE /\ ~Refused(n) /\ Len(Stream) < LenBytes + n
             /\ taken' = Stream /\ wire' = <<>> /\ need' = n
             /\ UNCHANGED <<received, loop>>
    <3>1. need' \in 0..MaxFrame
      BY <2>1, <2>4, <1>1 DEF Refused
    <3>2. Safe => Turn = 1 /\ (need' # 0 => need' = Size[Turn])
      <4> SUFFICES ASSUME Safe PROVE Turn = 1 /\ (need' # 0 => need' = Size[Turn])
        OBVIOUS
      <4>1. /\ Turn \in 1..Frames
            /\ Turn # 1 => Turn < nextFrame
            /\ Turn < nextFrame => Len(Stream) >= Total(Turn)
        BY <1>0, TurnLength
      <4>2. QED
        BY <4>1, <2>2, <2>4, <1>1, TotalIs
    <3>3. QED
      BY <3>1, <3>2, <2>4, <1>2, WaitKeeps
  <2>5. CASE /\ ~Refused(n) /\ Len(Stream) >= LenBytes + n
             /\ received' = Append(received, FrameOf(SubSeq(Stream, 1, LenBytes + n)))
             /\ wire' = SubSeq(Stream, LenBytes + n + 1, Len(Stream))
             /\ taken' = <<>> /\ need' = 0 /\ loop' \in {"reading", "writing", "left"}
    <3>1. n >= 1
      BY <2>1, <2>5 DEF Refused
    <3>2. QED
      BY <3>1, <2>1, <2>2, <2>5, <1>2, DispatchKeeps
  <2>6. QED
    BY <1>4, <2>3, <2>4, <2>5
<1>5. QED
  BY <1>3, <1>4 DEF Poll, Stream

-----------------------------------------------------------------------------
(* The theorems.                                                           *)

LEMMA InvStep == Inv /\ [Next]_vars => Inv'
<1> SUFFICES ASSUME Inv, [Next]_vars PROVE Inv'
  OBVIOUS
<1>1. CASE Deliver
  BY <1>1, DeliverKeeps
<1>2. CASE Poll
  BY <1>2, PollKeeps
<1>3. CASE VideoWins
  BY <1>3, VideoWinsKeeps
<1>4. CASE UNCHANGED vars \/ Written \/ Leave
  <2>1. UNCHANGED <<nextFrame, offset, wire, taken, need, received>>
    BY <1>4 DEF vars, Written, Leave
  <2>2. loop' \in {"reading", "writing", "left", "refused"}
    BY <1>4 DEF vars, Written, Leave, Inv, TypeOK
  <2>3. QED
    BY <2>1, <2>2
    DEF Inv, TypeOK, CutInv, StreamInv, Stream, Delivered, LosslessInv, Lossless, Safe,
        Turn, ReceivedInv
<1>5. QED
  BY <1>1, <1>2, <1>3, <1>4 DEF Next

\* The buffers and the length that read_frame has decoded keep their types, the
\* length its bound, for any frames and any cuts.
THEOREM TypeCorrect == Spec => []TypeOK
<1>1. Inv => TypeOK
  BY DEF Inv
<1>2. QED
  BY <1>1, InvInit, InvStep, PTL DEF Spec

\* Whichever frames come in pieces and however often the video arm drops a
\* read, ClientHello is read whole, and frames dispatched whole are in order,
\* each at most once.
THEOREM WholeInOrder == Spec => []WholeFramesInOrder
<1>1. Inv => WholeFramesInOrder
  <2> SUFFICES ASSUME Inv PROVE WholeFramesInOrder
    OBVIOUS
  <2>1. DOMAIN received = 1..Len(received)
    BY LenProperties DEF Inv, TypeOK
  <2>2. QED
    BY <2>1 DEF Inv, ReceivedInv, WholeFramesInOrder
<1>2. QED
  BY <1>1, InvInit, InvStep, PTL DEF Spec

-----------------------------------------------------------------------------
(* The channel.                                                            *)

LEMMA Joins == Inv => Stream \in Seq(Byte) /\ (wire # <<>> => Stream # <<>>)
<1> SUFFICES ASSUME Inv PROVE Stream \in Seq(Byte) /\ (wire # <<>> => Stream # <<>>)
  OBVIOUS
<1>1. taken \in Seq(Byte) /\ wire \in Seq(Byte)
  BY DEF Inv, TypeOK
<1>2. Stream \in Seq(Byte)
  BY <1>1, StreamType
<1>3. wire # <<>> => Stream # <<>>
  BY <1>1, ConcatEqualIffEmpty DEF Stream
<1>4. QED
  BY <1>2, <1>3

\* A frame that is complete is sent.
LEMMA DeliverIsSend == Inv /\ Deliver => [Abstract!Next]_(Abstract!vars)
<1> SUFFICES ASSUME Inv, Deliver PROVE [Abstract!Next]_(Abstract!vars)
  OBVIOUS
<1>1. nextFrame <= Frames /\ UNCHANGED <<received, loop>>
  BY DEF Deliver
<1>2. nextFrame' = nextFrame + 1 \/ UNCHANGED nextFrame
  BY DEF Deliver
<1>3. CASE nextFrame' = nextFrame + 1
  BY <1>1, <1>3 DEF Abstract!Next, Abstract!Send
<1>4. CASE UNCHANGED nextFrame
  BY <1>1, <1>4 DEF Abstract!vars
<1>5. QED
  BY <1>2, <1>3, <1>4

\* A length that is refused is that of a frame too long, or of a broken one.
LEMMA RefuseIsRefuse ==
  ASSUME Inv, loop = "reading", wire # <<>>, Len(Stream) >= LenBytes,
         NEW n \in IF need = 0 THEN Decoded(SubSeq(Stream, 1, LenBytes)) ELSE {need},
         Refused(n), loop' = "refused", UNCHANGED <<nextFrame, received>>
  PROVE  Abstract!Refuse
<1>1. CASE Safe
  <2>1. Stream # <<>>
    BY Joins
  <2>2. n = Size[Turn] /\ Turn \in 1..Frames
    BY <1>1, <2>1, LengthInTurn, TurnLength
  <2>3. Turn \in TooLong
    BY <2>2, TotalIs DEF Refused, TooLong
  <2>4. Turn <= nextFrame
    BY <1>1 DEF Inv, LosslessInv, Lossless
  <2>5. QED
    BY <2>3, <2>4 DEF Abstract!Refuse, Turn
<1>2. CASE ~Safe
  BY <1>2 DEF Abstract!Refuse, Abstract!Intact, Safe, Turn
<1>3. QED
  BY <1>1, <1>2

\* A frame dispatched is received, in turn or, from the first frame in pieces
\* on, broken.
LEMMA PollIsReceive == Inv /\ Inv' /\ Poll => [Abstract!Next]_(Abstract!vars)
<1> SUFFICES ASSUME Inv, Inv', Poll PROVE [Abstract!Next]_(Abstract!vars)
  OBVIOUS
<1>1. wire # <<>> /\ loop = "reading" /\ UNCHANGED nextFrame
  BY DEF Poll
<1>2. CASE UNCHANGED <<received, loop>>
  BY <1>1, <1>2 DEF Abstract!vars
<1>3. ASSUME Len(Stream) >= LenBytes,
             NEW n \in IF need = 0 THEN Decoded(SubSeq(Stream, 1, LenBytes)) ELSE {need},
             ~Refused(n), Len(Stream) >= LenBytes + n,
             received' = Append(received, FrameOf(SubSeq(Stream, 1, LenBytes + n))),
             loop' \in {"reading", "writing", "left"}
      PROVE  Abstract!Next
  <2> DEFINE x == FrameOf(SubSeq(Stream, 1, LenBytes + n))
  <2>1. n \in Nat
    BY DecodedNat, FramingAssumption DEF Inv, TypeOK, FramingAssumption
  <2>2. CASE Safe
    <3>1. n = Size[Turn]
      BY <2>2, <1>1, <1>3, Joins, LengthInTurn
    <3>2. x = Turn /\ Turn < nextFrame
      BY <2>1, <2>2, <3>1, <1>3, DispatchInTurn
    <3> HIDE DEF x
    <3>3. received' = Append(received, Turn)
      BY <3>2, <1>3 DEF x
    <3>4. Turn \notin TooLong
      BY <3>1, <2>1, <1>3, FramingAssumption DEF Refused, TooLong, FramingAssumption
    <3>5. Abstract!Receive
      BY <2>2, <3>2, <3>3, <3>4, <1>1, <1>3
      DEF Abstract!Receive, Abstract!Dispatch, Abstract!Intact, Safe, Turn
    <3>6. QED
      BY <3>5 DEF Abstract!Next
  <2>3. CASE ~Safe
    <3>1. Len(received) \in Nat /\ received \in Seq((1..Frames) \cup {Junk})
      BY LenProperties DEF Inv, TypeOK
    <3>2. ~Abstract!Intact(Len(received) + 1)
      BY <2>3 DEF Safe, Turn, Abstract!Intact
    <3>3. received' \in Seq((1..Frames) \cup {Junk}) /\ Len(received') \in Nat
      BY LenProperties DEF Inv, TypeOK
    <3> HIDE DEF x
    <3>4. received' = Append(received, x)
      BY <1>3 DEF x
    <3>5. /\ Len(received') = Len(received) + 1
          /\ received'[Len(received) + 1] = x
          /\ \A i \in 1..Len(received) : received'[i] = received[i]
      <4>1. x \in (1..Frames) \cup {Junk}
        BY FrameOfIs DEF x
      <4>2. QED
        BY <4>1, <3>1, <3>4, AppendProperties
    <3>6. x \in (1 .. nextFrame - 1) \cup {Junk}
      <4>1. CASE x # Junk
        <5>1. x \in 1..Frames
          BY <4>1, FrameOfIs DEF x
        <5>2. Len(received) + 1 \in 1..Len(received')
          BY <3>1, <3>5
        <5>3. x < nextFrame
          BY <4>1, <5>2, <3>5, <1>1 DEF Inv, ReceivedInv
        <5>4. nextFrame \in Nat
          BY DEF Inv, TypeOK
        <5>5. QED
          BY <5>1, <5>3, <5>4, TotalIs
      <4>2. QED
        BY <4>1
    <3>7. x # Junk => \A i \in DOMAIN received : received[i] = Junk \/ received[i] < x
      <4> SUFFICES ASSUME x # Junk, NEW i \in DOMAIN received, received[i] # Junk
                   PROVE  received[i] < x
        OBVIOUS
      <4>1. i \in 1..Len(received)
        BY <3>1, LenProperties
      <4>2. /\ i \in 1..Len(received') /\ Len(received) + 1 \in 1..Len(received')
            /\ i < Len(received) + 1
        BY <4>1, <3>1, <3>5
      <4>3. received'[i] = received[i] /\ received'[Len(received) + 1] = x
        BY <4>1, <3>5
      <4>4. QED
        BY <4>2, <4>3 DEF Inv, ReceivedInv
    <3>8. Abstract!ReceiveBroken
      BY <3>2, <3>4, <3>6, <3>7, <1>1, <1>3 DEF Abstract!ReceiveBroken, Abstract!Dispatch
    <3>9. QED
      BY <3>8 DEF Abstract!Next
  <2>4. QED
    BY <2>2, <2>3
<1>4. ASSUME Len(Stream) >= LenBytes,
             NEW n \in IF need = 0 THEN Decoded(SubSeq(Stream, 1, LenBytes)) ELSE {need},
             Refused(n), loop' = "refused", UNCHANGED received
      PROVE  Abstract!Next
  BY <1>1, <1>4, RefuseIsRefuse DEF Abstract!Next
<1>5. QED
  BY <1>2, <1>3, <1>4 DEF Poll, Stream

\* What the session loop gets is what the channel gives: up to the first frame
\* after ClientHello that comes in pieces, or the first longer than MaxFrame, each
\* frame once, whole and in order; a frame is refused only there; and the loop
\* reads, writes and ends as a receiver of the channel does.  Framing implements
\* the safety part of FrameChannel.
THEOREM ChannelSafe == Spec => Abstract!Init /\ [][Abstract!Next]_(Abstract!vars)
<1>1. Init => Abstract!Init
  BY DEF Init, Abstract!Init
<1>2. Inv /\ Inv' /\ [Next]_vars => [Abstract!Next]_(Abstract!vars)
  <2> SUFFICES ASSUME Inv, Inv', [Next]_vars PROVE [Abstract!Next]_(Abstract!vars)
    OBVIOUS
  <2>1. CASE Deliver
    BY <2>1, DeliverIsSend
  <2>2. CASE Poll
    BY <2>2, PollIsReceive
  <2>3. CASE VideoWins
    BY <2>3 DEF VideoWins, Abstract!Pause, Abstract!Next
  <2>4. CASE Written
    BY <2>4 DEF Written, Abstract!Resume, Abstract!Next
  <2>5. CASE Leave
    BY <2>5 DEF Leave, Abstract!Leave, Abstract!Next
  <2>6. CASE UNCHANGED vars
    BY <2>6 DEF vars, Abstract!vars
  <2>7. QED
    BY <2>1, <2>2, <2>3, <2>4, <2>5, <2>6 DEF Next
<1>3. Spec => []Inv
  BY InvInit, InvStep, PTL DEF Spec
<1>4. QED
  BY <1>1, <1>2, <1>3, PTL DEF Spec

=============================================================================
