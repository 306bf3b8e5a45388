---------------------------- MODULE IqFraming_proofs ----------------------------
(***************************************************************************)
(* Proofs about IqFraming, for tails, frames, blocks and streams of any    *)
(* length: every invariant of the run decoder_framing.                     *)
(***************************************************************************)
EXTENDS IqFraming, FiniteSetTheorems, SequenceTheorems, TLAPS

Samples == Byte \X Byte
Parity  == pending # NoByte <=> (fed % 2 = 1) # skewed

\* In step and after the last late block, the byte that waits is the last one.
PendingInv ==
  ~skewed /\ fed % 2 = 1 /\ clean <= Received => pending = fed - 1

\* No byte is ahead of the stream.
BytesInv ==
  /\ pending \in Nat => pending < fed
  /\ \A i \in 1 .. Len(tail) : tail[i][2] \in Nat => tail[i][2] < fed

Held(mag, f) == \E j \in 1 .. Len(mag) : HeldAt(mag, f, j)

\* A frame is decoded only when it has been received whole, and once it has
\* been decoded twice the tail does not hold it any more.
TwiceInv ==
  /\ \A f \in frames : decoded[f] >= 1 => 2 * (f + FrameSamples) <= fed
  /\ onlyLongBlocks =>
       \A f \in frames : decoded[f] <= 2 /\ (decoded[f] = 2 => ~Held(tail, f))

IInv ==
  /\ TypeOK /\ StreamInStep /\ NoFrameLost
  /\ PendingInv /\ BytesInv /\ TwiceInv

-----------------------------------------------------------------------------
(* Sequences. *)

\* Halving.
LEMMA Halves ==
  ASSUME NEW n \in Nat
  PROVE  /\ n \div 2 \in Nat /\ n % 2 \in {0, 1}
         /\ n % 2 = n - 2 * (n \div 2)
OBVIOUS

\* What is paired.
LEMMA PairsAre ==
  ASSUME NEW bytes \in Seq(Byte)
  PROVE  /\ Pairs(bytes) \in Seq(Samples)
         /\ Len(Pairs(bytes)) = Len(bytes) \div 2
         /\ \A k \in 1 .. Len(bytes) \div 2 :
              Pairs(bytes)[k] = <<bytes[2 * k - 1], bytes[2 * k]>>
<1> DEFINE half == Len(bytes) \div 2
<1>1. Len(bytes) \in Nat /\ half \in Nat /\ 2 * half <= Len(bytes)
  BY Halves
<1>2. \A k \in 1 .. half : <<bytes[2 * k - 1], bytes[2 * k]>> \in Samples
  <2> TAKE k \in 1 .. half
  <2>1. 2 * k - 1 \in 1 .. Len(bytes) /\ 2 * k \in 1 .. Len(bytes)
    BY <1>1
  <2>2. bytes[2 * k - 1] \in Byte /\ bytes[2 * k] \in Byte
    BY <2>1, ElementOfSeq
  <2> QED
    BY <2>2 DEF Samples
<1> QED
  BY <1>1, <1>2 DEF Pairs

\* What is left over.
LEMMA LeftOverIs ==
  ASSUME NEW bytes \in Seq(Byte)
  PROVE  /\ LeftOver(bytes) \in Byte \cup {NoByte}
         /\ LeftOver(bytes) # NoByte <=> Len(bytes) % 2 = 1
         /\ Len(bytes) % 2 = 1 => LeftOver(bytes) = bytes[Len(bytes)]
<1>1. Len(bytes) \in Nat
  OBVIOUS
<1>2. CASE Len(bytes) % 2 = 1
  <2>1. Len(bytes) \in 1 .. Len(bytes)
    BY <1>1, <1>2
  <2>2. bytes[Len(bytes)] \in Byte
    BY <2>1, ElementOfSeq
  <2> QED
    BY <1>2, <2>2, SizesAssumption DEF LeftOver, Byte
<1>3. CASE Len(bytes) % 2 # 1
  BY <1>3 DEF LeftOver
<1> QED
  BY <1>2, <1>3

\* What is kept for the next block.
LEMMA NextTailIs ==
  ASSUME NEW mag \in Seq(Samples)
  PROVE  /\ NextTail(mag) \in Seq(Samples)
         /\ Len(NextTail(mag)) = (IF Len(mag) < TailMax THEN Len(mag) ELSE TailMax)
         /\ Len(mag) \in Nat /\ Len(NextTail(mag)) \in Nat
         /\ Len(NextTail(mag)) <= Len(mag) /\ Len(NextTail(mag)) <= TailMax
         /\ \A i \in 1 .. Len(NextTail(mag)) :
              NextTail(mag)[i] = mag[Len(mag) - Len(NextTail(mag)) + i]
<1> DEFINE size == IF Len(mag) < TailMax THEN Len(mag) ELSE TailMax
<1>1. Len(mag) \in Nat /\ size \in Nat /\ size <= Len(mag)
  BY SizesAssumption
<1>2. \A i \in Len(mag) - size + 1 .. Len(mag) : mag[i] \in Samples
  BY <1>1
<1>4. size <= TailMax
  BY SizesAssumption
<1> HIDE DEF size
<1>3. /\ SubSeq(mag, Len(mag) - size + 1, Len(mag)) \in Seq(Samples)
      /\ Len(SubSeq(mag, Len(mag) - size + 1, Len(mag))) = size
      /\ \A i \in 1 .. size :
           SubSeq(mag, Len(mag) - size + 1, Len(mag))[i] = mag[Len(mag) - size + i]
  BY <1>1, <1>2, SubSeqProperties
<1> QED
  BY <1>1, <1>3, <1>4 DEF NextTail, size

\* What the demodulator sees.
LEMMA MagIs ==
  ASSUME tail \in Seq(Samples), NEW bytes \in Seq(Byte)
  PROVE  /\ tail \o Pairs(bytes) \in Seq(Samples)
         /\ Len(tail \o Pairs(bytes)) = Len(tail) + Len(bytes) \div 2
         /\ \A i \in 1 .. Len(tail) : (tail \o Pairs(bytes))[i] = tail[i]
         /\ \A k \in 1 .. Len(bytes) \div 2 :
              (tail \o Pairs(bytes))[Len(tail) + k] = <<bytes[2 * k - 1], bytes[2 * k]>>
<1>1. /\ Pairs(bytes) \in Seq(Samples) /\ Len(Pairs(bytes)) = Len(bytes) \div 2
      /\ \A k \in 1 .. Len(bytes) \div 2 :
           Pairs(bytes)[k] = <<bytes[2 * k - 1], bytes[2 * k]>>
  BY PairsAre
<1>2. Len(tail) \in Nat /\ Len(bytes) \div 2 \in Nat
  BY Halves
<1> DEFINE mag == tail \o Pairs(bytes)
<1>3. /\ mag \in Seq(Samples) /\ Len(mag) = Len(tail) + Len(Pairs(bytes))
      /\ \A i \in 1 .. Len(tail) + Len(Pairs(bytes)) :
           mag[i] = IF i <= Len(tail) THEN tail[i] ELSE Pairs(bytes)[i - Len(tail)]
  BY <1>1, ConcatProperties
<1> HIDE DEF mag
<1>4. \A i \in 1 .. Len(tail) : mag[i] = tail[i]
  BY <1>1, <1>2, <1>3
<1>5. \A k \in 1 .. Len(bytes) \div 2 : mag[Len(tail) + k] = Pairs(bytes)[k]
  <2> TAKE k \in 1 .. Len(bytes) \div 2
  <2>1. /\ Len(tail) + k \in 1 .. Len(tail) + Len(Pairs(bytes))
        /\ ~(Len(tail) + k <= Len(tail)) /\ Len(tail) + k - Len(tail) = k
    BY <1>1, <1>2
  <2> QED
    BY <1>3, <2>1
<1> QED
  BY <1>1, <1>3, <1>4, <1>5 DEF mag

\* The bytes of a block and the one that waits.
LEMMA BytesAre ==
  ASSUME pending \in Byte \cup {NoByte}, NEW block \in Seq(Byte)
  PROVE  /\ Bytes(block) \in Seq(Byte)
         /\ pending = NoByte => Bytes(block) = block
         /\ pending # NoByte =>
              /\ Len(Bytes(block)) = Len(block) + 1
              /\ Bytes(block)[1] = pending
              /\ \A i \in 2 .. Len(block) + 1 : Bytes(block)[i] = block[i - 1]
<1>1. CASE pending = NoByte
  BY <1>1 DEF Bytes
<1>2. CASE pending # NoByte
  <2>1. <<pending>> \in Seq(Byte) /\ Len(<<pending>>) = 1 /\ <<pending>>[1] = pending
    BY <1>2
  <2>2. /\ <<pending>> \o block \in Seq(Byte)
        /\ Len(<<pending>> \o block) = 1 + Len(block)
        /\ \A i \in 1 .. 1 + Len(block) : (<<pending>> \o block)[i] =
             IF i <= 1 THEN <<pending>>[i] ELSE block[i - 1]
    BY <2>1, ConcatProperties
  <2>3. Len(block) \in Nat
    OBVIOUS
  <2> QED
    BY <1>2, <2>1, <2>2, <2>3 DEF Bytes
<1> QED
  BY <1>1, <1>2

\* The blocks readers hand in.
LEMMA BlocksAre ==
  ASSUME NEW n \in BlockLengths, fed \in Nat
  PROVE  /\ n \in Nat \ {0} /\ n <= 2 * MaxPairs
         /\ OwnBlock(n) \in Seq(Byte) /\ Len(OwnBlock(n)) = n
         /\ \A i \in 1 .. n : OwnBlock(n)[i] = fed + i - 1
         /\ ForeignBlock(n) \in Seq(Byte) /\ Len(ForeignBlock(n)) = n
         /\ \A i \in 1 .. n : ForeignBlock(n)[i] = Foreign
<1>1. n \in Nat \ {0} /\ n <= 2 * MaxPairs
  BY BlocksAssumption
<1>2. /\ OwnBlock(n) \in [1 .. n -> Byte] /\ ForeignBlock(n) \in [1 .. n -> Byte]
      /\ \A i \in 1 .. n : OwnBlock(n)[i] = fed + i - 1 /\ ForeignBlock(n)[i] = Foreign
  <2>1. \A i \in 1 .. n : fed + i - 1 \in Byte /\ Foreign \in Byte
    BY <1>1 DEF Byte
  <2> QED
    BY <2>1 DEF OwnBlock, ForeignBlock
<1>3. \A s \in [1 .. n -> Byte] : s \in Seq(Byte) /\ Len(s) = n
  BY <1>1, SeqDef, LenProperties
<1> QED
  BY <1>1, <1>2, <1>3

-----------------------------------------------------------------------------
(* Blocks of the current reader. *)

\* In step, the last byte of a block is the last of the stream, and the buffer
\* continues the tail with the samples the block completes.
LEMMA OwnBytes ==
  ASSUME TypeOK, Parity, PendingInv, ~skewed, NEW n \in BlockLengths
  PROVE  LET bytes == Bytes(OwnBlock(n))
         IN  /\ bytes \in Seq(Byte)
             /\ Len(bytes) \div 2 = (fed + n) \div 2 - Received
             /\ Len(bytes) % 2 = (fed + n) % 2
             /\ Len(bytes) < 2 => Len(bytes) = 1 /\ fed % 2 = 0
             /\ bytes[Len(bytes)] = fed + n - 1
             /\ \A k \in 1 .. Len(bytes) \div 2 :
                  /\ clean <= Received + k - 1 => bytes[2 * k - 1] = 2 * (Received + k - 1)
                  /\ bytes[2 * k] = 2 * (Received + k - 1) + 1
<1> DEFINE block == OwnBlock(n)
           bytes == Bytes(block)
<1>0. /\ fed \in Nat /\ clean \in Nat /\ pending \in Byte \cup {NoByte}
      /\ Received \in Nat /\ Received = fed \div 2
  BY SizesAssumption, Halves DEF TypeOK, Received
<1>1. /\ n \in Nat \ {0} /\ block \in Seq(Byte) /\ Len(block) = n
      /\ \A i \in 1 .. n : block[i] = fed + i - 1
  BY <1>0, BlocksAre
<1>2. /\ bytes \in Seq(Byte)
      /\ pending = NoByte => bytes = block
      /\ pending # NoByte =>
           /\ Len(bytes) = n + 1 /\ bytes[1] = pending
           /\ \A i \in 2 .. n + 1 : bytes[i] = block[i - 1]
  BY <1>0, <1>1, BytesAre
<1>3. pending # NoByte <=> fed % 2 = 1
  <2>1. skewed = FALSE
    BY DEF TypeOK
  <2>2. pending # NoByte <=> (fed % 2 = 1) # FALSE
    BY <2>1 DEF Parity
  <2> QED
    BY <2>2
<1> HIDE DEF bytes, block
<1> DEFINE Continued ==
             /\ bytes \in Seq(Byte)
             /\ Len(bytes) \div 2 = (fed + n) \div 2 - Received
             /\ Len(bytes) % 2 = (fed + n) % 2
             /\ Len(bytes) < 2 => Len(bytes) = 1 /\ fed % 2 = 0
             /\ bytes[Len(bytes)] = fed + n - 1
             /\ \A k \in 1 .. Len(bytes) \div 2 :
                  /\ clean <= Received + k - 1 => bytes[2 * k - 1] = 2 * (Received + k - 1)
                  /\ bytes[2 * k] = 2 * (Received + k - 1) + 1
<1>4. /\ fed % 2 \in {0, 1} /\ fed % 2 = fed - 2 * (fed \div 2)
      /\ fed + n \in Nat /\ (fed + n) \div 2 \in Nat /\ (fed + n) % 2 \in {0, 1}
      /\ (fed + n) % 2 = fed + n - 2 * ((fed + n) \div 2)
      /\ n \div 2 \in Nat /\ n % 2 \in {0, 1} /\ n % 2 = n - 2 * (n \div 2)
      /\ (n + 1) \div 2 \in Nat /\ (n + 1) % 2 \in {0, 1}
      /\ (n + 1) % 2 = n + 1 - 2 * ((n + 1) \div 2)
  BY <1>0, <1>1, Halves
<1>5. ASSUME pending = NoByte PROVE Continued
  <2>1. fed % 2 = 0 /\ fed = 2 * Received /\ bytes = block /\ Len(bytes) = n
    BY <1>0, <1>1, <1>2, <1>3, <1>4, <1>5
  <2>2. n \div 2 = (fed + n) \div 2 - Received /\ n % 2 = (fed + n) % 2
    BY <1>0, <1>1, <1>4, <2>1
  <2>3. bytes[n] = fed + n - 1
    BY <1>1, <2>1
  <2>4. ASSUME NEW k \in 1 .. n \div 2
        PROVE  /\ clean <= Received + k - 1 => bytes[2 * k - 1] = 2 * (Received + k - 1)
               /\ bytes[2 * k] = 2 * (Received + k - 1) + 1
    <3>1. /\ k \in Nat /\ 2 * k - 1 \in 1 .. n /\ 2 * k \in 1 .. n
          /\ fed + (2 * k - 1) - 1 = 2 * (Received + k - 1)
          /\ fed + 2 * k - 1 = 2 * (Received + k - 1) + 1
      BY <1>0, <1>1, <1>4, <2>1
    <3> QED
      BY <1>1, <2>1, <3>1
  <2>5. n \in Nat \ {0} /\ Len(bytes) = n /\ bytes \in Seq(Byte) /\ fed % 2 = 0
    BY <1>1, <2>1
  <2>6. \A k \in 1 .. Len(bytes) \div 2 :
          /\ clean <= Received + k - 1 => bytes[2 * k - 1] = 2 * (Received + k - 1)
          /\ bytes[2 * k] = 2 * (Received + k - 1) + 1
    BY <2>4, <2>5
  <2>7. /\ Len(bytes) \div 2 = (fed + n) \div 2 - Received
        /\ Len(bytes) % 2 = (fed + n) % 2
        /\ bytes[Len(bytes)] = fed + n - 1
    BY <2>2, <2>3, <2>5
  <2> QED
    BY <2>5, <2>6, <2>7
<1>6. ASSUME pending # NoByte PROVE Continued
  <2>1. fed % 2 = 1 /\ fed = 2 * Received + 1 /\ Len(bytes) = n + 1
    BY <1>0, <1>2, <1>3, <1>4, <1>6
  <2>2. (n + 1) \div 2 = (fed + n) \div 2 - Received /\ (n + 1) % 2 = (fed + n) % 2
    BY <1>0, <1>1, <1>4, <2>1
  <2>3. bytes[n + 1] = fed + n - 1
    <3>1. n + 1 \in 2 .. n + 1 /\ n + 1 - 1 = n /\ n \in 1 .. n
      BY <1>1
    <3> QED
      BY <1>1, <1>2, <1>6, <3>1
  <2>4. ASSUME NEW k \in 1 .. (n + 1) \div 2
        PROVE  /\ clean <= Received + k - 1 => bytes[2 * k - 1] = 2 * (Received + k - 1)
               /\ bytes[2 * k] = 2 * (Received + k - 1) + 1
    <3>1. /\ k \in Nat /\ 2 * k \in 2 .. n + 1 /\ 2 * k - 1 \in 1 .. n
          /\ fed + (2 * k - 1) - 1 = 2 * (Received + k - 1) + 1
      BY <1>0, <1>1, <1>4, <2>1
    <3>2. bytes[2 * k] = 2 * (Received + k - 1) + 1
      BY <1>1, <1>2, <1>6, <3>1
    <3>3. CASE k = 1
      <4>1. clean <= Received => pending = 2 * Received
        BY <1>0, <2>1 DEF PendingInv
      <4>2. 2 * k - 1 = 1 /\ Received + k - 1 = Received
        BY <1>0, <3>3
      <4> QED
        BY <1>2, <1>6, <3>2, <4>1, <4>2
    <3>4. CASE k # 1
      <4>1. /\ 2 * k - 1 \in 2 .. n + 1 /\ (2 * k - 1) - 1 \in 1 .. n
            /\ fed + ((2 * k - 1) - 1) - 1 = 2 * (Received + k - 1)
        BY <1>0, <1>1, <2>1, <3>1, <3>4
      <4> QED
        BY <1>1, <1>2, <1>6, <3>2, <4>1
    <3> QED
      BY <3>3, <3>4
  <2> QED
    BY <1>1, <1>2, <2>1, <2>2, <2>3, <2>4
<1> QED
  BY <1>5, <1>6 DEF bytes, block

\* What the tail is to hold grows with the stream.
LEMMA OwnTailIs ==
  ASSUME TypeOK
  PROVE  /\ OwnTail \in Nat /\ OwnTail <= TailMax /\ Received \in Nat /\ OwnTail <= Received
         /\ clean >= Received => OwnTail = 0
         /\ clean < Received /\ OwnTail < TailMax => OwnTail = Received - clean
BY SizesAssumption, Halves DEF TypeOK, OwnTail, Received

\* In step, the buffer ends with the samples since the last late block that
\* the tail still had, and those of the block.
LEMMA OwnMag ==
  ASSUME TypeOK, StreamInStep, PendingInv, ~skewed, NEW n \in BlockLengths
  PROVE  LET mag  == tail \o Pairs(Bytes(OwnBlock(n)))
             more == (fed + n) \div 2
         IN  /\ mag \in Seq(Samples) /\ more \in Nat /\ more >= Received
             /\ Len(mag) = Len(tail) + (more - Received)
             /\ \A s \in Nat : clean <= s /\ s < more /\ Received <= s + OwnTail =>
                  /\ Len(tail) + s + 1 - Received \in 1 .. Len(mag)
                  /\ mag[Len(tail) + s + 1 - Received] = Sample(s)
<1> DEFINE bytes == Bytes(OwnBlock(n))
           mag   == tail \o Pairs(bytes)
           more  == (fed + n) \div 2
<1>1. /\ bytes \in Seq(Byte) /\ Len(bytes) \div 2 = more - Received
      /\ \A k \in 1 .. Len(bytes) \div 2 :
           /\ clean <= Received + k - 1 => bytes[2 * k - 1] = 2 * (Received + k - 1)
           /\ bytes[2 * k] = 2 * (Received + k - 1) + 1
  BY OwnBytes DEF StreamInStep, Parity
<1>2. /\ OwnTail \in Nat /\ Received \in Nat /\ clean \in Nat /\ OwnTail <= Received
      /\ Len(tail) \in Nat /\ tail \in Seq(Samples)
  BY OwnTailIs DEF TypeOK, Samples
<1> HIDE DEF bytes
<1>3. /\ mag \in Seq(Samples) /\ Len(mag) = Len(tail) + Len(bytes) \div 2
      /\ \A i \in 1 .. Len(tail) : mag[i] = tail[i]
      /\ \A k \in 1 .. Len(bytes) \div 2 : mag[Len(tail) + k] = <<bytes[2 * k - 1], bytes[2 * k]>>
  BY <1>1, <1>2, MagIs
<1>4. Len(bytes) \div 2 \in Nat /\ more \in Int
  <2>1. Len(bytes) \in Nat /\ fed + n \in Nat
    BY <1>1, BlocksAssumption DEF TypeOK
  <2> QED
    BY <2>1, Halves
<1>5. /\ OwnTail <= Len(tail)
      /\ \A i \in 1 .. OwnTail :
            tail[Len(tail) - OwnTail + i] = Sample(Received - OwnTail + i - 1)
  BY DEF StreamInStep
<1> HIDE DEF mag, more
<1>6. ASSUME NEW s \in Nat, clean <= s, s < more, Received <= s + OwnTail
      PROVE  /\ Len(tail) + s + 1 - Received \in 1 .. Len(mag)
             /\ mag[Len(tail) + s + 1 - Received] = Sample(s)
  <2>1. CASE s < Received
    <3> DEFINE i == s + OwnTail + 1 - Received
    <3>1. /\ i \in 1 .. OwnTail /\ Len(tail) - OwnTail + i = Len(tail) + s + 1 - Received
          /\ Received - OwnTail + i - 1 = s /\ Len(tail) + s + 1 - Received \in 1 .. Len(tail)
      BY <1>2, <1>5, <1>6, <2>1
    <3> HIDE DEF i
    <3>2. tail[Len(tail) + s + 1 - Received] = Sample(s)
      BY <1>5, <3>1
    <3>3. Len(tail) + s + 1 - Received \in 1 .. Len(mag)
      BY <1>2, <1>3, <1>4, <3>1
    <3> QED
      BY <1>3, <3>1, <3>2, <3>3
  <2>2. CASE s >= Received
    <3> DEFINE k == s + 1 - Received
    <3>1. /\ k \in 1 .. Len(bytes) \div 2 /\ Len(tail) + k = Len(tail) + s + 1 - Received
          /\ Received + k - 1 = s /\ Len(tail) + s + 1 - Received \in 1 .. Len(mag)
      BY <1>1, <1>2, <1>3, <1>4, <1>6, <2>2
    <3> HIDE DEF k
    <3>2. bytes[2 * k - 1] = 2 * s /\ bytes[2 * k] = 2 * s + 1
      BY <1>1, <1>6, <3>1
    <3> QED
      BY <1>3, <3>1, <3>2 DEF Sample
  <2> QED
    BY <1>2, <1>6, <2>1, <2>2
<1> QED
  BY <1>1, <1>2, <1>3, <1>4, <1>6 DEF mag, more, bytes

-----------------------------------------------------------------------------
(* Frames. *)

\* Positions a whole divisor apart have different quotients.
LEMMA SlotsDiffer ==
  ASSUME NEW a \in Nat, NEW b \in Nat, NEW d \in Nat \ {0}, a + d <= b
  PROVE  a \div d # b \div d
OBVIOUS

\* A position below m divisors is in one of m slots.
LEMMA SlotsBounded ==
  ASSUME NEW a \in Nat, NEW m \in Nat, NEW d \in Nat \ {0}, a < m * d
  PROVE  a \div d \in 0 .. m - 1
OBVIOUS

\* Different frames share no sample.
LEMMA FramesApart ==
  ASSUME frames \in Streams, NEW mag \in Seq(Samples),
         NEW f \in frames, NEW g \in frames, f # g,
         NEW i \in 1 .. Len(mag), NEW j \in 1 .. Len(mag),
         HeldAt(mag, f, i), HeldAt(mag, g, j)
  PROVE  i + FrameSamples <= j \/ j + FrameSamples <= i
<1>1. /\ f \in Nat /\ g \in Nat /\ i \in Nat /\ j \in Nat
      /\ FrameSamples \in Nat \ {0}
      /\ f + FrameSamples <= g \/ g + FrameSamples <= f
  BY SizesAssumption DEF Streams, Starts
<1>2. SUFFICES ASSUME i < j + FrameSamples, j < i + FrameSamples PROVE FALSE
  BY <1>1
<1> DEFINE at == IF i < j THEN j ELSE i
<1>3. /\ at - i \in 0 .. FrameSamples - 1 /\ at - j \in 0 .. FrameSamples - 1
      /\ at \in Nat /\ i + (at - i) = at /\ j + (at - j) = at
  BY <1>1, <1>2
<1> HIDE DEF at
<1>4. mag[at] = Sample(f + (at - i)) /\ mag[at] = Sample(g + (at - j))
  BY <1>3 DEF HeldAt
<1>5. 2 * (f + (at - i)) = 2 * (g + (at - j))
  BY <1>4 DEF Sample
<1> QED
  BY <1>1, <1>3, <1>5

\* The output array has room for every frame the buffer can hold.
LEMMA RoomForAll ==
  ASSUME frames \in Streams, NEW mag \in Seq(Samples), Len(mag) <= TailMax + MaxPairs
  PROVE  WithinMax(Found(mag)) = Found(mag)
<1> DEFINE at(f) == CHOOSE j \in 1 .. Len(mag) : HeldAt(mag, f, j)
           slot(f) == (at(f) - 1) \div FrameSamples
<1>1. \A f \in Found(mag) : f \in frames /\ at(f) \in 1 .. Len(mag) /\ HeldAt(mag, f, at(f))
  <2> TAKE f \in Found(mag)
  <2>1. f \in frames /\ \E j : j \in 1 .. Len(mag) /\ HeldAt(mag, f, j)
    BY DEF Found
  <2>2. at(f) \in 1 .. Len(mag) /\ HeldAt(mag, f, at(f))
    BY <2>1, Zenon
  <2> QED
    BY <2>1, <2>2
<1> HIDE DEF at
<1>2. /\ FrameSamples \in Nat \ {0} /\ MaxMessages \in Nat /\ Len(mag) \in Nat
      /\ MaxMessages * FrameSamples \in Nat /\ Len(mag) <= MaxMessages * FrameSamples
  BY SizesAssumption, BlocksAssumption, MessagesAssumption
<1>3. \A f \in Found(mag) : slot(f) \in 0 .. MaxMessages - 1
  <2> TAKE f \in Found(mag)
  <2>1. at(f) - 1 \in Nat /\ at(f) - 1 < MaxMessages * FrameSamples
    BY <1>1, <1>2
  <2> QED
    BY <1>2, <2>1, SlotsBounded
<1>4. \A f, g \in Found(mag) : f # g => slot(f) # slot(g)
  <2> SUFFICES ASSUME NEW f \in Found(mag), NEW g \in Found(mag), f # g
               PROVE  slot(f) # slot(g)
    OBVIOUS
  <2>1. at(f) + FrameSamples <= at(g) \/ at(g) + FrameSamples <= at(f)
    BY <1>1, FramesApart
  <2>2. /\ at(f) - 1 \in Nat /\ at(g) - 1 \in Nat
        /\ (at(f) - 1) + FrameSamples <= at(g) - 1 \/ (at(g) - 1) + FrameSamples <= at(f) - 1
    BY <1>1, <1>2, <2>1
  <2> QED
    BY <1>2, <2>2, SlotsDiffer
<1> HIDE DEF slot
<1>5. ASSUME NEW f \in Found(mag)
      PROVE  Cardinality({g \in Found(mag) : g < f}) < MaxMessages
  <2> DEFINE T == {g \in Found(mag) : g < f}
             U == (0 .. MaxMessages - 1) \ {slot(f)}
  <2>1. IsFiniteSet(0 .. MaxMessages - 1) /\ Cardinality(0 .. MaxMessages - 1) = MaxMessages
    <3>1. 0 \in Int /\ MaxMessages - 1 \in Int
      BY <1>2
    <3>2. /\ IsFiniteSet(0 .. MaxMessages - 1)
          /\ Cardinality(0 .. MaxMessages - 1) =
               IF 0 > MaxMessages - 1 THEN 0 ELSE MaxMessages - 1 - 0 + 1
      BY <3>1, FS_Interval
    <3> QED
      BY <1>2, <3>2
  <2>2. IsFiniteSet(U) /\ Cardinality(U) = MaxMessages - 1
    BY <1>3, <2>1, FS_RemoveElement
  <2>3. f \in Nat
    <3>1. f \in frames
      BY <1>1
    <3> QED
      BY <3>1, SizesAssumption DEF Streams, Starts
  <2>4. \A g \in T : g # f /\ g \in Found(mag)
    BY <2>3
  <2>5. [g \in T |-> slot(g)] \in Injection(T, U)
    <3>1. \A g \in T : slot(g) \in U
      BY <1>3, <1>4, <2>4
    <3>2. \A g, h \in T : slot(g) = slot(h) => g = h
      BY <1>4, <2>4
    <3> HIDE DEF T, U
    <3> QED
      BY <3>1, <3>2 DEF Injection, IsInjective
  <2> HIDE DEF T, U
  <2>6. IsFiniteSet(T) /\ Cardinality(T) <= Cardinality(U)
    BY <2>2, <2>5, FS_Injection
  <2>7. Cardinality(T) \in Nat
    BY <2>6, FS_CardinalityType
  <2> QED
    BY <1>2, <2>2, <2>6, <2>7 DEF T
<1> QED
  BY <1>5 DEF WithinMax

\* A frame found in the tail was found in the buffer before, at its end.
LEMMA HeldInTail ==
  ASSUME NEW mag \in Seq(Samples), NEW f, NEW j \in 1 .. Len(NextTail(mag)),
         HeldAt(NextTail(mag), f, j)
  PROVE  LET i == Len(mag) - Len(NextTail(mag)) + j
         IN  i \in 1 .. Len(mag) /\ HeldAt(mag, f, i)
<1> DEFINE new == NextTail(mag)
           i   == Len(mag) - Len(new) + j
<1>1. /\ Len(new) \in Nat /\ Len(mag) \in Nat /\ Len(new) <= Len(mag) /\ j \in Nat
      /\ FrameSamples \in Nat \ {0}
      /\ \A l \in 1 .. Len(new) : new[l] = mag[Len(mag) - Len(new) + l]
  <2>1. j \in Nat
    BY NextTailIs
  <2> QED
    BY <2>1, NextTailIs, SizesAssumption
<1>2. /\ j + FrameSamples <= Len(new) + 1
      /\ \A k \in 0 .. FrameSamples - 1 : new[j + k] = Sample(f + k)
  BY DEF HeldAt
<1> HIDE DEF new
<1>3. i \in 1 .. Len(mag) /\ i + FrameSamples <= Len(mag) + 1
  BY <1>1, <1>2
<1>4. ASSUME NEW k \in 0 .. FrameSamples - 1
      PROVE  mag[i + k] = Sample(f + k)
  <2>1. j + k \in 1 .. Len(new) /\ Len(mag) - Len(new) + (j + k) = i + k
    BY <1>1, <1>2
  <2> QED
    BY <1>1, <1>2, <2>1
<1> QED
  BY <1>3, <1>4 DEF HeldAt, new

\* A block takes a frame twice at most, whoever hands it in.
LEMMA TwiceStep ==
  ASSUME TypeOK, BytesInv, TwiceInv, NEW bytes \in Seq(Byte), fed' \in Nat, fed <= fed',
         \A k \in 1 .. Len(bytes) \div 2 :
           bytes[2 * k] \in Nat => fed <= bytes[2 * k] /\ bytes[2 * k] < fed',
         NEW mag, mag = tail \o Pairs(bytes),
         NEW out, out \subseteq Found(mag),
         decoded' = [f \in Starts |-> IF f \in out THEN decoded[f] + 1 ELSE decoded[f]],
         tail' = NextTail(mag), frames' = frames,
         onlyLongBlocks' = (onlyLongBlocks /\ Len(bytes) \div 2 > TailMax - FrameSamples)
  PROVE  /\ TwiceInv'
         /\ \A i \in 1 .. Len(tail') : tail'[i][2] \in Nat => tail'[i][2] < fed'
<1> DEFINE last(f, j) == j + FrameSamples - 1
           p == Len(bytes) \div 2
<1>1. /\ tail \in Seq(Samples) /\ Len(tail) \in Nat /\ frames \subseteq Starts
      /\ Starts \subseteq Nat /\ decoded \in [Starts -> Nat] /\ fed \in Nat
      /\ FrameSamples \in Nat \ {0} /\ TailMax \in Nat
  BY SizesAssumption DEF TypeOK, Samples, Streams, Starts
<1>2. /\ mag \in Seq(Samples) /\ p \in Nat /\ Len(mag) = Len(tail) + p
      /\ \A i \in 1 .. Len(tail) : mag[i] = tail[i]
      /\ \A k \in 1 .. p : mag[Len(tail) + k] = <<bytes[2 * k - 1], bytes[2 * k]>>
  <2>1. Len(bytes) \in Nat
    OBVIOUS
  <2> QED
    BY <1>1, <2>1, MagIs, Halves
<1>3. /\ \A i \in 1 .. Len(tail) : mag[i][2] \in Nat => mag[i][2] < fed
      /\ \A i \in Len(tail) + 1 .. Len(mag) :
           mag[i][2] \in Nat => fed <= mag[i][2] /\ mag[i][2] < fed'
  <2>1. \A i \in 1 .. Len(tail) : mag[i][2] \in Nat => mag[i][2] < fed
    BY <1>2 DEF BytesInv
  <2>2. ASSUME NEW i \in Len(tail) + 1 .. Len(mag)
        PROVE  mag[i][2] \in Nat => fed <= mag[i][2] /\ mag[i][2] < fed'
    <3> DEFINE k == i - Len(tail)
    <3>1. k \in 1 .. p /\ Len(tail) + k = i
      BY <1>1, <1>2
    <3> HIDE DEF k
    <3>2. mag[Len(tail) + k] = <<bytes[2 * k - 1], bytes[2 * k]>>
      BY <1>2, <3>1
    <3>3. mag[i][2] = bytes[2 * k]
      BY <3>1, <3>2
    <3>4. bytes[2 * k] \in Nat => fed <= bytes[2 * k] /\ bytes[2 * k] < fed'
      BY <3>1
    <3> QED
      BY <3>3, <3>4
  <2> QED
    BY <2>1, <2>2
<1> HIDE DEF p
\* Where a frame is held decides when it was received.
<1>4. ASSUME NEW f \in frames, NEW j \in 1 .. Len(mag), HeldAt(mag, f, j)
      PROVE  /\ 2 * (f + FrameSamples) <= fed'
             /\ 2 * (f + FrameSamples) <= fed =>
                  last(f, j) <= Len(tail) /\ j \in 1 .. Len(tail) /\ HeldAt(tail, f, j)
  <2>1. /\ f \in Nat /\ last(f, j) \in 1 .. Len(mag) /\ last(f, j) >= j /\ j \in Nat
        /\ j + (FrameSamples - 1) = last(f, j) /\ FrameSamples - 1 \in 0 .. FrameSamples - 1
    BY <1>1, <1>2 , <1>4 DEF HeldAt
  <2>2. mag[last(f, j)] = Sample(f + (FrameSamples - 1))
    BY <1>4, <2>1 DEF HeldAt
  <2>3. mag[last(f, j)][2] = 2 * (f + (FrameSamples - 1)) + 1
    BY <2>2 DEF Sample
  <2>4. 2 * (f + (FrameSamples - 1)) + 1 \in Nat
    BY <1>1, <2>1
  <2>5. CASE last(f, j) <= Len(tail)
    <3>1. last(f, j) \in 1 .. Len(tail)
      BY <1>1, <2>1, <2>5
    <3>2. 2 * (f + (FrameSamples - 1)) + 1 < fed
      BY <1>3, <2>3, <2>4, <3>1
    <3>3. \A k \in 0 .. FrameSamples - 1 : tail[j + k] = Sample(f + k)
      <4> TAKE k \in 0 .. FrameSamples - 1
      <4>1. j + k \in 1 .. Len(tail)
        BY <1>1, <2>1, <2>5
      <4> QED
        BY <1>2, <1>4, <4>1 DEF HeldAt
    <3>4. j \in 1 .. Len(tail) /\ j + FrameSamples <= Len(tail) + 1
      BY <1>1, <2>1, <2>5
    <3> QED
      BY <1>1, <2>1, <2>5, <3>2, <3>3, <3>4 DEF HeldAt
  <2>6. CASE ~(last(f, j) <= Len(tail))
    <3>1. last(f, j) \in Len(tail) + 1 .. Len(mag)
      BY <1>1, <1>2, <2>1, <2>6
    <3>2. fed <= 2 * (f + (FrameSamples - 1)) + 1 /\ 2 * (f + (FrameSamples - 1)) + 1 < fed'
      BY <1>3, <2>3, <2>4, <3>1
    <3> QED
      BY <1>1, <2>1, <3>2
  <2> QED
    BY <2>5, <2>6
<1>5. ASSUME NEW f \in frames, decoded'[f] >= 1
      PROVE  2 * (f + FrameSamples) <= fed'
  <2>1. CASE f \in out
    <3>1. PICK j \in 1 .. Len(mag) : HeldAt(mag, f, j)
      BY <2>1 DEF Found
    <3> QED
      BY <1>4, <3>1
  <2>2. CASE f \notin out
    <3>1. decoded[f] >= 1
      BY <1>1, <1>5, <2>2
    <3>2. 2 * (f + FrameSamples) <= fed /\ f \in Nat
      BY <1>1, <3>1 DEF TwiceInv
    <3> QED
      BY <1>1, <3>2
  <2> QED
    BY <2>1, <2>2
<1>6. ASSUME NEW f \in frames, onlyLongBlocks'
      PROVE  decoded'[f] <= 2 /\ (decoded'[f] = 2 => ~Held(tail', f))
  <2>1. /\ onlyLongBlocks /\ p > TailMax - FrameSamples
        /\ decoded[f] \in Nat /\ decoded[f] <= 2
        /\ decoded[f] = 2 => ~Held(tail, f)
        /\ decoded[f] >= 1 => 2 * (f + FrameSamples) <= fed
        /\ decoded'[f] = IF f \in out THEN decoded[f] + 1 ELSE decoded[f]
    BY <1>1, <1>6 DEF TwiceInv, p
  <2>2. f \in out => \E j \in 1 .. Len(mag) : HeldAt(mag, f, j)
    BY DEF Found
  <2>3. ASSUME decoded[f] >= 1, NEW j \in 1 .. Len(mag), HeldAt(mag, f, j)
        PROVE  last(f, j) <= Len(tail) /\ Held(tail, f)
    BY <1>4, <2>1, <2>3 DEF Held
  <2>4. decoded[f] = 2 => f \notin out
    BY <2>1, <2>2, <2>3
  <2>5. decoded[f] >= 1 => ~Held(tail', f)
    <3> SUFFICES ASSUME decoded[f] >= 1, NEW j \in 1 .. Len(NextTail(mag)),
                        HeldAt(NextTail(mag), f, j)
                 PROVE  FALSE
      BY DEF Held
    <3> DEFINE i == Len(mag) - Len(NextTail(mag)) + j
    <3>1. i \in 1 .. Len(mag) /\ HeldAt(mag, f, i)
      BY <1>2, HeldInTail
    <3>2. last(f, i) <= Len(tail)
      BY <2>3, <3>1
    <3>3. Len(NextTail(mag)) \in Nat /\ Len(NextTail(mag)) <= TailMax
      BY <1>2, NextTailIs
    <3>4. j \in Nat /\ j >= 1
      BY <3>3
    <3> QED
      BY <1>1, <1>2, <2>1, <3>2, <3>3, <3>4
  <2> QED
    BY <2>1, <2>4, <2>5
<1>7. ASSUME NEW i \in 1 .. Len(NextTail(mag)), NextTail(mag)[i][2] \in Nat
      PROVE  NextTail(mag)[i][2] < fed'
  <2> DEFINE l == Len(mag) - Len(NextTail(mag)) + i
  <2>1. l \in 1 .. Len(mag) /\ NextTail(mag)[i] = mag[l]
    <3>1. /\ Len(mag) \in Nat /\ Len(NextTail(mag)) \in Nat
          /\ Len(NextTail(mag)) <= Len(mag) /\ NextTail(mag)[i] = mag[l]
      BY <1>2, NextTailIs
    <3> QED
      BY <3>1
  <2> HIDE DEF l
  <2>2. mag[l][2] \in Nat
    BY <1>7, <2>1
  <2>3. l \in 1 .. Len(tail) \/ l \in Len(tail) + 1 .. Len(mag)
    BY <1>1, <1>2, <2>1
  <2>4. mag[l][2] < fed \/ mag[l][2] < fed'
    BY <1>3, <2>2, <2>3
  <2> QED
    BY <1>1, <2>1, <2>2, <2>4
<1> QED
  BY <1>5, <1>6, <1>7 DEF TwiceInv

-----------------------------------------------------------------------------
(* Calls. *)

\* Counting a waiting byte with a block.
LEMMA Odd ==
  ASSUME NEW n \in Nat
  PROVE  (n + 1) % 2 = 1 <=> ~(n % 2 = 1)
<1>1. /\ n % 2 \in {0, 1} /\ n % 2 = n - 2 * (n \div 2) /\ n \div 2 \in Nat
      /\ (n + 1) % 2 \in {0, 1} /\ (n + 1) % 2 = n + 1 - 2 * ((n + 1) \div 2)
      /\ (n + 1) \div 2 \in Nat
  BY Halves
<1> QED
  BY <1>1

\* The bytes of a block: their number, and whether one is left over.
LEMMA CallBytes ==
  ASSUME TypeOK, NEW n \in BlockLengths, NEW block \in Seq(Byte), Len(block) = n
  PROVE  /\ Bytes(block) \in Seq(Byte) /\ Len(Bytes(block)) \in Nat \ {0}
         /\ Len(Bytes(block)) \div 2 \in Nat /\ Len(Bytes(block)) \div 2 <= MaxPairs
         /\ Len(Bytes(block)) % 2 = 1 <=> (pending # NoByte) # (n % 2 = 1)
         /\ LeftOver(Bytes(block)) \in Byte \cup {NoByte}
         /\ LeftOver(Bytes(block)) # NoByte <=> Len(Bytes(block)) % 2 = 1
         /\ Len(Bytes(block)) % 2 = 1 =>
              LeftOver(Bytes(block)) = Bytes(block)[Len(Bytes(block))]
<1>1. /\ n \in Nat \ {0} /\ n + 1 <= 2 * MaxPairs + 1 /\ MaxPairs \in Nat
      /\ pending \in Byte \cup {NoByte}
  BY BlocksAssumption DEF TypeOK
<1> DEFINE bytes == Bytes(block)
<1>2. /\ bytes \in Seq(Byte)
      /\ pending = NoByte => bytes = block
      /\ pending # NoByte => Len(bytes) = n + 1
  BY <1>1, BytesAre
<1> HIDE DEF bytes
<1>3. Len(bytes) = IF pending = NoByte THEN n ELSE n + 1
  BY <1>2
<1>4. Len(bytes) \in Nat \ {0} /\ Len(bytes) <= 2 * MaxPairs + 1
  BY <1>1, <1>3
<1>5. Len(bytes) \div 2 \in Nat /\ Len(bytes) \div 2 <= MaxPairs
  <2>1. /\ Len(bytes) \div 2 \in Nat /\ Len(bytes) % 2 \in {0, 1}
        /\ Len(bytes) % 2 = Len(bytes) - 2 * (Len(bytes) \div 2)
    BY <1>4, Halves
  <2> QED
    BY <1>1, <1>4, <2>1
<1>6. Len(bytes) % 2 = 1 <=> (pending # NoByte) # (n % 2 = 1)
  <2>1. CASE pending = NoByte
    BY <1>3, <2>1
  <2>2. CASE pending # NoByte
    <3>1. Len(bytes) % 2 = 1 <=> ~(n % 2 = 1)
      BY <1>1, <1>3, <2>2, Odd
    <3> QED
      BY <2>2, <3>1
  <2> QED
    BY <2>1, <2>2
<1>7. /\ LeftOver(bytes) \in Byte \cup {NoByte}
      /\ LeftOver(bytes) # NoByte <=> Len(bytes) % 2 = 1
      /\ Len(bytes) % 2 = 1 => LeftOver(bytes) = bytes[Len(bytes)]
  BY <1>2, LeftOverIs
<1> QED
  BY <1>2, <1>4, <1>5, <1>6, <1>7 DEF bytes

\* The buffer is a sequence of samples that has room for no more frames than
\* the output array.
LEMMA CallMag ==
  ASSUME TypeOK, Len(tail) <= TailMax,
         NEW n \in BlockLengths, NEW block \in Seq(Byte), Len(block) = n
  PROVE  LET mag == tail \o Pairs(Bytes(block))
         IN  /\ mag \in Seq(Samples)
             /\ Len(mag) = Len(tail) + Len(Bytes(block)) \div 2
             /\ WithinMax(Found(mag)) = Found(mag)
<1>1. /\ Bytes(block) \in Seq(Byte) /\ tail \in Seq(Samples) /\ Len(tail) \in Nat
      /\ Len(Bytes(block)) \div 2 \in Nat /\ Len(Bytes(block)) \div 2 <= MaxPairs
      /\ frames \in Streams /\ TailMax \in Nat /\ MaxPairs \in Nat
  BY CallBytes, SizesAssumption, BlocksAssumption DEF TypeOK, Samples
<1> DEFINE mag == tail \o Pairs(Bytes(block))
<1>2. mag \in Seq(Samples) /\ Len(mag) = Len(tail) + Len(Bytes(block)) \div 2
  BY <1>1, MagIs
<1> HIDE DEF mag
<1>3. Len(mag) <= TailMax + MaxPairs
  BY <1>1, <1>2
<1>4. WithinMax(Found(mag)) = Found(mag)
  BY <1>1, <1>2, <1>3, RoomForAll
<1> QED
  BY <1>2, <1>4 DEF mag

\* What every call does to the decoder.
LEMMA CallIs ==
  ASSUME TypeOK, Len(tail) <= TailMax,
         NEW n \in BlockLengths, NEW block \in Seq(Byte), Len(block) = n,
         ProcessIq(block)
  PROVE  /\ pending' = LeftOver(Bytes(block)) /\ pending' \in Byte \cup {NoByte}
         /\ tail' \in Seq(Byte \X Byte) /\ Len(tail') <= TailMax
         /\ frames' = frames /\ decoded' \in [Starts -> Nat] /\ onlyLongBlocks' \in BOOLEAN
         /\ \A f \in Starts : decoded'[f] >= decoded[f]
<1> DEFINE mag == tail \o Pairs(Bytes(block))
<1>1. pending' = LeftOver(Bytes(block)) /\ frames' = frames
  BY DEF ProcessIq, StoreByte, ProcessBlock
<1>2. pending' \in Byte \cup {NoByte}
  BY <1>1, CallBytes
<1>3. decoded \in [Starts -> Nat] /\ onlyLongBlocks \in BOOLEAN /\ tail \in Seq(Samples)
  BY DEF TypeOK, Samples
<1>4. CASE StoreByte(block)
  BY <1>1, <1>2, <1>3, <1>4 DEF StoreByte, Samples
<1>5. CASE ProcessBlock(block)
  <2>1. mag \in Seq(Samples)
    BY CallMag
  <2>2. NextTail(mag) \in Seq(Samples) /\ Len(NextTail(mag)) <= TailMax
    BY <2>1, NextTailIs
  <2>3. tail' = NextTail(mag)
    BY <1>5 DEF ProcessBlock
  <2>4. onlyLongBlocks' \in BOOLEAN
    BY <1>3, <1>5 DEF ProcessBlock
  <2>5. decoded' = [f \in Starts |-> IF f \in WithinMax(Found(mag)) THEN decoded[f] + 1 ELSE decoded[f]]
    BY <1>5 DEF ProcessBlock
  <2>6. decoded' \in [Starts -> Nat] /\ \A f \in Starts : decoded'[f] >= decoded[f]
    BY <1>3, <2>5
  <2> QED
    BY <1>1, <1>2, <2>2, <2>3, <2>4, <2>6 DEF Samples
<1> QED
  BY <1>4, <1>5 DEF ProcessIq

\* What a call counts, and that it keeps old bytes and young ones apart.
LEMMA CallCounts ==
  ASSUME IInv, NEW n \in BlockLengths, NEW block \in Seq(Byte), Len(block) = n,
         ProcessIq(block), fed' \in Nat, fed <= fed',
         \A i \in 1 .. n : block[i] \in Nat => fed <= block[i] /\ block[i] < fed'
  PROVE  TwiceInv' /\ BytesInv'
<1> DEFINE bytes == Bytes(block)
           mag == tail \o Pairs(bytes)
<1>1. /\ TypeOK /\ BytesInv /\ TwiceInv /\ Len(tail) <= TailMax /\ n \in Nat \ {0}
      /\ pending \in Byte \cup {NoByte} /\ fed \in Nat
  BY BlocksAssumption DEF IInv, TypeOK, StreamInStep
<1>2. /\ bytes \in Seq(Byte) /\ Len(bytes) \in Nat \ {0} /\ Len(bytes) \div 2 \in Nat
      /\ pending' = LeftOver(bytes) /\ frames' = frames
      /\ LeftOver(bytes) # NoByte <=> Len(bytes) % 2 = 1
      /\ Len(bytes) % 2 = 1 => LeftOver(bytes) = bytes[Len(bytes)]
  BY <1>1, CallBytes, CallIs
<1>3. /\ pending = NoByte => bytes = block
      /\ pending # NoByte =>
           /\ Len(bytes) = n + 1 /\ bytes[1] = pending
           /\ \A i \in 2 .. n + 1 : bytes[i] = block[i - 1]
  BY <1>1, BytesAre
<1> HIDE DEF bytes
<1>4. \A i \in 1 .. Len(bytes) :
        bytes[i] \in Nat => bytes[i] < fed' /\ (i >= 2 => fed <= bytes[i])
  <2> TAKE i \in 1 .. Len(bytes)
  <2>1. CASE pending = NoByte
    BY <1>3, <2>1
  <2>2. CASE pending # NoByte /\ i = 1
    BY <1>1, <1>3, <2>2 DEF BytesInv
  <2>3. CASE pending # NoByte /\ i # 1
    <3>1. i \in 2 .. n + 1 /\ i - 1 \in 1 .. n
      BY <1>1, <1>3, <2>3
    <3>2. bytes[i] = block[i - 1]
      BY <1>3, <2>3, <3>1
    <3>3. block[i - 1] \in Nat => fed <= block[i - 1] /\ block[i - 1] < fed'
      BY <3>1
    <3> QED
      BY <3>2, <3>3
  <2> QED
    BY <2>1, <2>2, <2>3
<1>5. pending' \in Nat => pending' < fed'
  <2> SUFFICES ASSUME pending' \in Nat PROVE pending' < fed'
    OBVIOUS
  <2>1. pending' = bytes[Len(bytes)] /\ Len(bytes) \in 1 .. Len(bytes)
    BY <1>2, SizesAssumption
  <2> QED
    BY <1>4, <2>1
<1>6. CASE StoreByte(block)
  <2>1. UNCHANGED <<tail, frames, decoded, onlyLongBlocks>>
    BY <1>2, <1>6 DEF StoreByte
  <2>2. BytesInv'
    <3>1. \A i \in 1 .. Len(tail') : tail'[i][2] \in Nat => tail'[i][2] < fed
      BY <1>1, <2>1 DEF BytesInv
    <3>2. \A i \in 1 .. Len(tail') : tail'[i][2] \in Nat => tail'[i][2] < fed'
      BY <1>1, <3>1
    <3> QED
      BY <1>5, <3>2 DEF BytesInv
  <2>3. \A f \in frames : f \in Nat
    BY <1>1, SizesAssumption DEF TypeOK, Streams, Starts
  <2>4. \A f \in frames : decoded[f] >= 1 => 2 * (f + FrameSamples) <= fed'
    BY <1>1, <2>3, SizesAssumption DEF TwiceInv
  <2>5. onlyLongBlocks' =>
          \A f \in frames' : decoded'[f] <= 2 /\ (decoded'[f] = 2 => ~Held(tail', f))
    BY <1>1, <2>1 DEF TwiceInv
  <2> QED
    BY <2>1, <2>2, <2>4, <2>5 DEF TwiceInv
<1>7. CASE ProcessBlock(block)
  <2>1. \A k \in 1 .. Len(bytes) \div 2 :
          bytes[2 * k] \in Nat => fed <= bytes[2 * k] /\ bytes[2 * k] < fed'
    <3> TAKE k \in 1 .. Len(bytes) \div 2
    <3>1. Len(bytes) % 2 \in {0, 1} /\ Len(bytes) % 2 = Len(bytes) - 2 * (Len(bytes) \div 2)
      BY <1>2, Halves
    <3>2. 2 * k \in 1 .. Len(bytes) /\ 2 * k >= 2
      BY <1>2, <3>1
    <3> QED
      BY <1>4, <3>2
  <2>2. WithinMax(Found(mag)) \subseteq Found(mag)
    BY DEF WithinMax
  <2>3. /\ decoded' = [f \in Starts |-> IF f \in WithinMax(Found(mag)) THEN decoded[f] + 1 ELSE decoded[f]]
        /\ tail' = NextTail(mag)
        /\ onlyLongBlocks' = (onlyLongBlocks /\ Len(bytes) \div 2 > TailMax - FrameSamples)
    BY <1>7 DEF ProcessBlock, bytes
  <2> HIDE DEF mag
  <2>4. mag = tail \o Pairs(bytes)
    BY DEF mag
  <2>5. /\ TwiceInv'
        /\ \A i \in 1 .. Len(tail') : tail'[i][2] \in Nat => tail'[i][2] < fed'
    BY <1>1, <1>2, <2>1, <2>2, <2>3, <2>4, TwiceStep
  <2> QED
    BY <1>5, <2>5 DEF BytesInv
<1> QED
  BY <1>6, <1>7 DEF ProcessIq

-----------------------------------------------------------------------------
(* Steps. *)

\* In step, the tail after a block of the reader ends with the stream.
LEMMA OwnTailKept ==
  ASSUME IInv, ~skewed, NEW n \in BlockLengths, OwnRead(n)
  PROVE  /\ OwnTail' <= Len(tail')
         /\ \A i \in 1 .. OwnTail' :
              tail'[Len(tail') - OwnTail' + i] = Sample(Received' - OwnTail' + i - 1)
<1> DEFINE block == OwnBlock(n)
           mag   == tail \o Pairs(Bytes(block))
           more  == (fed + n) \div 2
<1>1. /\ TypeOK /\ StreamInStep /\ PendingInv /\ fed \in Nat /\ clean \in Nat
      /\ Len(tail) \in Nat /\ TailMax \in Nat /\ Len(tail) <= TailMax /\ OwnTail <= Len(tail)
      /\ fed' = fed + n /\ clean' = clean
  BY SizesAssumption DEF IInv, TypeOK, StreamInStep, OwnRead
<1>2. /\ OwnTail \in Nat /\ Received \in Nat /\ OwnTail <= TailMax /\ OwnTail <= Received
      /\ clean < Received /\ OwnTail < TailMax => OwnTail = Received - clean
  BY <1>1, OwnTailIs
<1>3. /\ mag \in Seq(Samples) /\ more \in Nat /\ more >= Received
      /\ Len(mag) = Len(tail) + (more - Received)
      /\ \A s \in Nat : clean <= s /\ s < more /\ Received <= s + OwnTail =>
           /\ Len(tail) + s + 1 - Received \in 1 .. Len(mag)
           /\ mag[Len(tail) + s + 1 - Received] = Sample(s)
  BY <1>1, OwnMag
<1>8. /\ more \in Nat /\ more >= Received /\ Len(mag) \in Nat
      /\ Len(mag) = Len(tail) + (more - Received)
  BY <1>1, <1>2, <1>3
<1>4. Received' = more
  BY <1>1 DEF Received
<1>5. OwnTail' = LET since == IF clean < more THEN more - clean ELSE 0
                 IN  IF since < TailMax THEN since ELSE TailMax
  BY <1>1, <1>4 DEF OwnTail
<1>6. CASE StoreByte(block)
  <2>1. tail' = tail /\ Len(Bytes(block)) < 2
    BY <1>6 DEF StoreByte
  <2>2. Len(Bytes(block)) = 1 /\ Len(Bytes(block)) \div 2 = more - Received
    BY <1>1, <2>1, OwnBytes DEF StreamInStep, Parity
  <2>3. 1 \div 2 = 0
    OBVIOUS
  <2>4. more = Received
    BY <1>2, <1>3, <2>2, <2>3
  <2>5. OwnTail' = OwnTail
    BY <1>1, <1>2, <1>5, <2>4 DEF OwnTail
  <2>6. \A i \in 1 .. OwnTail :
            tail[Len(tail) - OwnTail + i] = Sample(Received - OwnTail + i - 1)
    BY <1>1 DEF StreamInStep
  <2> QED
    BY <1>1, <1>4, <2>1, <2>4, <2>5, <2>6 DEF Sample
<1>7. CASE ProcessBlock(block)
  <2> HIDE DEF mag, more
  <2>1. tail' = NextTail(mag)
    BY <1>7 DEF ProcessBlock, mag
  <2>2. /\ Len(tail') = (IF Len(mag) < TailMax THEN Len(mag) ELSE TailMax)
        /\ Len(mag) \in Nat /\ Len(tail') \in Nat /\ Len(tail') <= Len(mag)
        /\ \A i \in 1 .. Len(tail') : tail'[i] = mag[Len(mag) - Len(tail') + i]
    BY <1>3, <2>1, NextTailIs
  <2>3. /\ OwnTail' \in Nat /\ OwnTail' <= TailMax /\ OwnTail' <= more
        /\ OwnTail' > 0 => clean + OwnTail' <= more
    BY <1>1, <1>3, <1>5
  <2>4. OwnTail' <= Len(mag)
    BY <1>1, <1>2, <1>3, <1>5
  <2>5. OwnTail' <= Len(tail')
    BY <2>2, <2>3, <2>4
  <2>6. ASSUME NEW i \in 1 .. OwnTail'
        PROVE  tail'[Len(tail') - OwnTail' + i] = Sample(more - OwnTail' + i - 1)
    <3> DEFINE s == more - OwnTail' + i - 1
               l == Len(tail') - OwnTail' + i
    <3>0. i \in Nat /\ 1 <= i /\ i <= OwnTail'
      BY <2>3
    <3> DEFINE o == OwnTail'
    <3>4. o \in Nat /\ o <= more /\ o <= TailMax /\ clean + o <= more /\ i <= o
      BY <2>3, <3>0
    <3> HIDE DEF o
    <3>1. s \in Nat /\ clean <= s /\ s < more
      <4>1. s = more - o + i - 1
        BY DEF o
      <4> HIDE DEF s
      <4> QED
        BY <1>1, <1>8, <3>0, <3>4, <4>1
    <3>2. Received <= s + OwnTail
      <4>1. s = more - o + i - 1
        BY DEF o
      <4> HIDE DEF s
      <4> QED
        BY <1>1, <1>2, <1>8, <3>0, <3>1, <3>4, <4>1
    <3>3. l \in 1 .. Len(tail') /\ Len(mag) - Len(tail') + l = Len(tail) + s + 1 - Received
      <4>1. Len(tail') \in Nat /\ o <= Len(tail')
        BY <2>2, <2>5 DEF o
      <4>2. l = Len(tail') - o + i /\ s = more - o + i - 1
        BY DEF o
      <4> HIDE DEF s, l
      <4> QED
        BY <1>1, <1>2, <1>8, <3>0, <3>4, <4>1, <4>2
    <3> HIDE DEF s, l
    <3>5. tail'[l] = Sample(s)
      BY <1>3, <2>2, <3>1, <3>2, <3>3
    <3> QED
      BY <3>5 DEF s, l
  <2> QED
    BY <1>4, <2>5, <2>6
<1> QED
  BY <1>6, <1>7 DEF OwnRead, ProcessIq

\* In step, a block completes frames and the buffer holds them.
LEMMA OwnFramesKept ==
  ASSUME IInv, ~skewed, NEW n \in BlockLengths, OwnRead(n),
         NEW f \in frames, clean <= f, f + FrameSamples <= Received'
  PROVE  decoded'[f] >= 1
<1> DEFINE block == OwnBlock(n)
           mag   == tail \o Pairs(Bytes(block))
           more  == (fed + n) \div 2
<1>1. /\ TypeOK /\ StreamInStep /\ PendingInv /\ fed \in Nat /\ clean \in Nat /\ NoFrameLost
      /\ Len(tail) \in Nat /\ TailMax \in Nat /\ Len(tail) <= TailMax /\ OwnTail <= Len(tail)
      /\ fed' = fed + n /\ frames \in Streams /\ f \in Starts /\ f \in Nat
      /\ FrameSamples \in Nat \ {0} /\ FrameSamples <= TailMax
      /\ decoded \in [Starts -> Nat]
  BY SizesAssumption DEF IInv, TypeOK, StreamInStep, OwnRead, Streams, Starts
<1>2. /\ OwnTail \in Nat /\ Received \in Nat /\ OwnTail <= TailMax /\ OwnTail <= Received
      /\ clean < Received /\ OwnTail < TailMax => OwnTail = Received - clean
  BY <1>1, OwnTailIs
<1>3. /\ mag \in Seq(Samples) /\ more \in Nat /\ more >= Received
      /\ Len(mag) = Len(tail) + (more - Received)
      /\ \A s \in Nat : clean <= s /\ s < more /\ Received <= s + OwnTail =>
           /\ Len(tail) + s + 1 - Received \in 1 .. Len(mag)
           /\ mag[Len(tail) + s + 1 - Received] = Sample(s)
  BY <1>1, OwnMag
<1>8. /\ more \in Nat /\ more >= Received /\ Len(mag) \in Nat
      /\ Len(mag) = Len(tail) + (more - Received)
  BY <1>1, <1>2, <1>3
<1>4. Received' = more /\ f + FrameSamples <= more
  BY <1>1 DEF Received
<1>5. n \in BlockLengths /\ block \in Seq(Byte) /\ Len(block) = n /\ ProcessIq(block)
  BY <1>1, BlocksAre DEF OwnRead
<1>6. CASE f + FrameSamples <= Received
  <2>1. decoded[f] >= 1
    BY <1>1, <1>6 DEF NoFrameLost
  <2>2. decoded'[f] >= decoded[f] /\ decoded' \in [Starts -> Nat]
    BY <1>1, <1>5, CallIs
  <2> QED
    BY <1>1, <2>1, <2>2
<1>7. CASE ~(f + FrameSamples <= Received)
  <2>1. more > Received
    BY <1>1, <1>2, <1>3, <1>4, <1>7
  <2>2. ProcessBlock(block)
    <3>1. CASE StoreByte(block)
      <4>1. Len(Bytes(block)) < 2
        BY <3>1 DEF StoreByte
      <4>2. Len(Bytes(block)) = 1 /\ Len(Bytes(block)) \div 2 = more - Received
        BY <1>1, <4>1, OwnBytes DEF StreamInStep, Parity
      <4>3. 1 \div 2 = 0
        OBVIOUS
      <4> QED
        BY <1>2, <1>3, <2>1, <4>2, <4>3
    <3> QED
      BY <1>5, <3>1 DEF ProcessIq
  <2> HIDE DEF mag, more
  <2> DEFINE j == Len(tail) + f + 1 - Received
  <2>3. \A k \in 0 .. FrameSamples - 1 :
          /\ f + k \in Nat /\ clean <= f + k /\ f + k < more
          /\ Received <= f + k + OwnTail
          /\ j + k = Len(tail) + (f + k) + 1 - Received
    BY <1>1, <1>2, <1>4, <1>7, <1>8
  <2>4. \A k \in 0 .. FrameSamples - 1 : j + k \in 1 .. Len(mag) /\ mag[j + k] = Sample(f + k)
    <3> TAKE k \in 0 .. FrameSamples - 1
    <3> DEFINE s == f + k
    <3>1. /\ s \in Nat /\ clean <= s /\ s < more /\ Received <= s + OwnTail
          /\ j + k = Len(tail) + s + 1 - Received
      BY <2>3
    <3> HIDE DEF s, j
    <3>2. /\ Len(tail) + s + 1 - Received \in 1 .. Len(mag)
          /\ mag[Len(tail) + s + 1 - Received] = Sample(s)
      BY <1>3, <3>1
    <3> QED
      BY <3>1, <3>2 DEF s
  <2>5. j \in 1 .. Len(mag) /\ j + FrameSamples <= Len(mag) + 1
    <3>1. 0 \in 0 .. FrameSamples - 1 /\ j + 0 = j
      BY <1>1, <1>2
    <3>2. j \in 1 .. Len(mag)
      BY <2>4, <3>1
    <3> QED
      BY <1>1, <1>2, <1>4, <1>8, <3>2
  <2> HIDE DEF j
  <2>6. f \in Found(mag)
    BY <2>4, <2>5 DEF Found, HeldAt
  <2>7. WithinMax(Found(mag)) = Found(mag)
    BY <1>1, <1>5, CallMag DEF mag
  <2>8. decoded' = [g \in Starts |-> IF g \in WithinMax(Found(mag)) THEN decoded[g] + 1 ELSE decoded[g]]
    BY <2>2 DEF ProcessBlock, mag
  <2>9. decoded'[f] = decoded[f] + 1
    BY <1>1, <2>6, <2>7, <2>8
  <2> QED
    BY <1>1, <2>9
<1> QED
  BY <1>6, <1>7

\* Whether a sum is odd.
LEMMA OddSum ==
  ASSUME NEW a \in Nat, NEW b \in Nat
  PROVE  (a + b) % 2 = 1 <=> (a % 2 = 1) # (b % 2 = 1)
<1>1. /\ a % 2 \in {0, 1} /\ a % 2 = a - 2 * (a \div 2) /\ a \div 2 \in Nat
      /\ b % 2 \in {0, 1} /\ b % 2 = b - 2 * (b \div 2) /\ b \div 2 \in Nat
      /\ a + b \in Nat /\ (a + b) % 2 \in {0, 1} /\ (a + b) \div 2 \in Nat
      /\ (a + b) % 2 = a + b - 2 * ((a + b) \div 2)
  BY Halves
<1> QED
  BY <1>1

\* A block of the current reader keeps the invariant.
LEMMA OwnStep ==
  ASSUME IInv, NEW n \in BlockLengths, OwnRead(n)
  PROVE  IInv'
<1> DEFINE block == OwnBlock(n)
           bytes == Bytes(block)
<1>1. /\ TypeOK /\ StreamInStep /\ Parity /\ PendingInv /\ Len(tail) <= TailMax
      /\ fed \in Nat /\ clean \in Nat /\ skewed \in BOOLEAN /\ n \in Nat \ {0}
      /\ fed \in 0 .. MaxBytes /\ MaxBytes \in Nat
  BY SizesAssumption, BlocksAssumption DEF IInv, TypeOK, StreamInStep, Parity
<1>2. /\ fed' = fed + n /\ fed + n <= MaxBytes /\ ProcessIq(block)
      /\ late' = late /\ skewed' = skewed /\ clean' = clean
  BY DEF OwnRead
<1>3. /\ block \in Seq(Byte) /\ Len(block) = n
      /\ \A i \in 1 .. n : block[i] = fed + i - 1
  BY <1>1, BlocksAre
<1>4. /\ pending' = LeftOver(bytes) /\ pending' \in Byte \cup {NoByte}
      /\ tail' \in Seq(Byte \X Byte) /\ Len(tail') <= TailMax
      /\ frames' = frames /\ decoded' \in [Starts -> Nat] /\ onlyLongBlocks' \in BOOLEAN
  BY <1>1, <1>2, <1>3, CallIs
<1>5. /\ Len(bytes) % 2 = 1 <=> (pending # NoByte) # (n % 2 = 1)
      /\ pending' # NoByte <=> Len(bytes) % 2 = 1
      /\ Len(bytes) % 2 = 1 => pending' = bytes[Len(bytes)]
  BY <1>1, <1>3, <1>4, CallBytes
<1> HIDE DEF bytes, block
<1>6. TypeOK'
  <2>1. fed' \in 0 .. MaxBytes
    BY <1>1, <1>2
  <2> QED
    BY <1>1, <1>2, <1>4, <2>1 DEF TypeOK
<1>7. Parity'
  <2>1. fed' % 2 = 1 <=> (fed % 2 = 1) # (n % 2 = 1)
    BY <1>1, <1>2, OddSum
  <2>2. pending # NoByte <=> (fed % 2 = 1) # skewed
    BY <1>1 DEF Parity
  <2>3. pending' # NoByte <=> (fed' % 2 = 1) # skewed
    <3>1. CASE skewed = TRUE
      BY <1>5, <2>1, <2>2, <3>1
    <3>2. CASE skewed = FALSE
      BY <1>5, <2>1, <2>2, <3>2
    <3> QED
      BY <1>1, <3>1, <3>2
  <2> QED
    BY <1>2, <2>3 DEF Parity
<1>8. StreamInStep'
  <2>1. ~skewed =>
          /\ OwnTail' <= Len(tail')
          /\ \A i \in 1 .. OwnTail' :
               tail'[Len(tail') - OwnTail' + i] = Sample(Received' - OwnTail' + i - 1)
    BY OwnTailKept
  <2>2. pending' # NoByte <=> (fed' % 2 = 1) # skewed'
    BY <1>7 DEF Parity
  <2> QED
    BY <1>2, <1>4, <2>1, <2>2 DEF StreamInStep, Sample
<1>9. NoFrameLost'
  <2> SUFFICES ASSUME ~skewed, NEW f \in frames, clean <= f, f + FrameSamples <= Received'
               PROVE  decoded'[f] >= 1
    BY <1>2, <1>4 DEF NoFrameLost
  <2> QED
    BY OwnFramesKept
<1>10. PendingInv'
  <2> SUFFICES ASSUME ~skewed, fed' % 2 = 1 PROVE pending' = fed' - 1
    BY <1>2 DEF PendingInv
  <2>1. Len(bytes) % 2 = (fed + n) % 2 /\ bytes[Len(bytes)] = fed + n - 1
    BY <1>1, OwnBytes DEF bytes, block
  <2>2. Len(bytes) % 2 = 1
    BY <1>2, <2>1
  <2>3. pending' = bytes[Len(bytes)]
    BY <1>5, <2>2
  <2> QED
    BY <1>1, <1>2, <2>1, <2>3
<1>11. TwiceInv' /\ BytesInv'
  <2>1. fed' \in Nat /\ fed <= fed'
    BY <1>1, <1>2
  <2>2. \A i \in 1 .. n : block[i] \in Nat => fed <= block[i] /\ block[i] < fed'
    BY <1>1, <1>2, <1>3
  <2> QED
    BY <1>2, <1>3, <2>1, <2>2, CallCounts
<1> QED
  BY <1>6, <1>8, <1>9, <1>10, <1>11 DEF IInv

\* A late block keeps the invariant: nothing is claimed of samples before it.
LEMMA LateStep ==
  ASSUME IInv, NEW n \in BlockLengths, LateRead(n)
  PROVE  IInv'
<1> DEFINE block == ForeignBlock(n)
           bytes == Bytes(block)
<1>1. /\ TypeOK /\ StreamInStep /\ Parity /\ PendingInv /\ Len(tail) <= TailMax
      /\ fed \in Nat /\ skewed \in BOOLEAN /\ n \in Nat \ {0}
      /\ late \in Nat /\ MaxLate \in Nat /\ FrameSamples \in Nat \ {0}
  BY SizesAssumption, BlocksAssumption DEF IInv, TypeOK, StreamInStep, Parity
<1>2. /\ fed' = fed /\ late < MaxLate /\ late' = late + 1 /\ ProcessIq(block)
      /\ skewed' = (skewed # (n % 2 = 1)) /\ clean' = (fed + 1) \div 2
  BY DEF LateRead
<1>3. /\ block \in Seq(Byte) /\ Len(block) = n
      /\ \A i \in 1 .. n : block[i] = Foreign
  BY <1>1, BlocksAre
<1>4. /\ pending' = LeftOver(bytes) /\ pending' \in Byte \cup {NoByte}
      /\ tail' \in Seq(Byte \X Byte) /\ Len(tail') <= TailMax
      /\ frames' = frames /\ decoded' \in [Starts -> Nat] /\ onlyLongBlocks' \in BOOLEAN
  BY <1>1, <1>2, <1>3, CallIs
<1>5. /\ Len(bytes) % 2 = 1 <=> (pending # NoByte) # (n % 2 = 1)
      /\ pending' # NoByte <=> Len(bytes) % 2 = 1
  BY <1>1, <1>3, <1>4, CallBytes
<1> HIDE DEF bytes, block
<1>6. /\ Received' = Received /\ Received \in Nat /\ clean' \in Nat /\ Received <= clean'
      /\ fed % 2 = 1 => Received < clean'
  <2>1. /\ fed \div 2 \in Nat /\ fed % 2 \in {0, 1} /\ fed % 2 = fed - 2 * (fed \div 2)
        /\ (fed + 1) \div 2 \in Nat /\ (fed + 1) % 2 \in {0, 1}
        /\ (fed + 1) % 2 = fed + 1 - 2 * ((fed + 1) \div 2)
    BY <1>1, Halves
  <2> QED
    BY <1>1, <1>2, <2>1 DEF Received
<1>7. TypeOK'
  <2>1. late' \in 0 .. MaxLate
    BY <1>1, <1>2
  <2> QED
    BY <1>1, <1>2, <1>4, <1>6, <2>1 DEF TypeOK
<1>8. pending' # NoByte <=> (fed' % 2 = 1) # skewed'
  <2>1. pending # NoByte <=> (fed % 2 = 1) # skewed
    BY <1>1 DEF Parity
  <2>2. CASE skewed = TRUE
    BY <1>2, <1>5, <2>1, <2>2
  <2>3. CASE skewed = FALSE
    BY <1>2, <1>5, <2>1, <2>3
  <2> QED
    BY <1>1, <2>2, <2>3
<1>9. StreamInStep'
  <2>1. ~(clean' < Received') /\ TailMax \in Nat
    BY <1>6, SizesAssumption
  <2>3. OwnTail' = 0
    BY <2>1 DEF OwnTail
  <2>2. Len(tail') \in Nat
    BY <1>4
  <2> QED
    BY <1>4, <1>8, <2>2, <2>3 DEF StreamInStep
<1>10. NoFrameLost'
  <2>1. \A f \in frames : f \in Nat
    BY <1>1, SizesAssumption DEF TypeOK, Streams, Starts
  <2>2. \A f \in frames : ~(clean' <= f /\ f + FrameSamples <= Received')
    BY <1>1, <1>6, <2>1
  <2> QED
    BY <1>4, <2>2 DEF NoFrameLost
<1>11. PendingInv'
  BY <1>2, <1>6 DEF PendingInv
<1>12. TwiceInv' /\ BytesInv'
  <2>1. \A i \in 1 .. n : block[i] \notin Nat
    BY <1>3, SizesAssumption
  <2>2. fed' \in Nat /\ fed <= fed'
    BY <1>1, <1>2
  <2> QED
    BY <1>2, <1>3, <2>1, <2>2, CallCounts
<1> QED
  BY <1>7, <1>9, <1>10, <1>11, <1>12 DEF IInv

\* A decoder that has just been reset.
FreshDecoder ==
  /\ pending = NoByte /\ tail = <<>> /\ frames \in Streams /\ fed = 0 /\ late \in 0 .. MaxLate
  /\ skewed = FALSE /\ clean = 0 /\ decoded = [f \in Starts |-> 0] /\ onlyLongBlocks = TRUE

\* It satisfies the invariant.
LEMMA Fresh == FreshDecoder => IInv
<1> SUFFICES ASSUME FreshDecoder PROVE IInv
  OBVIOUS
<1>0. /\ pending = NoByte /\ tail = <<>> /\ frames \in Streams /\ fed = 0 /\ late \in 0 .. MaxLate
      /\ skewed = FALSE /\ clean = 0 /\ decoded = [f \in Starts |-> 0] /\ onlyLongBlocks = TRUE
  BY DEF FreshDecoder
<1>1. /\ 0 \in 0 .. MaxBytes /\ FrameSamples \in Nat \ {0} /\ TailMax \in Nat
      /\ NoByte \notin Nat
  BY SizesAssumption
<1>2. /\ tail \in Seq(Byte \X Byte) /\ Len(tail) = 0 /\ 0 \div 2 = 0 /\ 0 % 2 = 0
      /\ frames \subseteq Starts /\ \A f \in frames : f \in Nat /\ decoded[f] = 0
  BY <1>0, SizesAssumption DEF Streams, Starts
<1>3. TypeOK
  BY <1>0, <1>1, <1>2 DEF TypeOK
<1>4. Received = 0 /\ OwnTail = 0
  <2>1. Received = 0
    BY <1>0, <1>2 DEF Received
  <2> QED
    BY <1>0, <1>1, <2>1 DEF OwnTail
<1>5. StreamInStep
  <2>1. pending # NoByte <=> (fed % 2 = 1) # skewed
    <3>1. (fed % 2 = 1) = FALSE
      BY <1>0, <1>2
    <3>2. ~(pending # NoByte) /\ skewed = FALSE
      BY <1>0
    <3>3. ~((fed % 2 = 1) # skewed)
      BY <3>1, <3>2, Zenon
    <3> QED
      BY <3>2, <3>3, Zenon
  <2>2. Len(tail) <= TailMax /\ OwnTail <= Len(tail)
    BY <1>1, <1>2, <1>4
  <2>3. \A i \in 1 .. OwnTail :
          tail[Len(tail) - OwnTail + i] = Sample(Received - OwnTail + i - 1)
    BY <1>4
  <2> QED
    BY <2>1, <2>2, <2>3 DEF StreamInStep
<1>6. NoFrameLost
  BY <1>0, <1>1, <1>2, <1>4 DEF NoFrameLost
<1>7. PendingInv /\ BytesInv
  BY <1>0, <1>1, <1>2 DEF PendingInv, BytesInv
<1>8. TwiceInv
  BY <1>0, <1>2 DEF TwiceInv
<1> QED
  BY <1>3, <1>5, <1>6, <1>7, <1>8 DEF IInv

-----------------------------------------------------------------------------
(* Theorems. *)

\* The inductive invariant holds throughout.
THEOREM Invariance == Spec => []IInv
<1>1. Init => IInv
  <2> SUFFICES ASSUME Init PROVE IInv
    OBVIOUS
  <2>1. late \in 0 .. MaxLate
    BY SizesAssumption DEF Init
  <2> QED
    BY <2>1, Fresh DEF Init, FreshDecoder
<1>2. IInv /\ [Next]_vars => IInv'
  <2> SUFFICES ASSUME IInv, [Next]_vars PROVE IInv'
    OBVIOUS
  <2>1. CASE Reset
    <3>1. late' \in 0 .. MaxLate
      BY <2>1 DEF Reset, IInv, TypeOK
    <3>2. FreshDecoder'
      BY <2>1, <3>1 DEF Reset, FreshDecoder
    <3> QED
      BY <3>2, Fresh, PTL
  <2>2. ASSUME NEW n \in BlockLengths, OwnRead(n) PROVE IInv'
    BY <2>2, OwnStep
  <2>3. ASSUME NEW n \in BlockLengths, LateRead(n) PROVE IInv'
    BY <2>3, LateStep
  <2>4. CASE UNCHANGED vars
    BY <2>4 DEF vars, hist, IInv, TypeOK, StreamInStep, OwnTail, Received, NoFrameLost,
                PendingInv, BytesInv, TwiceInv, Held, HeldAt, Sample
  <2> QED
    BY <2>1, <2>2, <2>3, <2>4 DEF Next
<1> QED
  BY <1>1, <1>2, PTL DEF Spec

\* Every variable keeps its type.
THEOREM TypeCorrect == Spec => []TypeOK
<1>1. IInv => TypeOK
  BY DEF IInv
<1> QED
  BY <1>1, Invariance, PTL

\* No byte is lost, used twice or paired with the wrong neighbour, for blocks
\* of any length (process_readsb_demodulator).
THEOREM InStep == Spec => []StreamInStep
<1>1. IInv => StreamInStep
  BY DEF IInv
<1> QED
  BY <1>1, Invariance, PTL

\* Every frame received whole has been decoded, for tails that hold a frame
\* and an output array with room for the frames of a buffer.
THEOREM FramesKept == Spec => []NoFrameLost
<1>1. IInv => NoFrameLost
  BY DEF IInv
<1> QED
  BY <1>1, Invariance, PTL

\* No frame is decoded a third time while blocks are long enough.
THEOREM TwiceAtMost == Spec => []DecodedAtMostTwice
<1>1. IInv => DecodedAtMostTwice
  BY DEF IInv, TwiceInv, DecodedAtMostTwice
<1> QED
  BY <1>1, Invariance, PTL

=============================================================================
