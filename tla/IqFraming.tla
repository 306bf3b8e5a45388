------------------------------ MODULE IqFraming ------------------------------
(***************************************************************************)
(* How the native decoder cuts the byte stream of the dongle into Mode S   *)
(* frames: process_readsb_demodulator and the adapter around readsb's      *)
(* demodulator.  Blocks of any length arrive; an odd I/Q byte waits for    *)
(* its partner, and a tail of old samples is put in front of the next      *)
(* block so that a frame crossing the border is seen whole.  There is one  *)
(* decoder for the process: a reader that has been stopped while it was    *)
(* reading may still hand in its last block after its successor has reset  *)
(* the decoder.                                                            *)
(*                                                                         *)
(* A byte is represented by its position in the stream of the current      *)
(* reader (or by Foreign), a sample by its pair of bytes, a frame on the   *)
(* air by the sample it starts at.  A frame is demodulated when the buffer *)
(* holds all of its samples in order; what readsb makes of damaged or      *)
(* overlapping frames is left out.  Calls are serialised by decoder_mutex, *)
(* so a call is one step.                                                  *)
(***************************************************************************)
EXTENDS Naturals, Sequences, FiniteSets

CONSTANTS
  TailMax,       \* READSB_MAG_TAIL_SIZE
  FrameSamples,  \* samples a frame covers
  MaxMessages,   \* READSB_MAX_MESSAGES_PER_BLOCK
  BlockLengths,  \* byte lengths a read may return
  MaxPairs,      \* most samples a block adds
  MaxBytes,      \* bound: bytes of a stream
  MaxLate,       \* bound: late blocks of stopped readers
  NoByte,        \* has_pending_iq_byte is false
  Foreign        \* a byte of the stream of a stopped reader

ASSUME SizesAssumption ==
  /\ TailMax \in Nat /\ FrameSamples \in Nat \ {0} /\ FrameSamples <= TailMax
  /\ MaxBytes \in Nat /\ MaxLate \in Nat
  /\ NoByte \notin Nat /\ Foreign \notin Nat /\ NoByte # Foreign
ASSUME BlocksAssumption ==
  /\ MaxPairs \in Nat
  /\ \A n \in BlockLengths : n \in Nat \ {0} /\ n + 1 <= 2 * MaxPairs + 1
\* 256 messages are enough: even short frames take 154 samples, and a buffer
\* holds at most 512 + 32768.
ASSUME MessagesAssumption ==
  MaxMessages \in Nat /\ TailMax + MaxPairs <= MaxMessages * FrameSamples

VARIABLES
  pending,        \* pending_iq_byte, or NoByte
  tail,           \* readsb_tail up to readsb_tail_size
  frames,         \* the frames on the air, by their first sample
  fed,            \* history: bytes of the current stream given to the decoder
  late,           \* history: late blocks of stopped readers
  skewed,         \* history: an odd number of foreign bytes since nativeReset
  clean,          \* history: the first sample after the last late block
  decoded,        \* history: how often each frame was handed on
  onlyLongBlocks  \* history: every block added more than the tail has beyond a frame

hist == <<fed, late, skewed, clean, decoded, onlyLongBlocks>>
vars == <<pending, tail, frames, hist>>

Byte      == Nat \cup {Foreign}
Starts    == 0 .. MaxBytes \div 2
Sample(s) == <<2 * s, 2 * s + 1>>
Received  == fed \div 2  \* whole samples of the current stream

\* Frames that do not overlap on the air.
Streams ==
  {F \in SUBSET Starts :
     \A f, g \in F : f < g => f + FrameSamples <= g}

TypeOK ==
  /\ pending \in Byte \cup {NoByte}
  /\ tail \in Seq(Byte \X Byte)
  /\ frames \in Streams
  /\ fed \in 0 .. MaxBytes
  /\ late \in 0 .. MaxLate
  /\ skewed \in BOOLEAN
  /\ clean \in Nat
  /\ decoded \in [Starts -> Nat]
  /\ onlyLongBlocks \in BOOLEAN

Init ==
  /\ pending = NoByte
  /\ tail = <<>>
  /\ frames \in Streams
  /\ fed = 0
  /\ late = 0
  /\ skewed = FALSE
  /\ clean = 0
  /\ decoded = [f \in Starts |-> 0]
  /\ onlyLongBlocks = TRUE

\* nativeReset: a new reader starts on a fresh DecoderState.
Reset ==
  /\ pending' = NoByte
  /\ tail' = <<>>
  /\ frames' \in Streams
  /\ fed' = 0
  /\ skewed' = FALSE
  /\ clean' = 0
  /\ decoded' = [f \in Starts |-> 0]
  /\ onlyLongBlocks' = TRUE
  /\ UNCHANGED late

-----------------------------------------------------------------------------
(* One block. *)

\* Fault: a waiting byte is used without asking whether there is one.
BytesUnasked(block) == <<pending>> \o block

\* The bytes to be paired: the one left over, then the block.
Bytes(block) == IF pending = NoByte THEN block ELSE <<pending>> \o block

\* Their magnitudes; a last byte without a partner is left over.
Pairs(bytes) == [k \in 1 .. Len(bytes) \div 2 |-> <<bytes[2 * k - 1], bytes[2 * k]>>]

\* Fault: a byte that has found its partner is not forgotten.
LeftOverKept(bytes) ==
  IF Len(bytes) % 2 = 1 THEN bytes[Len(bytes)] ELSE pending

LeftOver(bytes) ==
  IF Len(bytes) % 2 = 1 THEN bytes[Len(bytes)] ELSE NoByte

\* demodulate2400 finds a frame whose samples are all there, wherever it
\* starts; behind the last sample it reads the zero padding.
HeldAt(mag, f, j) ==
  /\ j + FrameSamples <= Len(mag) + 1
  /\ \A k \in 0 .. FrameSamples - 1 : mag[j + k] = Sample(f + k)
Found(mag) == {f \in frames : \E j \in 1 .. Len(mag) : HeldAt(mag, f, j)}

\* Fault: one message less than the array has room for.
WithinOneLess(found) == {f \in found : Cardinality({g \in found : g < f}) < MaxMessages - 1}

\* netUseMessage drops what the output array has no room for.
WithinMax(found) == {f \in found : Cardinality({g \in found : g < f}) < MaxMessages}

\* Fault: the tail is too short for a frame that lacks one sample.
ShortTail(mag) ==
  LET size == IF Len(mag) < FrameSamples - 2 THEN Len(mag) ELSE FrameSamples - 2
  IN  SubSeq(mag, Len(mag) - size + 1, Len(mag))

\* Fault: nothing is ever dropped from the tail.
WholeTail(mag) == mag

\* The last samples of the buffer are kept for the next block.
NextTail(mag) ==
  LET size == IF Len(mag) < TailMax THEN Len(mag) ELSE TailMax
  IN  SubSeq(mag, Len(mag) - size + 1, Len(mag))

\* Too few bytes for a sample: a single byte waits.
StoreByte(block) ==
  /\ Len(Bytes(block)) < 2
  /\ pending' = LeftOver(Bytes(block))
  /\ UNCHANGED <<tail, decoded, onlyLongBlocks>>

ProcessBlock(block) ==
  LET bytes == Bytes(block)
      mag   == tail \o Pairs(bytes)
      out   == WithinMax(Found(mag))
  IN  /\ Len(bytes) >= 2
      /\ pending' = LeftOver(bytes)
      /\ decoded' = [f \in Starts |-> IF f \in out THEN decoded[f] + 1 ELSE decoded[f]]
      /\ tail' = NextTail(mag)
      /\ onlyLongBlocks' = (onlyLongBlocks /\ Len(bytes) \div 2 > TailMax - FrameSamples)

\* nativeProcessIq, from whichever reader.
ProcessIq(block) ==
  /\ StoreByte(block) \/ ProcessBlock(block)
  /\ UNCHANGED frames

OwnBlock(n)     == [i \in 1 .. n |-> fed + i - 1]
ForeignBlock(n) == [i \in 1 .. n |-> Foreign]

\* The current reader hands in n bytes.
OwnRead(n) ==
  /\ fed + n <= MaxBytes
  /\ ProcessIq(OwnBlock(n))
  /\ fed' = fed + n
  /\ UNCHANGED <<late, skewed, clean>>

\* A stopped reader, which tests `running` between blocks only, hands in its
\* last one.
LateRead(n) ==
  /\ late < MaxLate
  /\ ProcessIq(ForeignBlock(n))
  /\ late' = late + 1
  /\ skewed' = (skewed # (n % 2 = 1))
  /\ clean' = (fed + 1) \div 2
  /\ UNCHANGED fed

Next ==
  \/ Reset
  \/ \E n \in BlockLengths : OwnRead(n) \/ LateRead(n)

Spec == Init /\ [][Next]_vars

-----------------------------------------------------------------------------
(* Properties. *)

\* How many samples of the tail must be the reader's own and in order.
OwnTail ==
  LET since == IF clean < Received THEN Received - clean ELSE 0
  IN  IF since < TailMax THEN since ELSE TailMax

\* Whatever the lengths of the blocks, no byte is lost, used twice or paired
\* with the wrong neighbour: the tail ends with the end of the sample stream,
\* and a byte waits exactly when one is left over.  A late block with an odd
\* number of bytes is the exception: it pairs the rest of the stream wrongly.
StreamInStep ==
  /\ pending # NoByte <=> (fed % 2 = 1) # skewed
  /\ Len(tail) <= TailMax
  /\ ~skewed =>
       /\ OwnTail <= Len(tail)
       /\ \A i \in 1 .. OwnTail :
            tail[Len(tail) - OwnTail + i] = Sample(Received - OwnTail + i - 1)

\* A frame that has been received whole has been decoded, wherever the block
\* borders fell, and whatever whole samples a stopped reader has handed in
\* before it.
NoFrameLost ==
  ~skewed =>
    \A f \in frames : clean <= f /\ f + FrameSamples <= Received => decoded[f] >= 1

\* A frame lying in the tail is decoded again with the next block, but never a
\* third time, provided that blocks are longer than what the tail has beyond a
\* frame (224 samples; a USB packet is 256).
DecodedAtMostTwice ==
  onlyLongBlocks => \A f \in frames : decoded[f] <= 2

=============================================================================
