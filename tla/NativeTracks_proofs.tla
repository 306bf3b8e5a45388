--------------------------- MODULE NativeTracks_proofs ---------------------------
(***************************************************************************)
(* Proofs about NativeTracks, for any finite set of addresses and any      *)
(* sizes and times: every invariant of the run tracks_safety.              *)
(***************************************************************************)
EXTENDS NativeTracks, FiniteSetTheorems, TLAPS

\* Where the ring holds what was added before the last k additions.
SlotBefore(k) == IF k < next THEN next - 1 - k ELSE next - 1 - k + FilterSize

RingInv ==
  \A a \in Addrs : addsSince[a] < FilterSize => ring[SlotBefore(addsSince[a])] = a

\* While the clock has not been set back, no time lies ahead of it and no
\* aircraft was already too old at the last pruning.
TimesInv ==
  ~setBack =>
    /\ lastPrune <= now
    /\ \A a \in DOMAIN tracks :
         /\ tracks[a].seen <= now
         /\ lastPrune - tracks[a].seen <= StateTtl
         /\ tracks[a].even # NoTime => tracks[a].even <= now
         /\ tracks[a].odd # NoTime => tracks[a].odd <= now

IInv ==
  /\ TypeOK /\ TracksAnnounced /\ RingInv /\ TableBounded
  /\ TimesInv /\ SilentTracksGo /\ PositionFromFreshPair

-----------------------------------------------------------------------------
\* What Receive may be called with.
LEMMA FrameTypes ==
  ASSUME NEW f \in Frames
  PROVE  /\ f.kind \in {"Parity", "CallByOne", "Other", "AllCall", "Squitter"}
         /\ f.addr \in Addrs \cup {NoAddr}
         /\ f.errors \in {"unknown", "none", "elsewhere", "address"}
         /\ f.kind = "CallByOne" => f.errors = "none"
BY DEF Frames

\* An address that is believed has been announced.
LEMMA BelievedAnnounced ==
  ASSUME TracksAnnounced, NEW f \in Frames, Decoded(f), f.addr # NoAddr
  PROVE  f.addr \in announced \cup (IF Intact(f) THEN {f.addr} \ {NoAddr} ELSE {})
<1>1. CASE InFilter(f.addr)
  BY <1>1 DEF InFilter, TracksAnnounced
<1>2. CASE ~InFilter(f.addr)
  BY <1>2, FrameTypes DEF Decoded, Intact
<1> QED
  BY <1>1, <1>2

\* An addition to the ring keeps its type and what it holds.
LEMMA AddKeepsRing ==
  ASSUME TypeOK, RingInv, NEW a \in Addrs \cup {NoAddr}, FilterAdd(a)
  PROVE  /\ ring' \in [Slots -> Addrs \cup {NoAddr}] /\ next' \in Slots
         /\ addsSince' \in [Addrs -> 0 .. FilterSize]
         /\ RingInv'
         /\ \A i \in Slots : ring'[i] = ring[i] \/ ring'[i] = a
<1> USE SizesAssumption
<1>1. CASE a = NoAddr \/ InFilter(a)
  BY <1>1 DEF FilterAdd, TypeOK, RingInv, SlotBefore
<1>2. CASE ~(a = NoAddr \/ InFilter(a))
  <2>1. /\ ring' = [ring EXCEPT ![next] = a] /\ next' = NextSlot(next)
        /\ addsSince' = [b \in Addrs |->
             IF b = a THEN 0
             ELSE IF addsSince[b] < FilterSize THEN addsSince[b] + 1 ELSE FilterSize]
    BY <1>2 DEF FilterAdd
  <2>2. next \in Slots /\ ring \in [Slots -> Addrs \cup {NoAddr}]
        /\ addsSince \in [Addrs -> 0 .. FilterSize]
    BY DEF TypeOK
  <2>3. next' \in Slots
    BY <2>1, <2>2 DEF NextSlot, Slots
  <2>4. addsSince' \in [Addrs -> 0 .. FilterSize]
    BY <2>1, <2>2
  <2>5. ASSUME NEW b \in Addrs, addsSince'[b] < FilterSize
        PROVE  ring'[SlotBefore(addsSince[b])'] = b
    <3>1. CASE b = a
      <4>1. SlotBefore(addsSince[b])' = next
        BY <2>1, <2>2, <3>1 DEF SlotBefore, NextSlot, Slots
      <4> QED
        BY <2>1, <2>2, <3>1, <4>1
    <3>2. CASE b # a
      <4>1. addsSince[b] \in Nat /\ addsSince[b] + 1 < FilterSize
            /\ addsSince'[b] = addsSince[b] + 1
        BY <2>1, <2>2, <2>5, <3>2
      <4>2. /\ SlotBefore(addsSince[b])' = SlotBefore(addsSince[b])
            /\ SlotBefore(addsSince[b]) # next /\ SlotBefore(addsSince[b]) \in Slots
        BY <2>1, <2>2, <4>1 DEF SlotBefore, NextSlot, Slots
      <4>3. ring[SlotBefore(addsSince[b])] = b
        BY <4>1 DEF RingInv
      <4> QED
        BY <2>1, <2>2, <4>2, <4>3
    <3> QED
      BY <3>1, <3>2
  <2> QED
    BY <2>1, <2>2, <2>3, <2>4, <2>5 DEF RingInv
<1> QED
  BY <1>1, <1>2

-----------------------------------------------------------------------------
\* What pruning leaves.
LEMMA PruneKeeps ==
  ASSUME IInv, NEW kept \in SUBSET DOMAIN tracks, PruneTo(kept)
  PROVE  /\ lastPrune' \in Times
         /\ IsFiniteSet(kept) /\ Cardinality(kept) <= MaxAircraft
         /\ ~setBack =>
              /\ lastPrune' <= now
              /\ \A a \in kept :
                   /\ lastPrune' - tracks[a].seen <= StateTtl
                   /\ now - tracks[a].seen < StateTtl + PruneInterval
<1>1. TypeOK /\ TimesInv
  BY DEF IInv
<1>2. IsFiniteSet(DOMAIN tracks) /\ IsFiniteSet(kept) /\ Cardinality(DOMAIN tracks) \in Nat
  BY <1>1, AddrsAssumption, FS_Subset, FS_CardinalityType DEF TypeOK
<1>3. \A a \in DOMAIN tracks : tracks[a].seen \in Nat
  BY <1>1 DEF TypeOK, Track, Times
<1>4. now \in Nat /\ lastPrune \in Nat /\ now \in Times /\ lastPrune \in Times
  BY <1>1 DEF TypeOK, Times
<1>5. CASE PruneDue
  <2>1. lastPrune' = now /\ kept \subseteq Fresh
        /\ IF Cardinality(Fresh) > MaxAircraft THEN OldestGone(kept) ELSE kept = Fresh
    BY <1>5 DEF PruneTo
  <2>2. Cardinality(kept) <= MaxAircraft
    <3>1. Cardinality(Fresh) \in Nat
      BY <1>2, FS_Subset, FS_CardinalityType DEF Fresh
    <3> QED
      BY <2>1, <3>1, SizesAssumption DEF OldestGone
  <2>3. \A a \in kept : now - tracks[a].seen <= StateTtl
    BY <2>1 DEF Fresh
  <2> QED
    BY <1>2, <1>3, <1>4, <2>1, <2>2, <2>3, TimesAssumption
<1>6. CASE ~PruneDue
  <2>1. kept = DOMAIN tracks /\ lastPrune' = lastPrune
    BY <1>6 DEF PruneTo
  <2>2. Cardinality(kept) <= MaxAircraft /\ now - lastPrune < PruneInterval
    BY <1>2, <1>4, <1>6, <2>1, SizesAssumption, TimesAssumption DEF PruneDue
  <2>3. ~setBack => \A a \in kept : lastPrune - tracks[a].seen <= StateTtl
    BY <1>1, <2>1 DEF TimesInv
  <2> QED
    BY <1>1, <1>2, <1>3, <1>4, <2>1, <2>2, <2>3, TimesAssumption DEF TimesInv
<1> QED
  BY <1>5, <1>6

\* Handling a message of a known or new aircraft keeps the table in order.
LEMMA HandleInv ==
  ASSUME IInv, NEW a \in Addrs, NEW half \in {"even", "odd", "none"},
         NEW sameZone \in BOOLEAN, Handle(a, half, sameZone), UNCHANGED <<now, setBack>>
  PROVE  /\ DOMAIN tracks' \subseteq DOMAIN tracks \cup {a}
         /\ tracks' \in [DOMAIN tracks' -> Track]
         /\ lastPrune' \in Times /\ line' \in Line \cup {NoLine}
         /\ TableBounded' /\ TimesInv' /\ SilentTracksGo' /\ PositionFromFreshPair'
<1> DEFINE old(kept)   == IF a \in kept THEN tracks[a] ELSE NewTrack
           track(kept) == [seen |-> now,
                           even |-> IF half = "even" THEN now ELSE old(kept).even,
                           odd  |-> IF half = "odd" THEN now ELSE old(kept).odd]
<1>1. PICK kept \in SUBSET DOMAIN tracks :
        /\ PruneTo(kept)
        /\ tracks' = [b \in kept \cup {a} |-> IF b = a THEN track(kept) ELSE tracks[b]]
        /\ IF half # "none" /\ Paired(track(kept)) /\ sameZone
           THEN line' = [even |-> track(kept).even, odd |-> track(kept).odd,
                         used |-> Used(track(kept)), at |-> now]
           ELSE line' = NoLine
  BY DEF Handle
<1> DEFINE new == track(kept)
<1>2. TypeOK /\ TimesInv /\ SilentTracksGo
  BY DEF IInv
<1>3. now \in Times /\ now \in Nat
  BY <1>2 DEF TypeOK, Times
<1>4. \A b \in DOMAIN tracks : tracks[b] \in Track
  BY <1>2 DEF TypeOK
<1>5. old(kept) \in Track
  <2>1. NewTrack \in Track
    BY TimesAssumption DEF NewTrack, Track, Times
  <2> QED
    BY <1>4, <2>1
<1>6. new \in Track /\ new.seen = now
  BY <1>3, <1>5 DEF Track
<1>7. ~setBack => /\ new.even # NoTime => new.even <= now
                  /\ new.odd # NoTime => new.odd <= now
  <2>1. ~setBack => /\ old(kept).even # NoTime => old(kept).even <= now
                    /\ old(kept).odd # NoTime => old(kept).odd <= now
    BY <1>2 DEF TimesInv, NewTrack
  <2> QED
    BY <1>3, <2>1
<1> HIDE DEF new
<1>8. /\ PruneTo(kept)
      /\ DOMAIN tracks' = kept \cup {a} /\ tracks'[a] = new
      /\ \A b \in kept \ {a} : tracks'[b] = tracks[b]
      /\ tracks' \in [DOMAIN tracks' -> Track]
  BY <1>1, <1>4, <1>6 DEF new
<1>9. /\ lastPrune' \in Times
      /\ IsFiniteSet(kept) /\ Cardinality(kept) <= MaxAircraft
      /\ ~setBack =>
           /\ lastPrune' <= now
           /\ \A b \in kept :
                /\ lastPrune' - tracks[b].seen <= StateTtl
                /\ now - tracks[b].seen < StateTtl + PruneInterval
  BY <1>8, PruneKeeps
<1>10. TableBounded'
  <2>1. Cardinality(kept \cup {a}) \in {Cardinality(kept), Cardinality(kept) + 1}
    BY <1>9, FS_AddElement
  <2>2. Cardinality(kept) \in Nat
    BY <1>9, FS_CardinalityType
  <2> QED
    BY <1>8, <1>9, <2>1, <2>2, SizesAssumption DEF TableBounded
<1>11. \A b \in DOMAIN tracks : tracks[b].seen \in Nat
  BY <1>4 DEF Track, Times
<1>12. TimesInv'
  <2>1. lastPrune' \in Nat
    BY <1>9 DEF Times
  <2>2. ASSUME ~setBack
        PROVE  /\ lastPrune' <= now
               /\ new.seen <= now /\ lastPrune' - new.seen <= StateTtl
    <3>1. lastPrune' <= now /\ new.seen = now
      BY <1>6, <1>9, <2>2
    <3>2. lastPrune' - now <= StateTtl
      <4>1. StateTtl \in Nat
        BY TimesAssumption
      <4>2. \A p, n, t \in Nat : p <= n => p - n <= t
        OBVIOUS
      <4> QED
        BY <1>3, <2>1, <3>1, <4>1, <4>2
    <3>3. now <= now
      BY <1>3
    <3>4. new.seen <= now
      BY <3>1, <3>3, Zenon
    <3>5. lastPrune' - new.seen <= StateTtl
      BY <3>1, <3>2, Zenon
    <3> QED
      BY <3>1, <3>4, <3>5
  <2> QED
    BY <1>2, <1>7, <1>8, <1>9, <2>2 DEF TimesInv
<1>13. SilentTracksGo'
  <2>1. ASSUME ~setBack, NEW b \in kept
        PROVE  /\ now - tracks[b].seen < StateTtl + PruneInterval
               /\ tracks[b].seen - now < StateTtl + PruneInterval
               /\ now - now < StateTtl + PruneInterval
    BY <1>2, <1>3, <1>9, <1>11, <2>1, TimesAssumption DEF TimesInv
  <2>2. now - now < StateTtl + PruneInterval
    BY <1>3, TimesAssumption
  <2>3. ASSUME ~setBack, NEW b \in kept \cup {a}, NEW c \in kept \cup {a}
        PROVE  tracks'[c].seen - tracks'[b].seen < StateTtl + PruneInterval
    <3>1. CASE b # a /\ c # a
      BY <1>2, <1>8, <2>3, <3>1 DEF SilentTracksGo
    <3>2. CASE b = a \/ c = a
      BY <1>6, <1>8, <2>1, <2>2, <2>3, <3>2
    <3> QED
      BY <3>1, <3>2
  <2> QED
    BY <1>8, <2>3 DEF SilentTracksGo
<1>14. line' \in Line \cup {NoLine} /\ PositionFromFreshPair'
  <2>1. CASE line' = NoLine
    BY <2>1 DEF PositionFromFreshPair
  <2>2. CASE line' # NoLine
    <3>1. /\ half # "none" /\ Paired(new)
          /\ line' = [even |-> new.even, odd |-> new.odd, used |-> Used(new), at |-> now]
      BY <1>1, <2>2 DEF new
    <3>2. new.even \in Times /\ new.odd \in Times /\ new.even \in Nat /\ new.odd \in Nat
      BY <1>6, <3>1 DEF Track, Paired, Times
    <3>3. new.even = now \/ new.odd = now
      BY <3>1 DEF new
    <3>4. line' \in Line
      BY <1>3, <3>1, <3>2 DEF Line, Used
    <3>5. ASSUME ~setBack
          PROVE  /\ now - new.even <= PairWindow /\ now - new.odd <= PairWindow
                 /\ Used(new) = "even" => new.even = now
                 /\ Used(new) = "odd" => new.odd = now
      <4>1. new.even <= now /\ new.odd <= now
        BY <1>7, <3>1, <3>5 DEF Paired
      <4>2. Gap(new.even, new.odd) <= PairWindow
        BY <3>1 DEF Paired
      <4> QED
        BY <1>3, <3>2, <3>3, <4>1, <4>2, TimesAssumption DEF Gap, Used
    <3> QED
      BY <3>1, <3>4, <3>5 DEF PositionFromFreshPair
  <2> QED
    BY <2>1, <2>2
<1> QED
  BY <1>8, <1>9, <1>10, <1>12, <1>13, <1>14

-----------------------------------------------------------------------------
\* The invariant holds at first.
LEMMA InitInv == Init => IInv
<1> SUFFICES ASSUME Init PROVE IInv
  OBVIOUS
<1> USE SizesAssumption, TimesAssumption
<1>1. DOMAIN tracks = {} /\ tracks \in [DOMAIN tracks -> Track]
  BY DEF Init
<1>2. TypeOK
  BY <1>1 DEF Init, TypeOK, Slots, Times
<1>3. TableBounded
  BY <1>1, FS_EmptySet DEF TableBounded
<1>4. RingInv
  BY DEF Init, RingInv
<1>5. TracksAnnounced /\ SilentTracksGo /\ PositionFromFreshPair
  BY <1>1 DEF Init, TracksAnnounced, SilentTracksGo, PositionFromFreshPair
<1>6. TimesInv
  BY <1>1, <1>2 DEF Init, TimesInv, Times
<1> QED
  BY <1>2, <1>3, <1>4, <1>5, <1>6 DEF IInv

\* A frame received keeps the invariant.
LEMMA ReceiveInv ==
  ASSUME IInv, NEW f \in Frames, NEW c \in Contents(f), Receive(f, c[1], c[2])
  PROVE  IInv'
<1>1. c[1] \in {"even", "odd", "none"} /\ c[2] \in BOOLEAN
  <2>1. CASE c = <<"none", FALSE>>
    BY <2>1
  <2>2. CASE c \in {"even", "odd"} \X BOOLEAN
    BY <2>2
  <2> QED
    BY <2>1, <2>2 DEF Contents
<1>2. TypeOK /\ TracksAnnounced /\ RingInv
  BY DEF IInv
<1>3. f.addr \in Addrs \cup {NoAddr}
  BY FrameTypes
<1> DEFINE heard == IF Intact(f) THEN {f.addr} \ {NoAddr} ELSE {}
<1>4. announced' = announced \cup heard /\ UNCHANGED <<now, setBack>>
  BY DEF Receive
<1>5. announced' \subseteq Addrs
  BY <1>2, <1>3, <1>4 DEF TypeOK
<1>6. /\ ring' \in [Slots -> Addrs \cup {NoAddr}] /\ next' \in Slots
      /\ addsSince' \in [Addrs -> 0 .. FilterSize] /\ RingInv'
      /\ \A i \in Slots : ring'[i] = ring[i] \/ (Teaches(f) /\ ring'[i] = f.addr)
  <2>1. CASE UNCHANGED <<ring, next, addsSince>>
    BY <1>2, <2>1 DEF TypeOK, RingInv, SlotBefore
  <2>2. CASE Teaches(f) /\ FilterAdd(f.addr)
    BY <1>2, <1>3, <2>2, AddKeepsRing
  <2> QED
    BY <2>1, <2>2 DEF Receive
<1>7. \A i \in Slots : ring'[i] # NoAddr => ring'[i] \in announced'
  <2>1. Teaches(f) => Intact(f)
    BY DEF Teaches, Intact
  <2> QED
    BY <1>2, <1>4, <1>6, <2>1 DEF TracksAnnounced
<1>8. CASE UNCHANGED table
  <2>1. TypeOK' /\ TracksAnnounced'
    BY <1>2, <1>4, <1>5, <1>6, <1>7, <1>8 DEF TypeOK, TracksAnnounced, table
  <2>2. TableBounded' /\ TimesInv' /\ SilentTracksGo' /\ PositionFromFreshPair'
    BY <1>4, <1>8 DEF IInv, table, TableBounded, TimesInv, SilentTracksGo, PositionFromFreshPair
  <2> QED
    BY <1>6, <2>1, <2>2 DEF IInv
<1>9. CASE ~UNCHANGED table
  <2>1. Decoded(f) /\ f.addr # NoAddr /\ Handle(f.addr, c[1], c[2])
    BY <1>9 DEF Receive
  <2>2. /\ DOMAIN tracks' \subseteq DOMAIN tracks \cup {f.addr}
        /\ tracks' \in [DOMAIN tracks' -> Track]
        /\ lastPrune' \in Times /\ line' \in Line \cup {NoLine}
        /\ TableBounded' /\ TimesInv' /\ SilentTracksGo' /\ PositionFromFreshPair'
    BY <1>1, <1>3, <1>4, <2>1, HandleInv
  <2>3. f.addr \in announced'
    BY <1>2, <1>4, <2>1, BelievedAnnounced
  <2>4. TypeOK' /\ TracksAnnounced'
    BY <1>2, <1>3, <1>4, <1>5, <1>6, <1>7, <2>2, <2>3 DEF TypeOK, TracksAnnounced
  <2> QED
    BY <1>6, <2>2, <2>4 DEF IInv
<1> QED
  BY <1>8, <1>9

\* Every step keeps the invariant.
LEMMA StepInv == IInv /\ [Next]_vars => IInv'
<1> SUFFICES ASSUME IInv, [Next]_vars PROVE IInv'
  OBVIOUS
<1>1. ASSUME NEW f \in Frames, NEW c \in Contents(f), Receive(f, c[1], c[2])
      PROVE  IInv'
  BY <1>1, ReceiveInv
<1>2. CASE Reset
  <2>1. DOMAIN tracks' = {} /\ tracks' \in [DOMAIN tracks' -> Track] /\ lastPrune' = 0
        /\ line' = NoLine /\ UNCHANGED <<filter, now, setBack>>
    BY <1>2 DEF Reset
  <2>2. TypeOK' /\ TracksAnnounced' /\ RingInv'
    BY <2>1, TimesAssumption
       DEF IInv, TypeOK, TracksAnnounced, RingInv, SlotBefore, filter, Times
  <2>3. TableBounded'
    BY <2>1, FS_EmptySet, SizesAssumption DEF TableBounded
  <2>4. TimesInv' /\ SilentTracksGo' /\ PositionFromFreshPair'
    BY <2>1 DEF IInv, TypeOK, TimesInv, SilentTracksGo, PositionFromFreshPair, Times
  <2> QED
    BY <2>2, <2>3, <2>4 DEF IInv
<1>3. CASE Tick
  <2>1. now' \in Times /\ now \in Nat /\ now' = now + 1 /\ UNCHANGED <<filter, table, setBack>>
    BY <1>3, TimesAssumption DEF Tick, IInv, TypeOK, Times
  <2>2. TypeOK' /\ TracksAnnounced' /\ RingInv' /\ TableBounded' /\ SilentTracksGo'
        /\ PositionFromFreshPair'
    BY <2>1 DEF IInv, TypeOK, TracksAnnounced, RingInv, SlotBefore, TableBounded,
                SilentTracksGo, PositionFromFreshPair, filter, table
  <2>3. TimesInv'
    <3>1. \A a \in DOMAIN tracks : tracks[a].seen \in Nat
             /\ (tracks[a].even # NoTime => tracks[a].even \in Nat)
             /\ (tracks[a].odd # NoTime => tracks[a].odd \in Nat)
      BY DEF IInv, TypeOK, Track, Times
    <3>2. lastPrune \in Nat
      BY DEF IInv, TypeOK, Times
    <3> QED
      BY <2>1, <3>1, <3>2 DEF IInv, TimesInv, table
  <2> QED
    BY <2>2, <2>3 DEF IInv
<1>4. CASE SetClockBack
  <2>1. now' \in Times /\ setBack' = TRUE /\ UNCHANGED <<filter, table>>
    BY <1>4, TimesAssumption DEF SetClockBack, IInv, TypeOK, Times
  <2>2. TypeOK' /\ TracksAnnounced' /\ RingInv' /\ TableBounded'
    BY <2>1 DEF IInv, TypeOK, TracksAnnounced, RingInv, SlotBefore, TableBounded, filter, table
  <2>3. TimesInv' /\ SilentTracksGo' /\ PositionFromFreshPair'
    BY <2>1 DEF TimesInv, SilentTracksGo, PositionFromFreshPair
  <2> QED
    BY <2>2, <2>3 DEF IInv
<1>5. CASE UNCHANGED vars
  BY <1>5 DEF vars, filter, table, IInv, TypeOK, TracksAnnounced, RingInv, SlotBefore,
              TableBounded, TimesInv, SilentTracksGo, PositionFromFreshPair
<1> QED
  BY <1>1, <1>2, <1>3, <1>4, <1>5 DEF Next

-----------------------------------------------------------------------------
\* The inductive invariant of the decoder's memory: which slot of the ring
\* holds which address, and times that never lie ahead of the clock.
THEOREM Invariance == Spec => []IInv
<1> QED
  BY InitInv, StepInv, PTL DEF Spec

\* Every variable of the filter and of the table of aircraft keeps its type.
THEOREM TypeCorrect == Spec => []TypeOK
<1>1. IInv => TypeOK
  BY DEF IInv
<1> QED
  BY <1>1, Invariance, PTL

\* No address is believed, by readsb's rules over the filter, that nobody has
\* announced undamaged.
THEOREM Announced == Spec => []TracksAnnounced
<1>1. IInv => TracksAnnounced
  BY DEF IInv
<1> QED
  BY <1>1, Invariance, PTL

\* icaoFilterAdd overwrites the oldest entry of its ring.
THEOREM NewestKept == Spec => []FilterKeepsNewest
<1>1. IInv => FilterKeepsNewest
  <2> SUFFICES ASSUME IInv, NEW a \in Addrs, addsSince[a] < FilterSize PROVE InFilter(a)
    BY DEF FilterKeepsNewest
  <2>1. SlotBefore(addsSince[a]) \in Slots
    BY SizesAssumption DEF IInv, TypeOK, SlotBefore, Slots
  <2> QED
    BY <2>1, AddrsAssumption DEF IInv, RingInv, InFilter
<1> QED
  BY <1>1, Invariance, PTL

\* prune_aircraft_states bounds the table, whatever the clock does.
THEOREM Bounded == Spec => []TableBounded
<1>1. IInv => TableBounded
  BY DEF IInv
<1> QED
  BY <1>1, Invariance, PTL

\* prune_aircraft_states removes silent aircraft in time.
THEOREM SilentGone == Spec => []SilentTracksGo
<1>1. IInv => SilentTracksGo
  BY DEF IInv
<1> QED
  BY <1>1, Invariance, PTL

\* decode_readsb_global_position pairs fresh halves and uses the newest.
THEOREM FreshPair == Spec => []PositionFromFreshPair
<1>1. IInv => PositionFromFreshPair
  BY DEF IInv
<1> QED
  BY <1>1, Invariance, PTL

=============================================================================
