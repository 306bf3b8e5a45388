----------------------------- MODULE NativeTracks -----------------------------
(***************************************************************************)
(* Which frames the native decoder believes, and what it remembers of the  *)
(* aircraft that sent them: readsb's acceptance rules over the adapter's   *)
(* ring of recently seen addresses, the table of aircraft with its pruning *)
(* and its limit, and the pairing of even and odd CPR position halves.     *)
(*                                                                         *)
(* A frame is represented by its kind, the address readsb reads from it    *)
(* (the CRC syndrome when the address is overlaid on the parity, otherwise *)
(* the address field after repair) and where its bit errors were.  The     *)
(* score of a frame counts by its sign alone.  The vertical rate of the    *)
(* same table is in AircraftFeed.  Times are wall clock times: the clock   *)
(* of a phone may be set back.                                             *)
(***************************************************************************)
EXTENDS Integers, FiniteSets

CONSTANTS
  Addrs,          \* ICAO addresses
  NoAddr,         \* address 0
  FilterSize,     \* entries of seen_icao
  MaxAircraft,    \* MAX_AIRCRAFT_STATES
  StateTtl,       \* AIRCRAFT_STATE_TTL_MS
  PruneInterval,  \* AIRCRAFT_PRUNE_INTERVAL_MS
  PairWindow,     \* longest time between the halves of a position
  MaxTime,        \* bound: last value of the clock
  NoTime,         \* has_even, has_odd is false
  NoLine          \* no position was printed

ASSUME AddrsAssumption == IsFiniteSet(Addrs) /\ NoAddr \notin Addrs
ASSUME SizesAssumption == FilterSize \in Nat \ {0} /\ MaxAircraft \in Nat
ASSUME TimesAssumption ==
  /\ StateTtl \in Nat /\ PruneInterval \in Nat \ {0} /\ PairWindow \in Nat
  /\ MaxTime \in Nat /\ NoTime \notin Int

Times == 0 .. MaxTime
Slots == 0 .. FilterSize - 1
Track == [seen: Times, even: Times \cup {NoTime}, odd: Times \cup {NoTime}]
Line  == [even: Times, odd: Times, used: {"even", "odd"}, at: Times]
ASSUME LineAssumption == NoLine \notin Line

VARIABLES
  ring,        \* seen_icao
  next,        \* seen_icao_next
  tracks,      \* decoder.aircraft
  lastPrune,   \* last_aircraft_prune_ms
  now,         \* the wall clock
  line,        \* the position printed for the last message, with the times of its halves
  announced,   \* history: addresses received undamaged in an address field
  addsSince,   \* history: additions to the ring since an address was added
  setBack      \* history: the clock has been set back

filter == <<ring, next, announced, addsSince>>
table  == <<tracks, lastPrune, line>>
vars   == <<filter, table, now, setBack>>

TypeOK ==
  /\ ring \in [Slots -> Addrs \cup {NoAddr}]
  /\ next \in Slots
  /\ DOMAIN tracks \subseteq Addrs /\ tracks \in [DOMAIN tracks -> Track]
  /\ lastPrune \in Times
  /\ now \in Times
  /\ line \in Line \cup {NoLine}
  /\ announced \subseteq Addrs
  /\ addsSince \in [Addrs -> 0 .. FilterSize]
  /\ setBack \in BOOLEAN

Init ==
  /\ ring = [i \in Slots |-> NoAddr]
  /\ next = 0
  /\ tracks = <<>>
  /\ lastPrune = 0
  /\ now \in Times
  /\ line = NoLine
  /\ announced = {}
  /\ addsSince = [a \in Addrs |-> FilterSize]
  /\ setBack = FALSE

-----------------------------------------------------------------------------
(* Frames and their acceptance. *)

\* Parity: surveillance and Comm-B replies, the address is overlaid on the
\* parity; damaged ones carry any address.  AllCall: DF11 with IID 0, which a
\* damaged one is taken for; CallByOne: DF11 with another IID.  Squitter: DF17.
\* Other: DF18, repaired like DF17.  Frames beyond repair are dropped and left
\* out.
Frames ==
  LET FrameSet(kinds, errors) == [kind: kinds, addr: Addrs \cup {NoAddr}, errors: errors]
  IN  FrameSet({"Parity"}, {"unknown"})
        \cup FrameSet({"CallByOne", "Other"}, {"none"})
        \cup FrameSet({"AllCall", "Squitter"}, {"none", "elsewhere", "address"})

InFilter(a) == a # NoAddr /\ \E i \in Slots : ring[i] = a

\* scoreModesMessage gives the frame a score that is not negative.
Scored(f) ==
  \/ f.kind \in {"Squitter", "Other"}
  \/ f.kind = "AllCall" /\ f.errors = "none"
  \/ InFilter(f.addr)

\* Fault: a repaired address is taken for a good one.
DecodedUnchecked(f) == f.kind # "Parity" \/ InFilter(f.addr)

\* decodeModesMessage returns 0.
Decoded(f) ==
  \/ f.kind \in {"AllCall", "CallByOne"} /\ f.errors = "none"
  \/ f.kind \in {"Squitter", "Other"} /\ f.errors # "address"
  \/ InFilter(f.addr)

\* The frame's address goes to the filter.
Teaches(f) == f.kind \in {"AllCall", "Squitter"} /\ f.errors = "none"

\* Fault: the last entry of the ring is never used.
NextSlotShort(i) == IF i + 2 >= FilterSize THEN 0 ELSE i + 1

\* Fault: the index does not wrap.
NextSlotUnbounded(i) == i + 1

NextSlot(i) == IF i + 1 = FilterSize THEN 0 ELSE i + 1

\* icaoFilterAdd
FilterAdd(a) ==
  IF a = NoAddr \/ InFilter(a)
  THEN UNCHANGED <<ring, next, addsSince>>
  ELSE /\ ring' = [ring EXCEPT ![next] = a]
       /\ next' = NextSlot(next)
       /\ addsSince' = [b \in Addrs |->
            IF b = a THEN 0
            ELSE IF addsSince[b] < FilterSize THEN addsSince[b] + 1 ELSE FilterSize]

-----------------------------------------------------------------------------
(* The table of aircraft. *)

Fresh == {a \in DOMAIN tracks : now - tracks[a].seen <= StateTtl}

\* Fault: time is no reason to prune.
PruneDueByLimit == Cardinality(DOMAIN tracks) > MaxAircraft

\* Fault: the limit is no reason to prune.
PruneDueByTime == now - lastPrune >= PruneInterval

PruneDue ==
  \/ Cardinality(DOMAIN tracks) > MaxAircraft
  \/ now - lastPrune >= PruneInterval

\* The oldest are gone; of equals any.
OldestGone(kept) ==
  /\ Cardinality(kept) = MaxAircraft
  /\ \A a \in kept, b \in Fresh \ kept : tracks[b].seen <= tracks[a].seen

\* prune_aircraft_states leaves these.
PruneTo(kept) ==
  IF PruneDue
  THEN /\ lastPrune' = now
       /\ kept \subseteq Fresh
       /\ IF Cardinality(Fresh) > MaxAircraft THEN OldestGone(kept) ELSE kept = Fresh
  ELSE kept = DOMAIN tracks /\ UNCHANGED lastPrune

NewTrack == [seen |-> 0, even |-> NoTime, odd |-> NoTime]

Gap(t, u) == IF t < u THEN u - t ELSE t - u

\* Fault: halves of any age are paired.
PairedAnyAge(track) == track.even # NoTime /\ track.odd # NoTime

\* decode_readsb_global_position has two halves to work on.
Paired(track) ==
  /\ track.even # NoTime /\ track.odd # NoTime
  /\ Gap(track.even, track.odd) <= PairWindow

\* The newer half gives the position.
Used(track) == IF track.odd > track.even THEN "odd" ELSE "even"

\* handle_readsb_decoded_message: half is "even", "odd" or "none", and
\* decodeCPRairborne refuses halves from different latitude zones.
Handle(a, half, sameZone) ==
  \E kept \in SUBSET DOMAIN tracks :
    LET old   == IF a \in kept THEN tracks[a] ELSE NewTrack
        track == [seen |-> now,
                  even |-> IF half = "even" THEN now ELSE old.even,
                  odd  |-> IF half = "odd" THEN now ELSE old.odd]
    IN  /\ PruneTo(kept)
        /\ tracks' = [b \in kept \cup {a} |-> IF b = a THEN track ELSE tracks[b]]
        /\ IF half # "none" /\ Paired(track) /\ sameZone
           THEN line' = [even |-> track.even, odd |-> track.odd,
                         used |-> Used(track), at |-> now]
           ELSE line' = NoLine

-----------------------------------------------------------------------------
(* Steps. *)

Intact(f) == f.kind # "Parity" /\ f.errors # "address"

\* A frame is received: demodulated, scored, decoded and handled.
Receive(f, half, sameZone) ==
  /\ announced' = announced \cup (IF Intact(f) THEN {f.addr} \ {NoAddr} ELSE {})
  /\ IF Scored(f) /\ Decoded(f)
     THEN /\ IF Teaches(f) THEN FilterAdd(f.addr) ELSE UNCHANGED <<ring, next, addsSince>>
          /\ IF f.addr = NoAddr THEN UNCHANGED table ELSE Handle(f.addr, half, sameZone)
     ELSE UNCHANGED <<ring, next, addsSince, table>>
  /\ UNCHANGED <<now, setBack>>

\* Extended squitters may carry a position half; sameZone matters then.
Contents(f) ==
  {<<"none", FALSE>>} \cup
    (IF f.kind \in {"Squitter", "Other"} THEN {"even", "odd"} \X BOOLEAN ELSE {})

\* nativeReset: a new reader; the filter is kept.
Reset ==
  /\ tracks' = <<>>
  /\ lastPrune' = 0
  /\ line' = NoLine
  /\ UNCHANGED <<filter, now, setBack>>

Tick ==
  /\ now < MaxTime
  /\ now' = now + 1
  /\ UNCHANGED <<filter, table, setBack>>

SetClockBack ==
  /\ now > 0
  /\ now' \in 0 .. now - 1
  /\ setBack' = TRUE
  /\ UNCHANGED <<filter, table>>

Next ==
  \/ \E f \in Frames : \E c \in Contents(f) : Receive(f, c[1], c[2])
  \/ Reset
  \/ Tick
  \/ SetClockBack

Spec == Init /\ [][Next]_vars

-----------------------------------------------------------------------------
(* Properties. *)

\* An aircraft is never made up from a CRC syndrome or from a repaired
\* address: someone has announced each address of the table and of the filter
\* in an address field that arrived undamaged.
TracksAnnounced ==
  /\ DOMAIN tracks \subseteq announced
  /\ \A i \in Slots : ring[i] # NoAddr => ring[i] \in announced

\* An address is forgotten only after FilterSize others have been added, so
\* replies of a known aircraft are not lost early when the ring wraps.
FilterKeepsNewest ==
  \A a \in Addrs : addsSince[a] < FilterSize => InFilter(a)

\* The table exceeds its limit by the aircraft being added, at most, also
\* after the clock has been set back.
TableBounded == Cardinality(DOMAIN tracks) <= MaxAircraft + 1

\* As long as messages arrive, an aircraft that is silent goes: none is older
\* than the newest by the TTL and a pruning interval.
SilentTracksGo ==
  ~setBack =>
    \A a, b \in DOMAIN tracks : tracks[b].seen - tracks[a].seen < StateTtl + PruneInterval

\* A position is made of two halves received within the window up to now, and
\* it is where the aircraft is according to the newest of them.
PositionFromFreshPair ==
  ~setBack /\ line # NoLine =>
    /\ line.at - line.even <= PairWindow
    /\ line.at - line.odd <= PairWindow
    /\ line.used = "even" => line.even = line.at
    /\ line.used = "odd" => line.odd = line.at

=============================================================================
