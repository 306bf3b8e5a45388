----------------------------- MODULE AircraftStore -----------------------------
(***************************************************************************)
(* The picture the JSON feed serves: BridgeAircraftStore.  Lines are       *)
(* merged, positions that jump too far are refused, values that are too    *)
(* old are not shown, silent aircraft are removed.  Its methods are        *)
(* synchronized, so each is one step.                                      *)
(*                                                                         *)
(* An aircraft is flying along a line: a position is its distance flown,   *)
(* in units of the grace distance's order; a vertical rate is represented  *)
(* by the time it was measured at.  Flight, category, altitude and track   *)
(* follow the last line and the counters are only reported: they are left  *)
(* out, as are positions no aircraft can have.                             *)
(***************************************************************************)
EXTENDS Integers

CONSTANTS
  Addrs,         \* aircraft
  Ttl,           \* AIRCRAFT_TTL_MS
  RateHold,      \* VERTICAL_RATE_HOLD_MS of the store and of the decoder
  Grace,         \* JUMP_GRACE_KM
  JumpFactor,    \* JUMP_SPEED_FACTOR
  DefaultSpeed,  \* speed assumed of an aircraft that has reported none
  TrueSpeed,     \* the most an aircraft flies in a unit of time
  FarPlace,      \* a wrong position
  MaxTime,       \* bound: last value of the clock
  NoTime,        \* the value has never been received
  NoPlace        \* the line has no position, the aircraft has none

ASSUME TimesAssumption ==
  /\ Ttl \in Nat /\ RateHold \in Nat /\ MaxTime \in Nat
  /\ NoTime \notin Int
ASSUME PlacesAssumption ==
  /\ Grace \in Nat /\ JumpFactor \in Nat \ {0} /\ DefaultSpeed \in Nat
  /\ TrueSpeed \in Nat /\ FarPlace \in Nat /\ NoPlace \notin Int

VARIABLES
  store,    \* aircraftByHex
  now,      \* the wall clock, which is not set back here
  place     \* where each aircraft is

world      == <<now, place>>
storeVars  == <<store, world>>

Times    == 0 .. MaxTime
Aircraft ==
  [seen: Times,                     \* lastMessageTimeMs
   knowsSpeed: BOOLEAN,             \* groundSpeedKt # null
   rateAt: Times \cup {NoTime},     \* lastVerticalRateTimeMs
   measured: Times \cup {NoTime},   \* verticalRateFpm
   place: Nat \cup {NoPlace},       \* lat, lon
   placeAt: Times \cup {NoTime},    \* lastPositionTimeMs
   good: BOOLEAN]                   \* history: it was there then

StoreTypeOK ==
  /\ DOMAIN store \subseteq Addrs /\ store \in [DOMAIN store -> Aircraft]
  /\ now \in Times
  /\ place \in [Addrs -> Nat]

StoreInit ==
  /\ store = <<>>
  /\ now = 0
  /\ place = [a \in Addrs |-> 0]

NewAircraft ==
  [seen |-> 0, knowsSpeed |-> FALSE, rateAt |-> NoTime, measured |-> NoTime,
   place |-> NoPlace, placeAt |-> NoTime, good |-> FALSE]

-----------------------------------------------------------------------------
Distance(p, q) == IF p < q THEN q - p ELSE p - q

\* Fault: the reported ground speed is not used.
SpeedDefault(aircraft) == DefaultSpeed

\* An aircraft reports the greatest speed it flies.
Speed(aircraft) == IF aircraft.knowsSpeed THEN TrueSpeed ELSE DefaultSpeed

\* Fault: the time since the last message.
ElapsedSinceSeen(aircraft) == IF now - aircraft.seen < 1 THEN 1 ELSE now - aircraft.seen

Elapsed(aircraft) == IF now - aircraft.placeAt < 1 THEN 1 ELSE now - aircraft.placeAt

\* isReasonablePositionUpdate
Reasonable(aircraft, p) ==
  \/ aircraft.place = NoPlace
  \/ Distance(aircraft.place, p) <= Grace
  \/ Distance(aircraft.place, p) <= Grace + Speed(aircraft) * JumpFactor * Elapsed(aircraft)

\* prune
Pruned(aircraft) ==
  [a \in {b \in DOMAIN aircraft : now - aircraft[b].seen <= Ttl} |-> aircraft[a]]

\* mergeSbsLine: a line is an address and what of rate, speed and position it
\* carries.
Merge(line) ==
  LET a     == line.addr
      old   == IF a \in DOMAIN store THEN store[a] ELSE NewAircraft
      heard == [old EXCEPT
                 !.seen       = now,
                 !.knowsSpeed = old.knowsSpeed \/ line.speed,
                 !.rateAt     = IF line.rate = NoTime THEN old.rateAt ELSE now,
                 !.measured   = IF line.rate = NoTime THEN old.measured ELSE line.rate]
      moved == IF line.place # NoPlace /\ Reasonable(heard, line.place)
               THEN [heard EXCEPT !.place = line.place, !.placeAt = now,
                                  !.good = (line.place = place[a])]
               ELSE heard
  IN  store' = Pruned([b \in DOMAIN store \cup {a} |-> IF b = a THEN moved ELSE store[b]])

\* clear
Clear == store' = <<>>

\* toAircraftJson and recentAircraftCount prune and report.
Poll ==
  /\ store' = Pruned(store)
  /\ UNCHANGED world

\* What toAircraftJson tells of an aircraft besides its address.
Listed(a) == a \in DOMAIN store /\ now - store[a].seen <= Ttl

\* Fault: a rate is shown as long as its aircraft is.
ShowsRateWhileListed(a) == Listed(a) /\ store[a].rateAt # NoTime

ShowsRate(a) == Listed(a) /\ store[a].rateAt # NoTime /\ now - store[a].rateAt <= RateHold

=============================================================================
