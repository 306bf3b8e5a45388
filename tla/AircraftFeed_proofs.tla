-------------------------- MODULE AircraftFeed_proofs --------------------------
(***************************************************************************)
(* The properties of AircraftFeed, for any number of aircraft and readers, *)
(* any length of a block and any values of the holds and limits, proved    *)
(* from one inductive invariant.                                           *)
(***************************************************************************)
EXTENDS AircraftFeed, TLAPS

-----------------------------------------------------------------------------
(* The retry delay.                                                        *)

\* Whatever the count, the delay is between a second and the limit.
LEMMA DelayInRange == \A n \in Nat : RetryDelay(n) \in 1 .. MaxDelay
<1> SUFFICES ASSUME NEW n \in Nat PROVE RetryDelay(n) \in 1 .. MaxDelay
  OBVIOUS
<1>1. Shift(n) \in 0 .. 5
  BY DEF Shift
<1>2. Shifted(Shift(n)) \in 1 .. 32
  BY <1>1 DEF Shifted
<1> QED
  BY <1>2 DEF RetryDelay, MaxDelay

\* The delay grows: 1, 2, 4, 8 and 16 seconds, then half a minute.
LEMMA DelayDoubles ==
  /\ RetryDelay(0) = 1 /\ RetryDelay(1) = 1 /\ RetryDelay(2) = 2 /\ RetryDelay(3) = 4
  /\ RetryDelay(4) = 8 /\ RetryDelay(5) = 16
  /\ \A n \in Nat : n >= 6 => RetryDelay(n) = MaxDelay
<1>1. \A n \in 0 .. 5 : Shift(n) = IF n = 0 THEN 0 ELSE n - 1
  BY DEF Shift
<1>2. \A n \in Nat : n >= 6 => Shift(n) = 5
  BY DEF Shift
<1> QED
  BY <1>1, <1>2 DEF RetryDelay, Shifted, MaxDelay

-----------------------------------------------------------------------------
(* The inductive invariant, in named parts.                                *)

\* The rate shown was measured at most one hold before it was last repeated.
RateInv ==
  \A a \in DOMAIN store : store[a].rateAt # NoTime =>
    store[a].measured # NoTime /\ store[a].rateAt - store[a].measured <= RateHold

\* A right position is where the aircraft was then; it has flown on since.
FlightInv ==
  \A a \in DOMAIN store : store[a].good =>
    /\ store[a].placeAt # NoTime /\ store[a].place # NoPlace
    /\ store[a].placeAt <= now
    /\ store[a].place <= place[a]
    /\ place[a] <= store[a].place + TrueSpeed * (now - store[a].placeAt)

\* Lines wait in a reader that is broadcasting, and their rates are fresh.
LinesInv ==
  \A r \in Readers :
    /\ lines[r] # <<>> => pc[r] = "lines"
    /\ \A i \in DOMAIN lines[r] :
         lines[r][i].rate # NoTime => now - lines[r][i].rate <= RateHold

\* A stopped reader is on its way through one block.
LateInv ==
  \A r \in Readers :
    /\ late[r] <= MaxLines
    /\ running[r] => late[r] = 0
    /\ pc[r] \notin {"lines", "test"} => late[r] = 0
    /\ pc[r] = "lines" => late[r] + Len(lines[r]) <= MaxLines

\* The bound on the counter leaves room for one more.
CountInv == \A r \in Readers : pc[r] = "store" => counted[r] < MaxFailures

IInv == TypeOK /\ RateInv /\ FlightInv /\ LinesInv /\ LateInv /\ CountInv

-----------------------------------------------------------------------------
(* Merging a line.                                                         *)

\* What has become of the aircraft a line is about.
Merged(line, moved) ==
  /\ moved \in Aircraft
  /\ DOMAIN store' \subseteq DOMAIN store \cup {line.addr}
  /\ \A b \in DOMAIN store' : store'[b] = IF b = line.addr THEN moved ELSE store[b]
  /\ \/ line.rate # NoTime /\ moved.rateAt = now /\ moved.measured = line.rate
     \/ moved.rateAt = NoTime
     \/ /\ line.addr \in DOMAIN store
        /\ moved.rateAt = store[line.addr].rateAt /\ moved.measured = store[line.addr].measured
  /\ \/ ~moved.good
     \/ moved.place # NoPlace /\ moved.placeAt = now /\ moved.place = place[line.addr]
     \/ /\ line.addr \in DOMAIN store /\ store[line.addr].good
        /\ moved.place = store[line.addr].place /\ moved.placeAt = store[line.addr].placeAt

\* Pruning only removes.
LEMMA PrunedIs ==
  ASSUME NEW f
  PROVE  /\ DOMAIN Pruned(f) \subseteq DOMAIN f
         /\ \A a \in DOMAIN Pruned(f) : Pruned(f)[a] = f[a]
         /\ Pruned(f) = [a \in DOMAIN Pruned(f) |-> f[a]]
BY DEF Pruned

\* A line changes one aircraft, and that as Merged says.
LEMMA MergeIs ==
  ASSUME StoreTypeOK, NEW line \in Line, Merge(line)
  PROVE  /\ \E moved : Merged(line, moved)
         /\ store' = [b \in DOMAIN store' |-> store'[b]]
<1> DEFINE a     == line.addr
           old   == IF a \in DOMAIN store THEN store[a] ELSE NewAircraft
           heard == [old EXCEPT
                      !.seen       = now,
                      !.knowsSpeed = old.knowsSpeed \/ line.speed,
                      !.rateAt     = IF line.rate = NoTime THEN old.rateAt ELSE now,
                      !.measured   = IF line.rate = NoTime THEN old.measured ELSE line.rate]
           moved == IF line.place # NoPlace /\ Reasonable(heard, line.place)
                    THEN [heard EXCEPT !.place = line.place, !.placeAt = now,
                                       !.good = (line.place = place[a])]
                    ELSE heard
           next  == [b \in DOMAIN store \cup {a} |-> IF b = a THEN moved ELSE store[b]]
<1>1. store' = Pruned(next)
  BY DEF Merge
<1>2. /\ line.addr \in Addrs /\ line.speed \in BOOLEAN /\ line.rate \in Times \cup {NoTime}
      /\ line.place \in Nat \cup {NoPlace} /\ now \in Times
  BY DEF Line, StoreTypeOK
<1>3. 0 \in Times /\ NewAircraft \in Aircraft
  BY TimesAssumption DEF Times, NewAircraft, Aircraft
<1>4. old \in Aircraft
  BY <1>3 DEF StoreTypeOK
<1> HIDE DEF old
<1>5. /\ heard \in Aircraft
      /\ heard.rateAt = (IF line.rate = NoTime THEN old.rateAt ELSE now)
      /\ heard.measured = (IF line.rate = NoTime THEN old.measured ELSE line.rate)
      /\ heard.place = old.place /\ heard.placeAt = old.placeAt /\ heard.good = old.good
  BY <1>2, <1>4 DEF Aircraft
<1> HIDE DEF heard
<1>6. \/ moved = heard
      \/ /\ line.place # NoPlace
         /\ moved = [heard EXCEPT !.place = line.place, !.placeAt = now,
                                  !.good = (line.place = place[a])]
  OBVIOUS
<1>7. /\ moved \in Aircraft
      /\ moved.rateAt = heard.rateAt /\ moved.measured = heard.measured
      /\ \/ moved.place = heard.place /\ moved.placeAt = heard.placeAt /\ moved.good = heard.good
         \/ /\ moved.place # NoPlace /\ moved.placeAt = now
            /\ moved.good => moved.place = place[a]
  BY <1>2, <1>5, <1>6 DEF Aircraft
<1> HIDE DEF moved
<1>8. /\ DOMAIN next = DOMAIN store \cup {a}
      /\ \A b \in DOMAIN next : next[b] = IF b = a THEN moved ELSE store[b]
  OBVIOUS
<1> HIDE DEF next
<1>9. /\ DOMAIN store' \subseteq DOMAIN store \cup {a}
      /\ \A b \in DOMAIN store' : store'[b] = IF b = a THEN moved ELSE store[b]
      /\ store' = [b \in DOMAIN store' |-> store'[b]]
  BY <1>1, <1>8, PrunedIs
<1>10. \/ line.rate # NoTime /\ moved.rateAt = now /\ moved.measured = line.rate
       \/ moved.rateAt = NoTime
       \/ a \in DOMAIN store /\ moved.rateAt = store[a].rateAt /\ moved.measured = store[a].measured
  BY <1>5, <1>7 DEF old, NewAircraft
<1>11. \/ ~moved.good
       \/ moved.place # NoPlace /\ moved.placeAt = now /\ moved.place = place[a]
       \/ /\ a \in DOMAIN store /\ store[a].good
          /\ moved.place = store[a].place /\ moved.placeAt = store[a].placeAt
  BY <1>5, <1>7 DEF old, NewAircraft
<1> QED
  BY <1>7, <1>9, <1>10, <1>11 DEF Merged

\* A line whose rate is fresh keeps the picture's invariant.
LEMMA MergeInv ==
  ASSUME StoreTypeOK, RateInv, FlightInv, NEW line \in Line, Merge(line), UNCHANGED world,
         line.rate # NoTime => now - line.rate <= RateHold
  PROVE  StoreTypeOK' /\ RateInv' /\ FlightInv'
<1>1. PICK moved : Merged(line, moved)
  BY MergeIs
<1>2. store' = [b \in DOMAIN store' |-> store'[b]]
  BY MergeIs
<1>3. /\ line.addr \in Addrs /\ line.rate \in Times \cup {NoTime}
      /\ now' = now /\ place' = place /\ now \in Times /\ place \in [Addrs -> Nat]
  BY DEF Line, StoreTypeOK, world
<1>4. StoreTypeOK'
  <2>1. \A b \in DOMAIN store' : b \in Addrs /\ store'[b] \in Aircraft
    BY <1>1, <1>3 DEF Merged, StoreTypeOK
  <2> QED
    BY <1>2, <1>3, <2>1 DEF StoreTypeOK
<1>5. RateInv'
  <2> SUFFICES ASSUME NEW b \in DOMAIN store', store'[b].rateAt # NoTime
               PROVE  /\ store'[b].measured # NoTime
                      /\ store'[b].rateAt - store'[b].measured <= RateHold
    BY DEF RateInv
  <2>1. CASE b # line.addr
    BY <1>1, <2>1 DEF Merged, RateInv
  <2>2. CASE b = line.addr
    BY <1>1, <2>2 DEF Merged, RateInv
  <2> QED
    BY <2>1, <2>2
<1>6. FlightInv'
  <2> SUFFICES ASSUME NEW b \in DOMAIN store', store'[b].good
               PROVE  /\ store'[b].placeAt # NoTime /\ store'[b].place # NoPlace
                      /\ store'[b].placeAt <= now
                      /\ store'[b].place <= place[b]
                      /\ place[b] <= store'[b].place + TrueSpeed * (now - store'[b].placeAt)
    BY <1>3 DEF FlightInv
  <2>1. CASE b # line.addr
    BY <1>1, <2>1 DEF Merged, FlightInv
  <2>2. CASE b = line.addr /\ store'[b].placeAt = now /\ store'[b].place = place[b]
                           /\ store'[b].place # NoPlace
    <3>1. now \in Nat /\ now # NoTime /\ place[b] \in Nat
      BY <1>3, <2>2, TimesAssumption DEF Times
    <3>2. TrueSpeed \in Nat /\ TrueSpeed * (now - now) = 0
      BY <3>1, PlacesAssumption
    <3> QED
      BY <2>2, <3>1, <3>2
  <2>3. CASE /\ b = line.addr /\ b \in DOMAIN store /\ store[b].good
             /\ store'[b].place = store[b].place /\ store'[b].placeAt = store[b].placeAt
    BY <2>3 DEF FlightInv
  <2> QED
    BY <1>1, <2>1, <2>2, <2>3 DEF Merged
<1> QED
  BY <1>4, <1>5, <1>6

\* Removing aircraft keeps the picture's invariant.
LEMMA PruneInv ==
  ASSUME StoreTypeOK, RateInv, FlightInv, UNCHANGED world,
         store' = <<>> \/ store' = Pruned(store)
  PROVE  StoreTypeOK' /\ RateInv' /\ FlightInv'
<1>1. /\ DOMAIN store' \subseteq DOMAIN store
      /\ \A a \in DOMAIN store' : store'[a] = store[a]
      /\ store' = [a \in DOMAIN store' |-> store[a]]
  <2>1. CASE store' = <<>>
    <3>1. DOMAIN store' = {}
      BY <2>1
    <3>2. store' = [a \in {} |-> store[a]]
      BY <2>1
    <3> QED
      BY <3>1, <3>2
  <2>2. CASE store' = Pruned(store)
    BY <2>2, PrunedIs
  <2> QED
    BY <2>1, <2>2
<1>2. now' = now /\ place' = place
  BY DEF world
<1>3. StoreTypeOK'
  BY <1>1, <1>2 DEF StoreTypeOK
<1>4. RateInv'
  BY <1>1 DEF RateInv
<1>5. FlightInv'
  BY <1>1, <1>2 DEF FlightInv
<1> QED
  BY <1>3, <1>4, <1>5

\* A picture nobody touches keeps its invariant.
LEMMA StoreSame ==
  ASSUME StoreTypeOK, RateInv, FlightInv, UNCHANGED storeVars
  PROVE  StoreTypeOK' /\ RateInv' /\ FlightInv'
BY DEF StoreTypeOK, RateInv, FlightInv, storeVars, world

\* The aircraft fly on as the clock goes on.
LEMMA TickInv ==
  ASSUME IInv, Tick
  PROVE  IInv'
<1>1. /\ now \in Times /\ now' = now + 1 /\ now' \in Times /\ now \in Nat
      /\ place \in [Addrs -> Nat] /\ store' = store
  BY TimesAssumption DEF Tick, IInv, TypeOK, StoreTypeOK, Times
<1>2. PICK flown \in [Addrs -> Flown] : place' = [a \in Addrs |-> place[a] + flown[a]]
  BY DEF Tick
<1>3. \A a \in Addrs : flown[a] \in 0 .. TrueSpeed
  BY <1>2, FlownAssumption
<1>4. place' \in [Addrs -> Nat]
  <2>1. \A a \in Addrs : place[a] + flown[a] \in Nat
    BY <1>1, <1>3, PlacesAssumption
  <2> QED
    BY <1>2, <2>1
<1>5. UNCHANGED <<decoder, retry, threads>>
  BY DEF Tick
<1>6. TypeOK'
  BY <1>1, <1>4, <1>5 DEF IInv, TypeOK, StoreTypeOK, decoder, retry, threads
<1>7. RateInv'
  BY <1>1 DEF IInv, RateInv
<1>8. FlightInv'
  <2> SUFFICES ASSUME NEW a \in DOMAIN store', store'[a].good
               PROVE  /\ store'[a].placeAt # NoTime /\ store'[a].place # NoPlace
                      /\ store'[a].placeAt <= now'
                      /\ store'[a].place <= place'[a]
                      /\ place'[a] <= store'[a].place + TrueSpeed * (now' - store'[a].placeAt)
    BY DEF FlightInv
  <2>0. a \in DOMAIN store /\ store'[a] = store[a]
    BY <1>1
  <2>1. /\ store[a].placeAt # NoTime /\ store[a].place # NoPlace /\ store[a].placeAt <= now
        /\ store[a].place <= place[a]
        /\ place[a] <= store[a].place + TrueSpeed * (now - store[a].placeAt)
    BY <2>0 DEF IInv, FlightInv
  <2>2. a \in Addrs /\ store[a] \in Aircraft
    BY <2>0 DEF IInv, TypeOK, StoreTypeOK
  <2>3. store[a].placeAt \in Nat /\ store[a].place \in Nat
    BY <2>1, <2>2 DEF Aircraft, Times
  <2>4. place[a] \in Nat /\ flown[a] \in 0 .. TrueSpeed /\ place'[a] = place[a] + flown[a]
    BY <1>1, <1>2, <1>3, <2>2
  <2>5. TrueSpeed \in Nat
    BY PlacesAssumption
  <2>6. TrueSpeed * (now + 1 - store[a].placeAt) = TrueSpeed * (now - store[a].placeAt) + TrueSpeed
    BY <1>1, <2>3, <2>5
  <2>7. TrueSpeed * (now - store[a].placeAt) \in Int
    BY <1>1, <2>3, <2>5
  <2> QED
    BY <1>1, <2>0, <2>1, <2>3, <2>4, <2>5, <2>6, <2>7
<1>9. LinesInv'
  <2>1. \A r \in Readers : pc[r] # "lines"
    BY DEF Tick
  <2>2. \A r \in Readers : lines[r] = <<>>
    BY <2>1 DEF IInv, LinesInv
  <2> QED
    BY <1>5, <2>2 DEF LinesInv, threads
<1>10. LateInv' /\ CountInv'
  BY <1>5 DEF IInv, LateInv, CountInv, threads, retry
<1> QED
  BY <1>6, <1>7, <1>8, <1>9, <1>10 DEF IInv

-----------------------------------------------------------------------------
(* The decoder's lines.                                                    *)

\* What a block yields is lines, and their rates are fresh.
LEMMA BlockLines ==
  ASSUME TypeOK, NEW block \in Blocks,
         NEW out, out = [i \in DOMAIN block |-> LineOf(block, i)]
  PROVE  /\ out \in Seq(Line) /\ Len(out) <= MaxLines
         /\ \A i \in DOMAIN out : out[i].rate # NoTime => now - out[i].rate <= RateHold
<1>1. PICK n \in 0 .. MaxLines : block \in [1 .. n -> Messages]
  BY DEF Blocks
<1>2. now \in Times /\ now \in Nat /\ now - now = 0 /\ RateHold \in Nat
  BY TimesAssumption DEF TypeOK, StoreTypeOK, Times
<1>3. ASSUME NEW i \in 1 .. n
      PROVE  /\ LineOf(block, i) \in Line
             /\ LineOf(block, i).rate # NoTime => now - LineOf(block, i).rate <= RateHold
  <2>1. block[i].addr \in Addrs
    BY <1>1 DEF Messages
  <2>2. /\ knowsSpeed[block[i].addr] \in BOOLEAN
        /\ rateMs[block[i].addr] \in Times \cup {NoTime}
        /\ place[block[i].addr] \in Nat
    BY <2>1 DEF TypeOK, StoreTypeOK
  <2>3. FarPlace \in Nat
    BY PlacesAssumption
  <2>4. LineOf(block, i).addr = block[i].addr /\ LineOf(block, i).speed \in BOOLEAN
    BY <2>2 DEF LineOf
  <2>5. LineOf(block, i).rate \in {now, NoTime}
        \/ (LineOf(block, i).rate = rateMs[block[i].addr] /\ RateFresh(block[i].addr))
    BY DEF LineOf
  <2>6. LineOf(block, i).place \in {place[block[i].addr], FarPlace, NoPlace}
    BY DEF LineOf
  <2>7. LineOf(block, i) = [addr  |-> LineOf(block, i).addr,  speed |-> LineOf(block, i).speed,
                            rate  |-> LineOf(block, i).rate,  place |-> LineOf(block, i).place]
    BY DEF LineOf
  <2>8. LineOf(block, i).rate \in Times \cup {NoTime} /\ LineOf(block, i).place \in Nat \cup {NoPlace}
    BY <1>2, <2>2, <2>3, <2>5, <2>6
  <2>9. LineOf(block, i) \in Line
    BY <2>1, <2>4, <2>7, <2>8 DEF Line
  <2>10. LineOf(block, i).rate # NoTime => now - LineOf(block, i).rate <= RateHold
    BY <1>2, <2>5 DEF RateFresh
  <2> QED
    BY <2>9, <2>10
<1>4. DOMAIN out = 1 .. n /\ \A i \in 1 .. n : out[i] = LineOf(block, i)
  BY <1>1
<1>5. out \in [1 .. n -> Line]
  BY <1>1, <1>3
<1>6. out \in Seq(Line) /\ Len(out) = n
  BY <1>5
<1>7. n <= MaxLines
  BY ReadersAssumption
<1> QED
  BY <1>3, <1>4, <1>6, <1>7

\* The rates and speeds the decoder keeps are of their types.
LEMMA DecoderType ==
  ASSUME TypeOK, NEW block \in Blocks, NEW r \in Readers, Reads(r, block)
  PROVE  /\ rateMs' \in [Addrs -> Times \cup {NoTime}]
         /\ knowsSpeed' \in [Addrs -> BOOLEAN]
<1>1. now \in Times /\ rateMs \in [Addrs -> Times \cup {NoTime}]
      /\ knowsSpeed \in [Addrs -> BOOLEAN]
  BY DEF TypeOK, StoreTypeOK
<1>2. rateMs' \in [Addrs -> Times \cup {NoTime}]
  BY <1>1 DEF Reads
<1>3. knowsSpeed' \in [Addrs -> BOOLEAN]
  <2>1. \A a \in Addrs :
          (knowsSpeed[a] \/ \E i \in DOMAIN block : block[i].addr = a /\ HasSpeed(block[i])) \in BOOLEAN
    BY ZenonT(20)
  <2> QED
    BY <2>1, Zenon DEF Reads
<1> QED
  BY <1>2, <1>3

-----------------------------------------------------------------------------
(* The steps.                                                              *)

\* What TypeOK says of the fields that are functions or bounded.
Typed ==
  /\ pc \in [Readers -> {"idle", "opening", "test", "read", "lines", "count", "store", "delay"}]
  /\ running \in [Readers -> BOOLEAN] /\ lines \in [Readers -> Seq(Line)]
  /\ late \in [Readers -> Nat] /\ counted \in [Readers -> 0 .. MaxFailures]
  /\ failures \in 0 .. MaxFailures /\ MaxFailures \in Nat /\ MaxLines \in Nat

\* They follow.
LEMMA TypedFields == TypeOK => Typed
BY ReadersAssumption DEF TypeOK, Typed

\* A step that leaves the picture alone keeps the invariant if it keeps the rest.
LEMMA WithStore ==
  ASSUME IInv, UNCHANGED storeVars, (StoreTypeOK => TypeOK)', LinesInv', LateInv', CountInv'
  PROVE  IInv'
BY StoreSame DEF IInv, TypeOK

\* The run of a reader between broadcasts.
LEMMA RunInv ==
  ASSUME IInv, NEW r \in Readers,
         \/ Opens(r) \/ Tests(r) \/ ReadFails(r) \/ BlockDone(r) \/ StartReader(r)
         \/ ReadsCount(r) \/ WritesCount(r) \/ Schedules(r)
  PROVE  IInv'
<1>1. Typed /\ TypeOK
  BY TypedFields DEF IInv
<1>2. UNCHANGED storeVars
  BY DEF Opens, Tests, ReadFails, BlockDone, StartReader, ReadsCount, WritesCount, Schedules
<1>3. now' = now
  BY <1>2 DEF storeVars, world
<1>4. (StoreTypeOK => TypeOK)'
  <2>1. CASE Opens(r)
    <3>1. /\ rateMs' \in [Addrs -> Times \cup {NoTime}]
          /\ knowsSpeed' \in [Addrs -> BOOLEAN]
      BY <2>1 DEF Opens, EmptyDecoder
    <3> QED
      BY <1>1, <2>1, <3>1 DEF Typed, TypeOK, Opens, retry
  <2>2. CASE Tests(r) \/ ReadFails(r)
    <3>1. /\ pc' \in [Readers -> {"idle", "opening", "test", "read", "lines", "count", "store", "delay"}]
          /\ running' \in [Readers -> BOOLEAN] /\ late' \in [Readers -> Nat]
      <4>1. \/ UNCHANGED <<running, late>> /\ pc' = [pc EXCEPT ![r] = "read"]
            \/ Ends(r)
        BY <2>2 DEF Tests, ReadFails
      <4>2. CASE UNCHANGED <<running, late>> /\ pc' = [pc EXCEPT ![r] = "read"]
        BY <1>1, <4>2 DEF Typed
      <4>3. CASE Ends(r)
        BY <1>1, <4>3 DEF Typed, Ends
      <4> QED
        BY <4>1, <4>2, <4>3
    <3>2. nativeReader' \in Readers \cup {NoReader}
      BY <1>1, <2>2 DEF TypeOK, Tests, ReadFails, Ends
    <3>3. UNCHANGED <<failures, counted, lines, main, toStop, rateMs, knowsSpeed>>
      BY <2>2 DEF Tests, ReadFails, decoder, retry
    <3> QED
      BY <1>1, <3>1, <3>2, <3>3 DEF TypeOK
  <2>3. CASE BlockDone(r) \/ StartReader(r) \/ Schedules(r)
    BY <1>1, <2>3 DEF Typed, TypeOK, BlockDone, StartReader, Schedules, decoder, retry
  <2>4. CASE ReadsCount(r)
    BY <1>1, <2>4 DEF Typed, TypeOK, ReadsCount, decoder
  <2>5. CASE WritesCount(r)
    <3>1. counted[r] + 1 \in 0 .. MaxFailures
      BY <1>1, <2>5 DEF Typed, WritesCount, IInv, CountInv
    <3> QED
      BY <1>1, <2>5, <3>1 DEF Typed, TypeOK, WritesCount, decoder
  <2> QED
    BY <2>1, <2>2, <2>3, <2>4, <2>5
<1>5. LinesInv'
  BY <1>1, <1>3 DEF Typed, IInv, LinesInv, Opens, Tests, ReadFails, Ends, BlockDone, StartReader,
     ReadsCount, WritesCount, Schedules
<1>6. LateInv'
  BY <1>1 DEF Typed, IInv, LateInv, LinesInv, Opens, Tests, Continues, ReadFails, Ends, BlockDone,
     StartReader, ReadsCount, WritesCount, Schedules
<1>7. CountInv'
  BY <1>1 DEF Typed, IInv, CountInv, Opens, Tests, ReadFails, Ends, BlockDone, StartReader,
     ReadsCount, WritesCount, Schedules, retry
<1> QED
  BY <1>2, <1>4, <1>5, <1>6, <1>7, WithStore

\* Decoding a block yields lines with fresh rates.
LEMMA ReadInv ==
  ASSUME IInv, NEW r \in Readers, NEW block \in Blocks, Reads(r, block)
  PROVE  IInv'
<1>1. Typed /\ TypeOK
  BY TypedFields DEF IInv
<1> DEFINE out == [i \in DOMAIN block |-> LineOf(block, i)]
<1>2. /\ out \in Seq(Line) /\ Len(out) <= MaxLines
      /\ \A i \in DOMAIN out : out[i].rate # NoTime => now - out[i].rate <= RateHold
  BY <1>1, BlockLines
<1>3. /\ pc[r] = "read" /\ pc' = [pc EXCEPT ![r] = "lines"]
      /\ lines' = [lines EXCEPT ![r] = out]
      /\ UNCHANGED <<storeVars, retry, nativeReader, running, late, main, toStop>>
  BY DEF Reads
<1> HIDE DEF out
<1>4. now' = now
  BY <1>3 DEF storeVars, world
<1>5. (StoreTypeOK => TypeOK)'
  BY <1>1, <1>2, <1>3, DecoderType DEF Typed, TypeOK, retry
<1>6. LinesInv'
  BY <1>1, <1>2, <1>3, <1>4 DEF Typed, IInv, LinesInv
<1>7. LateInv'
  BY <1>1, <1>2, <1>3 DEF Typed, IInv, LateInv
<1>8. CountInv'
  BY <1>1, <1>3 DEF Typed, IInv, CountInv, retry
<1> QED
  BY <1>3, <1>5, <1>6, <1>7, <1>8, WithStore

\* Broadcasting a line merges it and shortens what is left.
LEMMA BroadcastInv ==
  ASSUME IInv, NEW r \in Readers, Broadcasts(r)
  PROVE  IInv'
<1>1. Typed /\ TypeOK
  BY TypedFields DEF IInv
<1>2. /\ pc[r] = "lines" /\ lines[r] # <<>> /\ Merge(Head(lines[r])) /\ failures' = 0
      /\ lines' = [lines EXCEPT ![r] = Tail(lines[r])]
      /\ late' = IF running[r] THEN late ELSE [late EXCEPT ![r] = @ + 1]
      /\ UNCHANGED <<world, decoder, counted, nativeReader, pc, running, main, toStop>>
  BY DEF Broadcasts
<1>3. /\ lines[r] \in Seq(Line) /\ Head(lines[r]) \in Line /\ Tail(lines[r]) \in Seq(Line)
      /\ Len(Tail(lines[r])) = Len(lines[r]) - 1 /\ Len(lines[r]) \in Nat
      /\ 1 \in DOMAIN lines[r] /\ Head(lines[r]) = lines[r][1]
      /\ \A i \in DOMAIN Tail(lines[r]) : i + 1 \in DOMAIN lines[r] /\ Tail(lines[r])[i] = lines[r][i + 1]
  BY <1>1, <1>2 DEF Typed
<1>4. Head(lines[r]).rate # NoTime => now - Head(lines[r]).rate <= RateHold
  BY <1>3 DEF IInv, LinesInv
<1>5. StoreTypeOK' /\ RateInv' /\ FlightInv'
  BY <1>1, <1>2, <1>3, <1>4, MergeInv DEF IInv, TypeOK
<1>6. TypeOK'
  <2>1. lines' \in [Readers -> Seq(Line)] /\ \A q \in Readers : Len(lines'[q]) <= MaxLines
    BY <1>1, <1>2, <1>3 DEF Typed, TypeOK
  <2>2. late' \in [Readers -> Nat] /\ failures' \in 0 .. MaxFailures
    BY <1>1, <1>2 DEF Typed
  <2> QED
    BY <1>1, <1>2, <1>5, <2>1, <2>2 DEF TypeOK, decoder
<1>7. LinesInv'
  <2> SUFFICES ASSUME NEW q \in Readers
               PROVE  /\ lines'[q] # <<>> => pc'[q] = "lines"
                      /\ \A i \in DOMAIN lines'[q] :
                           lines'[q][i].rate # NoTime => now' - lines'[q][i].rate <= RateHold
    BY DEF LinesInv
  <2>1. now' = now
    BY <1>2 DEF world
  <2>2. CASE q # r
    BY <1>1, <1>2, <2>1, <2>2 DEF Typed, IInv, LinesInv
  <2>3. CASE q = r
    <3>1. lines'[q] = Tail(lines[r]) /\ pc'[q] = "lines"
      BY <1>1, <1>2, <2>3 DEF Typed
    <3> QED
      BY <1>3, <2>1, <3>1 DEF IInv, LinesInv
  <2> QED
    BY <2>2, <2>3
<1>8. LateInv'
  <2> SUFFICES ASSUME NEW q \in Readers
               PROVE  /\ late'[q] <= MaxLines
                      /\ running'[q] => late'[q] = 0
                      /\ pc'[q] \notin {"lines", "test"} => late'[q] = 0
                      /\ pc'[q] = "lines" => late'[q] + Len(lines'[q]) <= MaxLines
    BY DEF LateInv
  <2>1. CASE q # r
    BY <1>1, <1>2, <2>1 DEF Typed, IInv, LateInv
  <2>2. CASE q = r
    <3>1. lines'[q] = Tail(lines[r]) /\ late[r] \in Nat /\ pc'[q] = "lines" /\ running'[q] = running[r]
      BY <1>1, <1>2, <2>2 DEF Typed
    <3>2. late'[q] = IF running[r] THEN late[r] ELSE late[r] + 1
      BY <1>1, <1>2, <2>2 DEF Typed
    <3>3. late[r] + Len(lines[r]) <= MaxLines /\ (running[r] => late[r] = 0)
      BY <1>2 DEF IInv, LateInv
    <3> QED
      BY <1>1, <1>3, <3>1, <3>2, <3>3 DEF Typed
  <2> QED
    BY <2>1, <2>2
<1>9. CountInv'
  BY <1>1, <1>2 DEF Typed, IInv, CountInv
<1> QED
  BY <1>5, <1>6, <1>7, <1>8, <1>9 DEF IInv

\* The main thread clears the picture, resets the count and stops the reader.
LEMMA MainInv ==
  ASSUME IInv,
         (\E bridge \in BOOLEAN : StopClears(bridge)) \/ RequestsSdr \/ StopStops \/ ClearAgain
  PROVE  IInv'
<1>1. Typed /\ TypeOK
  BY TypedFields DEF IInv
<1>2. UNCHANGED world /\ (store' = store \/ store' = <<>>)
  BY DEF StopClears, RequestsSdr, StopStops, ClearAgain, Clear, storeVars
<1>3. StoreTypeOK' /\ RateInv' /\ FlightInv'
  BY <1>1, <1>2, PruneInv, StoreSame DEF IInv, TypeOK, storeVars
<1>4. UNCHANGED <<pc, lines, late, counted, rateMs, knowsSpeed>> /\ failures' \in {0, failures}
  BY DEF StopClears, RequestsSdr, StopStops, ClearAgain, threads, retry, decoder
<1>5. /\ running' \in [Readers -> BOOLEAN]
      /\ \A q \in Readers : running'[q] => running[q]
  <2>1. CASE StopStops
    <3>1. \A q \in Readers : (running[q] /\ q # toStop) \in BOOLEAN
      OBVIOUS
    <3> QED
      BY <2>1, <3>1 DEF StopStops
  <2>2. CASE ~StopStops
    <3>1. running' = running
      BY <2>2 DEF StopClears, RequestsSdr, ClearAgain, threads
    <3> QED
      BY <1>1, <3>1 DEF Typed
  <2> QED
    BY <2>1, <2>2
<1>6. /\ nativeReader' \in Readers \cup {NoReader} /\ toStop' \in Readers \cup {NoReader}
      /\ main' \in {"ready", "stopReader", "stopBridge", "clearAgain"}
  BY <1>1 DEF TypeOK, StopClears, RequestsSdr, StopStops, ClearAgain, threads
<1>7. TypeOK'
  <2>1. failures' \in 0 .. MaxFailures
    BY <1>1, <1>4, ReadersAssumption DEF TypeOK
  <2> QED
    BY <1>1, <1>3, <1>4, <1>5, <1>6, <2>1 DEF TypeOK
<1>8. LinesInv' /\ CountInv' /\ LateInv'
  BY <1>2, <1>4, <1>5 DEF IInv, LinesInv, CountInv, LateInv, world
<1> QED
  BY <1>3, <1>7, <1>8 DEF IInv

\* Asking for the picture prunes it.
LEMMA PollInv ==
  ASSUME IInv, Polls
  PROVE  IInv'
<1>1. UNCHANGED <<world, decoder, retry, threads>> /\ store' = Pruned(store)
  BY DEF Polls, Poll
<1>2. StoreTypeOK' /\ RateInv' /\ FlightInv'
  BY <1>1, PruneInv DEF IInv, TypeOK
<1> QED
  BY <1>1, <1>2 DEF IInv, TypeOK, LinesInv, LateInv, CountInv, world, decoder, retry, threads

-----------------------------------------------------------------------------
(* The theorems.                                                           *)

\* An empty picture, no reader.
LEMMA InitIInv == Init => IInv
<1> SUFFICES ASSUME Init PROVE IInv
  OBVIOUS
<1>1. StoreTypeOK
  <2>1. store = <<>> /\ now = 0 /\ place = [a \in Addrs |-> 0]
    BY DEF Init, StoreInit
  <2>2. DOMAIN store = {} /\ store \in [{} -> Aircraft]
    BY <2>1
  <2> QED
    BY <2>1, <2>2, TimesAssumption DEF StoreTypeOK, Times
<1>2. DOMAIN store = {}
  BY DEF Init, StoreInit
<1>3. TypeOK
  BY <1>1, ReadersAssumption DEF Init, TypeOK
<1>4. RateInv /\ FlightInv
  BY <1>2 DEF RateInv, FlightInv
<1>5. LinesInv /\ LateInv /\ CountInv
  BY ReadersAssumption DEF Init, LinesInv, LateInv, CountInv
<1> QED
  BY <1>3, <1>4, <1>5 DEF IInv

\* Every step keeps it.
LEMMA StepIInv == IInv /\ [Next]_vars => IInv'
<1> SUFFICES ASSUME IInv, [Next]_vars PROVE IInv'
  OBVIOUS
<1>1. CASE UNCHANGED vars
  <2>1. UNCHANGED <<storeVars, decoder, retry, threads>>
    BY <1>1 DEF vars
  <2> QED
    BY <2>1, StoreSame DEF IInv, TypeOK, LinesInv, LateInv, CountInv, storeVars, world, decoder,
       retry, threads
<1> QED
  BY <1>1, RunInv, ReadInv, BroadcastInv, MainInv, PollInv, TickInv DEF Next

\* The invariant holds in every state: how old a rate can be, how far an aircraft has flown
\* since its last right position, what a stopped reader has left.
THEOREM Invariance == Spec => []IInv
BY InitIInv, StepIInv, PTL DEF Spec

\* Every variable has its type; in particular a block never yields more than its lines.
THEOREM TypeCorrect == Spec => []TypeOK
<1>1. IInv => TypeOK
  BY DEF IInv
<1> QED
  BY <1>1, Invariance, PTL

\* The two holds of the vertical rate never add up to more than their sum.
THEOREM RateRecent == Spec => []RateShownIsRecent
<1>1. IInv => RateShownIsRecent
  <2> SUFFICES ASSUME IInv, NEW a \in Addrs, ShowsRate(a)
               PROVE  now - store[a].measured <= 2 * RateHold
    BY DEF RateShownIsRecent
  <2>1. a \in DOMAIN store /\ store[a].rateAt # NoTime /\ now - store[a].rateAt <= RateHold
    BY DEF ShowsRate, Listed
  <2>2. store[a].measured # NoTime /\ store[a].rateAt - store[a].measured <= RateHold
    BY <2>1 DEF IInv, RateInv
  <2>3. store[a] \in Aircraft /\ now \in Times
    BY <2>1 DEF IInv, TypeOK, StoreTypeOK
  <2>4. store[a].rateAt \in Int /\ store[a].measured \in Int /\ now \in Int /\ RateHold \in Int
    BY <2>1, <2>2, <2>3, TimesAssumption DEF Aircraft, Times
  <2> QED
    BY <2>1, <2>2, <2>4
<1> QED
  BY <1>1, Invariance, PTL

\* A distance flown is within the jump allowed.
LEMMA FlownIsAllowed ==
  ASSUME NEW s \in Nat, NEW f \in Nat \ {0}, NEW e \in Nat, NEW m \in Nat, e <= m
  PROVE  s * e <= s * f * m
<1>1. f * m >= m
  <2>1. f * m = (f - 1) * m + m
    OBVIOUS
  <2>2. (f - 1) * m \in Nat
    OBVIOUS
  <2> QED
    BY <2>1, <2>2
<1>2. f * m \in Nat /\ e <= f * m
  BY <1>1
<1>3. \A x, y \in Nat : x <= y => s * x <= s * y
  <2> SUFFICES ASSUME NEW x \in Nat, NEW y \in Nat, x <= y PROVE s * x <= s * y
    OBVIOUS
  <2>1. s * (y - x) \in Nat /\ s * y = s * x + s * (y - x)
    OBVIOUS
  <2> QED
    BY <2>1
<1>4. s * e <= s * (f * m)
  BY <1>2, <1>3
<1> QED
  BY <1>4

\* An aircraft whose ground speed is known and whose last accepted position was right is
\* never locked out by the jump filter.
THEOREM FlightAccepted == Spec => []TrueFlightAccepted
<1>1. IInv => TrueFlightAccepted
  <2> SUFFICES ASSUME IInv, NEW a \in DOMAIN store, store[a].good, store[a].knowsSpeed
               PROVE  Reasonable(store[a], place[a])
    BY DEF TrueFlightAccepted
  <2>1. /\ store[a].placeAt # NoTime /\ store[a].place # NoPlace /\ store[a].placeAt <= now
        /\ store[a].place <= place[a]
        /\ place[a] <= store[a].place + TrueSpeed * (now - store[a].placeAt)
    BY DEF IInv, FlightInv
  <2>2. a \in Addrs /\ store[a] \in Aircraft /\ now \in Nat /\ place[a] \in Nat
    BY TimesAssumption DEF IInv, TypeOK, StoreTypeOK, Times
  <2>3. store[a].placeAt \in Nat /\ store[a].place \in Nat
    BY <2>1, <2>2 DEF Aircraft, Times
  <2>4. TrueSpeed \in Nat /\ JumpFactor \in Nat \ {0} /\ Grace \in Nat
    BY PlacesAssumption
  <2>5. now - store[a].placeAt \in Nat /\ Elapsed(store[a]) \in Nat
        /\ now - store[a].placeAt <= Elapsed(store[a])
    BY <2>1, <2>2, <2>3 DEF Elapsed
  <2>6. TrueSpeed * (now - store[a].placeAt) <= TrueSpeed * JumpFactor * Elapsed(store[a])
    BY <2>4, <2>5, FlownIsAllowed
  <2>7. /\ Speed(store[a]) = TrueSpeed
        /\ Distance(store[a].place, place[a]) \in {place[a] - store[a].place, store[a].place - place[a]}
        /\ Distance(store[a].place, place[a]) <= place[a] - store[a].place
    BY <2>1, <2>2, <2>3 DEF Speed, Distance
  <2>8. TrueSpeed * (now - store[a].placeAt) \in Nat /\ TrueSpeed * JumpFactor * Elapsed(store[a]) \in Nat
    BY <2>4, <2>5
  <2>9. Distance(store[a].place, place[a]) <= Grace + TrueSpeed * JumpFactor * Elapsed(store[a])
    BY <2>1, <2>2, <2>3, <2>4, <2>6, <2>7, <2>8
  <2> QED
    BY <2>7, <2>9 DEF Reasonable
<1> QED
  BY <1>1, Invariance, PTL

\* A stopped reader adds what is left of one block.
THEOREM LateBounded == Spec => []LateLinesBounded
<1>1. IInv => LateLinesBounded
  BY DEF IInv, LateInv, LateLinesBounded
<1> QED
  BY <1>1, Invariance, PTL

\* Whatever the count has become between its update and its use, the delay is in range.
THEOREM DelayRange == Spec => []RetryDelayInRange
<1>1. IInv => RetryDelayInRange
  BY DelayInRange, TypedFields DEF IInv, Typed, RetryDelayInRange
<1> QED
  BY <1>1, Invariance, PTL

=============================================================================
