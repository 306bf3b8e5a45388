----------------------------- MODULE AircraftFeed -----------------------------
(***************************************************************************)
(* The way of a message from the decoder to the picture.  A reader's       *)
(* thread decodes a block into lines (process_readsb_demodulator, which    *)
(* keeps a vertical rate for a while and prints it in every line) and      *)
(* broadcasts them one by one; broadcastLine merges each into the store.   *)
(* Meanwhile the main thread may stop the reader, clearing the store       *)
(* first, and start another one while the old one is still at work.  A     *)
(* reader that ends by itself counts a failure, from which the delay of    *)
(* its restart follows; every line and every stop sets that count to 0.    *)
(*                                                                         *)
(* The clients of broadcastLine are in SbsServer, the reader's life in     *)
(* SdrLifecycle.  Broadcasting the lines of a block takes no time on the   *)
(* scale of the clock; a delay there adds to every age.                    *)
(***************************************************************************)
EXTENDS AircraftStore, Sequences

CONSTANTS
  Flown,     \* distances an aircraft may fly in a unit of time
  Readers,   \* reader tasks
  NoReader,  \* nativeReader is null
  MaxFailures,  \* bound: consecutive failures counted
  MaxLines   \* lines a block yields

ASSUME FlownAssumption == Flown \subseteq 0 .. TrueSpeed
ASSUME ReadersAssumption == NoReader \notin Readers /\ MaxLines \in Nat /\ MaxFailures \in Nat

VARIABLES
  nativeReader,  \* the current reader
  pc,            \* where the reader's run() is
  running,       \* its `running`
  lines,         \* the lines of the block it has decoded
  failures,      \* consecutiveNativeFailures
  counted,       \* what a failed reader's thread has read of it
  late,          \* history: lines it has merged after stop() has returned
  rateMs,        \* the decoder's vertical_rate_ms of each aircraft
  knowsSpeed,    \* the decoder's has_speed
  main,          \* where the main thread is
  toStop         \* nativeToStop

decoder == <<rateMs, knowsSpeed>>
retry   == <<failures, counted>>
threads == <<nativeReader, pc, running, lines, late, main, toStop>>
vars    == <<storeVars, decoder, retry, threads>>

Line ==
  [addr: Addrs, speed: BOOLEAN, rate: Times \cup {NoTime}, place: Nat \cup {NoPlace}]

TypeOK ==
  /\ StoreTypeOK
  /\ nativeReader \in Readers \cup {NoReader}
  /\ pc \in [Readers -> {"idle", "opening", "test", "read", "lines",
                         "count", "store", "delay"}]
  /\ running \in [Readers -> BOOLEAN]
  /\ lines \in [Readers -> Seq(Line)]
  /\ \A r \in Readers : Len(lines[r]) <= MaxLines
  /\ failures \in 0 .. MaxFailures
  /\ counted \in [Readers -> 0 .. MaxFailures]
  /\ late \in [Readers -> Nat]
  /\ rateMs \in [Addrs -> Times \cup {NoTime}]
  /\ knowsSpeed \in [Addrs -> BOOLEAN]
  /\ main \in {"ready", "stopReader", "stopBridge", "clearAgain"}
  /\ toStop \in Readers \cup {NoReader}

EmptyDecoder ==
  /\ rateMs' = [a \in Addrs |-> NoTime]
  /\ knowsSpeed' = [a \in Addrs |-> FALSE]

Init ==
  /\ StoreInit
  /\ nativeReader = NoReader
  /\ pc = [r \in Readers |-> "idle"]
  /\ running = [r \in Readers |-> FALSE]
  /\ lines = [r \in Readers |-> <<>>]
  /\ failures = 0
  /\ counted = [r \in Readers |-> 0]
  /\ late = [r \in Readers |-> 0]
  /\ rateMs = [a \in Addrs |-> NoTime]
  /\ knowsSpeed = [a \in Addrs |-> FALSE]
  /\ main = "ready"
  /\ toStop = NoReader

-----------------------------------------------------------------------------
(* The decoder. *)

\* What a message says: a name (or an altitude), a position that may be wrong,
\* a velocity with ground speed, vertical rate or both.
Contents == {"name", "position", "wrong", "speed", "rate", "speed and rate"}
HasSpeed(m) == m.says \in {"speed", "speed and rate"}
HasRate(m)  == m.says \in {"rate", "speed and rate"}

Messages == [addr: Addrs, says: Contents]
Blocks   == UNION {[1 .. n -> Messages] : n \in 0 .. MaxLines}

\* Fault: a rate once received is printed for ever.
RateFreshAlways(a) == rateMs[a] # NoTime

\* vertical_rate_fresh, for a message received now
RateFresh(a) == rateMs[a] # NoTime /\ now - rateMs[a] <= RateHold

\* Fault: a position is printed one step behind.
LineOfBehind(block, i) ==
  [addr |-> block[i].addr, speed |-> FALSE, rate |-> NoTime,
   place |-> place[block[i].addr] - TrueSpeed]

\* to_sbs_line for the i-th message of a block, after those before it.
LineOf(block, i) ==
  LET a      == block[i].addr
      upTo   == {block[j] : j \in {k \in 1 .. i : block[k].addr = a}}
  IN  [addr  |-> a,
       speed |-> knowsSpeed[a] \/ \E m \in upTo : HasSpeed(m),
       rate  |-> IF \E m \in upTo : HasRate(m) THEN now
                 ELSE IF RateFresh(a) THEN rateMs[a] ELSE NoTime,
       place |-> IF block[i].says = "position" THEN place[a]
                 ELSE IF block[i].says = "wrong" THEN FarPlace ELSE NoPlace]

-----------------------------------------------------------------------------
(* Readers. *)

\* The end of run(), which calls stop(), and the task's finally block; the
\* current reader goes on to handleNativeReaderFinished, unless the service has
\* been stopped.
Ends(r) ==
  /\ \/ pc' = [pc EXCEPT ![r] = "idle"]
     \/ nativeReader = r /\ pc' = [pc EXCEPT ![r] = "count"]
  /\ running' = [running EXCEPT ![r] = FALSE]
  /\ late' = [late EXCEPT ![r] = 0]
  /\ nativeReader' = IF nativeReader = r THEN NoReader ELSE nativeReader

\* nativeReset, when the device is open.
Opens(r) ==
  /\ pc[r] = "opening"
  /\ pc' = [pc EXCEPT ![r] = "test"]
  /\ EmptyDecoder
  /\ UNCHANGED <<storeVars, retry, nativeReader, running, lines, late, main, toStop>>

\* Fault: a reader reads on until its device is gone.
ReadsOn(r) == TRUE

\* while (running)
Continues(r) == running[r]

Tests(r) ==
  /\ pc[r] = "test"
  /\ IF Continues(r)
     THEN pc' = [pc EXCEPT ![r] = "read"] /\ UNCHANGED <<nativeReader, running, late>>
     ELSE Ends(r)
  /\ UNCHANGED <<storeVars, decoder, retry, lines, main, toStop>>

\* A read yields a block, nativeProcessIq its lines.
Reads(r, block) ==
  /\ pc[r] = "read"
  /\ pc' = [pc EXCEPT ![r] = "lines"]
  /\ lines' = [lines EXCEPT ![r] = [i \in DOMAIN block |-> LineOf(block, i)]]
  /\ rateMs' = [a \in Addrs |->
       IF \E i \in DOMAIN block : block[i].addr = a /\ HasRate(block[i]) THEN now ELSE rateMs[a]]
  /\ knowsSpeed' = [a \in Addrs |->
       knowsSpeed[a] \/ \E i \in DOMAIN block : block[i].addr = a /\ HasSpeed(block[i])]
  /\ UNCHANGED <<storeVars, retry, nativeReader, running, late, main, toStop>>

\* The device is gone, or was closed by stop().
ReadFails(r) ==
  /\ pc[r] \in {"opening", "read"}
  /\ Ends(r)
  /\ UNCHANGED <<storeVars, decoder, retry, lines, main, toStop>>

\* emitNativeDecoderLines hands the next line to broadcastLine.
Broadcasts(r) ==
  /\ pc[r] = "lines" /\ lines[r] # <<>>
  /\ Merge(Head(lines[r]))
  /\ failures' = 0
  /\ lines' = [lines EXCEPT ![r] = Tail(@)]
  /\ late' = IF running[r] THEN late ELSE [late EXCEPT ![r] = @ + 1]
  /\ UNCHANGED <<world, decoder, counted, nativeReader, pc, running, main, toStop>>

BlockDone(r) ==
  /\ pc[r] = "lines" /\ lines[r] = <<>>
  /\ pc' = [pc EXCEPT ![r] = "test"]
  /\ UNCHANGED <<storeVars, decoder, retry, nativeReader, running, lines, late, main, toStop>>

-----------------------------------------------------------------------------
(* After a failure: handleNativeReaderFinished, under no lock. *)

\* consecutiveNativeFailures += 1 reads ...
ReadsCount(r) ==
  /\ pc[r] = "count" /\ failures < MaxFailures
  /\ pc' = [pc EXCEPT ![r] = "store"]
  /\ counted' = [counted EXCEPT ![r] = failures]
  /\ UNCHANGED <<storeVars, decoder, failures, nativeReader, running, lines, late, main, toStop>>

\* ... and writes.
WritesCount(r) ==
  /\ pc[r] = "store"
  /\ pc' = [pc EXCEPT ![r] = "delay"]
  /\ failures' = counted[r] + 1
  /\ counted' = [counted EXCEPT ![r] = 0]
  /\ UNCHANGED <<storeVars, decoder, nativeReader, running, lines, late, main, toStop>>

\* SDR_RESTART_DELAY_MS << shift in seconds.  Of a negative count Java takes
\* the low six bits, and a shift by 63 leaves nothing of 1000.
Shifted(shift) == IF shift < 0 THEN 0 ELSE <<1, 2, 4, 8, 16, 32>>[shift + 1]

MaxDelay == 30

\* Fault: the shift is not clamped from below.
ShiftUnclamped(n) == IF n - 1 < 5 THEN n - 1 ELSE 5

Shift(n) == IF n < 1 THEN 0 ELSE IF n - 1 < 5 THEN n - 1 ELSE 5

\* nativeRetryDelayMs
RetryDelay(n) == IF Shifted(Shift(n)) < MaxDelay THEN Shifted(Shift(n)) ELSE MaxDelay

\* The field is read once more for the delay; the restart itself is StartReader.
Schedules(r) ==
  /\ pc[r] = "delay"
  /\ pc' = [pc EXCEPT ![r] = "idle"]
  /\ UNCHANGED <<storeVars, decoder, retry, nativeReader, running, lines, late, main, toStop>>

-----------------------------------------------------------------------------
(* The main thread. *)

\* startNativeSdrReaderIfNeeded, on the main thread or in a restart, which
\* does not wait for the main thread.
StartReader(r) ==
  /\ nativeReader = NoReader
  /\ pc[r] = "idle"
  /\ nativeReader' = r
  /\ pc' = [pc EXCEPT ![r] = "opening"]
  /\ running' = [running EXCEPT ![r] = TRUE]
  /\ UNCHANGED <<storeVars, decoder, retry, lines, late, main, toStop>>

\* START_SDR and START_NATIVE_SDR set the count to 0 before they look whether
\* a reader runs.
RequestsSdr ==
  /\ main = "ready"
  /\ failures' = 0
  /\ UNCHANGED <<storeVars, decoder, counted, threads>>

\* stopSdrReader, under sdrLock; bridge: as a part of stopBridge
StopClears(bridge) ==
  /\ main = "ready"
  /\ failures' = 0
  /\ Clear
  /\ toStop' = nativeReader
  /\ nativeReader' = NoReader
  /\ main' = IF bridge THEN "stopBridge" ELSE "stopReader"
  /\ UNCHANGED <<world, decoder, counted, pc, running, lines, late>>

\* stopSdrReader, outside the lock: nativeToStop.stop()
StopStops ==
  /\ main \in {"stopReader", "stopBridge"}
  /\ running' = [r \in Readers |-> running[r] /\ r # toStop]
  /\ toStop' = NoReader
  /\ main' = IF main = "stopBridge" THEN "clearAgain" ELSE "ready"
  /\ UNCHANGED <<storeVars, decoder, retry, nativeReader, pc, lines, late>>

\* The end of stopBridge.
ClearAgain ==
  /\ main = "clearAgain"
  /\ Clear
  /\ main' = "ready"
  /\ UNCHANGED <<world, decoder, retry, nativeReader, pc, running, lines, late, toStop>>

-----------------------------------------------------------------------------
(* The clock, the aircraft and whoever asks for the picture. *)

Polls == Poll /\ UNCHANGED <<decoder, retry, threads>>

Tick ==
  /\ now < MaxTime
  /\ \A r \in Readers : pc[r] # "lines"
  /\ now' = now + 1
  /\ \E flown \in [Addrs -> Flown] : place' = [a \in Addrs |-> place[a] + flown[a]]
  /\ UNCHANGED <<store, decoder, retry, threads>>

Next ==
  \/ \E r \in Readers :
       \/ Opens(r) \/ Tests(r) \/ ReadFails(r) \/ Broadcasts(r) \/ BlockDone(r)
       \/ ReadsCount(r) \/ WritesCount(r) \/ Schedules(r) \/ StartReader(r)
       \/ \E block \in Blocks : Reads(r, block)
  \/ \E bridge \in BOOLEAN : StopClears(bridge)
  \/ RequestsSdr \/ StopStops \/ ClearAgain
  \/ Polls \/ Tick

Spec == Init /\ [][Next]_vars

-----------------------------------------------------------------------------
(* Properties. *)

\* Two holds follow one another: the decoder repeats a rate in later lines, and
\* the store takes each repetition for a new measurement.  Even so the picture
\* never shows a rate measured longer ago than the two holds together.
RateShownIsRecent ==
  \A a \in Addrs : ShowsRate(a) => now - store[a].measured <= 2 * RateHold

\* The jump filter never locks an aircraft out: if the last position accepted
\* was right and the ground speed is known, the true position is accepted,
\* after however long a gap.
TrueFlightAccepted ==
  \A a \in DOMAIN store :
    store[a].good /\ store[a].knowsSpeed => Reasonable(store[a], place[a])

\* A stopped reader adds to the picture, which was cleared before it was
\* stopped, what is left of one block and no more.
LateLinesBounded == \A r \in Readers : late[r] <= MaxLines

\* A restart waits a second at least and half a minute at most, although the
\* count it is computed from may be set to 0 by a stop or a late line after it
\* was raised.
RetryDelayInRange ==
  \A r \in Readers : pc[r] = "delay" => RetryDelay(failures) \in 1 .. MaxDelay

=============================================================================
