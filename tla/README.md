# TLA+ models of the DEFKON ADSB SDR Bridge

The bridge is an Android application that turns an RTL-SDR dongle on the USB port into
two localhost feeds: SBS/BaseStation lines on port 30003 and a readsb-style JSON document
on port 5051. This directory holds TLA+ models of its own code (Java and C++ under
`src/bridge/src/main`; of the vendored readsb, librtlsdr and libusb only the outcomes of
calls and readsb's acceptance rules appear), TLC configurations that check them on small
instances, and TLAPS proofs of every safety property for all values of the constants.

Abbreviations: BS = `BridgeService.java`, NAR = `NativeAdsbReader.java`, STORE =
`BridgeAircraftStore.java`, JNI = `defkon_rtlsdr_bridge.cpp`, NMD =
`native_modes_decoder.cpp`, ADP = `readsb_bridge_adapter.c`.

## The system

| Component | State | Operations | Talks to |
|---|---|---|---|
| SDR supervisor (BS 458-576, commands 124-186) | `running`, `requestedSdrMode`, `sdrRunning`, `sdrStarting`, `nativeReader`, failure counter | intents, `startNativeSdrReaderIfNeeded`, `stopSdrReader`, delayed restarts, `handleNativeReaderFinished` | reader (run/stop), `io` pool, store (clear) |
| Native reader (NAR) | `running`, `exitCode`, `stopped`, `connection`, timeout counter | `run()` on a pool thread, `stop()` on any thread | USB manager, JNI, decoder, `broadcastLine` |
| Driver bridge (JNI) | one `rtlsdr_dev_t` per process, `device_mutex` | open, tune, read, close | librtlsdr |
| SBS server (BS 295-335, 433-456, 595-613, 669-718) | `running`, `serverSocket`, `clients`, each client's queue and `open` flag | accept loop, `enqueue`, writer tasks, `close`, `broadcastLine`, `stopBridge` | `io` and `sbsClientIo` pools, sockets |
| JSON server (BS 337-431) | `aircraftJsonRunning`, its socket, `httpIo` with a queue of 16 | accept loop, header reader, answer | store |
| Aircraft store (`BridgeAircraftStore.java`) | aircraft by hex, with times of message, position, vertical rate | merge, clear, count, JSON, prune | broadcast path, JSON server |
| Native decoder (NMD, `readsb_bridge_adapter.c`) | sample tail, odd IQ byte, aircraft map, CPR pairs, ring of ICAO addresses, `decoder_mutex` | process a block, reset | reader thread |
| Legacy decoder (`RtlTcpAdsbReader.java`) | preamble scan, aircraft map, CPR pairs | `processIq` | nobody: see Not modelled |
| Commands and persistence (BS 113-170, 242-256) | persisted SDR mode and eco profile | `onCreate`, `onStartCommand`, START_STICKY restart | preferences |
| Activity (`MainActivity.java`) | permission and debounce state, displayed status | USB attach/detach, buttons, status mapping | service intents and broadcasts |
| Crash logger, vendored libraries | none of interest | | |

Four kinds of thread meet in it: the main thread (intents and callbacks, one at a time, each
several steps long), the four `io` threads (server loops, readers, sleeping restarts), the
writer threads of `sbsClientIo`, and the request threads of `httpIo`. What is hard is what these do to each
other between two statements:

- `stop()` of a reader runs outside `sdrLock`, beside `run()` at any of its positions and beside
  the next reader, and both act on one process-wide device;
- a delayed restart looks at the request and the flags without the lock;
- tasks that were stopped are still on their way and write shared flags in their `finally` blocks;
- a client may be accepted, dropped, closed by `stopBridge` and closed by its own writer at once;
- `shutdownNow` neither waits for running tasks nor runs the queued ones;
- there is one native decoder for all readers, and a stopped reader may hand in one more block;
- every time-out of a value is measured with a clock that the phone may set back.

What makes each part correct: the *supervisor* has one unstopped reader at most, flags that tell
the truth about it, never retries a stop by the user, always retries a loss; the *reader*
releases connection and device on every path and ends when told; the *driver bridge* never keeps
the main thread waiting for longer than a transfer; the *SBS server* serves every registered
client, bounds clients and queues, gets rid of closed clients, and is not held up by a slow
peer; the *JSON server* ends every request and frees its port; the *store* shows no vertical rate
beyond the hold times, does not lock a flying aircraft out by its jump filter, and takes at most
a block's lines of a stopped reader; the *decoder* pairs bytes rightly and loses no frame at a block
boundary, believes only addresses someone has announced, pairs CPR halves of one aircraft
within ten seconds, and bounds its tables; the *retry policy* waits between a second and half a minute. `PROJECT.json` lists the hazards at their lines with the properties that cover
them.

## Modules

| Module | What it is |
|---|---|
| `SdrLifecycle` | Supervisor, native reader and driver bridge together: they only make sense interleaved |
| `ReaderSlot` | what the supervisor promises about its readers: one slot; implemented by `SdrLifecycle` |
| `MCSdrLifecycle`, `MCSdrSafety` | a bound on the number of commands, for the liveness run; interchangeable readers, for the safety run |
| `SdrLifecycle_proofs`, `_safety_proofs`, `_refinement_proofs` | type correctness; the inductive invariant and six safety theorems; the refinement |
| `SbsServer`, `MCSbsServer`, `SbsServer_proofs` | SBS server tasks, client connections, writer tasks, broadcasters, `stopBridge`; bound on commands and symmetry; type correctness, limit on clients, every registered client is served, flag and port, how clients leave the list |
| `JsonServer`, `MCJsonServer`, `JsonServer_proofs` | JSON server tasks, the request pool, `stopBridge` and `onDestroy`, the header reader as a function; bound on commands; all safety properties and the refinement |
| `RequestPool` | what the JSON feed promises to the requests it accepts; implemented by `JsonServer` |
| `IqFraming`, `IqFraming_proofs` | how the byte stream is cut into frames; its three properties |
| `NativeTracks`, `MCNativeTracks`, `NativeTracks_proofs` | which frames are believed, the table of aircraft, CPR pairing; symmetry; all properties |
| `AircraftStore` | the picture behind the JSON feed, as operators over its own variables |
| `AircraftFeed`, `MCAircraftFeed`, `AircraftFeed_proofs` | `AircraftStore` composed with the decoder's lines, the readers that broadcast them, the main thread that stops them, the failure count and the clock; symmetry; all properties |

Operators whose comment begins with "Fault" are plausible mistakes in the definition that
follows them, for example a flag cleared that should not be. Nothing refers to them: they exist to be put in place of that
definition, to see that a property notices.

### SdrLifecycle and the code

A step is one `sdrLock` critical section, one JNI call (all of which take `device_mutex`), or one
access to a volatile field or to `connection`. Every handler is several steps, so that whatever
can come between two of its statements does.

- Main thread: `mainPc` is the position in the handler, `mainReader` the local variable that
  holds the reader across the unlock, `mainThen` what follows `stopSdrReader` (nothing, the
  scheduling of a profile switch, or the pool shutdown of `onDestroy`). `Command` is
  `onStartCommand` or `onTimeout` up to its first lock; `Destroy`, `MainStartReader`, `MainSubmit`,
  `MainStopReader`, `MainStopReturns`, `MainSchedule`, `MainExecute`, `MainShutdown` are the rest.
- Pool: `ioQueue` is the queue of `io`, `RunTask` a thread taking its head. `SubmitReader` and
  `SubmitRestart` are `execute`, rejected after `shutdownNow`; nobody catches the exception.
- Reader: `readerPc` walks through `run()` with one action per step: `ReaderOpenUsb` (NAR 75-103),
  `ReaderCheckConnection` and `ReaderUseFd` (the two reads of `connection`), `ReaderOpenCore`,
  `ReaderTune`, `ReaderLoop`, `ReaderBeginRead`/`ReaderEndRead` (the mutex is held in between),
  `ReaderEnding`, `ReaderStopReturns`; then the finally block of BS 493-507 (`ReaderFinish`,
  `ReaderHandle`, `ReaderSchedule`).
- `stop()`: `ClaimStop` (CAS, exit code, `running = false`), `StopClosesDevice`,
  `StopClosesConnection`, executed by `stopper`: the service's main thread or the reader itself.
- `device` is the reader whose descriptor the open `rtlsdr_dev_t` wraps. Readers reuse identities
  once dead; a device that outlives its reader's identity belongs to `ReaderGone`.
- `crashed` is an uncaught exception: the process is gone and takes no step.

Abstractions: how long a restart sleeps, and the failure counter behind it, are left out (a
sleep lasts any time); the CAS, the exit code and `running = false` of `stop()` are one step, as
are `sdrStarting = false` and `exitCode = EXIT_OK` (nobody looks at one and then at the other);
so are the four volatile reads of the restart's check, whose outcome the safety proofs do not
use; `connection`, which is not volatile, is read at its current value; the two server loops are
`PoolSize` being smaller than four and the command `sbsServerEnds`, the clearing of `running`
that `SbsServer` models; the task of `SEND_TEST`, which changes nothing here, is left out.
`Destroy` is the end of the service instance: a new instance has new fields, and only `device`
would outlive it.

### SbsServer and the code

A step is one access to `running`, `serverSocket`, `clients` or a client's queue, or one socket
call. A server task's positions follow BS 298-333; `accepted` is the client it holds between
`accept()` and the start of its writer. A client is `closePc` (open, in `close()` after the CAS,
queue cleared, socket closed), `pending` (the length of its queue: lines are only counted) and
`writerPc`, the position in `writeLoop`. `workers` and `RunningWriters` are the fixed pool of
`sbsClientIo`: a new thread begins with the task it was created for, later ones take tasks from
the queue. `listening` is the task whose socket is bound: at most one has the port. A broadcaster
walks over a snapshot of the copy-on-write list; `enqueue` is its two halves `SendChecks`
(`open.get()`) and `SendOffers`. `stopBridge` is split at each access, with the snapshot of the
list, its `clear()` and the two accesses to `serverSocket`.

Abstractions: `setTcpNoDelay` (BS 313) succeeds; when it throws, the socket just accepted is not
closed by anyone. A broadcast from the main thread re-posts itself to `io` and is one of the
`Broadcasters`. `stopBridge`'s call of `stopSdrReader` is `SdrLifecycle`'s. A peer that never
reads is a writer that stays in `write()` until its socket is closed.

### JsonServer and the code

The server task is that of `SbsServer` with its own flag and socket (BS 337-367), `taskPc` its
position. `ServerSubmits` is `httpIo.execute` as `ThreadPoolExecutor` defines it: a new thread below
the core, then the queue, then another thread, then rejection, upon which the task closes the
connection. A connection is `conn`: accepted, queued, being read (with `count` bytes), being
answered, or free again; `dropped` is one that `shutdownNow` has removed from the queue and nobody
closes. `Closes` is the catch-all of BS 387-393, for a timed-out read, a failed or finished write.
Reading ends for one of three reasons, end of header, limit, or end of input (`ReadsHeader`); what is
read then is `RequestLine`, a function of all the bytes, with `Match` as the `headerEndMatch` of
BS 403-410.

`RequestPool` is what is left of it for a client: a request arrives, is served at once, waits or is refused, in the order of
arrival, and is finished or forgotten by the shutdown. Tasks, sockets, flags and threads are not in it. A
request served at once while others wait is in it, because `ThreadPoolExecutor` does that when its
queue is full.

Abstractions: bytes are CR, LF and another; method and path of the request line select the answer
and are not looked at; the tasks of `io` get a thread at once, which the supervisor's model does
not take for granted (`PoolSize` there counts the two server loops in).

### IqFraming and the code

One call of `nativeProcessIq` is a step, as it holds `decoder_mutex` throughout. A byte is its
position in the reader's stream, or `Foreign` if a stopped reader has handed it in; a sample is its
pair of bytes; a frame on the air is the sample it starts at. `Bytes` puts the waiting byte in front
(NMD 625-630), `Pairs` and `LeftOver` are the loop of 631-642, `NextTail` the copy of 663-668, `StoreByte`
the early return of 594-601. `Found` is what `demodulate2400` finds: every frame of which the
buffer holds all samples in order; `WithinMax` is the adapter's output array. `Reset` is
`nativeReset` by a new reader.

Abstractions: magnitudes, noise, damaged or overlapping frames; the 288 samples of preamble and message
are `FrameSamples`.

### NativeTracks and the code

A frame is its kind, the address readsb reads from it and where its bit errors were. `Scored` is
the sign of `scoreModesMessage`, `Decoded` the return value of `decodeModesMessage`, `Teaches` its
calls of `icaoFilterAdd`, `FilterAdd` the adapter's ring, which replaces readsb's own filter.
`Handle` is `handle_readsb_decoded_message`: `PruneTo` is `prune_aircraft_states`, by time and by
limit, before the aircraft is looked up; then the half of a position is stored and `Paired` and
`Used` decide what is decoded from which. The clock ticks and may be set back (`SetClockBack`).

Abstractions: `decodeCPRairborne` is its one refusal, halves from different latitude zones
(`sameZone`, any outcome); altitude, callsign and velocity follow the message, and the vertical rate
is in `AircraftFeed`; the sort of the table by age is its effect, that the oldest go; the order of
aircraft seen at the same time is any.

### AircraftStore, AircraftFeed and the code

Each synchronized method of the store is a step: `Merge` (STORE 34-73 with the filter of 145-155 and
the prune at its end), `Clear`, `Poll`. A reader's `run()` is reduced to what bears on lines: reset on
opening, the test of `running`, a block, its lines one by one, and the end; `Merge` of a line and the
reset of the failure count are one step of `broadcastLine`. `LineOf` is `to_sbs_line`: ground speed once
known, the vertical rate as long as it is held. After a failure the count is read and written in two
steps (`ReadsCount`, `WritesCount`), as `+=` on a plain field is, and read again for the delay
(`Schedules`). `StopClears`, `StopStops` and `ClearAgain` are `stopSdrReader` inside and outside the lock and
the end of `stopBridge`.

Abstractions: an aircraft flies along a line, and its place is the distance; a wrong position is
`FarPlace`; a vertical rate is the time it was measured, so that its age can be told; the clock is not
set back here, and the broadcasting of a block takes no time on it (`Tick`). A retry's start is
`StartReader`, whatever has asked for it: who may ask is `SdrLifecycle`'s question.

## Runs

| Run | Bounds | Shows |
|---|---|---|
| `sdr_safety` | 2 readers, 1 restart, 2 pool threads, 2 read timeouts, all commands, unbounded; symmetric readers | `TypeOK`, `FlagsMatchReader`, `CurrentReaderIsLive`, `SupersededReaderIsStopping`, `ServiceStopIsNeverRetried`, `LeakOnlyAfterServiceStop`, `ImplementsReaderSlot` |
| `sdr_liveness` | the same with 1 timeout, `startNative` and `stopSdr`, 3 commands | `StoppedReaderEnds`, `LostReaderIsRetried`, `HandlersReturn` |
| `sbs_safety` | 2 server tasks, 3 connections for one place, 1 broadcaster, queue of 1, 3 commands | `TypeOK`, `ClientLimit`, `RegisteredClientIsServed` |
| `sbs_liveness` | the same with one connection that comes back | `ClosedClientLeaves`, `BroadcastReturns` |
| `json_liveness` | 2 server tasks, 4 connections of which 1 never reads its answer, 1 to 2 threads, queue of 2, 1 byte of header, 3 commands; inputs of up to 7 bytes, limits 4 to 6 | `TypeOK`, `HeaderCutRight`, `ServerIsThere`, `EveryRequestEnds`, `PortIsFreed`, `ImplementsRequestPool` |
| `decoder_framing` | tail of 4 samples, frames of 2, blocks of 1, 2, 5 and 7 bytes, streams of 16, 1 late block, resets | `TypeOK`, `StreamInStep`, `NoFrameLost`, `DecodedAtMostTwice` |
| `tracks_safety` | 3 addresses, ring of 2, table of 1, TTL 1, pruning every 1, window of 1, time to 2 | `TypeOK`, `TracksAnnounced`, `FilterKeepsNewest`, `TableBounded`, `SilentTracksGo`, `PositionFromFreshPair` |
| `feed_safety` | 1 aircraft, 2 readers, blocks of 1 line, TTL 2, hold 1, time to 3, a count up to 1 | `TypeOK`, `RateShownIsRecent`, `TrueFlightAccepted`, `LateLinesBounded`, `RetryDelayInRange` |
| `sdr_failed_open`, `sdr_stop_sticks`, `sdr_detach`, `sbs_stale_flag` | | counterexamples, see Findings |

Why these bounds are enough to be of interest: two readers are the current one and one that was
superseded (the proofs below lift the number); one restart identity, reused, overlaps with every
command, and a second command that would need another waits in the model; two pool threads are
what the two server loops leave free. In `SbsServer` two tasks are the running one and a stopped
one on its way out, three commands are start, stop and start again (or stop and destroy), three
connections exceed the limit of one by more than the property allows, and a queue of one line is
full after one line. In `JsonServer` the first of four requests occupies the core thread for ever,
the next two fill the queue and the fourth brings up the second thread, overtaking them; a queue of two has an
order to keep. In `IqFraming` blocks are odd
and even, shorter and longer than the tail, one byte is less than a sample, and 16 bytes are
several blocks; one late block falls anywhere. In `NativeTracks` three addresses overflow the ring and the
table, and the clock outlasts TTL, interval and window. In `AircraftFeed` the clock outlasts TTL
and hold, one line per block still leaves a late line, and two readers may both
raise the count from 0 to 1, one losing the other's increment; the
proofs lift all of these bounds. Deadlock in the runs that say so is not checked because a crashed process, a
destroyed service, and a bounded number of commands end legitimately.

Some statements deserve a word. `ClientLimit` is not `MAX_SBS_CLIENTS`: the test at BS 308 and
the `add` at 321 are apart and a stopped task may be between them, so each further task can add
one more client; TLC reaches two clients with a limit of one. `LeakOnlyAfterServiceStop` excludes
readers that the service stopped, because for these it is false (`sdr_failed_open`). And
`RegisteredClientIsServed` speaks of a pool that is up: after `onDestroy` dropped writer tasks
leave their clients behind. `StreamInStep` and `NoFrameLost` exclude streams with an odd
number of late bytes in them (`skewed`) and samples up to the last late block: a stopped reader's block
in the middle of its successor's stream puts that stream out of step until the next reset. `SilentTracksGo`
and `PositionFromFreshPair` hold while the clock is not set back; `TableBounded` without that condition.
`RateShownIsRecent` allows two hold times because the decoder's and the store's follow one another. `TrueFlightAccepted`
asks for a known ground speed; without one, an aircraft faster than 90 kt times 2.8 may outrun the
filter. `EveryRequestEnds` is about all requests but the one of a peer that does not read; two such peers
hold both threads, and the property is false for them. `PortIsFreed` needs clients that go on
connecting when `stopBridge` has missed the socket.

### Fairness

`SdrLifecycle`: every thread is scheduled. Fairness of the steps of main thread, readers, restarts
and `stop()` is strong: they wait for `device_mutex`, which is released and taken again
all the time by a reading reader, and the model's steps that need a free identity can be disabled
for a while where `new` never is. A transfer ends within librtlsdr's 1000 ms and a sleep within its
delay. Nothing obliges a command, a server failure or a device to come. With fewer than two free pool threads
`StoppedReaderEnds` would be false: a reader queued behind a sleeper still ends, but not one behind
another reader that never does. `SbsServer`: weak fairness for all threads, strong for writers,
which compete for the threads of a pool; none for a peer to read (`WriterWrites`), a connection
to come (`ServerAccepts`) or a line to be broadcast (`Send`). `JsonServer`: weak fairness for all threads; a
read ends within `setSoTimeout`; a write ends only if the peer reads; and a listening task
eventually accepts (`TaskStep` has `ServerAccepts` among its steps), since the clients of the feed poll it. The other
models have no liveness property and no fairness.

## Findings

- `sdr_failed_open`: a `stop()` that runs before `openDevice` uses up the CAS; when the open of
  the native device fails, `run()`'s own `stop()` (NAR 115) does nothing and the USB connection stays
  open. librtlsdr's probe says it fails cleanly "so Android can close the old descriptor and
  retry".
- `sdr_stop_sticks`: a delayed restart that has passed its check (BS 524) starts a reader after
  `STOP_SDR` has been handled and "SDR READER STOPPED" reported (BS 149).
- `sdr_detach`: `stop()` nulls `connection` between the check (NAR 104) and the dereference (110); the
  NullPointerException ends the process instead of "WAIT DONGLE | READSB AUTO RESUME" (BS 153).
- `sbs_stale_flag`: all server tasks share `running`, and the finally block (BS 332) of one whose bind
  failed, or that was stopped, lowers the flag of the one started after it, which then closes.

## Proofs

From the assumptions the modules name: identities are distinct from each other and from numbers, sizes and bounds are natural numbers,
positive where the code's are; a frame fits into the tail, and the output array has room for
the frames of a buffer (`MessagesAssumption`: 256 messages of at least 154 samples in 33280). For
`SdrLifecycle` with any sets of readers and restarts, any pool size and any set of commands:

- `SdrLifecycle_proofs`: `TypeCorrect`. The invariant is `TypeOK` with `SubmitterHasReader` (a
  thread about to submit holds a reader), which `TypeOK` alone does not preserve.
- `SdrLifecycle_safety_proofs`: `Invariance`, and from it `FlagsCorrect`, `NoOrphanReader`,
  `StopNeverRetried`, `NoOwnLeak`, `ReaderNeverOverwritten` and `CurrentReaderLives`: every
  invariant of the run `sdr_safety`.

None of these properties is inductive. `IInv` adds, per reader, who is responsible for it
(`OwnerInv`: the service while it is current, then whoever executes its `stop()`), how far
`stop()` can be at each position of `run()` (`StopInv`), which exit code it carries (`ExitInv`) and
what it holds open (`UsbInv`), and, over the pool, that a reader waits in the queue once
(`QueueInv`) and is submitted by one thread (`SubmitInv`); without the last two a task could be run
twice and a dead reader come back. Most steps touch one reader: `Kept` names what the invariant of
a reader depends on, `ReaderStepKept` and `StopStepKept` show that the others keep it, `ReaderStepOwn`
and `StopStepOwn` go through the positions. `CurrentReaderIsLive` is added on top of `IInv`
(`LiveStep`). `IInv` was checked with TLC as an invariant of the instance of `sdr_safety` first.

- `SbsServer_proofs`: `TypeCorrect`, `ClientsLimited` and `RegisteredServed`, for any clients and
  broadcasters, any limits, and any finite set of server tasks. The invariant `SbsInv` adds which positions
  hold a client (`HoldInv`), that two tasks never hold the same one and do not register it before
  "add" (`HandsInv`), and a count (`LimitInv`): the clients and the tasks between test and `add`
  together stay below the limit plus the number of tasks. `ClientLimit` alone is not inductive: a
  task that has passed the test adds its client whatever has happened since. All steps but
  five of a server task are `Quiet`: they hand no client on and register none.

- `SdrLifecycle_refinement_proofs`: `SlotImplemented`, that `SdrLifecycle` implements `ReaderSlot` under
  `slot = nativeReader`, `live` and `told` the readers at work and those whose `stop()` has begun, `dismissed` the
  reader main holds between unlock and `stop()`. Each action maps to `Take`, `Dismiss`, `Tell`, `End`, `Shutdown` or a stutter. Besides
  `IInv` it needs `ClaimInv` (told means claimed) and `MainInv` (where the main thread may be after the
  shutdown, and that it has a reader when inside `stop()`).
- `AircraftFeed_proofs`: all five properties of `feed_safety`. The invariant adds: a stored rate was measured at most a
  hold before it was last repeated (`RateInv`), a right position is at most the flown distance
  behind (`FlightInv`), lines wait only in a reader that is broadcasting and their rates are fresh
  (`LinesInv`), a stopped reader has merged what its block lacks (`LateInv`). `DelayDoubles` gives the whole sequence of delays.
- `NativeTracks_proofs`: all six properties of `tracks_safety`. `FilterKeepsNewest` follows from where in the ring an
  address added before the last k additions is (`RingInv`), the two properties about ages from `TimesInv`,
  that nothing is ahead of the clock and nobody was too old at the last pruning.
- `IqFraming_proofs`: all four properties of `decoder_framing`. The invariant adds that the waiting byte is the last of the
  stream (`PendingInv`), that no byte is ahead of the stream (`BytesInv`), and that a frame decoded
  twice has left the tail (`TwiceInv`). `OwnMag` shows that the buffer ends with the samples the tail still
  had and those of the block, from which both other properties follow; `RoomForAll`, that the output
  array drops nothing, by mapping each frame of a buffer to a slot of its own; `TwiceStep` is
  independent of the order of the bytes and so covers late blocks too.
- `JsonServer_proofs`: every safety property of `json_liveness`. The invariant adds to `TypeOK` and `HasClient` (a task
  about to call `execute` holds a connection) where a connection may be: in the hands of one task (`HandsInv`), at one
  place of the queue (`QueueInv`), or with one of the threads, which are at least as many (`ThreadInv`, with `CoreThreads` of
  them as soon as somebody waits). `ServerThere` needs only the types: a task goes to "release"
  when it has seen the flag down, and every start that raises it again brings a new task. `PoolImplemented` maps each step
  to one of `RequestPool` or none; that `execute` starts a thread only for an empty or a full queue, so that
  overtaking happens in no other case, follows from `ThreadInv`, and that a connection accepted is not already somewhere
  from the other two. The header reader is the one proof by induction over data: `CutRightAlways`
  holds for every sequence of bytes and every limit. The library's induction theorems cannot be instantiated, but its `WFMin` can, and
  says that a nonempty set of numbers has a least one (`Least`). By the smallest counterexample the
  recursive function `Matches` exists (`MatchesExist`) and `headerEndMatch` is the length of the longest beginning of
  CR LF CR LF that the bytes end with (`MatchRight`), as long as no end has been met.
- `SbsServer_proofs` also has two theorems about statements no run checks. `ServerThere` is the statement of the same name
  about port 30003: the other side of `sbs_stale_flag`, since a flag may be lowered too early but is never left up. `DroppedClosed`
  is an action property: who takes an open client out of the list is about to close it, except for stopBridge's
  `clear()`, which may remove a client registered after its snapshot. It needs `ClosedInv`, that a thread about to run
  `onClosed` has closed the client.
- `SdrLifecycle_safety_proofs` proves `NoReaderOverwritten` too; the run does not check it because `ImplementsReaderSlot` says
  more.

Model-checked only, on the instances above: the seven liveness properties (the five of the SDR and SBS
runs, `EveryRequestEnds` and `PortIsFreed`), because the provers do not handle fairness. That `Stalling` leaves one thread free
for the others is an assumption of `EveryRequestEnds`, not of anything proved.

## Not modelled

- The legacy decoder (`RtlTcpAdsbReader.java`). Its `run()` has no caller; its `processIq` is called only when
  the native library is missing, and then there is no native reader to call it.
- The other modes of the native decoder (NMD 131-325, 416-530, 705-757): `BridgeService` always creates its reader with
  `DECODER_MODE_READSB_CORE`. Of the mode used, the arithmetic of magnitudes, correlation and CPR is left out.
- What survives the process: which mode and profile a restarted service finds depends on when Android
  writes preferences and redelivers intents (START_STICKY), which nothing under `src/` determines. A second
  service instance beside the tasks of the first differs from the first by its fields only; the device, which it shares, is
  in `SdrLifecycle` (`Destroy`).
- The activity: it sends the commands, which the models take in any order, and shows status texts.
- Notifications, foreground service types, the layout of lines and JSON, the crash logger.
- The vendored libraries. Nearly all of the repository's C (readsb, librtlsdr, libusb: over 95 % of the C and C++ lines) is
  third-party code, of which the bridge compiles and calls a small part. The mapped share of all lines is small for
  that reason: what is mapped is the bridge's own code, which is mostly Java.
