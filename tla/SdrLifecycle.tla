---------------------------- MODULE SdrLifecycle ----------------------------
(***************************************************************************)
(* The SDR supervisor of BridgeService: the main-thread handlers, the      *)
(* NativeAdsbReader threads and delayed restarts they run on the `io`      *)
(* pool, and the one process-wide RTL-SDR handle all readers share.        *)
(*                                                                         *)
(* A step is one sdrLock critical section, one call into the native driver *)
(* (which takes device_mutex), or one access to a volatile field or to     *)
(* `connection`; what lies between two of them is thread-local.  How long  *)
(* a restart sleeps and the failure counter behind that delay are not      *)
(* represented: a sleep lasts any time.                                    *)
(***************************************************************************)
EXTENDS Naturals, Sequences, FiniteSets

CONSTANTS
  Readers,          \* identities of NativeAdsbReader objects, reused once dead
  Restarts,         \* identities of delayed restart tasks, reused once over
  NoReader,         \* Java null / no open rtlsdr_dev_t
  ReaderGone,       \* who opened a device that outlived its reader's identity
  PoolSize,         \* threads of `io` that the two server loops leave free
  MaxReadTimeouts,  \* MAX_CONSECUTIVE_READ_TIMEOUTS
  Commands          \* the intents, callbacks and server failures that may occur

AllCommands == {"start", "startNative", "switchProfile", "stopSdr",
                "detached", "stop", "timeout", "sbsServerEnds"}

ASSUME ReadersAssumption  == /\ Readers \cap (Restarts \cup {NoReader, ReaderGone}) = {}
                             /\ NoReader # ReaderGone
ASSUME PoolAssumption     == PoolSize \in Nat \ {0}
ASSUME TimeoutsAssumption == MaxReadTimeouts \in Nat \ {0}
ASSUME CommandsAssumption == Commands \subseteq AllCommands

VARIABLES
  running,           \* BridgeService.running (the SBS server flag)
  requestedSdrMode,  \* "NONE" or "NATIVE"
  sdrRunning, sdrStarting, nativeReader,
  stopSelfCalled,    \* stopSelf() was called: onDestroy will follow
  poolShutdown,      \* io.shutdownNow() has run
  mainPc, mainReader, mainThen,  \* main thread: position, local reader, what follows a stop
  ioQueue,           \* tasks waiting for a thread of `io`, in order
  readerPc,          \* position of each reader's task
  readerRunning, exitCode, connection, timeouts,  \* fields and locals of the reader
  stopPc, stopper,   \* progress of its stop() body, and the thread executing it
  restartPc, restartReader,      \* position and local reader of each restart task
  device,            \* the reader whose descriptor the open rtlsdr_dev_t wraps
  deviceMutex,       \* the reader holding device_mutex inside rtlsdr_read_sync
  crashed            \* an uncaught exception has killed the process

service == <<running, requestedSdrMode, sdrRunning, sdrStarting, nativeReader>>
control == <<stopSelfCalled, poolShutdown>>
main    == <<mainPc, mainReader, mainThen>>
fields  == <<readerRunning, exitCode, connection, timeouts>>
stops   == <<stopPc, stopper>>
restart == <<restartPc, restartReader>>
driver  == <<device, deviceMutex>>
vars    == <<service, control, main, ioQueue, readerPc, fields, stops, restart,
             driver, crashed>>

ExitCodes == {"OK", "STOPPED", "FAILED", "CORE_OPEN_FAILED", "NO_DEVICE", "NO_PERMISSION"}

MainPcs    == {"idle", "startReader", "submit", "stopReader", "stopCall",
               "schedule", "execute", "shutdown"}
RunPcs     == {"begin", "openUsb", "opened", "useFd", "openCore", "tune",
               "loop", "read", "reading", "ending", "selfStop", "finish"}
ReaderPcs  == {"dead", "created", "queued", "handle", "schedule"} \cup RunPcs
RestartPcs == {"idle", "queued", "sleeping", "check", "startReader", "submit"}

TypeOK ==
  /\ running \in BOOLEAN /\ sdrRunning \in BOOLEAN /\ sdrStarting \in BOOLEAN
  /\ requestedSdrMode \in {"NONE", "NATIVE"}
  /\ nativeReader \in Readers \cup {NoReader}
  /\ stopSelfCalled \in BOOLEAN /\ poolShutdown \in BOOLEAN /\ crashed \in BOOLEAN
  /\ mainPc \in MainPcs
  /\ mainReader \in Readers \cup {NoReader}
  /\ mainThen \in {"idle", "schedule", "shutdown"}
  /\ ioQueue \in Seq(Readers \cup Restarts)
  /\ readerPc \in [Readers -> ReaderPcs]
  /\ readerRunning \in [Readers -> BOOLEAN]
  /\ exitCode \in [Readers -> ExitCodes]
  /\ connection \in [Readers -> {"null", "open"}]
  /\ timeouts \in [Readers -> Nat]
  /\ stopPc \in [Readers -> {"none", "claimed", "deviceClosed", "done"}]
  /\ stopper \in [Readers -> {"nobody", "service", "reader"}]
  /\ restartPc \in [Restarts -> RestartPcs]
  /\ restartReader \in [Restarts -> Readers \cup {NoReader}]
  /\ device \in Readers \cup {NoReader, ReaderGone}
  /\ deviceMutex \in Readers \cup {NoReader}

Init ==
  /\ running = FALSE /\ sdrRunning = FALSE /\ sdrStarting = FALSE
  /\ requestedSdrMode \in {"NONE", "NATIVE"}    \* the persisted preference
  /\ nativeReader = NoReader
  /\ stopSelfCalled = FALSE /\ poolShutdown = FALSE /\ crashed = FALSE
  /\ mainPc = "idle" /\ mainReader = NoReader /\ mainThen = "idle"
  /\ ioQueue = <<>>
  /\ readerPc = [r \in Readers |-> "dead"]
  /\ readerRunning = [r \in Readers |-> FALSE]
  /\ exitCode = [r \in Readers |-> "OK"]
  /\ connection = [r \in Readers |-> "null"]
  /\ timeouts = [r \in Readers |-> 0]
  /\ stopPc = [r \in Readers |-> "none"]
  /\ stopper = [r \in Readers |-> "nobody"]
  /\ restartPc = [t \in Restarts |-> "idle"]
  /\ restartReader = [t \in Restarts |-> NoReader]
  /\ device = NoReader /\ deviceMutex = NoReader

-----------------------------------------------------------------------------
(* Starting a reader: startNativeSdrReaderIfNeeded, run by the main thread  *)
(* or by a restart task.                                                    *)

\* An identity no thread refers to any more can stand for a new object.  A
\* descriptor its previous holder leaked is then no longer tracked.
Reusable(r) == readerPc[r] = "dead" /\ r # mainReader

\* The critical section once both flags are seen down: a new reader becomes current.
CreateReader(r) ==
  /\ Reusable(r)
  /\ sdrStarting' = TRUE
  /\ sdrRunning' = TRUE
  /\ nativeReader' = r
  /\ readerPc' = [readerPc EXCEPT ![r] = "created"]
  /\ readerRunning' = [readerRunning EXCEPT ![r] = TRUE]
  /\ exitCode' = [exitCode EXCEPT ![r] = "OK"]
  /\ connection' = [connection EXCEPT ![r] = "null"]
  /\ timeouts' = [timeouts EXCEPT ![r] = 0]
  /\ stopPc' = [stopPc EXCEPT ![r] = "none"]
  /\ stopper' = [stopper EXCEPT ![r] = "nobody"]
  /\ device' = IF device = r THEN ReaderGone ELSE device

\* Fault: only the short-lived "starting" flag is looked at.
AlreadyRunningIfStarting == sdrStarting

AlreadyRunning == sdrRunning \/ sdrStarting

\* io.execute(reader task); a pool that was shut down rejects it, and nobody
\* catches the RejectedExecutionException.
SubmitReader(r) ==
  \/ /\ ~poolShutdown
     /\ ioQueue' = Append(ioQueue, r)
     /\ readerPc' = [readerPc EXCEPT ![r] = "queued"]
     /\ UNCHANGED crashed
  \/ /\ poolShutdown
     /\ crashed' = TRUE
     /\ UNCHANGED <<ioQueue, readerPc>>

\* io.execute(delayed restart), rejected in the same way.
SubmitRestart ==
  \/ /\ ~poolShutdown
     /\ \E t \in Restarts :
          /\ restartPc[t] = "idle"
          /\ restartPc' = [restartPc EXCEPT ![t] = "queued"]
          /\ ioQueue' = Append(ioQueue, t)
     /\ UNCHANGED crashed
  \/ /\ poolShutdown
     /\ crashed' = TRUE
     /\ UNCHANGED <<restartPc, ioQueue>>

RestartWanted == requestedSdrMode = "NATIVE" /\ running

\* Fault: the test is dropped.
IsCurrentDropped(r) == TRUE

\* Fault: the test is inverted.
IsCurrentInverted(r) == nativeReader # r

\* The identity test of the finally block.
IsCurrent(r) == nativeReader = r

-----------------------------------------------------------------------------
(* Main thread: one handler at a time, each of them several steps long.    *)

\* Where each command goes once onStartCommand (or onTimeout) has set the flags.
FirstStep(c) ==
  CASE c = "start"         -> IF requestedSdrMode = "NATIVE" THEN "startReader" ELSE "idle"
    [] c = "startNative"   -> "startReader"
    [] c = "switchProfile" -> IF AlreadyRunning THEN "stopReader" ELSE "startReader"
    [] OTHER               -> "stopReader"

\* "startNative" stands for START_SDR and for START_NATIVE_SDR with an unchanged
\* profile, "switchProfile" for START_NATIVE_SDR with a changed one, "timeout"
\* for onTimeout.  Every intent but STOP starts the SBS server first.
Command(c) ==
  /\ c \in Commands
  /\ mainPc = "idle" /\ ~poolShutdown
  /\ running' = (c \notin {"stop", "timeout"})
  /\ requestedSdrMode' = CASE c \in {"startNative", "switchProfile"} -> "NATIVE"
                           [] c \in {"stopSdr", "stop"} -> "NONE"
                           [] OTHER -> requestedSdrMode
  /\ stopSelfCalled' = (stopSelfCalled \/ c \in {"stop", "timeout"})
  /\ mainPc' = FirstStep(c)
  /\ mainThen' = IF c = "switchProfile" THEN "schedule" ELSE "idle"
  /\ UNCHANGED <<sdrRunning, sdrStarting, nativeReader, poolShutdown, mainReader, ioQueue,
                 readerPc, fields, stops, restart, driver, crashed>>

\* onDestroy: stopBridge once more, then the pools are shut down.
Destroy ==
  /\ stopSelfCalled /\ ~poolShutdown
  /\ mainPc = "idle"
  /\ running' = FALSE
  /\ mainPc' = "stopReader"
  /\ mainThen' = "shutdown"
  /\ UNCHANGED <<requestedSdrMode, sdrRunning, sdrStarting, nativeReader, control, mainReader,
                 ioQueue, readerPc, fields, stops, restart, driver, crashed>>

MainStartReader ==
  /\ mainPc = "startReader"
  /\ \/ /\ AlreadyRunning
        /\ mainPc' = "idle"
        /\ UNCHANGED <<sdrRunning, sdrStarting, nativeReader, mainReader, readerPc, fields, stops,
                       device>>
     \/ /\ ~AlreadyRunning
        /\ \E r \in Readers : CreateReader(r) /\ mainReader' = r
        /\ mainPc' = "submit"
  /\ UNCHANGED <<running, requestedSdrMode, control, mainThen, ioQueue, restart, deviceMutex,
                 crashed>>

MainSubmit ==
  /\ mainPc = "submit"
  /\ SubmitReader(mainReader)
  /\ mainPc' = "idle"
  /\ mainReader' = NoReader
  /\ UNCHANGED <<service, control, mainThen, fields, stops, restart, driver>>

\* The critical section of stopSdrReader: the reader is no longer current.
MainStopReader ==
  /\ mainPc = "stopReader"
  /\ sdrRunning' = FALSE /\ sdrStarting' = FALSE
  /\ nativeReader' = NoReader
  /\ mainReader' = nativeReader
  /\ mainPc' = IF nativeReader = NoReader THEN mainThen ELSE "stopCall"
  /\ UNCHANGED <<running, requestedSdrMode, control, mainThen, ioQueue, readerPc, fields, stops,
                 restart, driver, crashed>>

\* nativeToStop.stop() returns: its body is over, or the reader took the CAS.
MainStopReturns ==
  /\ mainPc = "stopCall"
  /\ stopPc[mainReader] = "done" \/ stopper[mainReader] = "reader"
  /\ mainPc' = mainThen
  /\ mainReader' = NoReader
  /\ UNCHANGED <<service, control, mainThen, ioQueue, readerPc, fields, stops, restart, driver,
                 crashed>>

MainSchedule ==
  /\ mainPc = "schedule"
  /\ mainPc' = IF RestartWanted THEN "execute" ELSE "idle"
  /\ UNCHANGED <<service, control, mainReader, mainThen, ioQueue, readerPc, fields, stops,
                 restart, driver, crashed>>

MainExecute ==
  /\ mainPc = "execute"
  /\ SubmitRestart
  /\ mainPc' = "idle"
  /\ UNCHANGED <<service, control, mainReader, mainThen, readerPc, fields, stops, restartReader,
                 driver>>

\* io.shutdownNow(): queued tasks are dropped, sleeping restarts interrupted.
\* A reader's thread is interrupted too, but never looks at the interrupt.
MainShutdown ==
  /\ mainPc = "shutdown"
  /\ poolShutdown' = TRUE
  /\ ioQueue' = <<>>
  /\ readerPc' = [r \in Readers |-> IF readerPc[r] = "queued" THEN "dead" ELSE readerPc[r]]
  /\ restartPc' = [t \in Restarts |->
                     IF restartPc[t] \in {"queued", "sleeping"} THEN "idle" ELSE restartPc[t]]
  /\ mainPc' = "idle"
  /\ UNCHANGED <<service, stopSelfCalled, mainReader, mainThen, fields, stops, restartReader,
                 driver, crashed>>

\* The SBS server task ends (its port is taken, or it is a stale one): its
\* `finally` clears the flag the SDR supervisor also reads.
SbsServerEnds ==
  /\ "sbsServerEnds" \in Commands
  /\ running
  /\ running' = FALSE
  /\ UNCHANGED <<requestedSdrMode, sdrRunning, sdrStarting, nativeReader, control, main, ioQueue,
                 readerPc, fields, stops, restart, driver, crashed>>

-----------------------------------------------------------------------------
(* The io pool.                                                             *)

Busy == {r \in Readers : readerPc[r] \in RunPcs \cup {"handle", "schedule"}}
          \cup {t \in Restarts : restartPc[t] \notin {"idle", "queued"}}

RunTask ==
  /\ ioQueue # <<>>
  /\ Cardinality(Busy) < PoolSize
  /\ ioQueue' = Tail(ioQueue)
  /\ readerPc' = [r \in Readers |-> IF r = Head(ioQueue) THEN "begin" ELSE readerPc[r]]
  /\ restartPc' = [t \in Restarts |-> IF t = Head(ioQueue) THEN "sleeping" ELSE restartPc[t]]
  /\ UNCHANGED <<service, control, main, fields, stops, restartReader, driver, crashed>>

\* Thread.sleep returns.
RestartWakes(t) ==
  /\ restartPc[t] = "sleeping"
  /\ restartPc' = [restartPc EXCEPT ![t] = "check"]
  /\ UNCHANGED <<service, control, main, ioQueue, readerPc, fields, stops, restartReader, driver,
                 crashed>>

\* Fault: the sense of the flags is inverted.
RestartMayStartInverted == RestartWanted /\ AlreadyRunning

\* The second look at the request, under no lock.
RestartMayStart == RestartWanted /\ ~AlreadyRunning

RestartCheck(t) ==
  /\ restartPc[t] = "check"
  /\ restartPc' = [restartPc EXCEPT ![t] =
                     IF RestartMayStart THEN "startReader" ELSE "idle"]
  /\ UNCHANGED <<service, control, main, ioQueue, readerPc, fields, stops, restartReader, driver,
                 crashed>>

RestartStartReader(t) ==
  /\ restartPc[t] = "startReader"
  /\ \/ /\ AlreadyRunning
        /\ restartPc' = [restartPc EXCEPT ![t] = "idle"]
        /\ UNCHANGED <<sdrRunning, sdrStarting, nativeReader, readerPc, fields, stops, device,
                       restartReader>>
     \/ /\ ~AlreadyRunning
        /\ \E r \in Readers : /\ CreateReader(r)
                              /\ restartReader' = [restartReader EXCEPT ![t] = r]
        /\ restartPc' = [restartPc EXCEPT ![t] = "submit"]
  /\ UNCHANGED <<running, requestedSdrMode, control, main, ioQueue, deviceMutex, crashed>>

RestartSubmit(t) ==
  /\ restartPc[t] = "submit"
  /\ SubmitReader(restartReader[t])
  /\ restartPc' = [restartPc EXCEPT ![t] = "idle"]
  /\ restartReader' = [restartReader EXCEPT ![t] = NoReader]
  /\ UNCHANGED <<service, control, main, fields, stops, driver>>

-----------------------------------------------------------------------------
(* A reader's task: run() and the finally block around it.                  *)

\* Moves reader r from one position to another and leaves the rest of what a
\* reader's step may change to the caller.
Goto(r, from, to) ==
  /\ readerPc[r] = from
  /\ readerPc' = [readerPc EXCEPT ![r] = to]
  /\ UNCHANGED <<running, requestedSdrMode, control, main, stops, restartReader>>

Exit(r, code) == exitCode' = [exitCode EXCEPT ![r] = code]

\* Fault: the wrong flag is cleared.
ClearRunning == sdrRunning' = FALSE /\ UNCHANGED sdrStarting

\* The task's first statement, outside sdrLock and whoever is current by now.
ClearStarting == sdrStarting' = FALSE /\ UNCHANGED sdrRunning

ReaderBegin(r) ==
  /\ Goto(r, "begin", "openUsb")
  /\ ClearStarting
  /\ Exit(r, "OK")
  /\ UNCHANGED <<nativeReader, ioQueue, readerRunning, connection, timeouts,
                 restartPc, driver, crashed>>

\* Steps of run() that touch neither the service nor the pool.
InRun == UNCHANGED <<sdrRunning, sdrStarting, nativeReader, ioQueue, restartPc>>

\* Library, USB manager, device, permission, openDevice: the first one missing
\* decides the exit code, and none of these returns calls stop().
ReaderOpenUsb(r) ==
  /\ \/ /\ Goto(r, "openUsb", "finish")
        /\ \E code \in {"FAILED", "NO_DEVICE", "NO_PERMISSION"} : Exit(r, code)
        /\ UNCHANGED connection
     \/ /\ Goto(r, "openUsb", "opened")
        /\ connection' = [connection EXCEPT ![r] = "open"]
        /\ UNCHANGED exitCode
  /\ InRun /\ UNCHANGED <<readerRunning, timeouts, driver, crashed>>

\* `connection == null`: also what stop() left behind since the assignment.
ReaderCheckConnection(r) ==
  /\ \/ /\ connection[r] = "null"
        /\ Goto(r, "opened", "finish")
        /\ Exit(r, "FAILED")
     \/ /\ connection[r] = "open"
        /\ Goto(r, "opened", "useFd")
        /\ UNCHANGED exitCode
  /\ InRun /\ UNCHANGED <<readerRunning, connection, timeouts, driver, crashed>>

\* connection.getFileDescriptor() dereferences the field again; if stop() has
\* nulled it the NullPointerException leaves the pool task uncaught.
ReaderUseFd(r) ==
  /\ Goto(r, "useFd", "openCore")
  /\ crashed' = (connection[r] = "null")
  /\ InRun /\ UNCHANGED <<fields, driver>>

\* nativeOpenFromUsbFileDescriptor: whatever was open is closed first.  A
\* descriptor that stop() closed meanwhile cannot be opened.
ReaderOpenCore(r) ==
  /\ deviceMutex = NoReader
  /\ \/ /\ connection[r] = "open"
        /\ Goto(r, "openCore", "tune")
        /\ device' = r
        /\ UNCHANGED exitCode
     \/ /\ Goto(r, "openCore", "selfStop")
        /\ device' = NoReader
        /\ Exit(r, "CORE_OPEN_FAILED")
  /\ InRun /\ UNCHANGED <<readerRunning, connection, timeouts, deviceMutex, crashed>>

\* nativeTuneAdsb1090 acts on the process-wide handle, whoever opened it.
ReaderTune(r) ==
  /\ deviceMutex = NoReader
  /\ \/ /\ device # NoReader
        /\ Goto(r, "tune", "loop")
        /\ UNCHANGED exitCode
     \/ /\ Goto(r, "tune", "selfStop")
        /\ Exit(r, "FAILED")
  /\ InRun /\ UNCHANGED <<readerRunning, connection, timeouts, driver, crashed>>

ReaderLoop(r) ==
  /\ Goto(r, "loop", IF readerRunning[r] THEN "read" ELSE "ending")
  /\ InRun /\ UNCHANGED <<fields, driver, crashed>>

\* What a failed read does: a stopped reader keeps its exit code.
ReadFails(r) ==
  IF readerRunning[r] THEN Exit(r, "FAILED") ELSE UNCHANGED exitCode

\* nativeReadSamples takes device_mutex and keeps it during the transfer.
ReaderBeginRead(r) ==
  /\ deviceMutex = NoReader
  /\ \/ /\ device = NoReader
        /\ Goto(r, "read", "ending")
        /\ ReadFails(r)
        /\ UNCHANGED deviceMutex
     \/ /\ device # NoReader
        /\ Goto(r, "read", "reading")
        /\ deviceMutex' = r
        /\ UNCHANGED exitCode
  /\ InRun /\ UNCHANGED <<readerRunning, connection, timeouts, device, crashed>>

\* Fault: a path out of the read keeps the mutex.
UnlockForgotten == UNCHANGED deviceMutex

\* The lock_guard goes out of scope.
Unlock == deviceMutex' = NoReader

\* rtlsdr_read_sync returns samples, nothing, LIBUSB_TIMEOUT or another error.
ReaderEndRead(r) ==
  /\ Unlock
  /\ \/ /\ Goto(r, "reading", "loop")
        /\ timeouts' = [timeouts EXCEPT ![r] = 0]
        /\ UNCHANGED exitCode
     \/ /\ Goto(r, "reading", "loop")
        /\ UNCHANGED <<timeouts, exitCode>>
     \/ /\ timeouts[r] + 1 < MaxReadTimeouts
        /\ Goto(r, "reading", "loop")
        /\ timeouts' = [timeouts EXCEPT ![r] = @ + 1]
        /\ UNCHANGED exitCode
     \/ /\ timeouts[r] + 1 >= MaxReadTimeouts
        /\ Goto(r, "reading", "ending")
        /\ Exit(r, "FAILED")
        /\ UNCHANGED timeouts
     \/ /\ Goto(r, "reading", "ending")
        /\ ReadFails(r)
        /\ UNCHANGED timeouts
  /\ InRun /\ UNCHANGED <<readerRunning, connection, device, crashed>>

ReaderEnding(r) ==
  /\ Goto(r, "ending", "selfStop")
  /\ IF exitCode[r] = "OK" /\ ~readerRunning[r]
       THEN Exit(r, "STOPPED") ELSE UNCHANGED exitCode
  /\ InRun /\ UNCHANGED <<readerRunning, connection, timeouts, driver, crashed>>

\* The reader's own stop() returns: at once if the service has called it.
ReaderStopReturns(r) ==
  /\ stopPc[r] = "done" \/ stopper[r] = "service"
  /\ Goto(r, "selfStop", "finish")
  /\ InRun /\ UNCHANGED <<fields, driver, crashed>>

\* The critical section of the finally block.
ReaderFinish(r) ==
  /\ \/ /\ IsCurrent(r)
        /\ Goto(r, "finish", "handle")
        /\ sdrRunning' = FALSE /\ sdrStarting' = FALSE
        /\ nativeReader' = NoReader
     \/ /\ ~IsCurrent(r)
        /\ Goto(r, "finish", "dead")
        /\ UNCHANGED <<sdrRunning, sdrStarting, nativeReader>>
  /\ UNCHANGED <<ioQueue, restartPc, fields, driver, crashed>>

\* handleNativeReaderFinished, with the first check of the scheduling it calls.
ReaderHandle(r) ==
  /\ Goto(r, "handle", IF RestartWanted /\ exitCode[r] \notin {"NO_DEVICE", "NO_PERMISSION"}
                         THEN "schedule" ELSE "dead")
  /\ InRun /\ UNCHANGED <<fields, driver, crashed>>

ReaderSchedule(r) ==
  /\ Goto(r, "schedule", "dead")
  /\ SubmitRestart
  /\ UNCHANGED <<sdrRunning, sdrStarting, nativeReader, fields, driver>>

-----------------------------------------------------------------------------
(* The body of NativeAdsbReader.stop(), on whichever thread wins the CAS.   *)

\* Fault: the loop of run() is not told.
HaltForgotten(r) == UNCHANGED readerRunning

Halt(r) == readerRunning' = [readerRunning EXCEPT ![r] = FALSE]

\* The CAS, the exit code and `running = false`.
ClaimStop(r) ==
  /\ stopPc[r] = "none"
  /\ \/ /\ mainPc = "stopCall" /\ mainReader = r
        /\ stopper' = [stopper EXCEPT ![r] = "service"]
     \/ /\ readerPc[r] = "selfStop"
        /\ stopper' = [stopper EXCEPT ![r] = "reader"]
  /\ stopPc' = [stopPc EXCEPT ![r] = "claimed"]
  /\ exitCode' = [exitCode EXCEPT ![r] = IF @ = "OK" THEN "STOPPED" ELSE @]
  /\ Halt(r)
  /\ UNCHANGED <<service, control, main, ioQueue, readerPc, connection, timeouts, restart,
                 driver, crashed>>

\* NativeRtlSdrDriver.close(): it too acts on the process-wide handle.
StopClosesDevice(r) ==
  /\ stopPc[r] = "claimed"
  /\ deviceMutex = NoReader
  /\ device' = NoReader
  /\ stopPc' = [stopPc EXCEPT ![r] = "deviceClosed"]
  /\ UNCHANGED <<service, control, main, ioQueue, readerPc, fields, stopper, restart,
                 deviceMutex, crashed>>

\* Faults: the connection is not closed; or it is, and the field keeps it.
CloseConnectionForgotten(r) == UNCHANGED connection
CloseConnectionKept(r) == connection' = [connection EXCEPT ![r] = "closed"]

CloseConnection(r) == connection' = [connection EXCEPT ![r] = "null"]

StopClosesConnection(r) ==
  /\ stopPc[r] = "deviceClosed"
  /\ CloseConnection(r)
  /\ stopPc' = [stopPc EXCEPT ![r] = "done"]
  /\ UNCHANGED <<service, control, main, ioQueue, readerPc, readerRunning, exitCode, timeouts,
                 stopper, restart, driver, crashed>>

-----------------------------------------------------------------------------
MainStep == \/ MainStartReader \/ MainSubmit \/ MainStopReader \/ MainStopReturns
            \/ MainSchedule \/ MainExecute \/ MainShutdown

RestartStep(t) == \/ RestartWakes(t) \/ RestartCheck(t)
                  \/ RestartStartReader(t) \/ RestartSubmit(t)

ReaderStep(r) == \/ ReaderBegin(r) \/ ReaderOpenUsb(r) \/ ReaderCheckConnection(r)
                 \/ ReaderUseFd(r) \/ ReaderOpenCore(r) \/ ReaderTune(r) \/ ReaderLoop(r)
                 \/ ReaderBeginRead(r) \/ ReaderEndRead(r) \/ ReaderEnding(r)
                 \/ ReaderStopReturns(r) \/ ReaderFinish(r) \/ ReaderHandle(r)
                 \/ ReaderSchedule(r)

StopStep(r) == ClaimStop(r) \/ StopClosesDevice(r) \/ StopClosesConnection(r)

ServiceCommands == Commands \ {"sbsServerEnds"}

\* A crashed process takes no step.
InternalStep ==
  /\ ~crashed
  /\ \/ Destroy \/ MainStep \/ SbsServerEnds \/ RunTask
     \/ \E t \in Restarts : RestartStep(t)
     \/ \E r \in Readers : ReaderStep(r) \/ StopStep(r)

Next == InternalStep \/ (~crashed /\ \E c \in ServiceCommands : Command(c))

Spec == Init /\ [][Next]_vars

\* Android schedules every thread and a blocked one gets device_mutex in the
\* end; a transfer ends within its 1000 ms timeout and a sleep within its delay.
\* Fairness is strong because device_mutex is free only now and then, and because
\* a step that needs a free identity can be disabled for a while here, which no
\* `new` ever is in the code.  No command or server failure is owed by anyone.
Fairness ==
  /\ SF_vars(~crashed /\ MainStep)
  /\ WF_vars(~crashed /\ RunTask)
  /\ \A t \in Restarts : SF_vars(~crashed /\ RestartStep(t))
  /\ \A r \in Readers : SF_vars(~crashed /\ ReaderStep(r)) /\ SF_vars(~crashed /\ StopStep(r))

FairSpec == Spec /\ Fairness

-----------------------------------------------------------------------------
(* Properties.                                                              *)

\* A reader whose task has work left to do.
Live(r) == readerPc[r] \notin {"dead", "handle", "schedule"}

\* The lock-free readers of sdrRunning and sdrStarting (the restart's check, the
\* profile switch, the status broadcast) are never misled: sdrRunning is up exactly
\* while a reader is current, whatever order start, stop and finish come in.
FlagsMatchReader == /\ sdrRunning = (nativeReader # NoReader)
                    /\ sdrStarting => sdrRunning

\* The supervisor cannot wedge: as long as sdrRunning refuses new readers, the
\* current reader's task is still ahead of its finally block, which will clear it.
CurrentReaderIsLive ==
  nativeReader # NoReader /\ ~poolShutdown => Live(nativeReader)

\* No orphans: a live reader that is not the current one has been told to stop, or
\* the main thread is about to tell it; so one unstopped reader exists at most.
SupersededReaderIsStopping ==
  \A r \in Readers : Live(r) /\ r # nativeReader =>
    stopper[r] # "nobody" \/ (mainPc = "stopCall" /\ mainReader = r)

\* A reader the service has stopped never reaches handleNativeReaderFinished, and
\* one that does carries a failure or a wait: a stop by the user is never retried.
ServiceStopIsNeverRetried ==
  \A r \in Readers : readerPc[r] \in {"handle", "schedule"} =>
    stopper[r] # "service" /\ exitCode[r] \notin {"OK", "STOPPED"}

\* A reader that was not stopped by the service cleans up after itself: on every
\* path out of run() its USB connection and its native device are closed.
LeakOnlyAfterServiceStop ==
  \A r \in Readers : ~Live(r) /\ (connection[r] = "open" \/ device = r) =>
    stopper[r] = "service"

\* The current reader is never overwritten by another one: it is first given up,
\* in stopSdrReader or in its own finally block, both of which account for it.
NoReaderOverwritten ==
  [][nativeReader # NoReader => nativeReader' \in {nativeReader, NoReader}]_vars

\* The one-slot view of the supervisor.
Dismissed ==
  IF mainPc = "stopCall" /\ Live(mainReader) /\ stopper[mainReader] = "nobody"
  THEN mainReader ELSE NoReader

Slot == INSTANCE ReaderSlot WITH
  slot      <- nativeReader,
  live      <- {r \in Readers : Live(r)},
  told      <- {r \in Readers : Live(r) /\ stopper[r] # "nobody"},
  dismissed <- Dismissed,
  down      <- poolShutdown

\* Its locks, flags, stop() calls and restarts, in whatever order they come, show
\* nothing but the steps of a single slot.
ImplementsReaderSlot == Slot!Spec

\* A reader the main thread stops ends: in whatever state stop() found it, and
\* whoever else opens or closes the shared device.
StoppedReaderEnds ==
  \A r \in Readers : (mainPc = "stopCall" /\ mainReader = r) ~> (readerPc[r] = "dead" \/ crashed)

\* A lost SDR is retried: a scheduled restart gets a thread, wakes and starts a
\* reader, unless one runs already or the request has been withdrawn.
LostReaderIsRetried ==
  \A r \in Readers : readerPc[r] = "schedule" ~> (sdrRunning \/ ~RestartWanted \/ crashed)

\* Every handler of the main thread returns: stop() waits for one transfer at most.
HandlersReturn == mainPc # "idle" ~> (mainPc = "idle" \/ crashed)

-----------------------------------------------------------------------------
(* What the repository says of this code and the code does not keep.        *)

\* librtlsdr.c, where the register probe of rtlsdr_open_from_fd fails: "Fail cleanly
\* so Android can close the old descriptor and retry".  When the open has failed and
\* run() has ended, the reader's connection is closed.
FailedOpenReleasesDescriptor ==
  \A r \in Readers :
    readerPc[r] = "dead" /\ r # mainReader /\ exitCode[r] = "CORE_OPEN_FAILED" =>
      connection[r] = "null"

\* STOP_SDR reports "SDR READER STOPPED": once its handler has returned, and nobody
\* has asked for the SDR since, no reader is current.
StoppedSdrStaysStopped ==
  mainPc = "idle" /\ requestedSdrMode = "NONE" => nativeReader = NoReader

\* USB_DETACHED reports "WAIT DONGLE | READSB AUTO RESUME": pulling the dongle out
\* while a reader opens it leaves a process that can resume.
DetachIsSurvived == ~crashed

=============================================================================
