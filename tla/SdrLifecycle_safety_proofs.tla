--------------------- MODULE SdrLifecycle_safety_proofs ---------------------
(***************************************************************************)
(* The safety properties of SdrLifecycle, proved from one inductive        *)
(* invariant.                                                              *)
(***************************************************************************)
EXTENDS SdrLifecycle_proofs

-----------------------------------------------------------------------------
(* The inductive invariant, in named parts.                                *)

\* The main thread is about to call stop() of reader r, or is inside it.
Stopping(r) == mainPc = "stopCall" /\ mainReader = r

\* A reader waits in the queue once, and only while its task has not begun.
QueueInv ==
  /\ \A i \in DOMAIN ioQueue : ioQueue[i] \in Readers => readerPc[ioQueue[i]] = "queued"
  /\ \A i, j \in DOMAIN ioQueue : ioQueue[i] \in Readers /\ ioQueue[i] = ioQueue[j] => i = j

\* Threads about to submit a reader have just created it, each its own.
SubmitInv ==
  /\ mainPc = "submit" => mainReader \in Readers /\ readerPc[mainReader] = "created"
  /\ \A t \in Restarts : restartPc[t] = "submit" =>
       /\ restartReader[t] \in Readers
       /\ readerPc[restartReader[t]] = "created"
       /\ mainPc = "submit" => restartReader[t] # mainReader
  /\ \A t, u \in Restarts : restartPc[t] = "submit" /\ restartPc[u] = "submit" /\
       restartReader[t] = restartReader[u] => t = u

\* Who owns a reader: the service while it is current, then whoever stops it.
OwnerInv(r) ==
  /\ Live(r) /\ r # nativeReader => stopper[r] # "nobody" \/ Stopping(r)
  /\ nativeReader = r => /\ stopper[r] # "service" /\ ~Stopping(r)
                         /\ readerPc[r] \notin {"handle", "schedule"}
  /\ Stopping(r) => readerPc[r] \notin {"handle", "schedule"}

\* How far stop() may have come, and at which positions of run().
StopInv(r) ==
  /\ stopPc[r] # "none" => stopper[r] # "nobody"
  /\ stopper[r] = "reader" => readerPc[r] \in {"selfStop", "finish", "handle", "schedule", "dead"}
  /\ stopper[r] = "nobody" /\ readerPc[r] # "dead" => readerRunning[r]

\* The exit code of a reader that was not stopped says why it ended.
ExitInv(r) ==
  /\ nativeReader = r /\ readerPc[r] \in {"ending", "selfStop", "finish"} =>
       exitCode[r] \notin {"OK", "STOPPED"}
  /\ readerPc[r] \in {"handle", "schedule"} =>
       stopper[r] # "service" /\ exitCode[r] \notin {"OK", "STOPPED"}

\* Where run() is when the connection and the device are still, or again, closed.
UsbInv(r) ==
  /\ readerPc[r] \in {"created", "queued", "begin", "openUsb"} =>
       connection[r] = "null" /\ device # r
  /\ readerPc[r] \in {"opened", "useFd", "openCore"} => device # r
  /\ readerPc[r] \in {"finish", "handle", "schedule", "dead"} /\ stopper[r] # "service" =>
       connection[r] = "null" /\ device # r
  /\ stopper[r] = "reader" => /\ stopPc[r] \in {"deviceClosed", "done"} => device # r
                              /\ stopPc[r] = "done" => connection[r] = "null"

ReaderInv(r) == OwnerInv(r) /\ StopInv(r) /\ ExitInv(r) /\ UsbInv(r)

IInv == TypeInv /\ FlagsMatchReader /\ QueueInv /\ SubmitInv /\ \A r \in Readers : ReaderInv(r)

\* A new service has no reader, no task and nothing open.
LEMMA InitIInv == Init => IInv
<1> SUFFICES ASSUME Init PROVE IInv
  OBVIOUS
<1>1. TypeInv
  BY InitType
<1>2. FlagsMatchReader
  <2>1. sdrRunning = FALSE /\ sdrStarting = FALSE /\ nativeReader = NoReader
    BY DEF Init
  <2> QED
    BY <2>1 DEF FlagsMatchReader
<1>3. QueueInv /\ SubmitInv
  BY DEF Init, QueueInv, SubmitInv
<1>4. ASSUME NEW r \in Readers PROVE ReaderInv(r)
  BY ReadersAssumption DEF Init, ReaderInv, OwnerInv, StopInv, ExitInv, UsbInv, Live, Stopping
<1> QED
  BY <1>1, <1>2, <1>3, <1>4 DEF IInv

-----------------------------------------------------------------------------
(* What a step leaves alone.                                               *)

\* Nothing that ReaderInv(q) speaks of changes, except that the device may be lost.
Kept(q) ==
  /\ readerPc'[q] = readerPc[q]
  /\ readerRunning'[q] = readerRunning[q]
  /\ exitCode'[q] = exitCode[q]
  /\ connection'[q] = connection[q]
  /\ stopPc'[q] = stopPc[q]
  /\ stopper'[q] = stopper[q]
  /\ nativeReader' = q <=> nativeReader = q
  /\ Stopping(q)' <=> Stopping(q)
  /\ device' = q => device = q

\* The invariant of a reader depends on what Kept names and on nothing else.
LEMMA KeptInv ==
  ASSUME NEW q \in Readers, ReaderInv(q), Kept(q)
  PROVE  ReaderInv(q)'
<1>1. Live(q)' <=> Live(q)
  BY DEF Kept, Live
<1> QED
  BY <1>1 DEF Kept, ReaderInv, OwnerInv, StopInv, ExitInv, UsbInv

\* The queue is as it was, and so is every reader waiting in it.
LEMMA QueueKept ==
  ASSUME TypeInv, QueueInv, UNCHANGED ioQueue,
         \A q \in Readers : readerPc[q] = "queued" => readerPc'[q] = "queued"
  PROVE  QueueInv'
BY DEF QueueInv

\* Submitting a restart queues no reader.
LEMMA SubmitRestartQueue ==
  ASSUME TypeInv, QueueInv, SubmitRestart,
         \A q \in Readers : readerPc[q] = "queued" => readerPc'[q] = "queued"
  PROVE  QueueInv'
<1>1. CASE UNCHANGED ioQueue
  BY <1>1, QueueKept
<1>2. ASSUME NEW t \in Restarts, ioQueue' = Append(ioQueue, t)
      PROVE  QueueInv'
  <2>1. t \notin Readers
    BY ReadersAssumption
  <2>2. ioQueue \in Seq(Readers \cup Restarts)
    BY DEF TypeInv, TypeOK
  <2>3. \A i \in DOMAIN ioQueue' : (i \in DOMAIN ioQueue /\ ioQueue'[i] = ioQueue[i]) \/ ioQueue'[i] = t
    BY <1>2, <2>2
  <2> QED
    BY <2>1, <2>3 DEF QueueInv
<1> QED
  BY <1>1, <1>2 DEF SubmitRestart

\* Nobody starts a submission, and no reader about to be submitted moves.
LEMMA SubmitKept ==
  ASSUME SubmitInv, UNCHANGED <<restartReader, mainReader>>, mainPc' = "submit" => mainPc = "submit",
         \A t \in Restarts : restartPc'[t] = "submit" => restartPc[t] = "submit",
         \A q \in Readers : readerPc[q] = "created" => readerPc'[q] = "created"
  PROVE  SubmitInv'
BY DEF SubmitInv

-----------------------------------------------------------------------------
(* FlagsMatchReader.                                                       *)

\* Neither flag changes, nor does the current reader.
LEMMA FlagsKept ==
  ASSUME FlagsMatchReader, UNCHANGED <<sdrRunning, sdrStarting, nativeReader>>
  PROVE  FlagsMatchReader'
BY DEF FlagsMatchReader

\* The reader is given up: both flags down, no current reader.
LEMMA FlagsGivenUp ==
  ASSUME sdrRunning' = FALSE, sdrStarting' = FALSE, nativeReader' = NoReader
  PROVE  FlagsMatchReader'
BY DEF FlagsMatchReader

\* A new reader becomes current with both flags up.
LEMMA FlagsTaken ==
  ASSUME NEW r \in Readers, CreateReader(r)
  PROVE  FlagsMatchReader'
<1>1. sdrRunning' = TRUE /\ sdrStarting' = TRUE /\ nativeReader' = r
  BY DEF CreateReader
<1>2. r # NoReader
  BY ReadersAssumption
<1> QED
  BY <1>1, <1>2 DEF FlagsMatchReader

\* Its task has begun: sdrStarting alone goes down.
LEMMA FlagsStarted ==
  ASSUME FlagsMatchReader, sdrStarting' = FALSE, UNCHANGED <<sdrRunning, nativeReader>>
  PROVE  FlagsMatchReader'
BY DEF FlagsMatchReader

\* Every step is of one of these kinds.
LEMMA FlagsStep ==
  ASSUME FlagsMatchReader, [Next]_vars
  PROVE  FlagsMatchReader'
<1>1. ASSUME NEW c \in ServiceCommands, Command(c) PROVE FlagsMatchReader'
  BY <1>1, FlagsKept DEF Command
<1>2. CASE MainStep
  <2>1. CASE MainStartReader
    BY <2>1, FlagsKept, FlagsTaken DEF MainStartReader
  <2>2. CASE MainStopReader
    BY <2>2, FlagsGivenUp DEF MainStopReader
  <2>3. CASE MainSubmit \/ MainStopReturns \/ MainSchedule \/ MainExecute \/ MainShutdown
    BY <2>3, FlagsKept DEF MainSubmit, MainStopReturns, MainSchedule, MainExecute, MainShutdown,
       service
  <2> QED
    BY <1>2, <2>1, <2>2, <2>3 DEF MainStep
<1>3. CASE RunTask \/ Destroy \/ SbsServerEnds
  BY <1>3, FlagsKept DEF RunTask, Destroy, SbsServerEnds, service
<1>4. ASSUME NEW t \in Restarts, RestartStep(t) PROVE FlagsMatchReader'
  <2>1. CASE RestartStartReader(t)
    BY <2>1, FlagsKept, FlagsTaken DEF RestartStartReader
  <2>2. CASE RestartWakes(t) \/ RestartCheck(t) \/ RestartSubmit(t)
    BY <2>2, FlagsKept DEF RestartWakes, RestartCheck, RestartSubmit, service
  <2> QED
    BY <1>4, <2>1, <2>2 DEF RestartStep
<1>5. ASSUME NEW r \in Readers, ReaderStep(r) PROVE FlagsMatchReader'
  <2>1. CASE ReaderBegin(r)
    BY <2>1, FlagsStarted DEF ReaderBegin, ClearStarting
  <2>2. CASE ReaderFinish(r)
    BY <2>2, FlagsKept, FlagsGivenUp DEF ReaderFinish
  <2>3. CASE \/ ReaderOpenUsb(r) \/ ReaderCheckConnection(r) \/ ReaderUseFd(r) \/ ReaderOpenCore(r)
             \/ ReaderTune(r) \/ ReaderLoop(r) \/ ReaderBeginRead(r) \/ ReaderEndRead(r)
             \/ ReaderEnding(r) \/ ReaderStopReturns(r) \/ ReaderHandle(r)
    <3>1. InRun
      BY <2>3 DEF ReaderOpenUsb, ReaderCheckConnection, ReaderUseFd, ReaderOpenCore, ReaderTune,
         ReaderLoop, ReaderBeginRead, ReaderEndRead, ReaderEnding, ReaderStopReturns, ReaderHandle
    <3> QED
      BY <3>1, FlagsKept DEF InRun
  <2>4. CASE ReaderSchedule(r)
    BY <2>4, FlagsKept DEF ReaderSchedule
  <2> QED
    BY <1>5, <2>1, <2>2, <2>3, <2>4 DEF ReaderStep
<1>6. ASSUME NEW r \in Readers, StopStep(r) PROVE FlagsMatchReader'
  BY <1>6, FlagsKept DEF StopStep, ClaimStop, StopClosesDevice, StopClosesConnection, service
<1>7. CASE UNCHANGED vars
  BY <1>7, FlagsKept DEF vars, service
<1> QED
  BY <1>1, <1>2, <1>3, <1>4, <1>5, <1>6, <1>7 DEF Next, InternalStep

-----------------------------------------------------------------------------
(* A step of one reader or of its stop() leaves the other readers alone.   *)

\* A step of one reader's task, the USB driver included, keeps every other reader.
LEMMA ReaderStepKept ==
  ASSUME TypeInv, NEW r \in Readers, NEW q \in Readers, q # r, ReaderStep(r)
  PROVE  Kept(q)
<1>1. /\ readerPc \in [Readers -> ReaderPcs] /\ exitCode \in [Readers -> ExitCodes]
      /\ connection \in [Readers -> {"null", "open"}]
  BY DEF TypeInv, TypeOK
<1>2. NoReader # q
  BY ReadersAssumption
<1> USE <1>1, <1>2 DEF Kept, Stopping, Goto, Exit, main, stops, fields, driver, InRun
<1>3. CASE ReaderBegin(r)
  BY <1>3 DEF ReaderBegin, ClearStarting
<1>4. CASE ReaderOpenUsb(r)
  BY <1>4 DEF ReaderOpenUsb
<1>5. CASE ReaderCheckConnection(r)
  BY <1>5 DEF ReaderCheckConnection
<1>6. CASE ReaderUseFd(r)
  BY <1>6 DEF ReaderUseFd
<1>7. CASE ReaderOpenCore(r)
  BY <1>7 DEF ReaderOpenCore
<1>8. CASE ReaderTune(r)
  BY <1>8 DEF ReaderTune
<1>9. CASE ReaderLoop(r)
  BY <1>9 DEF ReaderLoop
<1>10. CASE ReaderBeginRead(r)
  BY <1>10 DEF ReaderBeginRead, ReadFails
<1>11. CASE ReaderEndRead(r)
  BY <1>11 DEF ReaderEndRead, ReadFails
<1>12. CASE ReaderEnding(r)
  BY <1>12 DEF ReaderEnding
<1>13. CASE ReaderStopReturns(r)
  BY <1>13 DEF ReaderStopReturns
<1>14. CASE ReaderFinish(r)
  BY <1>14 DEF ReaderFinish, IsCurrent
<1>15. CASE ReaderHandle(r)
  BY <1>15 DEF ReaderHandle
<1>16. CASE ReaderSchedule(r)
  BY <1>16 DEF ReaderSchedule
<1> QED
  BY <1>3, <1>4, <1>5, <1>6, <1>7, <1>8, <1>9, <1>10, <1>11, <1>12, <1>13, <1>14, <1>15, <1>16
     DEF ReaderStep

\* A step inside one reader's stop() keeps every other reader.
LEMMA StopStepKept ==
  ASSUME TypeInv, NEW r \in Readers, NEW q \in Readers, q # r, StopStep(r)
  PROVE  Kept(q)
<1>1. /\ readerRunning \in [Readers -> BOOLEAN] /\ exitCode \in [Readers -> ExitCodes]
      /\ connection \in [Readers -> {"null", "open"}]
      /\ stopPc \in [Readers -> {"none", "claimed", "deviceClosed", "done"}]
      /\ stopper \in [Readers -> {"nobody", "service", "reader"}]
  BY DEF TypeInv, TypeOK
<1>2. NoReader # q
  BY ReadersAssumption
<1> USE <1>1, <1>2 DEF Kept, Stopping, service, main, fields, driver
<1>3. CASE ClaimStop(r)
  BY <1>3 DEF ClaimStop, Halt
<1>4. CASE StopClosesDevice(r)
  BY <1>4 DEF StopClosesDevice
<1>5. CASE StopClosesConnection(r)
  BY <1>5 DEF StopClosesConnection, CloseConnection
<1> QED
  BY <1>3, <1>4, <1>5 DEF StopStep

-----------------------------------------------------------------------------
(* A step of a reader keeps the invariant of that reader.                  *)

\* Each position of a reader's task hands the invariant on to the next.
LEMMA ReaderStepOwn ==
  ASSUME TypeInv, NEW r \in Readers, ReaderInv(r), ReaderStep(r)
  PROVE  ReaderInv(r)'
<1>1. /\ readerPc \in [Readers -> ReaderPcs] /\ exitCode \in [Readers -> ExitCodes]
      /\ connection \in [Readers -> {"null", "open"}]
      /\ stopper[r] \in {"nobody", "service", "reader"}
  BY DEF TypeInv, TypeOK
<1>2. NoReader # r
  BY ReadersAssumption
<1> USE <1>1, <1>2 DEF ReaderInv, OwnerInv, StopInv, ExitInv, UsbInv, Live, Stopping,
        Goto, Exit, main, stops, fields, driver, InRun
<1>3. CASE ReaderBegin(r)
  BY <1>3 DEF ReaderBegin, ClearStarting
<1>4. CASE ReaderOpenUsb(r)
  BY <1>4 DEF ReaderOpenUsb
<1>5. CASE ReaderCheckConnection(r)
  BY <1>5 DEF ReaderCheckConnection
<1>6. CASE ReaderUseFd(r)
  BY <1>6 DEF ReaderUseFd
<1>7. CASE ReaderOpenCore(r)
  BY <1>7 DEF ReaderOpenCore
<1>8. CASE ReaderTune(r)
  BY <1>8 DEF ReaderTune
<1>9. CASE ReaderLoop(r)
  BY <1>9 DEF ReaderLoop
<1>10. CASE ReaderBeginRead(r)
  BY <1>10 DEF ReaderBeginRead, ReadFails
<1>11. CASE ReaderEndRead(r)
  BY <1>11 DEF ReaderEndRead, ReadFails
<1>12. CASE ReaderEnding(r)
  BY <1>12 DEF ReaderEnding
<1>13. CASE ReaderStopReturns(r)
  BY <1>13 DEF ReaderStopReturns
<1>14. CASE ReaderFinish(r)
  BY <1>14 DEF ReaderFinish, IsCurrent
<1>15. CASE ReaderHandle(r)
  BY <1>15 DEF ReaderHandle
<1>16. CASE ReaderSchedule(r)
  BY <1>16 DEF ReaderSchedule
<1> QED
  BY <1>3, <1>4, <1>5, <1>6, <1>7, <1>8, <1>9, <1>10, <1>11, <1>12, <1>13, <1>14, <1>15, <1>16
     DEF ReaderStep

\* So does each step of its stop().
LEMMA StopStepOwn ==
  ASSUME TypeInv, NEW r \in Readers, ReaderInv(r), StopStep(r)
  PROVE  ReaderInv(r)'
<1>1. /\ readerRunning \in [Readers -> BOOLEAN] /\ exitCode \in [Readers -> ExitCodes]
      /\ connection \in [Readers -> {"null", "open"}]
      /\ stopPc \in [Readers -> {"none", "claimed", "deviceClosed", "done"}]
      /\ stopper \in [Readers -> {"nobody", "service", "reader"}]
  BY DEF TypeInv, TypeOK
<1>2. NoReader # r
  BY ReadersAssumption
<1> USE <1>1, <1>2 DEF ReaderInv, OwnerInv, StopInv, ExitInv, UsbInv, Live, Stopping,
        service, main, fields, driver
<1>3. CASE ClaimStop(r)
  BY <1>3 DEF ClaimStop, Halt
<1>4. CASE StopClosesDevice(r)
  BY <1>4 DEF StopClosesDevice
<1>5. CASE StopClosesConnection(r)
  BY <1>5 DEF StopClosesConnection, CloseConnection
<1> QED
  BY <1>3, <1>4, <1>5 DEF StopStep

-----------------------------------------------------------------------------
(* Creating and submitting a reader, on the main thread or in a restart.   *)

\* A new reader satisfies the invariant, and the others keep it.
LEMMA CreateInv ==
  ASSUME TypeInv, FlagsMatchReader, ~AlreadyRunning, \A q \in Readers : ReaderInv(q),
         NEW r \in Readers, CreateReader(r),
         \A q \in Readers : (Stopping(q)' <=> Stopping(q)) /\ ~Stopping(r)
  PROVE  \A q \in Readers : ReaderInv(q)'
<1>1. nativeReader = NoReader
  BY DEF FlagsMatchReader, AlreadyRunning
<1>2. NoReader \notin Readers /\ ReaderGone \notin Readers
  BY ReadersAssumption
<1>3. ReaderInv(r)'
  <2>1. /\ readerPc'[r] = "created" /\ readerRunning'[r] = TRUE /\ connection'[r] = "null"
        /\ stopPc'[r] = "none" /\ stopper'[r] = "nobody" /\ nativeReader' = r /\ device' # r
    BY <1>2 DEF TypeInv, TypeOK, CreateReader
  <2> QED
    BY <2>1 DEF ReaderInv, OwnerInv, StopInv, ExitInv, UsbInv, Live
<1>4. ASSUME NEW q \in Readers, q # r PROVE ReaderInv(q)'
  <2>1. Kept(q)
    BY <1>1, <1>2, <1>4 DEF TypeInv, TypeOK, CreateReader, Kept
  <2> QED
    BY <2>1, KeptInv
<1> QED
  BY <1>3, <1>4

\* Only a dead reader moves, and it is neither queued nor about to be.
LEMMA CreateQueue ==
  ASSUME TypeInv, QueueInv, NEW r \in Readers, CreateReader(r), UNCHANGED ioQueue
  PROVE  QueueInv'
BY QueueKept DEF TypeInv, TypeOK, CreateReader, Reusable

\* Submitting a created reader puts it in the queue once.
LEMMA SubmitReaderQueue ==
  ASSUME TypeInv, QueueInv, NEW r \in Readers, readerPc[r] = "created", SubmitReader(r)
  PROVE  QueueInv'
<1>1. CASE poolShutdown
  BY <1>1, QueueKept DEF SubmitReader
<1>2. CASE ~poolShutdown
  <2>1. ioQueue' = Append(ioQueue, r) /\ readerPc' = [readerPc EXCEPT ![r] = "queued"]
    BY <1>2 DEF SubmitReader
  <2>2. readerPc \in [Readers -> ReaderPcs] /\ ioQueue \in Seq(Readers \cup Restarts)
    BY DEF TypeInv, TypeOK
  <2>3. /\ DOMAIN ioQueue' = DOMAIN ioQueue \cup {Len(ioQueue) + 1}
        /\ \A i \in DOMAIN ioQueue : ioQueue'[i] = ioQueue[i]
        /\ ioQueue'[Len(ioQueue) + 1] = r
    BY <2>1, <2>2
  <2>4. \A i \in DOMAIN ioQueue : ioQueue[i] # r
    BY DEF QueueInv
  <2>5. \A q \in Readers : readerPc[q] = "queued" \/ q = r => readerPc'[q] = "queued"
    BY <2>1, <2>2
  <2> QED
    BY <2>3, <2>4, <2>5 DEF QueueInv
<1> QED
  BY <1>1, <1>2

\* Submitting a reader keeps the invariant of all of them.
LEMMA SubmitReaderInv ==
  ASSUME TypeInv, \A q \in Readers : ReaderInv(q),
         NEW r \in Readers, readerPc[r] = "created", SubmitReader(r),
         UNCHANGED <<nativeReader, fields, stops, device>>,
         \A q \in Readers : Stopping(q)' <=> Stopping(q)
  PROVE  \A q \in Readers : ReaderInv(q)'
<1>1. readerPc \in [Readers -> ReaderPcs]
  BY DEF TypeInv, TypeOK
<1>2. readerPc' \in {readerPc, [readerPc EXCEPT ![r] = "queued"]}
  BY DEF SubmitReader
<1>3. ReaderInv(r)'
  <2>1. readerPc'[r] \in {"created", "queued"}
    BY <1>1, <1>2
  <2>2. Live(r)' /\ Live(r)
    BY <2>1 DEF Live
  <2> QED
    BY <2>1, <2>2 DEF ReaderInv, OwnerInv, StopInv, ExitInv, UsbInv, fields, stops
<1>4. ASSUME NEW q \in Readers, q # r PROVE ReaderInv(q)'
  <2>1. Kept(q)
    BY <1>1, <1>2, <1>4 DEF Kept, fields, stops
  <2> QED
    BY <2>1, KeptInv
<1> QED
  BY <1>3, <1>4

-----------------------------------------------------------------------------
(* Every step keeps the parts of the invariant beyond types and flags.     *)

Rest == QueueInv /\ SubmitInv /\ \A r \in Readers : ReaderInv(r)

\* A step that touches no reader, no submission and no queued task.
LEMMA RestKept ==
  ASSUME TypeInv, Rest, UNCHANGED <<nativeReader, ioQueue, readerPc, fields, stops, device, restartReader>>,
         \A t \in Restarts : restartPc'[t] = "submit" => restartPc[t] = "submit",
         \/ UNCHANGED <<mainPc, mainReader>>
         \/ mainPc \notin {"stopCall", "submit"} /\ mainPc' \notin {"stopCall", "submit"}
  PROVE  Rest'
<1>1. QueueInv'
  BY QueueKept DEF Rest
<1>2. SubmitInv'
  BY DEF Rest, SubmitInv
<1>3. ASSUME NEW q \in Readers PROVE ReaderInv(q)'
  <2>1. Kept(q)
    BY DEF Kept, Stopping, fields, stops
  <2> QED
    BY <2>1, KeptInv DEF Rest
<1> QED
  BY <1>1, <1>2, <1>3 DEF Rest

\* A command touches no reader.
LEMMA CommandRest ==
  ASSUME TypeInv, Rest, NEW c \in ServiceCommands, Command(c)
  PROVE  Rest'
<1>1. mainPc' \in {"idle", "startReader", "stopReader"}
  BY DEF Command, FirstStep
<1> QED
  BY <1>1, RestKept DEF Command, restart, driver

\* The handlers of the main thread keep the invariant of the readers, case by case.
LEMMA MainRest ==
  ASSUME IInv, MainStep
  PROVE  Rest'
<1> USE DEF IInv, Rest
<1>1. CASE MainStartReader
  <2>1. CASE AlreadyRunning
    <3>1. mainPc' = "idle" /\ mainPc = "startReader"
      BY <1>1, <2>1 DEF MainStartReader
    <3> QED
      BY <1>1, <2>1, <3>1, RestKept DEF MainStartReader, restart
  <2>2. CASE ~AlreadyRunning
    <3> PICK r \in Readers : CreateReader(r) /\ mainReader' = r
      BY <1>1, <2>2 DEF MainStartReader
    <3>1. /\ mainPc = "startReader" /\ mainPc' = "submit"
          /\ UNCHANGED <<ioQueue, restartPc, restartReader>>
      BY <1>1, <2>2 DEF MainStartReader, restart
    <3>2. QueueInv'
      BY <3>1, CreateQueue
    <3>3. SubmitInv'
      <4>1. readerPc[r] = "dead" /\ readerPc' = [readerPc EXCEPT ![r] = "created"]
        BY DEF CreateReader, Reusable
      <4> QED
        BY <3>1, <4>1 DEF SubmitInv, TypeInv, TypeOK
    <3>4. \A q \in Readers : (Stopping(q)' <=> Stopping(q)) /\ ~Stopping(r)
      BY <3>1 DEF Stopping
    <3> QED
      BY <2>2, <3>2, <3>3, <3>4, CreateInv
  <2> QED
    BY <2>1, <2>2
<1>2. CASE MainSubmit
  <2>1. /\ mainPc = "submit" /\ mainPc' = "idle" /\ mainReader' = NoReader
        /\ SubmitReader(mainReader)
        /\ UNCHANGED <<nativeReader, fields, stops, device, restartPc, restartReader>>
    BY <1>2 DEF MainSubmit, service, driver, restart
  <2>2. mainReader \in Readers /\ readerPc[mainReader] = "created"
    BY <2>1 DEF SubmitInv
  <2>3. QueueInv'
    BY <2>1, <2>2, SubmitReaderQueue
  <2>4. SubmitInv'
    <3>1. readerPc' \in {readerPc, [readerPc EXCEPT ![mainReader] = "queued"]}
      BY <2>1 DEF SubmitReader
    <3> QED
      BY <2>1, <2>2, <3>1 DEF SubmitInv, TypeInv, TypeOK
  <2>5. \A q \in Readers : Stopping(q)' <=> Stopping(q)
    BY <2>1 DEF Stopping
  <2> QED
    BY <2>1, <2>2, <2>3, <2>4, <2>5, SubmitReaderInv
<1>3. CASE MainStopReader
  <2>1. /\ mainPc = "stopReader" /\ mainReader' = nativeReader /\ nativeReader' = NoReader
        /\ mainPc' = IF nativeReader = NoReader THEN mainThen ELSE "stopCall"
        /\ UNCHANGED <<ioQueue, readerPc, fields, stops, restartPc, restartReader, device>>
    BY <1>3 DEF MainStopReader, restart, driver
  <2>2. mainPc' # "submit"
    BY <2>1 DEF TypeInv, TypeOK
  <2>3. QueueInv'
    BY <2>1, QueueKept
  <2>4. SubmitInv'
    BY <2>1, <2>2 DEF SubmitInv
  <2>5. ASSUME NEW q \in Readers PROVE ReaderInv(q)'
    <3>1. CASE q = nativeReader
      <4>1. Stopping(q)' /\ ~(nativeReader' = q) /\ Live(q)' = Live(q)
        BY <2>1, <3>1, ReadersAssumption DEF Stopping, Live
      <4> QED
        BY <2>1, <3>1, <4>1 DEF ReaderInv, OwnerInv, StopInv, ExitInv, UsbInv, fields, stops
    <3>2. CASE q # nativeReader
      <4>1. Kept(q)
        BY <2>1, <3>2, ReadersAssumption DEF Kept, Stopping, fields, stops
      <4> QED
        BY <4>1, KeptInv
    <3> QED
      BY <3>1, <3>2
  <2> QED
    BY <2>3, <2>4, <2>5
<1>4. CASE MainStopReturns
  <2>1. /\ mainPc = "stopCall" /\ mainPc' = mainThen
        /\ stopPc[mainReader] = "done" \/ stopper[mainReader] = "reader"
        /\ mainReader' = NoReader
        /\ UNCHANGED <<nativeReader, ioQueue, readerPc, fields, stops, restartPc, restartReader,
                       device>>
    BY <1>4 DEF MainStopReturns, service, restart, driver
  <2>2. mainPc' \notin {"submit", "stopCall"}
    BY <2>1 DEF TypeInv, TypeOK
  <2>3. QueueInv'
    BY <2>1, QueueKept
  <2>4. SubmitInv'
    BY <2>1, <2>2 DEF SubmitInv
  <2>5. ASSUME NEW q \in Readers PROVE ReaderInv(q)'
    <3>1. CASE Stopping(q)
      <4>1. ~Stopping(q)' /\ stopper[q] # "nobody" /\ Live(q)' = Live(q)
        BY <2>1, <2>2, <3>1 DEF Stopping, Live, ReaderInv, StopInv
      <4> QED
        BY <2>1, <3>1, <4>1 DEF ReaderInv, OwnerInv, StopInv, ExitInv, UsbInv, fields, stops
    <3>2. CASE ~Stopping(q)
      <4>1. Kept(q)
        BY <2>1, <2>2, <3>2 DEF Kept, Stopping, fields, stops
      <4> QED
        BY <4>1, KeptInv
    <3> QED
      BY <3>1, <3>2
  <2> QED
    BY <2>3, <2>4, <2>5
<1>5. CASE MainSchedule
  <2>1. mainPc = "schedule" /\ mainPc' \in {"execute", "idle"}
    BY <1>5 DEF MainSchedule
  <2> QED
    BY <1>5, <2>1, RestKept DEF MainSchedule, service, restart, driver
<1>6. CASE MainExecute
  <2>1. /\ mainPc = "execute" /\ mainPc' = "idle" /\ SubmitRestart
        /\ UNCHANGED <<nativeReader, mainReader, readerPc, fields, stops, restartReader, device>>
    BY <1>6 DEF MainExecute, service, driver
  <2>2. QueueInv'
    BY <2>1, SubmitRestartQueue
  <2>3. \A t \in Restarts : restartPc'[t] = "submit" => restartPc[t] = "submit"
    BY <2>1, SubmitRestartType DEF TypeInv
  <2>4. SubmitInv'
    BY <2>1, <2>3, SubmitKept
  <2>5. \A q \in Readers : ReaderInv(q)'
    BY <2>1, KeptInv DEF Kept, Stopping, fields, stops
  <2> QED
    BY <2>2, <2>4, <2>5
<1>7. CASE MainShutdown
  <2>1. /\ mainPc = "shutdown" /\ mainPc' = "idle" /\ ioQueue' = <<>>
        /\ readerPc' = [r \in Readers |-> IF readerPc[r] = "queued" THEN "dead" ELSE readerPc[r]]
        /\ UNCHANGED <<nativeReader, mainReader, fields, stops, restartReader, device>>
        /\ \A t \in Restarts : restartPc'[t] = "submit" => restartPc[t] = "submit"
    BY <1>7 DEF MainShutdown, service, driver
  <2>2. QueueInv'
    BY <2>1 DEF QueueInv
  <2>3. SubmitInv'
    BY <2>1, SubmitKept
  <2>4. ASSUME NEW q \in Readers PROVE ReaderInv(q)'
    <3>1. CASE readerPc[q] = "queued"
      <4>1. readerPc'[q] = "dead"
        BY <2>1, <3>1
      <4> QED
        BY <2>1, <3>1, <4>1 DEF ReaderInv, OwnerInv, StopInv, ExitInv, UsbInv, Live, Stopping,
           fields, stops
    <3>2. CASE readerPc[q] # "queued"
      <4>1. Kept(q)
        BY <2>1, <3>2 DEF Kept, Stopping, fields, stops
      <4> QED
        BY <4>1, KeptInv
    <3> QED
      BY <3>1, <3>2
  <2> QED
    BY <2>2, <2>3, <2>4
<1> QED
  BY <1>1, <1>2, <1>3, <1>4, <1>5, <1>6, <1>7 DEF MainStep

\* A delayed restart keeps it.
LEMMA RestartRest ==
  ASSUME IInv, NEW t \in Restarts, RestartStep(t)
  PROVE  Rest'
<1> USE DEF IInv, Rest
<1>1. CASE RestartWakes(t) \/ RestartCheck(t)
  <2>1. \A u \in Restarts : restartPc'[u] = "submit" => restartPc[u] = "submit"
    BY <1>1 DEF RestartWakes, RestartCheck, TypeInv, TypeOK
  <2> QED
    BY <1>1, <2>1, RestKept DEF RestartWakes, RestartCheck, service, main, driver
<1>2. CASE RestartStartReader(t)
  <2>1. CASE AlreadyRunning
    <3>1. /\ \A u \in Restarts : restartPc'[u] = "submit" => restartPc[u] = "submit"
          /\ UNCHANGED <<nativeReader, main, ioQueue, readerPc, fields, stops, device, restartReader>>
      BY <1>2, <2>1 DEF RestartStartReader, TypeInv, TypeOK
    <3> QED
      BY <3>1, RestKept DEF main
  <2>2. CASE ~AlreadyRunning
    <3> PICK r \in Readers : CreateReader(r) /\ restartReader' = [restartReader EXCEPT ![t] = r]
      BY <1>2, <2>2 DEF RestartStartReader
    <3>1. /\ restartPc[t] = "startReader" /\ restartPc' = [restartPc EXCEPT ![t] = "submit"]
          /\ UNCHANGED <<ioQueue, mainPc, mainReader>>
      BY <1>2, <2>2 DEF RestartStartReader, main
    <3>2. QueueInv'
      BY <3>1, CreateQueue
    <3>3. SubmitInv'
      <4>1. readerPc[r] = "dead" /\ readerPc' = [readerPc EXCEPT ![r] = "created"]
        BY DEF CreateReader, Reusable
      <4> QED
        BY <3>1, <4>1 DEF SubmitInv, TypeInv, TypeOK
    <3>4. \A q \in Readers : (Stopping(q)' <=> Stopping(q)) /\ ~Stopping(r)
      BY <3>1 DEF Stopping, CreateReader, Reusable
    <3> QED
      BY <2>2, <3>2, <3>3, <3>4, CreateInv
  <2> QED
    BY <2>1, <2>2
<1>3. CASE RestartSubmit(t)
  <2>1. /\ restartPc[t] = "submit" /\ restartPc' = [restartPc EXCEPT ![t] = "idle"]
        /\ restartReader' = [restartReader EXCEPT ![t] = NoReader]
        /\ SubmitReader(restartReader[t])
        /\ UNCHANGED <<nativeReader, mainPc, mainReader, fields, stops, device>>
    BY <1>3 DEF RestartSubmit, service, main, driver
  <2>2. restartReader[t] \in Readers /\ readerPc[restartReader[t]] = "created"
    BY <2>1 DEF SubmitInv
  <2>3. QueueInv'
    BY <2>1, <2>2, SubmitReaderQueue
  <2>4. SubmitInv'
    <3>1. readerPc' \in {readerPc, [readerPc EXCEPT ![restartReader[t]] = "queued"]}
      BY <2>1 DEF SubmitReader
    <3> QED
      BY <2>1, <2>2, <3>1 DEF SubmitInv, TypeInv, TypeOK
  <2>5. \A q \in Readers : Stopping(q)' <=> Stopping(q)
    BY <2>1 DEF Stopping
  <2> QED
    BY <2>1, <2>2, <2>3, <2>4, <2>5, SubmitReaderInv
<1> QED
  BY <1>1, <1>2, <1>3 DEF RestartStep

\* Starting a task keeps it: the head of the queue leaves, once.
LEMMA PoolRest ==
  ASSUME IInv, RunTask \/ Destroy \/ SbsServerEnds
  PROVE  Rest'
<1> USE DEF IInv, Rest
<1>1. CASE Destroy
  <2>1. mainPc = "idle" /\ mainPc' = "stopReader"
    BY <1>1 DEF Destroy
  <2> QED
    BY <1>1, <2>1, RestKept DEF Destroy, restart, driver
<1>2. CASE SbsServerEnds
  BY <1>2, RestKept DEF SbsServerEnds, main, restart, driver
<1>3. CASE RunTask
  <2> DEFINE h == Head(ioQueue)
  <2>1. /\ ioQueue # <<>> /\ ioQueue' = Tail(ioQueue)
        /\ readerPc' = [r \in Readers |-> IF r = h THEN "begin" ELSE readerPc[r]]
        /\ UNCHANGED <<nativeReader, mainPc, mainReader, fields, stops, restartReader, device>>
        /\ \A t \in Restarts : restartPc'[t] = "submit" => restartPc[t] = "submit"
    BY <1>3 DEF RunTask, service, main, driver
  <2>2. ioQueue \in Seq(Readers \cup Restarts)
    BY DEF TypeInv, TypeOK
  <2>3. 1 \in DOMAIN ioQueue /\ h = ioQueue[1]
    BY <2>1, <2>2
  <2>4. \A i \in DOMAIN ioQueue' : i + 1 \in DOMAIN ioQueue /\ ioQueue'[i] = ioQueue[i + 1]
                                 /\ i \in Nat \ {0}
    BY <2>1, <2>2
  <2>5. h \in Readers => readerPc[h] = "queued"
    BY <2>3 DEF QueueInv
  <2>6. QueueInv'
    <3>1. ASSUME NEW i \in DOMAIN ioQueue', ioQueue'[i] \in Readers
          PROVE  readerPc'[ioQueue'[i]] = "queued"
      <4>1. ioQueue[i + 1] # h
        BY <2>3, <2>4, <3>1 DEF QueueInv
      <4>2. readerPc[ioQueue[i + 1]] = "queued"
        BY <2>4, <3>1 DEF QueueInv
      <4> QED
        BY <2>1, <2>4, <3>1, <4>1, <4>2
    <3>2. ASSUME NEW i \in DOMAIN ioQueue', NEW j \in DOMAIN ioQueue',
                 ioQueue'[i] \in Readers, ioQueue'[i] = ioQueue'[j]
          PROVE  i = j
      <4>1. i + 1 = j + 1
        BY <2>4, <3>2 DEF QueueInv
      <4> QED
        BY <2>4, <4>1
    <3> QED
      BY <3>1, <3>2 DEF QueueInv
  <2>7. SubmitInv'
    <3>1. \A q \in Readers : readerPc[q] = "created" => readerPc'[q] = "created"
      BY <2>1, <2>5
    <3> QED
      BY <2>1, <3>1, SubmitKept
  <2>8. ASSUME NEW q \in Readers PROVE ReaderInv(q)'
    <3>1. CASE q = h
      <4>1. readerPc[q] = "queued" /\ readerPc'[q] = "begin"
        BY <2>1, <2>5, <3>1
      <4> QED
        BY <2>1, <4>1 DEF ReaderInv, OwnerInv, StopInv, ExitInv, UsbInv, Live, Stopping, fields, stops
    <3>2. CASE q # h
      <4>1. Kept(q)
        BY <2>1, <3>2 DEF Kept, Stopping, fields, stops
      <4> QED
        BY <4>1, KeptInv
    <3> QED
      BY <3>1, <3>2
  <2> QED
    BY <2>6, <2>7, <2>8
<1> QED
  BY <1>1, <1>2, <1>3

\* A step of a reader's task keeps it.
LEMMA ReaderRest ==
  ASSUME IInv, NEW r \in Readers, ReaderStep(r)
  PROVE  Rest'
<1> USE DEF IInv, Rest
<1>1. \A q \in Readers : ReaderInv(q)'
  BY ReaderStepOwn, ReaderStepKept, KeptInv
<1>2. \E from \in RunPcs \cup {"handle", "schedule"}, to \in ReaderPcs : Goto(r, from, to)
  BY Names DEF ReaderStep, ReaderBegin, ReaderOpenUsb, ReaderCheckConnection, ReaderUseFd,
     ReaderOpenCore, ReaderTune, ReaderLoop, ReaderBeginRead, ReaderEndRead, ReaderEnding,
     ReaderStopReturns, ReaderFinish, ReaderHandle, ReaderSchedule, RunPcs
<1>3. /\ UNCHANGED <<mainPc, mainReader, restartReader>>
      /\ \A q \in Readers : readerPc[q] \in {"queued", "created"} => readerPc'[q] = readerPc[q]
  BY <1>2 DEF Goto, main, RunPcs, TypeInv, TypeOK
<1>4. UNCHANGED <<ioQueue, restartPc>> \/ SubmitRestart
  BY DEF ReaderStep, ReaderBegin, ReaderOpenUsb, ReaderCheckConnection, ReaderUseFd,
     ReaderOpenCore, ReaderTune, ReaderLoop, ReaderBeginRead, ReaderEndRead, ReaderEnding,
     ReaderStopReturns, ReaderFinish, ReaderHandle, ReaderSchedule, InRun
<1>5. QueueInv'
  BY <1>3, <1>4, QueueKept, SubmitRestartQueue
<1>6. \A t \in Restarts : restartPc'[t] = "submit" => restartPc[t] = "submit"
  BY <1>4, SubmitRestartType DEF TypeInv
<1>7. SubmitInv'
  BY <1>3, <1>6, SubmitKept
<1> QED
  BY <1>1, <1>5, <1>7

\* A step inside stop() keeps it.
LEMMA StopRest ==
  ASSUME IInv, NEW r \in Readers, StopStep(r)
  PROVE  Rest'
<1> USE DEF IInv, Rest
<1>1. \A q \in Readers : ReaderInv(q)'
  BY StopStepOwn, StopStepKept, KeptInv
<1>2. UNCHANGED <<ioQueue, readerPc, mainPc, mainReader, restartPc, restartReader>>
  BY DEF StopStep, ClaimStop, StopClosesDevice, StopClosesConnection, main, restart
<1>3. QueueInv'
  BY <1>2, QueueKept
<1>4. SubmitInv'
  BY <1>2, SubmitKept
<1> QED
  BY <1>1, <1>3, <1>4

\* IInv is inductive.
LEMMA StepIInv == IInv /\ [Next]_vars => IInv'
<1> SUFFICES ASSUME IInv, [Next]_vars PROVE IInv'
  OBVIOUS
<1>1. TypeInv'
  BY CommandType, MainType, RestartType, PoolType, ReaderType, StopType, StutterType
     DEF IInv, Next, InternalStep
<1>2. FlagsMatchReader'
  BY FlagsStep DEF IInv
<1>3. Rest'
  <2>1. CASE UNCHANGED vars
    BY <2>1, RestKept DEF IInv, Rest, vars, service, main, restart, driver
  <2> QED
    BY <2>1, CommandRest, MainRest, RestartRest, PoolRest, ReaderRest, StopRest
       DEF IInv, Rest, Next, InternalStep
<1> QED
  BY <1>1, <1>2, <1>3 DEF IInv, Rest

\* The inductive invariant holds in every state of the service: who owns a reader, how far
\* its stop() is, why it ended and what it holds open, at each position of its task.
THEOREM Invariance == Spec => []IInv
BY InitIInv, StepIInv, PTL DEF Spec

-----------------------------------------------------------------------------
(* The safety properties.                                                  *)

\* sdrRunning is up exactly while a reader is current.
THEOREM FlagsCorrect == Spec => []FlagsMatchReader
<1>1. IInv => FlagsMatchReader
  BY DEF IInv
<1> QED
  BY <1>1, Invariance, PTL

\* At most one unstopped reader: every live reader is current or being stopped.
THEOREM NoOrphanReader == Spec => []SupersededReaderIsStopping
<1>1. IInv => SupersededReaderIsStopping
  BY DEF IInv, ReaderInv, OwnerInv, Stopping, SupersededReaderIsStopping
<1> QED
  BY <1>1, Invariance, PTL

\* The retry path is never taken for a reader the service has stopped.
THEOREM StopNeverRetried == Spec => []ServiceStopIsNeverRetried
<1>1. IInv => ServiceStopIsNeverRetried
  BY DEF IInv, ReaderInv, ExitInv, ServiceStopIsNeverRetried
<1> QED
  BY <1>1, Invariance, PTL

\* A reader the service did not stop leaves neither connection nor device open.
THEOREM NoOwnLeak == Spec => []LeakOnlyAfterServiceStop
<1>1. IInv => LeakOnlyAfterServiceStop
  BY DEF IInv, ReaderInv, UsbInv, Live, LeakOnlyAfterServiceStop
<1> QED
  BY <1>1, Invariance, PTL

-----------------------------------------------------------------------------
(* What a step may do to the current reader.                               *)

\* Only an absent reader is replaced.
LEMMA OneReaderAtATime ==
  ASSUME FlagsMatchReader, [Next]_vars, nativeReader # NoReader
  PROVE  nativeReader' \in {nativeReader, NoReader}
<1>1. AlreadyRunning
  BY DEF FlagsMatchReader, AlreadyRunning
<1>2. CASE MainStep
  BY <1>1, <1>2 DEF MainStep, MainStartReader, MainSubmit, MainStopReader, MainStopReturns, MainSchedule,
     MainExecute, MainShutdown, service
<1>3. CASE RunTask \/ Destroy \/ SbsServerEnds \/ \E c \in ServiceCommands : Command(c)
  BY <1>3 DEF RunTask, Destroy, SbsServerEnds, Command, service
<1>4. CASE \E t \in Restarts : RestartStep(t)
  BY <1>1, <1>4 DEF RestartStep, RestartWakes, RestartCheck, RestartStartReader, RestartSubmit, service
<1>5. ASSUME NEW r \in Readers, ReaderStep(r) PROVE nativeReader' \in {nativeReader, NoReader}
  BY <1>5 DEF ReaderStep, ReaderBegin, ReaderOpenUsb, ReaderCheckConnection, ReaderUseFd,
     ReaderOpenCore, ReaderTune, ReaderLoop, ReaderBeginRead, ReaderEndRead, ReaderEnding,
     ReaderStopReturns, ReaderFinish, ReaderHandle, ReaderSchedule, InRun
<1>6. CASE \E r \in Readers : StopStep(r)
  BY <1>6 DEF StopStep, ClaimStop, StopClosesDevice, StopClosesConnection, service
<1>7. CASE UNCHANGED vars
  BY <1>7 DEF vars, service
<1> QED
  BY <1>2, <1>3, <1>4, <1>5, <1>6, <1>7 DEF Next, InternalStep

\* No step puts a reader in the place of another one: it is given up first.
THEOREM ReaderNeverOverwritten == Spec => NoReaderOverwritten
<1>1. IInv /\ [Next]_vars => [nativeReader # NoReader => nativeReader' \in {nativeReader, NoReader}]_vars
  BY OneReaderAtATime DEF IInv
<1> QED
  BY <1>1, Invariance, PTL DEF Spec, NoReaderOverwritten

\* The reader stays in its task, or the pool is shut down for good.
LEMMA LiveKept ==
  ASSUME CurrentReaderIsLive, nativeReader' \in {nativeReader, NoReader},
         nativeReader' # NoReader => Live(nativeReader)' \/ ~Live(nativeReader),
         poolShutdown => poolShutdown'
  PROVE  CurrentReaderIsLive'
BY DEF CurrentReaderIsLive, Live

\* A reader just created is live.
LEMMA LiveCreated ==
  ASSUME TypeInv, NEW r \in Readers, CreateReader(r)
  PROVE  CurrentReaderIsLive'
BY DEF TypeInv, TypeOK, CreateReader, CurrentReaderIsLive, Live

\* Submitting a reader leaves the current one live.
LEMMA LiveSubmitted ==
  ASSUME TypeInv, CurrentReaderIsLive, NEW r \in Readers, SubmitReader(r),
         UNCHANGED <<nativeReader, poolShutdown>>
  PROVE  CurrentReaderIsLive'
<1>1. readerPc' \in {readerPc, [readerPc EXCEPT ![r] = "queued"]} /\ readerPc \in [Readers -> ReaderPcs]
  BY DEF SubmitReader, TypeInv, TypeOK
<1>2. nativeReader \in Readers \cup {NoReader}
  BY DEF TypeInv, TypeOK
<1>3. ASSUME nativeReader # NoReader, Live(nativeReader) PROVE Live(nativeReader)'
  BY <1>1, <1>2, <1>3 DEF Live
<1> QED
  BY <1>3, LiveKept

\* No step ends the current reader or makes a dead one current.
LEMMA LiveStep ==
  ASSUME IInv, CurrentReaderIsLive, [Next]_vars
  PROVE  CurrentReaderIsLive'
<1> USE DEF IInv
<1>0. nativeReader \in Readers \cup {NoReader} /\ readerPc \in [Readers -> ReaderPcs]
  BY DEF TypeInv, TypeOK
<1>1. ASSUME UNCHANGED <<nativeReader, readerPc>>, poolShutdown => poolShutdown'
      PROVE  CurrentReaderIsLive'
  BY <1>1, LiveKept DEF Live
<1>2. CASE MainStep
  <2>1. CASE MainStartReader
    BY <2>1, <1>1, LiveCreated DEF MainStartReader, control
  <2>2. CASE MainSubmit
    BY <2>2, LiveSubmitted DEF MainSubmit, SubmitInv, service, control
  <2>3. CASE MainStopReader
    BY <2>3 DEF MainStopReader, CurrentReaderIsLive
  <2>4. CASE MainStopReturns \/ MainSchedule \/ MainExecute
    BY <2>4, <1>1 DEF MainStopReturns, MainSchedule, MainExecute, service, control
  <2>5. CASE MainShutdown
    BY <2>5 DEF MainShutdown, CurrentReaderIsLive
  <2> QED
    BY <1>2, <2>1, <2>2, <2>3, <2>4, <2>5 DEF MainStep
<1>3. CASE Destroy \/ SbsServerEnds \/ \E c \in ServiceCommands : Command(c)
  BY <1>3, <1>1 DEF Destroy, SbsServerEnds, Command, control
<1>4. CASE RunTask
  <2>1. readerPc' = [r \in Readers |-> IF r = Head(ioQueue) THEN "begin" ELSE readerPc[r]]
    BY <1>4 DEF RunTask
  <2>2. UNCHANGED <<nativeReader, poolShutdown>>
    BY <1>4 DEF RunTask, service, control
  <2>3. ASSUME nativeReader # NoReader, Live(nativeReader) PROVE Live(nativeReader)'
    BY <1>0, <2>1, <2>2, <2>3 DEF Live
  <2> QED
    BY <2>2, <2>3, LiveKept
<1>5. ASSUME NEW t \in Restarts, RestartStep(t) PROVE CurrentReaderIsLive'
  <2>1. CASE RestartStartReader(t)
    BY <2>1, <1>1, LiveCreated DEF RestartStartReader, control
  <2>2. CASE RestartSubmit(t)
    BY <2>2, LiveSubmitted DEF RestartSubmit, SubmitInv, service, control
  <2>3. CASE RestartWakes(t) \/ RestartCheck(t)
    BY <2>3, <1>1 DEF RestartWakes, RestartCheck, service, control
  <2> QED
    BY <1>5, <2>1, <2>2, <2>3 DEF RestartStep
<1>6. ASSUME NEW r \in Readers, ReaderStep(r) PROVE CurrentReaderIsLive'
  <2>1. UNCHANGED poolShutdown
    BY <1>6 DEF ReaderStep, ReaderBegin, ReaderOpenUsb, ReaderCheckConnection, ReaderUseFd,
       ReaderOpenCore, ReaderTune, ReaderLoop, ReaderBeginRead, ReaderEndRead, ReaderEnding,
       ReaderStopReturns, ReaderFinish, ReaderHandle, ReaderSchedule, Goto, control
  <2>2. CASE nativeReader = NoReader
    <3>1. nativeReader' = NoReader
      BY <1>6, <2>2, ReadersAssumption DEF ReaderStep, ReaderBegin, ReaderOpenUsb, ReaderCheckConnection,
         ReaderUseFd, ReaderOpenCore, ReaderTune, ReaderLoop, ReaderBeginRead, ReaderEndRead,
         ReaderEnding, ReaderStopReturns, ReaderFinish, ReaderHandle, ReaderSchedule, InRun
    <3> QED
      BY <3>1 DEF CurrentReaderIsLive
  <2>3. CASE nativeReader # NoReader /\ nativeReader # r
    <3>1. nativeReader \in Readers
      BY <1>0, <2>3
    <3>2. Kept(nativeReader)
      BY <1>6, <2>3, <3>1, ReaderStepKept
    <3>3. UNCHANGED nativeReader
      BY <3>2 DEF Kept
    <3> QED
      BY <2>1, <3>2, <3>3, LiveKept DEF Kept, Live
  <2>4. CASE nativeReader = r
    <3>1. readerPc[r] \notin {"handle", "schedule"}
      BY <2>4 DEF ReaderInv, OwnerInv
    <3>2. nativeReader' \in {nativeReader, NoReader}
      BY <2>4, OneReaderAtATime, ReadersAssumption
    <3>3. nativeReader' = NoReader \/ Live(r)'
      <4> USE <1>0 DEF Goto, Live
      <4>1. CASE ReaderFinish(r)
        BY <4>1, <2>4 DEF ReaderFinish, IsCurrent
      <4>2. CASE ReaderBegin(r) \/ ReaderOpenUsb(r) \/ ReaderCheckConnection(r) \/ ReaderUseFd(r)
        BY <4>2 DEF ReaderBegin, ReaderOpenUsb, ReaderCheckConnection, ReaderUseFd
      <4>3. CASE ReaderOpenCore(r) \/ ReaderTune(r) \/ ReaderLoop(r) \/ ReaderBeginRead(r)
        BY <4>3 DEF ReaderOpenCore, ReaderTune, ReaderLoop, ReaderBeginRead
      <4>4. CASE ReaderEndRead(r) \/ ReaderEnding(r) \/ ReaderStopReturns(r)
        BY <4>4 DEF ReaderEndRead, ReaderEnding, ReaderStopReturns
      <4> QED
        BY <1>6, <3>1, <4>1, <4>2, <4>3, <4>4 DEF ReaderStep, ReaderHandle, ReaderSchedule
    <3> QED
      BY <2>1, <2>4, <3>2, <3>3, LiveKept
  <2> QED
    BY <2>2, <2>3, <2>4
<1>7. CASE \E r \in Readers : StopStep(r)
  BY <1>7, <1>1 DEF StopStep, ClaimStop, StopClosesDevice, StopClosesConnection, service, control
<1>8. CASE UNCHANGED vars
  BY <1>8, <1>1 DEF vars, service, control
<1> QED
  BY <1>2, <1>3, <1>4, <1>5, <1>6, <1>7, <1>8 DEF Next, InternalStep

\* The supervisor never wedges on a reader whose task is over.
THEOREM CurrentReaderLives == Spec => []CurrentReaderIsLive
<1>1. Init => CurrentReaderIsLive
  BY DEF Init, CurrentReaderIsLive
<1> QED
  BY <1>1, Invariance, LiveStep, PTL DEF Spec

=============================================================================
