------------------------ MODULE SdrLifecycle_proofs ------------------------
(***************************************************************************)
(* Proofs about SdrLifecycle, for any number of readers, restarts and pool *)
(* threads and any set of commands.                                        *)
(***************************************************************************)
EXTENDS SdrLifecycle, TLAPS

\* A thread about to submit a reader task has one to submit.
SubmitterHasReader ==
  /\ mainPc = "submit" => mainReader \in Readers
  /\ \A t \in Restarts : restartPc[t] = "submit" => restartReader[t] \in Readers

TypeInv == TypeOK /\ SubmitterHasReader

\* A new service has every variable in its type.
LEMMA InitType == Init => TypeInv
<1> SUFFICES ASSUME Init PROVE TypeInv
  OBVIOUS
<1>1. ioQueue \in Seq(Readers \cup Restarts)
  BY DEF Init
<1>2. /\ readerPc \in [Readers -> ReaderPcs]
      /\ exitCode \in [Readers -> ExitCodes]
      /\ restartPc \in [Restarts -> RestartPcs]
  BY DEF Init, ReaderPcs, ExitCodes, RestartPcs
<1>3. SubmitterHasReader
  BY DEF Init, SubmitterHasReader
<1> QED
  BY <1>1, <1>2, <1>3 DEF Init, TypeInv, TypeOK, MainPcs

\* Creating a reader keeps the types of all it writes.
LEMMA CreateType ==
  ASSUME TypeOK, NEW r \in Readers, CreateReader(r)
  PROVE  /\ sdrRunning' \in BOOLEAN /\ sdrStarting' \in BOOLEAN
         /\ nativeReader' \in Readers
         /\ readerPc' \in [Readers -> ReaderPcs]
         /\ readerRunning' \in [Readers -> BOOLEAN]
         /\ exitCode' \in [Readers -> ExitCodes]
         /\ connection' \in [Readers -> {"null", "open"}]
         /\ timeouts' \in [Readers -> Nat]
         /\ stopPc' \in [Readers -> {"none", "claimed", "deviceClosed", "done"}]
         /\ stopper' \in [Readers -> {"nobody", "service", "reader"}]
         /\ device' \in Readers \cup {NoReader, ReaderGone}
<1>1. "created" \in ReaderPcs /\ "OK" \in ExitCodes
  BY DEF ReaderPcs, ExitCodes
<1> QED
  BY <1>1 DEF TypeOK, CreateReader

\* Submitting a task keeps the types of the queue and the positions.
LEMMA SubmitReaderType ==
  ASSUME TypeOK, NEW r \in Readers, SubmitReader(r)
  PROVE  /\ ioQueue' \in Seq(Readers \cup Restarts)
         /\ readerPc' \in [Readers -> ReaderPcs]
         /\ crashed' \in BOOLEAN
<1>1. "queued" \in ReaderPcs
  BY DEF ReaderPcs
<1>2. ioQueue' \in Seq(Readers \cup Restarts)
  <2>1. r \in Readers \cup Restarts
    OBVIOUS
  <2>2. ioQueue' \in {ioQueue, Append(ioQueue, r)}
    BY DEF SubmitReader
  <2>3. ioQueue \in Seq(Readers \cup Restarts)
    BY DEF TypeOK
  <2> QED
    BY <2>1, <2>2, <2>3
<1>3. readerPc' \in [Readers -> ReaderPcs]
  BY <1>1 DEF TypeOK, SubmitReader
<1>4. crashed' \in BOOLEAN
  BY DEF TypeOK, SubmitReader
<1> QED
  BY <1>2, <1>3, <1>4

\* So does submitting a restart.
LEMMA SubmitRestartType ==
  ASSUME TypeOK, SubmitRestart
  PROVE  /\ ioQueue' \in Seq(Readers \cup Restarts)
         /\ restartPc' \in [Restarts -> RestartPcs]
         /\ \A t \in Restarts : restartPc'[t] = "submit" => restartPc[t] = "submit"
         /\ crashed' \in BOOLEAN
<1>1. "queued" \in RestartPcs
  BY DEF RestartPcs
<1>2. CASE poolShutdown
  BY <1>2 DEF TypeOK, SubmitRestart
<1>3. CASE ~poolShutdown
  <2> PICK t \in Restarts : /\ restartPc' = [restartPc EXCEPT ![t] = "queued"]
                            /\ ioQueue' = Append(ioQueue, t)
    BY <1>3 DEF SubmitRestart
  <2>1. ioQueue' \in Seq(Readers \cup Restarts)
    <3>1. t \in Readers \cup Restarts
      OBVIOUS
    <3> QED
      BY <3>1 DEF TypeOK
  <2>2. crashed' \in BOOLEAN
    BY <1>3 DEF TypeOK, SubmitRestart
  <2> QED
    BY <1>1, <2>1, <2>2 DEF TypeOK
<1> QED
  BY <1>2, <1>3

\* A command moves the main thread only, and to one of its positions.
LEMMA CommandType ==
  ASSUME TypeInv, NEW c \in ServiceCommands, Command(c)
  PROVE  TypeInv'
BY DEF TypeInv, TypeOK, SubmitterHasReader, MainPcs, Command, FirstStep, AlreadyRunning,
   fields, stops, restart, driver

\* The rest of a handler of the main thread keeps the types.
LEMMA MainType ==
  ASSUME TypeInv, MainStep
  PROVE  TypeInv'
<1>1. CASE MainStartReader
  <2>1. CASE AlreadyRunning
    BY <1>1, <2>1 DEF TypeInv, TypeOK, SubmitterHasReader, MainPcs, MainStartReader,
       control, fields, stops, restart
  <2>2. CASE ~AlreadyRunning
    <3> PICK r \in Readers : CreateReader(r) /\ mainReader' = r
      BY <1>1, <2>2 DEF MainStartReader
    <3> QED
      BY <1>1, <2>2, CreateType DEF TypeInv, TypeOK, SubmitterHasReader, MainPcs, MainStartReader,
         control, restart
  <2> QED
    BY <2>1, <2>2
<1>2. CASE MainSubmit
  BY <1>2, SubmitReaderType DEF TypeInv, TypeOK, SubmitterHasReader, MainPcs, MainSubmit,
     service, control, fields, stops, restart, driver
<1>3. CASE MainStopReader
  BY <1>3 DEF TypeInv, TypeOK, SubmitterHasReader, MainPcs, MainStopReader,
     control, fields, stops, restart, driver
<1>4. CASE MainStopReturns
  BY <1>4 DEF TypeInv, TypeOK, SubmitterHasReader, MainPcs, MainStopReturns,
     service, control, fields, stops, restart, driver
<1>5. CASE MainSchedule
  BY <1>5 DEF TypeInv, TypeOK, SubmitterHasReader, MainPcs, MainSchedule,
     service, control, fields, stops, restart, driver
<1>6. CASE MainExecute
  BY <1>6, SubmitRestartType DEF TypeInv, TypeOK, SubmitterHasReader, MainPcs, MainExecute,
     service, control, fields, stops, driver
<1>7. CASE MainShutdown
  BY <1>7 DEF TypeInv, TypeOK, SubmitterHasReader, MainPcs, ReaderPcs, RestartPcs, MainShutdown,
     service, fields, stops, driver
<1> QED
  BY <1>1, <1>2, <1>3, <1>4, <1>5, <1>6, <1>7 DEF MainStep

\* A delayed restart keeps the types.
LEMMA RestartType ==
  ASSUME TypeInv, NEW t \in Restarts, RestartStep(t)
  PROVE  TypeInv'
<1>1. CASE RestartWakes(t)
  BY <1>1 DEF TypeInv, TypeOK, SubmitterHasReader, RestartPcs, RestartWakes,
     service, control, main, fields, stops, driver
<1>2. CASE RestartCheck(t)
  BY <1>2 DEF TypeInv, TypeOK, SubmitterHasReader, RestartPcs, RestartCheck,
     service, control, main, fields, stops, driver
<1>3. CASE RestartStartReader(t)
  <2>1. CASE AlreadyRunning
    <3>1. restartPc' = [restartPc EXCEPT ![t] = "idle"]
      BY <1>3, <2>1 DEF RestartStartReader
    <3>2. UNCHANGED <<service, control, main, ioQueue, readerPc, fields, stops, restartReader,
                      driver, crashed>>
      BY <1>3, <2>1 DEF RestartStartReader, service, driver
    <3> QED
      BY <3>1, <3>2 DEF TypeInv, TypeOK, SubmitterHasReader, RestartPcs, service, control, main,
         fields, stops, driver
  <2>2. CASE ~AlreadyRunning
    <3> PICK r \in Readers : CreateReader(r) /\ restartReader' = [restartReader EXCEPT ![t] = r]
      BY <1>3, <2>2 DEF RestartStartReader
    <3>1. restartPc' = [restartPc EXCEPT ![t] = "submit"]
      BY <1>3, <2>2 DEF RestartStartReader
    <3>2. UNCHANGED <<running, requestedSdrMode, control, main, ioQueue, deviceMutex, crashed>>
      BY <1>3 DEF RestartStartReader
    <3> QED
      BY <3>1, <3>2, CreateType DEF TypeInv, TypeOK, SubmitterHasReader, RestartPcs, control, main
  <2> QED
    BY <2>1, <2>2
<1>4. CASE RestartSubmit(t)
  <2>1. restartReader[t] \in Readers
    BY <1>4 DEF TypeInv, SubmitterHasReader, RestartSubmit
  <2> QED
    BY <1>4, <2>1, SubmitReaderType DEF TypeInv, TypeOK, SubmitterHasReader, RestartPcs,
       RestartSubmit, service, control, main, fields, stops, driver
<1> QED
  BY <1>1, <1>2, <1>3, <1>4 DEF RestartStep

\* The start of a task, and the end of the SBS server task, keep the types.
LEMMA PoolType ==
  ASSUME TypeInv, RunTask \/ Destroy \/ SbsServerEnds
  PROVE  TypeInv'
<1>1. CASE RunTask
  <2>1. ioQueue' \in Seq(Readers \cup Restarts)
    BY <1>1 DEF TypeInv, TypeOK, RunTask
  <2>2. readerPc' \in [Readers -> ReaderPcs] /\ restartPc' \in [Restarts -> RestartPcs]
    BY <1>1 DEF TypeInv, TypeOK, RunTask, ReaderPcs, RunPcs, RestartPcs
  <2>3. SubmitterHasReader'
    BY <1>1 DEF TypeInv, SubmitterHasReader, RunTask, main
  <2> QED
    BY <1>1, <2>1, <2>2, <2>3 DEF TypeInv, TypeOK, RunTask,
       service, control, main, fields, stops, driver
<1>2. CASE Destroy
  BY <1>2 DEF TypeInv, TypeOK, SubmitterHasReader, MainPcs, Destroy, control, fields, stops,
     restart, driver
<1>3. CASE SbsServerEnds
  <2>1. running' \in BOOLEAN
    BY <1>3 DEF SbsServerEnds
  <2>2. UNCHANGED <<requestedSdrMode, sdrRunning, sdrStarting, nativeReader, control, main, ioQueue,
                    readerPc, fields, stops, restart, driver, crashed>>
    BY <1>3 DEF SbsServerEnds
  <2> QED
    BY <2>1, <2>2 DEF TypeInv, TypeOK, SubmitterHasReader, control, main, fields, stops,
       restart, driver
<1> QED
  BY <1>1, <1>2, <1>3

\* The positions and exit codes a reader's step assigns.
LEMMA Names ==
  /\ \A pc \in {"dead", "handle", "schedule", "begin", "openUsb", "opened", "useFd", "openCore",
               "tune", "loop", "read", "reading", "ending", "selfStop", "finish"} : pc \in ReaderPcs
  /\ \A code \in {"OK", "STOPPED", "FAILED", "CORE_OPEN_FAILED", "NO_DEVICE", "NO_PERMISSION"} :
       code \in ExitCodes
BY DEF ReaderPcs, RunPcs, ExitCodes

\* What Goto assigns has its type when the target is a position.
LEMMA GotoType ==
  ASSUME TypeInv, NEW r \in Readers, NEW from, NEW to \in ReaderPcs, Goto(r, from, to)
  PROVE  /\ readerPc' \in [Readers -> ReaderPcs]
         /\ running' \in BOOLEAN /\ requestedSdrMode' \in {"NONE", "NATIVE"}
         /\ stopSelfCalled' \in BOOLEAN /\ poolShutdown' \in BOOLEAN
         /\ mainPc' \in MainPcs
         /\ mainReader' \in Readers \cup {NoReader}
         /\ mainThen' \in {"idle", "schedule", "shutdown"}
         /\ mainPc' = "submit" => mainReader' \in Readers
         /\ stopPc' \in [Readers -> {"none", "claimed", "deviceClosed", "done"}]
         /\ stopper' \in [Readers -> {"nobody", "service", "reader"}]
         /\ restartReader' \in [Restarts -> Readers \cup {NoReader}]
         /\ restartReader' = restartReader
BY DEF TypeInv, TypeOK, SubmitterHasReader, Goto, control, main, stops

\* A step of a reader's task keeps the types.
LEMMA ReaderType ==
  ASSUME TypeInv, NEW r \in Readers, ReaderStep(r)
  PROVE  TypeInv'
<1> USE Names, GotoType DEF TypeInv, TypeOK, SubmitterHasReader, Exit, InRun
<1>1. CASE ReaderBegin(r)
  BY <1>1 DEF ReaderBegin, ClearStarting, driver
<1>2. CASE ReaderOpenUsb(r)
  <2>1. exitCode' \in [Readers -> ExitCodes]
    <3>1. exitCode' = exitCode \/ \E code \in ExitCodes : exitCode' = [exitCode EXCEPT ![r] = code]
      BY <1>2 DEF ReaderOpenUsb
    <3>2. exitCode \in [Readers -> ExitCodes]
      OBVIOUS
    <3>3. \A code \in ExitCodes : [exitCode EXCEPT ![r] = code] \in [Readers -> ExitCodes]
      BY <3>2
    <3> QED
      BY <3>1, <3>2, <3>3
  <2>4. connection' \in [Readers -> {"null", "open"}]
    <3>1. connection' \in {connection, [connection EXCEPT ![r] = "open"]}
      BY <1>2 DEF ReaderOpenUsb
    <3>2. connection \in [Readers -> {"null", "open"}]
      OBVIOUS
    <3>3. [connection EXCEPT ![r] = "open"] \in [Readers -> {"null", "open"}]
      BY <3>2
    <3> QED
      BY <3>1, <3>2, <3>3
  <2>2. \E to \in ReaderPcs : Goto(r, "openUsb", to)
    BY <1>2 DEF ReaderOpenUsb
  <2>3. InRun /\ UNCHANGED <<readerRunning, timeouts, driver, crashed>>
    BY <1>2 DEF ReaderOpenUsb
  <2> QED
    BY <2>1, <2>2, <2>3, <2>4 DEF driver
<1>3. CASE ReaderCheckConnection(r)
  <2>1. exitCode' \in [Readers -> ExitCodes]
    BY <1>3 DEF ReaderCheckConnection
  <2>2. \E to \in ReaderPcs : Goto(r, "opened", to)
    BY <1>3 DEF ReaderCheckConnection
  <2>3. InRun /\ UNCHANGED <<readerRunning, connection, timeouts, driver, crashed>>
    BY <1>3 DEF ReaderCheckConnection
  <2> QED
    BY <2>1, <2>2, <2>3 DEF driver
<1>4. CASE ReaderUseFd(r)
  BY <1>4 DEF ReaderUseFd, fields, driver
<1>5. CASE ReaderOpenCore(r)
  <2>1. exitCode' \in [Readers -> ExitCodes]
    <3>1. exitCode' = exitCode \/ Exit(r, "CORE_OPEN_FAILED")
      BY <1>5 DEF ReaderOpenCore
    <3> QED
      BY <3>1
  <2>4. device' \in Readers \cup {NoReader, ReaderGone}
    BY <1>5 DEF ReaderOpenCore
  <2>2. \E to \in ReaderPcs : Goto(r, "openCore", to)
    BY <1>5 DEF ReaderOpenCore
  <2>3. InRun /\ UNCHANGED <<readerRunning, connection, timeouts, deviceMutex, crashed>>
    BY <1>5 DEF ReaderOpenCore
  <2> QED
    BY <2>1, <2>2, <2>3, <2>4
<1>6. CASE ReaderTune(r)
  <2>1. exitCode' \in [Readers -> ExitCodes]
    BY <1>6 DEF ReaderTune
  <2>2. \E to \in ReaderPcs : Goto(r, "tune", to)
    BY <1>6 DEF ReaderTune
  <2>3. InRun /\ UNCHANGED <<readerRunning, connection, timeouts, driver, crashed>>
    BY <1>6 DEF ReaderTune
  <2> QED
    BY <2>1, <2>2, <2>3 DEF driver
<1>7. CASE ReaderLoop(r)
  BY <1>7 DEF ReaderLoop, fields, driver
<1>8. CASE ReaderBeginRead(r)
  BY <1>8 DEF ReaderBeginRead, ReadFails
<1>9. CASE ReaderEndRead(r)
  <2>1. exitCode' \in [Readers -> ExitCodes]
    <3>1. exitCode' = exitCode \/ Exit(r, "FAILED")
      BY <1>9 DEF ReaderEndRead, ReadFails
    <3> QED
      BY <3>1
  <2>4. timeouts' \in [Readers -> Nat]
    <3>1. \E n \in Nat : timeouts' = timeouts \/ timeouts' = [timeouts EXCEPT ![r] = n]
      <4>1. timeouts[r] + 1 \in Nat
        OBVIOUS
      <4> QED
        BY <1>9, <4>1 DEF ReaderEndRead
    <3> QED
      BY <3>1
  <2>2. \E to \in ReaderPcs : Goto(r, "reading", to)
    BY <1>9 DEF ReaderEndRead
  <2>3. deviceMutex' = NoReader /\ InRun /\ UNCHANGED <<readerRunning, connection, device, crashed>>
    BY <1>9 DEF ReaderEndRead, Unlock
  <2> QED
    BY <2>1, <2>2, <2>3, <2>4
<1>10. CASE ReaderEnding(r)
  BY <1>10 DEF ReaderEnding, driver
<1>11. CASE ReaderStopReturns(r)
  BY <1>11 DEF ReaderStopReturns, fields, driver
<1>12. CASE ReaderFinish(r)
  BY <1>12 DEF ReaderFinish, fields, driver
<1>13. CASE ReaderHandle(r)
  BY <1>13 DEF ReaderHandle, fields, driver
<1>14. CASE ReaderSchedule(r)
  BY <1>14, SubmitRestartType DEF ReaderSchedule, fields, driver
<1> QED
  BY <1>1, <1>2, <1>3, <1>4, <1>5, <1>6, <1>7, <1>8, <1>9, <1>10, <1>11, <1>12, <1>13, <1>14
     DEF ReaderStep

\* A step inside a reader's stop() keeps the types.
LEMMA StopType ==
  ASSUME TypeInv, NEW r \in Readers, StopStep(r)
  PROVE  TypeInv'
<1> USE DEF TypeInv, TypeOK, SubmitterHasReader, service, control, main, restart
<1>1. CASE ClaimStop(r)
  <2>1. /\ stopPc' \in [Readers -> {"none", "claimed", "deviceClosed", "done"}]
        /\ stopper' \in [Readers -> {"nobody", "service", "reader"}]
    BY <1>1 DEF ClaimStop
  <2>2. exitCode' \in [Readers -> ExitCodes] /\ readerRunning' \in [Readers -> BOOLEAN]
    <3>1. \E code \in ExitCodes : exitCode' = [exitCode EXCEPT ![r] = code]
      <4>1. exitCode[r] \in ExitCodes /\ "STOPPED" \in ExitCodes
        BY Names
      <4> QED
        BY <1>1, <4>1 DEF ClaimStop
    <3>2. readerRunning' = [readerRunning EXCEPT ![r] = FALSE]
      BY <1>1 DEF ClaimStop, Halt
    <3> QED
      BY <3>1, <3>2
  <2>3. UNCHANGED <<service, control, main, ioQueue, readerPc, connection, timeouts, restart,
                    driver, crashed>>
    BY <1>1 DEF ClaimStop
  <2> QED
    BY <2>1, <2>2, <2>3 DEF driver
<1>2. CASE StopClosesDevice(r)
  BY <1>2 DEF StopClosesDevice, fields
<1>3. CASE StopClosesConnection(r)
  BY <1>3 DEF StopClosesConnection, CloseConnection, driver
<1> QED
  BY <1>1, <1>2, <1>3 DEF StopStep

\* So does a step that changes nothing.
LEMMA StutterType ==
  ASSUME TypeInv, UNCHANGED vars
  PROVE  TypeInv'
BY DEF TypeInv, TypeOK, SubmitterHasReader, vars, service, control, main, fields, stops, restart,
   driver

\* Every variable keeps its type, whatever the threads of the service do.
THEOREM TypeCorrect == Spec => []TypeOK
<1>1. ASSUME TypeInv, [Next]_vars PROVE TypeInv'
  BY <1>1, CommandType, MainType, RestartType, PoolType, ReaderType, StopType, StutterType
     DEF Next, InternalStep
<1>2. TypeInv => TypeOK
  BY DEF TypeInv
<1> QED
  BY InitType, <1>1, <1>2, PTL DEF Spec

=============================================================================
