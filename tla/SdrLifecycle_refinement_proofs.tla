-------------------- MODULE SdrLifecycle_refinement_proofs --------------------
(***************************************************************************)
(* SdrLifecycle implements ReaderSlot: each step of the supervisor is one  *)
(* step of the single slot or none.                                        *)
(***************************************************************************)
EXTENDS SdrLifecycle_safety_proofs

\* A reader has been told to stop exactly when its stop() has been entered.
ClaimInv == \A r \in Readers : stopPc[r] = "none" <=> stopper[r] = "nobody"

\* Both are set by the CAS and reset with the reader's identity.
LEMMA ClaimStep == TypeInv /\ ClaimInv /\ [Next]_vars => ClaimInv'
<1> SUFFICES ASSUME TypeInv, ClaimInv, [Next]_vars PROVE ClaimInv'
  OBVIOUS
<1>0. /\ stopPc \in [Readers -> {"none", "claimed", "deviceClosed", "done"}]
      /\ stopper \in [Readers -> {"nobody", "service", "reader"}]
  BY DEF TypeInv, TypeOK
<1>1. ASSUME UNCHANGED stops PROVE ClaimInv'
  BY <1>1 DEF ClaimInv, stops
<1>2. ASSUME NEW r \in Readers, CreateReader(r) PROVE ClaimInv'
  BY <1>0, <1>2 DEF ClaimInv, CreateReader
<1>3. ASSUME NEW r \in Readers, StopStep(r) PROVE ClaimInv'
  BY <1>0, <1>3 DEF ClaimInv, StopStep, ClaimStop, StopClosesDevice, StopClosesConnection
<1>4. CASE MainStep
  BY <1>4, <1>1, <1>2 DEF MainStep, MainStartReader, MainSubmit, MainStopReader, MainStopReturns,
     MainSchedule, MainExecute, MainShutdown
<1>5. CASE RunTask \/ Destroy \/ SbsServerEnds \/ \E c \in ServiceCommands : Command(c)
  BY <1>5, <1>1 DEF RunTask, Destroy, SbsServerEnds, Command
<1>6. CASE \E t \in Restarts : RestartStep(t)
  BY <1>6, <1>1, <1>2 DEF RestartStep, RestartWakes, RestartCheck, RestartStartReader, RestartSubmit
<1>7. ASSUME NEW r \in Readers, ReaderStep(r) PROVE ClaimInv'
  BY <1>7, <1>1 DEF ReaderStep, ReaderBegin, ReaderOpenUsb, ReaderCheckConnection, ReaderUseFd,
     ReaderOpenCore, ReaderTune, ReaderLoop, ReaderBeginRead, ReaderEndRead, ReaderEnding,
     ReaderStopReturns, ReaderFinish, ReaderHandle, ReaderSchedule, Goto
<1>8. CASE UNCHANGED vars
  BY <1>8, <1>1 DEF vars
<1> QED
  BY <1>3, <1>4, <1>5, <1>6, <1>7, <1>8 DEF Next, InternalStep

\* After onDestroy the main thread does nothing more; inside stop() it has a reader.
MainInv ==
  /\ poolShutdown => mainPc = "idle"
  /\ mainPc = "stopCall" => mainReader \in Readers

\* The last handler shuts the pool down; a stop is called of a reader only.
LEMMA MainInvStep == TypeInv /\ MainInv /\ [Next]_vars => MainInv'
<1> SUFFICES ASSUME TypeInv, MainInv, [Next]_vars PROVE MainInv'
  OBVIOUS
<1>0. nativeReader \in Readers \cup {NoReader} /\ mainThen \in {"idle", "schedule", "shutdown"}
  BY DEF TypeInv, TypeOK
<1>1. ASSUME UNCHANGED <<poolShutdown, mainPc, mainReader>> PROVE MainInv'
  BY <1>1 DEF MainInv
<1>2. CASE MainStep
  BY <1>0, <1>2 DEF MainInv, MainStep, MainStartReader, MainSubmit, MainStopReader, MainStopReturns,
     MainSchedule, MainExecute, MainShutdown, control
<1>3. CASE RunTask \/ SbsServerEnds
  BY <1>3, <1>1 DEF RunTask, SbsServerEnds, control, main
<1>4. CASE Destroy \/ \E c \in ServiceCommands : Command(c)
  BY <1>4 DEF MainInv, Destroy, Command, FirstStep, control
<1>5. CASE \E t \in Restarts : RestartStep(t)
  BY <1>5, <1>1 DEF RestartStep, RestartWakes, RestartCheck, RestartStartReader, RestartSubmit,
     control, main
<1>6. ASSUME NEW r \in Readers, ReaderStep(r) PROVE MainInv'
  BY <1>6, <1>1 DEF ReaderStep, ReaderBegin, ReaderOpenUsb, ReaderCheckConnection, ReaderUseFd,
     ReaderOpenCore, ReaderTune, ReaderLoop, ReaderBeginRead, ReaderEndRead, ReaderEnding,
     ReaderStopReturns, ReaderFinish, ReaderHandle, ReaderSchedule, Goto, control, main
<1>7. CASE \E r \in Readers : StopStep(r)
  BY <1>7, <1>1 DEF StopStep, ClaimStop, StopClosesDevice, StopClosesConnection, control, main
<1>8. CASE UNCHANGED vars
  BY <1>8, <1>1 DEF vars, control, main
<1> QED
  BY <1>2, <1>3, <1>4, <1>5, <1>6, <1>7, <1>8 DEF Next, InternalStep

-----------------------------------------------------------------------------
(* Kinds of steps, seen from the slot.                                     *)

\* Nothing the slot shows has changed.
LEMMA SlotSame ==
  ASSUME UNCHANGED <<nativeReader, poolShutdown, stopper>>,
         \A q \in Readers : Live(q)' <=> Live(q), Dismissed' = Dismissed
  PROVE  UNCHANGED Slot!vars
BY DEF Slot!vars

\* The main thread's stop goes on as before, or is not at a stop() call.
LEMMA DismissedSame ==
  ASSUME TypeInv, UNCHANGED stopper, \A q \in Readers : Live(q)' <=> Live(q),
         \/ UNCHANGED <<mainPc, mainReader>> /\ (mainPc = "stopCall" => mainReader \in Readers)
         \/ mainPc # "stopCall" /\ mainPc' # "stopCall"
  PROVE  Dismissed' = Dismissed
BY DEF Dismissed

\* A reader created is a reader taken into the slot.
LEMMA CreateTakes ==
  ASSUME TypeInv, FlagsMatchReader, ~AlreadyRunning, NEW r \in Readers, CreateReader(r),
         UNCHANGED poolShutdown, mainPc = "stopCall" => mainReader \in Readers,
         \/ UNCHANGED <<mainPc, mainReader>>
         \/ mainPc # "stopCall" /\ mainPc' # "stopCall"
  PROVE  Slot!Take(r)
<1>1. nativeReader = NoReader /\ nativeReader' = r /\ ~Live(r) /\ r # mainReader
  BY DEF FlagsMatchReader, AlreadyRunning, CreateReader, Reusable, Live
<1>2. Live(r)' /\ stopper'[r] = "nobody"
  BY DEF TypeInv, TypeOK, CreateReader, Live
<1>3. \A q \in Readers : q # r => (Live(q)' <=> Live(q)) /\ stopper'[q] = stopper[q]
  BY DEF TypeInv, TypeOK, CreateReader, Live
<1>4. Dismissed' = Dismissed
  BY <1>1, <1>3 DEF Dismissed
<1>5. {q \in Readers : Live(q)}' = {q \in Readers : Live(q)} \cup {r}
  BY <1>2, <1>3
<1>6. {q \in Readers : Live(q) /\ stopper[q] # "nobody"}' = {q \in Readers : Live(q) /\ stopper[q] # "nobody"}
  BY <1>1, <1>2, <1>3
<1> QED
  BY <1>1, <1>4, <1>5, <1>6 DEF Slot!Take

\* Submitting a reader leaves it live, as it leaves everybody else.
LEMMA SubmitSame ==
  ASSUME TypeInv, NEW r \in Readers, readerPc[r] = "created", SubmitReader(r),
         UNCHANGED <<nativeReader, poolShutdown, stopper>>,
         \/ UNCHANGED <<mainPc, mainReader>> /\ (mainPc = "stopCall" => mainReader \in Readers)
         \/ mainPc # "stopCall" /\ mainPc' # "stopCall"
  PROVE  UNCHANGED Slot!vars
<1>1. \A q \in Readers : Live(q)' <=> Live(q)
  BY DEF TypeInv, TypeOK, SubmitReader, Live
<1> QED
  BY <1>1, SlotSame, DismissedSame

\* The end of a reader's task is the end of the reader; no other step of it is seen.
LEMMA ReaderMaps ==
  ASSUME IInv, MainInv, NEW r \in Readers, ReaderStep(r)
  PROVE  Slot!End(r) \/ UNCHANGED Slot!vars
<1>0. TypeInv /\ readerPc \in [Readers -> ReaderPcs] /\ (mainPc = "stopCall" => mainReader \in Readers)
  BY DEF IInv, MainInv, TypeInv, TypeOK
<1>1. \A q \in Readers : q # r => (Live(q)' <=> Live(q))
  BY <1>0, ReaderStepKept DEF Kept, Live
<1>2. UNCHANGED <<poolShutdown, stopper, mainPc, mainReader>>
  BY DEF ReaderStep, ReaderBegin, ReaderOpenUsb, ReaderCheckConnection, ReaderUseFd,
     ReaderOpenCore, ReaderTune, ReaderLoop, ReaderBeginRead, ReaderEndRead, ReaderEnding,
     ReaderStopReturns, ReaderFinish, ReaderHandle, ReaderSchedule, Goto, control, main, stops
<1>3. CASE ReaderFinish(r)
  <2>1. Live(r) /\ ~Live(r)'
    BY <1>0, <1>3 DEF ReaderFinish, Goto, Live
  <2>2. nativeReader' = IF nativeReader = r THEN NoReader ELSE nativeReader
    BY <1>3 DEF ReaderFinish, IsCurrent
  <2>3. Dismissed' = IF Dismissed = r THEN NoReader ELSE Dismissed
    BY <1>0, <1>1, <1>2, <2>1, ReadersAssumption DEF Dismissed
  <2>4. {q \in Readers : Live(q)}' = {q \in Readers : Live(q)} \ {r}
    BY <1>1, <2>1
  <2>5. {q \in Readers : Live(q) /\ stopper[q] # "nobody"}'
          = {q \in Readers : Live(q) /\ stopper[q] # "nobody"} \ {r}
    BY <1>1, <1>2, <2>1
  <2> QED
    BY <1>2, <2>1, <2>2, <2>3, <2>4, <2>5 DEF Slot!End, Slot!Without
<1>4. CASE ~ReaderFinish(r)
  <2>1. Live(r)' <=> Live(r)
    <3> USE <1>0 DEF Goto, Live
    <3>1. CASE ReaderBegin(r) \/ ReaderOpenUsb(r) \/ ReaderCheckConnection(r) \/ ReaderUseFd(r)
      BY <3>1 DEF ReaderBegin, ReaderOpenUsb, ReaderCheckConnection, ReaderUseFd
    <3>2. CASE ReaderOpenCore(r) \/ ReaderTune(r) \/ ReaderLoop(r) \/ ReaderBeginRead(r)
      BY <3>2 DEF ReaderOpenCore, ReaderTune, ReaderLoop, ReaderBeginRead
    <3>3. CASE ReaderEndRead(r) \/ ReaderEnding(r) \/ ReaderStopReturns(r)
      BY <3>3 DEF ReaderEndRead, ReaderEnding, ReaderStopReturns
    <3>4. CASE ReaderHandle(r) \/ ReaderSchedule(r)
      BY <3>4 DEF ReaderHandle, ReaderSchedule
    <3> QED
      BY <1>4, <3>1, <3>2, <3>3, <3>4 DEF ReaderStep
  <2>2. UNCHANGED nativeReader
    BY <1>4 DEF ReaderStep, ReaderBegin, ReaderOpenUsb, ReaderCheckConnection, ReaderUseFd,
       ReaderOpenCore, ReaderTune, ReaderLoop, ReaderBeginRead, ReaderEndRead, ReaderEnding,
       ReaderStopReturns, ReaderHandle, ReaderSchedule, InRun
  <2> QED
    BY <1>0, <1>1, <1>2, <2>1, <2>2, SlotSame, DismissedSame
<1> QED
  BY <1>3, <1>4

\* Winning the CAS tells a reader, if it is still live.
LEMMA StopMaps ==
  ASSUME IInv, ClaimInv, MainInv, NEW r \in Readers, StopStep(r)
  PROVE  Slot!Tell(r) \/ UNCHANGED Slot!vars
<1>0. /\ TypeInv /\ (mainPc = "stopCall" => mainReader \in Readers)
      /\ stopper \in [Readers -> {"nobody", "service", "reader"}]
  BY DEF IInv, MainInv, TypeInv, TypeOK
<1>1. UNCHANGED <<nativeReader, poolShutdown, readerPc, mainPc, mainReader>>
  BY DEF StopStep, ClaimStop, StopClosesDevice, StopClosesConnection, service, control, main
<1>2. \A q \in Readers : Live(q)' <=> Live(q)
  BY <1>1 DEF Live
<1>3. CASE StopClosesDevice(r) \/ StopClosesConnection(r)
  <2>1. UNCHANGED stopper
    BY <1>3 DEF StopClosesDevice, StopClosesConnection
  <2> QED
    BY <1>0, <1>1, <1>2, <2>1, SlotSame, DismissedSame
<1>4. CASE ClaimStop(r)
  <2>1. stopper[r] = "nobody" /\ stopper'[r] # "nobody"
    BY <1>0, <1>4 DEF ClaimInv, ClaimStop
  <2>2. \A q \in Readers : q # r => stopper'[q] = stopper[q]
    BY <1>0, <1>4 DEF ClaimStop
  <2>3. Dismissed' = IF Dismissed = r THEN NoReader ELSE Dismissed
    BY <1>0, <1>1, <1>2, <2>1, <2>2, ReadersAssumption DEF Dismissed
  <2>4. {q \in Readers : Live(q)}' = {q \in Readers : Live(q)}
    BY <1>2
  <2>5. CASE Live(r)
    <3>1. r = nativeReader \/ r = Dismissed
      BY <2>1, <2>5 DEF IInv, ReaderInv, OwnerInv, Stopping, Dismissed
    <3>2. {q \in Readers : Live(q) /\ stopper[q] # "nobody"}'
            = {q \in Readers : Live(q) /\ stopper[q] # "nobody"} \cup {r}
      BY <1>2, <2>1, <2>2, <2>5
    <3> QED
      BY <1>1, <2>1, <2>3, <2>4, <2>5, <3>1, <3>2 DEF Slot!Tell, Slot!Without
  <2>6. CASE ~Live(r)
    <3>1. {q \in Readers : Live(q) /\ stopper[q] # "nobody"}'
            = {q \in Readers : Live(q) /\ stopper[q] # "nobody"}
      BY <1>2, <2>2, <2>6
    <3>2. Dismissed # r \/ Dismissed = NoReader
      BY <2>6 DEF Dismissed
    <3> QED
      BY <1>1, <2>3, <2>4, <3>1, <3>2 DEF Slot!vars
  <2> QED
    BY <2>5, <2>6
<1> QED
  BY <1>3, <1>4 DEF StopStep

\* The main thread creates, dismisses and shuts down; the rest is not seen.
LEMMA MainMaps ==
  ASSUME IInv, ClaimInv, MainInv, MainStep
  PROVE  [Slot!Next]_(Slot!vars)
<1>0. /\ TypeInv /\ FlagsMatchReader
      /\ mainThen \in {"idle", "schedule", "shutdown"}
      /\ nativeReader \in Readers \cup {NoReader}
      /\ mainPc = "stopCall" => mainReader \in Readers
  BY DEF IInv, MainInv, TypeInv, TypeOK
<1>1. CASE MainStartReader
  <2>1. CASE AlreadyRunning
    <3>1. /\ UNCHANGED <<nativeReader, poolShutdown, readerPc, stopper>>
          /\ mainPc = "startReader" /\ mainPc' = "idle"
      BY <1>1, <2>1 DEF MainStartReader, control, stops
    <3>2. \A q \in Readers : Live(q)' <=> Live(q)
      BY <3>1 DEF Live
    <3> QED
      BY <1>0, <3>1, <3>2, SlotSame, DismissedSame
  <2>2. CASE ~AlreadyRunning
    <3>1. PICK r \in Readers : CreateReader(r)
      BY <1>1, <2>2 DEF MainStartReader
    <3>2. Slot!Take(r)
      BY <1>0, <1>1, <2>2, <3>1, CreateTakes DEF MainStartReader, control
    <3> QED
      BY <3>2 DEF Slot!Next
  <2> QED
    BY <2>1, <2>2
<1>2. CASE MainSubmit
  <2>1. mainReader \in Readers /\ readerPc[mainReader] = "created"
    BY <1>2 DEF IInv, SubmitInv, MainSubmit
  <2>2. /\ UNCHANGED <<nativeReader, poolShutdown, stopper>>
        /\ mainPc = "submit" /\ mainPc' = "idle" /\ SubmitReader(mainReader)
    BY <1>2 DEF MainSubmit, service, control, stops
  <2> QED
    BY <1>0, <2>1, <2>2, SubmitSame
<1>3. CASE MainStopReader
  <2>1. /\ mainPc = "stopReader" /\ nativeReader' = NoReader /\ mainReader' = nativeReader
        /\ mainPc' = IF nativeReader = NoReader THEN mainThen ELSE "stopCall"
        /\ UNCHANGED <<readerPc, stopper, poolShutdown>>
    BY <1>3 DEF MainStopReader, control, stops
  <2>2. \A q : Live(q)' <=> Live(q)
    BY <2>1 DEF Live
  <2>3. Dismissed = NoReader
    BY <2>1 DEF Dismissed
  <2>4. /\ {q \in Readers : Live(q)}' = {q \in Readers : Live(q)}
        /\ {q \in Readers : Live(q) /\ stopper[q] # "nobody"}'
             = {q \in Readers : Live(q) /\ stopper[q] # "nobody"}
    BY <2>1, <2>2
  <2>5. CASE nativeReader = NoReader
    <3>1. Dismissed' = NoReader
      BY <1>0, <2>1, <2>5 DEF Dismissed
    <3> QED
      BY <2>1, <2>3, <2>4, <2>5, <3>1 DEF Slot!vars
  <2>6. CASE nativeReader # NoReader
    <3>1. nativeReader \in Readers
      BY <1>0, <2>6
    <3>2. Dismissed' = IF Live(nativeReader) /\ stopper[nativeReader] = "nobody"
                       THEN nativeReader ELSE NoReader
      BY <2>1, <2>2, <2>6 DEF Dismissed
    <3>3. Slot!Dismiss
      BY <2>1, <2>3, <2>4, <2>6, <3>1, <3>2 DEF Slot!Dismiss
    <3> QED
      BY <3>3 DEF Slot!Next
  <2> QED
    BY <2>5, <2>6
<1>4. CASE MainStopReturns
  <2>1. /\ UNCHANGED <<nativeReader, poolShutdown, readerPc, stopper>>
        /\ mainPc = "stopCall" /\ mainPc' = mainThen
        /\ stopPc[mainReader] = "done" \/ stopper[mainReader] = "reader"
    BY <1>4 DEF MainStopReturns, service, control, stops
  <2>2. stopper[mainReader] # "nobody"
    BY <1>0, <2>1 DEF ClaimInv
  <2>3. Dismissed = NoReader /\ Dismissed' = NoReader
    BY <1>0, <2>1, <2>2 DEF Dismissed
  <2>4. \A q \in Readers : Live(q)' <=> Live(q)
    BY <2>1 DEF Live
  <2> QED
    BY <2>1, <2>3, <2>4, SlotSame
<1>5. CASE MainSchedule \/ MainExecute
  <2>1. /\ UNCHANGED <<nativeReader, poolShutdown, readerPc, stopper>>
        /\ mainPc # "stopCall" /\ mainPc' # "stopCall"
    BY <1>5 DEF MainSchedule, MainExecute, service, control, stops
  <2>2. \A q \in Readers : Live(q)' <=> Live(q)
    BY <2>1 DEF Live
  <2> QED
    BY <1>0, <2>1, <2>2, SlotSame, DismissedSame
<1>6. CASE MainShutdown
  <2>1. /\ UNCHANGED <<nativeReader, stopper>> /\ poolShutdown' = TRUE
        /\ mainPc = "shutdown" /\ mainPc' = "idle"
        /\ readerPc' = [r \in Readers |-> IF readerPc[r] = "queued" THEN "dead" ELSE readerPc[r]]
    BY <1>6 DEF MainShutdown, service, stops
  <2>2. Dismissed = NoReader /\ Dismissed' = NoReader
    BY <2>1 DEF Dismissed
  <2>3. \A q \in Readers : Live(q)' => Live(q)
    BY <2>1 DEF Live
  <2>4. /\ {q \in Readers : Live(q)}' \in SUBSET {q \in Readers : Live(q)}
        /\ {q \in Readers : Live(q) /\ stopper[q] # "nobody"}'
             = {q \in Readers : Live(q) /\ stopper[q] # "nobody"} \cap {q \in Readers : Live(q)}'
    BY <2>1, <2>3
  <2>5. ~poolShutdown
    BY <2>1 DEF MainInv
  <2>6. Slot!Shutdown
    BY <2>1, <2>2, <2>4, <2>5 DEF Slot!Shutdown
  <2> QED
    BY <2>6 DEF Slot!Next
<1> QED
  BY <1>1, <1>2, <1>3, <1>4, <1>5, <1>6 DEF MainStep

\* A restart creates; the rest of it is not seen.
LEMMA RestartMaps ==
  ASSUME IInv, MainInv, NEW t \in Restarts, RestartStep(t)
  PROVE  [Slot!Next]_(Slot!vars)
<1>0. TypeInv /\ FlagsMatchReader /\ (mainPc = "stopCall" => mainReader \in Readers)
  BY DEF IInv, MainInv, TypeInv, TypeOK
<1>1. ASSUME UNCHANGED <<nativeReader, poolShutdown, readerPc, stopper, mainPc, mainReader>>
      PROVE  UNCHANGED Slot!vars
  <2>1. \A q \in Readers : Live(q)' <=> Live(q)
    BY <1>1 DEF Live
  <2> QED
    BY <1>0, <1>1, <2>1, SlotSame, DismissedSame
<1>2. CASE RestartWakes(t) \/ RestartCheck(t)
  BY <1>1, <1>2 DEF RestartWakes, RestartCheck, service, control, main, stops
<1>3. CASE RestartStartReader(t)
  <2>1. CASE AlreadyRunning
    BY <1>1, <1>3, <2>1 DEF RestartStartReader, control, main, stops
  <2>2. CASE ~AlreadyRunning
    <3>1. PICK r \in Readers : CreateReader(r)
      BY <1>3, <2>2 DEF RestartStartReader
    <3>2. Slot!Take(r)
      BY <1>0, <1>3, <2>2, <3>1, CreateTakes DEF RestartStartReader, control, main
    <3> QED
      BY <3>2 DEF Slot!Next
  <2> QED
    BY <2>1, <2>2
<1>4. CASE RestartSubmit(t)
  <2>1. restartReader[t] \in Readers /\ readerPc[restartReader[t]] = "created"
    BY <1>4 DEF IInv, SubmitInv, RestartSubmit
  <2>2. /\ UNCHANGED <<nativeReader, poolShutdown, stopper, mainPc, mainReader>>
        /\ SubmitReader(restartReader[t])
    BY <1>4 DEF RestartSubmit, service, control, main, stops
  <2> QED
    BY <1>0, <2>1, <2>2, SubmitSame
<1> QED
  BY <1>2, <1>3, <1>4 DEF RestartStep

\* Commands, the pool and the SBS server are not seen.
LEMMA OtherMaps ==
  ASSUME IInv, MainInv, RunTask \/ Destroy \/ SbsServerEnds \/ \E c \in ServiceCommands : Command(c)
  PROVE  UNCHANGED Slot!vars
<1>0. TypeInv /\ (mainPc = "stopCall" => mainReader \in Readers)
  BY DEF IInv, MainInv, TypeInv, TypeOK
<1>1. CASE RunTask
  <2>1. /\ UNCHANGED <<nativeReader, poolShutdown, stopper, mainPc, mainReader>>
        /\ ioQueue # <<>>
        /\ readerPc' = [r \in Readers |-> IF r = Head(ioQueue) THEN "begin" ELSE readerPc[r]]
    BY <1>1 DEF RunTask, service, control, main, stops
  <2>2. 1 \in DOMAIN ioQueue /\ Head(ioQueue) = ioQueue[1]
    BY <2>1 DEF TypeInv, TypeOK, IInv
  <2>3. Head(ioQueue) \in Readers => readerPc[Head(ioQueue)] = "queued"
    BY <2>2 DEF IInv, QueueInv
  <2>4. \A q \in Readers : Live(q)' <=> Live(q)
    BY <2>1, <2>3 DEF Live
  <2> QED
    BY <1>0, <2>1, <2>4, SlotSame, DismissedSame
<1>2. CASE SbsServerEnds
  <2>1. UNCHANGED <<nativeReader, poolShutdown, readerPc, stopper, mainPc, mainReader>>
    BY <1>2 DEF SbsServerEnds, control, main, stops
  <2>2. \A q \in Readers : Live(q)' <=> Live(q)
    BY <2>1 DEF Live
  <2> QED
    BY <1>0, <2>1, <2>2, SlotSame, DismissedSame
<1>3. CASE Destroy \/ \E c \in ServiceCommands : Command(c)
  <2>1. /\ UNCHANGED <<nativeReader, poolShutdown, readerPc, stopper>>
        /\ mainPc # "stopCall" /\ mainPc' # "stopCall"
    BY <1>3 DEF Destroy, Command, FirstStep, control, stops
  <2>2. \A q \in Readers : Live(q)' <=> Live(q)
    BY <2>1 DEF Live
  <2> QED
    BY <1>0, <2>1, <2>2, SlotSame, DismissedSame
<1> QED
  BY <1>1, <1>2, <1>3

-----------------------------------------------------------------------------
\* Initially the slot is empty.
LEMMA InitMaps == Init => Slot!Init
<1> SUFFICES ASSUME Init PROVE Slot!Init
  OBVIOUS
<1>1. \A q \in Readers : ~Live(q)
  BY DEF Init, Live
<1>2. nativeReader = NoReader /\ poolShutdown = FALSE /\ Dismissed = NoReader
  BY DEF Init, Dismissed
<1> QED
  BY <1>1, <1>2 DEF Slot!Init

\* Every step is a step of the slot or shows nothing.
LEMMA StepMaps == IInv /\ ClaimInv /\ MainInv /\ [Next]_vars => [Slot!Next]_(Slot!vars)
<1> SUFFICES ASSUME IInv, ClaimInv, MainInv, [Next]_vars PROVE [Slot!Next]_(Slot!vars)
  OBVIOUS
<1>1. ASSUME NEW r \in Readers, ReaderStep(r) PROVE [Slot!Next]_(Slot!vars)
  BY <1>1, ReaderMaps DEF Slot!Next
<1>2. ASSUME NEW r \in Readers, StopStep(r) PROVE [Slot!Next]_(Slot!vars)
  BY <1>2, StopMaps DEF Slot!Next
<1>3. CASE UNCHANGED vars
  <2>1. UNCHANGED <<nativeReader, poolShutdown, readerPc, stopper, mainPc, mainReader>>
    BY <1>3 DEF vars, service, control, main, stops
  <2>2. \A q \in Readers : Live(q)' <=> Live(q)
    BY <2>1 DEF Live
  <2>3. TypeInv /\ (mainPc = "stopCall" => mainReader \in Readers)
    BY DEF IInv, MainInv, TypeInv, TypeOK
  <2> QED
    BY <2>1, <2>2, <2>3, SlotSame, DismissedSame
<1> QED
  BY <1>1, <1>2, <1>3, MainMaps, RestartMaps, OtherMaps DEF Next, InternalStep

\* The supervisor of BridgeService, for any number of readers, restarts and pool threads,
\* shows nothing but the steps of a single slot.
THEOREM SlotImplemented == Spec => ImplementsReaderSlot
<1>1. Init => ClaimInv /\ MainInv
  BY DEF Init, ClaimInv, MainInv
<1>2. IInv => TypeInv
  BY DEF IInv
<1> QED
  BY <1>1, <1>2, InitMaps, StepMaps, ClaimStep, MainInvStep, Invariance, PTL
     DEF Spec, ImplementsReaderSlot, Slot!Spec

=============================================================================
