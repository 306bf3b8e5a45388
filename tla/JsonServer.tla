------------------------------ MODULE JsonServer ------------------------------
(***************************************************************************)
(* The aircraft JSON feed of BridgeService: the tasks that listen on port  *)
(* 5051, the bounded pool httpIo that answers requests, the reading of a   *)
(* request's header, and stopBridge and onDestroy on the main thread.      *)
(*                                                                         *)
(* A step is one access to a shared field, one call of the pool or one     *)
(* socket call.  The body served is AircraftStore's.  A socket that is     *)
(* bound but forgotten still accepts; accept() on a closed one throws.     *)
(***************************************************************************)
EXTENDS Integers, Sequences, FiniteSets

CONSTANTS
  Tasks,         \* server tasks, reused once over
  Connections,   \* accepted connections, reused once closed
  Stalling,      \* connections whose peer does not read the answer
  CoreThreads, MaxThreads,  \* of httpIo
  QueueSize,     \* of httpIo's ArrayBlockingQueue
  MaxRequest,    \* MAX_HTTP_REQUEST_BYTES
  None           \* Java null

ASSUME PoolAssumption ==
  /\ CoreThreads \in Nat \ {0} /\ MaxThreads \in Nat /\ CoreThreads <= MaxThreads
  /\ QueueSize \in Nat \ {0} /\ MaxRequest \in Nat \ {0}
ASSUME NamesAssumption ==
  /\ IsFiniteSet(Connections) /\ Stalling \subseteq Connections
  /\ None \notin Tasks \cup Connections \cup Nat

VARIABLES
  aircraftJsonRunning,  \* the flag stopBridge and every task share
  aircraftJsonSocket,   \* the task whose socket the field holds
  listening,            \* the task whose socket is bound and open
  mainPc, destroying,   \* main thread: position, onDestroy or not
  ioDown, httpDown,     \* shutdownNow has run on io, on httpIo
  taskPc, client,       \* each task: position, connection in its hands
  conn,                 \* each connection: where it is
  count,                \* bytes of its request read so far
  queue,                \* httpIo's queue
  threads               \* httpIo's threads

main  == <<mainPc, destroying, ioDown, httpDown>>
port  == <<aircraftJsonSocket, listening>>
task  == <<taskPc, client>>
pool  == <<conn, count, queue, threads>>
vars  == <<aircraftJsonRunning, port, main, task, pool>>

\* Connections a thread of the pool is working on.
Served == {c \in Connections : conn[c] \in {"reading", "answering"}}

TypeOK ==
  /\ aircraftJsonRunning \in BOOLEAN
  /\ aircraftJsonSocket \in Tasks \cup {None} /\ listening \in Tasks \cup {None}
  /\ mainPc \in {"idle", "closeSocket", "forgetSocket", "ioDown", "httpDown"}
  /\ destroying \in BOOLEAN /\ ioDown \in BOOLEAN /\ httpDown \in BOOLEAN
  /\ taskPc \in [Tasks -> {"dead", "queued", "bind", "publish", "loop", "accept", "submit",
                           "release", "lower"}]
  /\ client \in [Tasks -> Connections \cup {None}]
  /\ conn \in [Connections -> {"free", "accepted", "queued", "reading", "answering", "dropped"}]
  /\ count \in [Connections -> 0 .. MaxRequest]
  /\ queue \in Seq(Connections) /\ Len(queue) <= QueueSize
  /\ threads \in 0 .. MaxThreads

Init ==
  /\ aircraftJsonRunning = FALSE
  /\ aircraftJsonSocket = None /\ listening = None
  /\ mainPc = "idle" /\ destroying = FALSE /\ ioDown = FALSE /\ httpDown = FALSE
  /\ taskPc = [t \in Tasks |-> "dead"] /\ client = [t \in Tasks |-> None]
  /\ conn = [c \in Connections |-> "free"] /\ count = [c \in Connections |-> 0]
  /\ queue = <<>> /\ threads = 0

-----------------------------------------------------------------------------
(* Main thread. *)

\* startAircraftJsonServerIfNeeded, upon any intent but STOP
StartServer(t) ==
  /\ mainPc = "idle" /\ ~ioDown
  /\ ~aircraftJsonRunning
  /\ taskPc[t] = "dead"
  /\ aircraftJsonRunning' = TRUE
  /\ taskPc' = [taskPc EXCEPT ![t] = "queued"]
  /\ UNCHANGED <<port, main, client, pool>>

\* stopBridge, for STOP, onTimeout or onDestroy
StopBridge(destroy) ==
  /\ mainPc = "idle" /\ ~ioDown
  /\ aircraftJsonRunning' = FALSE
  /\ mainPc' = "closeSocket"
  /\ destroying' = destroy
  /\ UNCHANGED <<port, ioDown, httpDown, task, pool>>

MainClosesSocket ==
  /\ mainPc = "closeSocket"
  /\ listening' = IF listening = aircraftJsonSocket THEN None ELSE listening
  /\ mainPc' = "forgetSocket"
  /\ UNCHANGED <<aircraftJsonRunning, aircraftJsonSocket, destroying, ioDown, httpDown, task, pool>>

MainForgetsSocket ==
  /\ mainPc = "forgetSocket"
  /\ aircraftJsonSocket' = None
  /\ mainPc' = IF destroying THEN "ioDown" ELSE "idle"
  /\ UNCHANGED <<aircraftJsonRunning, listening, destroying, ioDown, httpDown, task, pool>>

MainShutsIo ==
  /\ mainPc = "ioDown"
  /\ ioDown' = TRUE
  /\ mainPc' = "httpDown"
  /\ taskPc' = [t \in Tasks |-> IF taskPc[t] = "queued" THEN "dead" ELSE taskPc[t]]
  /\ UNCHANGED <<aircraftJsonRunning, port, destroying, httpDown, client, pool>>

\* shutdownNow drops the queue; nobody closes the connections in it.
MainShutsHttpIo ==
  /\ mainPc = "httpDown"
  /\ httpDown' = TRUE
  /\ mainPc' = "idle"
  /\ conn' = [c \in Connections |-> IF conn[c] = "queued" THEN "dropped" ELSE conn[c]]
  /\ queue' = <<>>
  /\ UNCHANGED <<aircraftJsonRunning, port, destroying, ioDown, task, count, threads>>

-----------------------------------------------------------------------------
(* A server task. *)

Goto(t, from, to) ==
  /\ taskPc[t] = from
  /\ taskPc' = [taskPc EXCEPT ![t] = to]
  /\ UNCHANGED main

ServerBegins(t) ==
  /\ Goto(t, "queued", "bind")
  /\ UNCHANGED <<aircraftJsonRunning, port, client, pool>>

\* The port is free, or a task or another program has it.
ServerBinds(t) ==
  /\ \/ listening = None /\ listening' = t /\ Goto(t, "bind", "publish")
     \/ UNCHANGED listening /\ Goto(t, "bind", "lower")
  /\ UNCHANGED <<aircraftJsonRunning, aircraftJsonSocket, client, pool>>

ServerPublishes(t) ==
  /\ Goto(t, "publish", "loop")
  /\ aircraftJsonSocket' = t
  /\ UNCHANGED <<aircraftJsonRunning, listening, client, pool>>

\* Fault: the flag is not looked at.
AcceptsAlways == TRUE

\* while (aircraftJsonRunning)
Accepts == aircraftJsonRunning

ServerLoops(t) ==
  /\ Goto(t, "loop", IF Accepts THEN "accept" ELSE "release")
  /\ UNCHANGED <<aircraftJsonRunning, port, client, pool>>

ServerAccepts(t, c) ==
  /\ listening = t /\ conn[c] = "free"
  /\ Goto(t, "accept", "submit")
  /\ client' = [client EXCEPT ![t] = c]
  /\ conn' = [conn EXCEPT ![c] = "accepted"]
  /\ UNCHANGED <<aircraftJsonRunning, port, count, queue, threads>>

\* stopBridge has closed the socket; the loop goes on.
ServerAcceptFails(t) ==
  /\ listening # t
  /\ Goto(t, "accept", "loop")
  /\ UNCHANGED <<aircraftJsonRunning, port, client, pool>>

\* Fault: the second thread comes up before requests wait.
GrowsEagerly == threads < MaxThreads

\* Fault: a full queue does not bring up the second thread.
GrowsToCore == threads < CoreThreads

\* ThreadPoolExecutor.execute starts a thread for the first requests, and then
\* only when the queue is full.
Grows == threads < CoreThreads \/ (Len(queue) = QueueSize /\ threads < MaxThreads)

\* Fault: the queue has no limit.
QueuesAlways == threads >= CoreThreads

Queues == threads >= CoreThreads /\ Len(queue) < QueueSize

\* httpIo.execute, or what becomes of a connection it rejects.
ServerSubmits(t) ==
  LET c == client[t]
      Becomes(state) == conn' = [conn EXCEPT ![c] = state]
  IN  /\ Goto(t, "submit", "loop")
      /\ client' = [client EXCEPT ![t] = None]
      /\ \/ /\ ~httpDown /\ Grows
            /\ Becomes("reading") /\ threads' = threads + 1 /\ UNCHANGED queue
         \/ /\ ~httpDown /\ Queues
            /\ Becomes("queued") /\ queue' = Append(queue, c) /\ UNCHANGED threads
         \/ /\ httpDown \/ ~(Grows \/ Queues)
            /\ Becomes("free") /\ UNCHANGED <<queue, threads>>
      /\ UNCHANGED <<aircraftJsonRunning, port, count>>

\* The end of try-with-resources.
ServerReleases(t) ==
  /\ Goto(t, "release", "lower")
  /\ listening' = IF listening = t THEN None ELSE listening
  /\ UNCHANGED <<aircraftJsonRunning, aircraftJsonSocket, client, pool>>

\* Fault: there is no finally block.
ServerLowersNot(t) ==
  /\ Goto(t, "lower", "dead")
  /\ UNCHANGED <<aircraftJsonRunning, port, client, pool>>

\* The finally block, of whatever task.
ServerLowers(t) ==
  /\ Goto(t, "lower", "dead")
  /\ aircraftJsonRunning' = FALSE
  /\ UNCHANGED <<port, client, pool>>

-----------------------------------------------------------------------------
(* The threads of httpIo: handleAircraftJsonClient. *)

rest == <<aircraftJsonRunning, port, main, task>>

\* An idle thread takes the next request.
ThreadTakes ==
  /\ queue # <<>> /\ Cardinality(Served) < threads
  /\ conn' = [conn EXCEPT ![Head(queue)] = "reading"]
  /\ queue' = Tail(queue)
  /\ UNCHANGED <<rest, count, threads>>

\* An idle thread beyond the core goes after 30 s.
ThreadEnds ==
  /\ queue = <<>> /\ Cardinality(Served) < threads /\ CoreThreads < threads
  /\ threads' = threads - 1
  /\ UNCHANGED <<rest, conn, count, queue>>

\* A byte arrives within SoTimeout, and it is not the last of the header.
ReadsByte(c) ==
  /\ conn[c] = "reading" /\ count[c] < MaxRequest
  /\ count' = [count EXCEPT ![c] = @ + 1]
  /\ UNCHANGED <<rest, conn, queue, threads>>

\* The header is complete, or too long, or its end has come.
ReadsHeader(c) ==
  /\ conn[c] = "reading"
  /\ conn' = [conn EXCEPT ![c] = "answering"]
  /\ count' = [count EXCEPT ![c] = 0]
  /\ UNCHANGED <<rest, queue, threads>>

\* A read or a write throws, a read because of SoTimeout; or all is written.
Closes(c) ==
  /\ conn[c] \in {"reading", "answering"}
  /\ conn' = [conn EXCEPT ![c] = "free"]
  /\ count' = [count EXCEPT ![c] = 0]
  /\ UNCHANGED <<rest, queue, threads>>

TaskStep(t) ==
  \/ ServerBegins(t) \/ ServerBinds(t) \/ ServerPublishes(t) \/ ServerLoops(t)
  \/ (\E c \in Connections : ServerAccepts(t, c)) \/ ServerAcceptFails(t)
  \/ ServerSubmits(t) \/ ServerReleases(t) \/ ServerLowers(t)

Reads(c) == ReadsByte(c) \/ ReadsHeader(c) \/ (conn[c] = "reading" /\ Closes(c))
Writes(c) == conn[c] = "answering" /\ Closes(c)

MainStep == MainClosesSocket \/ MainForgetsSocket \/ MainShutsIo \/ MainShutsHttpIo

InternalStep ==
  \/ MainStep
  \/ \E t \in Tasks : TaskStep(t)
  \/ ThreadTakes \/ ThreadEnds
  \/ \E c \in Connections : Reads(c) \/ Writes(c)

Command == (\E t \in Tasks : StartServer(t)) \/ \E destroy \in BOOLEAN : StopBridge(destroy)

Next == Command \/ InternalStep

\* Threads run and clients go on asking.  A read ends within SoTimeout.  A
\* write ends only if the peer reads.
Fairness ==
  /\ WF_vars(MainStep)
  /\ \A t \in Tasks : WF_vars(TaskStep(t))
  /\ WF_vars(ThreadTakes)
  /\ \A c \in Connections : WF_vars(Reads(c))
  /\ \A c \in Connections \ Stalling : WF_vars(Writes(c))

Spec == Init /\ [][Next]_vars /\ Fairness

-----------------------------------------------------------------------------
(* Reading the header: readHttpRequestLine as a function of the bytes that  *)
(* arrive before the peer closes or the limit is reached.                   *)

Bytes == {"CR", "LF", "x"}

Advances == ({0, 2} \X {"CR"}) \cup ({1, 3} \X {"LF"})

\* Fault: a mismatch starts over even at CR.
MatchForgetful(match, b) ==
  IF <<match, b>> \in Advances THEN match + 1 ELSE 0

\* headerEndMatch after one more byte.
Match(match, b) ==
  IF <<match, b>> \in Advances THEN match + 1 ELSE IF b = "CR" THEN 1 ELSE 0

\* headerEndMatch after each number of bytes.
Matches(input) ==
  LET match[i \in 0 .. Len(input)] == IF i = 0 THEN 0 ELSE Match(match[i - 1], input[i])
  IN  match

\* The bytes consumed: up to the end of the header, the limit or the input.
Consumed(input, limit) ==
  LET match == Matches(input)
      ends  == {i \in 0 .. Len(input) : match[i] = 4 \/ i = limit \/ i = Len(input)}
      last  == CHOOSE i \in ends : \A j \in ends : i <= j
  IN  [length |-> last, complete |-> match[last] = 4]

\* The length of the request line, or None for a refused request.
RequestLine(input, limit) ==
  LET read  == Consumed(input, limit)
      crlfs == {i \in 1 .. read.length - 1 : input[i] = "CR" /\ input[i + 1] = "LF"}
  IN  IF (read.length = limit /\ ~read.complete) \/ crlfs = {} THEN None
      ELSE LET first == CHOOSE i \in crlfs : \A j \in crlfs : i <= j
           IN  IF first = 1 THEN None ELSE first - 1

-----------------------------------------------------------------------------
(* Properties. *)

\* Connections in the hands of a task, and those nobody will ever close.
Accepted  == {c \in Connections : conn[c] = "accepted"}
Forgotten == {c \in Connections : conn[c] = "dropped"}

\* The view its clients have of the service.
Pool == INSTANCE RequestPool WITH
  Requests  <- Connections,
  Servers   <- MaxThreads,
  Places    <- QueueSize,
  arrived   <- Accepted,
  waiting   <- queue,
  served    <- Served,
  forgotten <- Forgotten,
  down      <- httpDown

\* Its tasks, threads and queue, in whatever order their steps come, lose no
\* request, serve or keep none twice, refuse none too early and let none overtake
\* another that waits while there is room to wait.
ImplementsRequestPool == Pool!Spec

\* The flag and the port never outlive the tasks, also after quick stops and
\* starts: behind a flag that is up, which makes further starts do nothing, there
\* is a task that has not seen it down, and the port is held by a task that will
\* release it.
ServerIsThere ==
  /\ aircraftJsonRunning /\ ~ioDown => \E t \in Tasks : taskPc[t] \notin {"dead", "release"}
  /\ listening # None =>
       taskPc[listening] \in {"publish", "loop", "accept", "submit", "release"}

\* Every accepted request is answered or closed while the server listens, even
\* when one peer never reads its answer: the requests that pile up behind it
\* bring up the second thread.
EveryRequestEnds ==
  \A c \in Connections \ Stalling :
    conn[c] # "free" ~> (conn[c] = "free" \/ httpDown \/ listening = None)

\* When the server has been told to stop and is not started again, the port
\* becomes free for good, also where stopBridge has missed the socket: the next
\* connection ends the loop.
PortIsFreed == <>[](~aircraftJsonRunning) => <>[](listening = None)

\* The bytes are cut where the first empty line ends the header, and the request
\* line is what precedes the first line end.  Nothing longer than the limit is
\* answered.
CutRight(input, limit) ==
  LET n         == Len(input)
      EndsAt(i) == SubSeq(input, i - 3, i) = <<"CR", "LF", "CR", "LF">>
      ends      == {i \in 4 .. n : i <= limit /\ EndsAt(i)}
      header    == IF ends = {} THEN SubSeq(input, 1, n)
                   ELSE SubSeq(input, 1, CHOOSE i \in ends : \A j \in ends : i <= j)
      LineIs(k) == /\ SubSeq(header, k + 1, k + 2) = <<"CR", "LF">>
                   /\ \A j \in 0 .. k - 1 : SubSeq(header, j + 1, j + 2) # <<"CR", "LF">>
      line      == RequestLine(input, limit)
  IN  IF ends = {} /\ n >= limit THEN line = None
      ELSE IF line = None
           THEN \A k \in 1 .. Len(header) - 2 : ~LineIs(k)
           ELSE line >= 1 /\ LineIs(line)

\* Bytes that arrive in any order are cut right.  About the function alone, so
\* stated of the service before its first command.
HeaderCutRight ==
  (mainPc = "idle" /\ pool = <<[c \in Connections |-> "free"], count, <<>>, 0>>
   /\ taskPc = [t \in Tasks |-> "dead"] /\ ~aircraftJsonRunning /\ ~ioDown) =>
  \A limit \in 4 .. 6 : \A n \in 0 .. 7 : \A input \in [1 .. n -> Bytes] : CutRight(input, limit)

=============================================================================
