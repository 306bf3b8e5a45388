---------------------------- MODULE JsonServer_proofs ----------------------------
(***************************************************************************)
(* Proofs about JsonServer, for pools, queues and sets of tasks and        *)
(* connections of any size.                                                *)
(***************************************************************************)
EXTENDS JsonServer, SequenceTheorems, FiniteSetTheorems, WellFoundedInduction, TLAPS

\* A task about to hand a connection to the pool has one.
HasClient == \A t \in Tasks : taskPc[t] = "submit" => client[t] \in Connections

TypeInv == TypeOK /\ HasClient

\* What Goto changes.
LEMMA GotoType ==
  ASSUME TypeOK, NEW t \in Tasks, NEW from, NEW to, Goto(t, from, to),
         to \in {"dead", "queued", "bind", "publish", "loop", "accept", "submit", "release", "lower"}
  PROVE  /\ taskPc' \in [Tasks -> {"dead", "queued", "bind", "publish", "loop", "accept", "submit",
                                   "release", "lower"}]
         /\ mainPc' \in {"idle", "closeSocket", "forgetSocket", "ioDown", "httpDown"}
         /\ destroying' \in BOOLEAN /\ ioDown' \in BOOLEAN /\ httpDown' \in BOOLEAN
         /\ \A u \in Tasks : taskPc'[u] = IF u = t THEN to ELSE taskPc[u]
BY DEF TypeOK, Goto, main

\* The main thread's steps keep the types.
LEMMA MainKeeps ==
  ASSUME TypeInv, Command \/ MainStep
  PROVE  TypeInv'
<1>1. ASSUME NEW t \in Tasks, StartServer(t) PROVE TypeInv'
  BY <1>1 DEF TypeInv, TypeOK, HasClient, StartServer, port, main, pool
<1>2. ASSUME NEW destroy \in BOOLEAN, StopBridge(destroy) PROVE TypeInv'
  BY <1>2 DEF TypeInv, TypeOK, HasClient, StopBridge, port, task, pool
<1>3. CASE MainClosesSocket
  BY <1>3 DEF TypeInv, TypeOK, HasClient, MainClosesSocket, task, pool
<1>4. CASE MainForgetsSocket
  BY <1>4 DEF TypeInv, TypeOK, HasClient, MainForgetsSocket, task, pool
<1>5. CASE MainShutsIo
  BY <1>5 DEF TypeInv, TypeOK, HasClient, MainShutsIo, port, pool
<1>6. CASE MainShutsHttpIo
  <2>1. Len(<<>>) <= QueueSize /\ <<>> \in Seq(Connections)
    BY PoolAssumption
  <2> QED
    BY <1>6, <2>1 DEF TypeInv, TypeOK, HasClient, MainShutsHttpIo, port, task
<1> QED
  BY <1>1, <1>2, <1>3, <1>4, <1>5, <1>6 DEF Command, MainStep

\* A task's steps keep the types.  execute() adds to the queue only below its
\* limit, and a thread only below the maximum.
LEMMA TaskKeeps ==
  ASSUME TypeInv, NEW t \in Tasks, TaskStep(t)
  PROVE  TypeInv'
<1>0. TypeOK /\ HasClient
  BY DEF TypeInv
<1>1. CASE ServerBegins(t)
  BY <1>0, <1>1, GotoType DEF TypeInv, TypeOK, HasClient, ServerBegins, port, pool
<1>2. CASE ServerBinds(t)
  <2>1. CASE listening = None /\ listening' = t /\ Goto(t, "bind", "publish")
    BY <1>0, <1>2, <2>1, GotoType DEF TypeInv, TypeOK, HasClient, ServerBinds, pool
  <2>2. CASE UNCHANGED listening /\ Goto(t, "bind", "lower")
    BY <1>0, <1>2, <2>2, GotoType DEF TypeInv, TypeOK, HasClient, ServerBinds, pool
  <2> QED
    BY <1>2, <2>1, <2>2 DEF ServerBinds
<1>3. CASE ServerPublishes(t)
  BY <1>0, <1>3, GotoType DEF TypeInv, TypeOK, HasClient, ServerPublishes, pool
<1>4. CASE ServerLoops(t)
  <2>1. CASE Accepts
    BY <1>0, <1>4, <2>1, GotoType DEF TypeInv, TypeOK, HasClient, ServerLoops, port, pool
  <2>2. CASE ~Accepts
    BY <1>0, <1>4, <2>2, GotoType DEF TypeInv, TypeOK, HasClient, ServerLoops, port, pool
  <2> QED
    BY <2>1, <2>2
<1>5. ASSUME NEW c \in Connections, ServerAccepts(t, c) PROVE TypeInv'
  BY <1>0, <1>5, GotoType DEF TypeInv, TypeOK, HasClient, ServerAccepts, port
<1>6. CASE ServerAcceptFails(t)
  BY <1>0, <1>6, GotoType DEF TypeInv, TypeOK, HasClient, ServerAcceptFails, port, pool
<1>7. CASE ServerSubmits(t)
  <2> DEFINE c == client[t]
  <2>1. /\ Goto(t, "submit", "loop") /\ client' = [client EXCEPT ![t] = None]
        /\ UNCHANGED <<aircraftJsonRunning, port, count>>
    BY <1>7 DEF ServerSubmits
  <2>2. c \in Connections
    BY <1>0, <2>1 DEF HasClient, Goto
  <2>3. \A s \in {"reading", "queued", "free"} :
          [conn EXCEPT ![c] = s] \in
            [Connections -> {"free", "accepted", "queued", "reading", "answering", "dropped"}]
    BY <1>0, <2>2 DEF TypeOK
  <2>4. conn' \in [Connections -> {"free", "accepted", "queued", "reading", "answering", "dropped"}]
    BY <1>7, <2>3 DEF ServerSubmits
  <2>5. threads' \in 0 .. MaxThreads
    BY <1>0, <1>7, PoolAssumption DEF ServerSubmits, TypeOK, Grows
  <2>6. queue' \in Seq(Connections) /\ Len(queue') <= QueueSize
    <3>1. Queues => /\ Append(queue, c) \in Seq(Connections)
                    /\ Len(Append(queue, c)) <= QueueSize
      <4>1. queue \in Seq(Connections) /\ Len(queue) \in Nat /\ QueueSize \in Nat
        BY <1>0, PoolAssumption DEF TypeOK
      <4> QED
        BY <2>2, <4>1, AppendProperties DEF Queues
    <3> QED
      BY <1>0, <1>7, <3>1 DEF ServerSubmits, TypeOK
  <2> QED
    BY <1>0, <2>1, <2>4, <2>5, <2>6, GotoType DEF TypeInv, TypeOK, HasClient, port
<1>8. CASE ServerReleases(t)
  <2>1. /\ Goto(t, "release", "lower") /\ listening' \in Tasks \cup {None}
        /\ UNCHANGED <<aircraftJsonRunning, aircraftJsonSocket, client, pool>>
    BY <1>0, <1>8 DEF ServerReleases, TypeOK
  <2>2. /\ taskPc' \in [Tasks -> {"dead", "queued", "bind", "publish", "loop", "accept", "submit",
                                  "release", "lower"}]
        /\ mainPc' \in {"idle", "closeSocket", "forgetSocket", "ioDown", "httpDown"}
        /\ destroying' \in BOOLEAN /\ ioDown' \in BOOLEAN /\ httpDown' \in BOOLEAN
        /\ \A u \in Tasks : taskPc'[u] = IF u = t THEN "lower" ELSE taskPc[u]
    BY <1>0, <2>1, GotoType
  <2>3. TypeOK'
    BY <1>0, <2>1, <2>2 DEF TypeOK, pool
  <2>4. HasClient'
    BY <1>0, <2>1, <2>2 DEF HasClient
  <2> QED
    BY <2>3, <2>4 DEF TypeInv
<1>9. CASE ServerLowers(t)
  <2>1. /\ Goto(t, "lower", "dead") /\ aircraftJsonRunning' = FALSE
        /\ UNCHANGED <<port, client, pool>>
    BY <1>9 DEF ServerLowers
  <2>2. TypeOK'
    BY <1>0, <2>1, GotoType DEF TypeOK, port, pool
  <2>3. HasClient'
    BY <1>0, <2>1, GotoType DEF HasClient
  <2> QED
    BY <2>2, <2>3 DEF TypeInv
<1> QED
  BY <1>1, <1>2, <1>3, <1>4, <1>5, <1>6, <1>7, <1>8, <1>9 DEF TaskStep

\* The pool's threads keep the types.
LEMMA PoolKeeps ==
  ASSUME TypeInv, \/ ThreadTakes \/ ThreadEnds
               \/ \E c \in Connections : Reads(c) \/ Writes(c)
  PROVE  TypeInv'
<1>1. CASE ThreadTakes
  <2>1. /\ Head(queue) \in Connections /\ Tail(queue) \in Seq(Connections)
        /\ Len(Tail(queue)) <= QueueSize
    <3>1. /\ queue \in Seq(Connections) /\ queue # <<>> /\ Len(queue) <= QueueSize
          /\ QueueSize \in Nat
      BY <1>1, PoolAssumption DEF ThreadTakes, TypeInv, TypeOK
    <3> QED
      BY <3>1, HeadTailProperties
  <2> QED
    BY <1>1, <2>1 DEF TypeInv, TypeOK, HasClient, ThreadTakes, rest, port, main, task
<1>2. CASE ThreadEnds
  BY <1>2, PoolAssumption DEF TypeInv, TypeOK, HasClient, ThreadEnds, rest, port, main, task
<1>3. ASSUME NEW c \in Connections, ReadsByte(c) PROVE TypeInv'
  BY <1>3, PoolAssumption DEF TypeInv, TypeOK, HasClient, ReadsByte, rest, port, main, task
<1>4. ASSUME NEW c \in Connections, ReadsHeader(c) PROVE TypeInv'
  BY <1>4, PoolAssumption DEF TypeInv, TypeOK, HasClient, ReadsHeader, rest, port, main, task
<1>5. ASSUME NEW c \in Connections, Closes(c) PROVE TypeInv'
  BY <1>5, PoolAssumption DEF TypeInv, TypeOK, HasClient, Closes, rest, port, main, task
<1> QED
  BY <1>1, <1>2, <1>3, <1>4, <1>5 DEF Reads, Writes

\* TypeOK is not inductive alone: a task that calls execute() without a
\* connection would put something else into the queue.
LEMMA TypeInvInit == Init => TypeInv
<1> SUFFICES ASSUME Init PROVE TypeInv
  OBVIOUS
<1>1. 0 \in 0 .. MaxRequest /\ 0 \in 0 .. MaxThreads /\ Len(<<>>) <= QueueSize
  BY PoolAssumption
<1>2. /\ taskPc \in [Tasks -> {"dead", "queued", "bind", "publish", "loop", "accept", "submit",
                               "release", "lower"}]
      /\ client \in [Tasks -> Connections \cup {None}]
      /\ conn \in [Connections -> {"free", "accepted", "queued", "reading", "answering", "dropped"}]
      /\ count \in [Connections -> 0 .. MaxRequest]
  BY <1>1 DEF Init
<1>3. queue \in Seq(Connections) /\ Len(queue) <= QueueSize /\ threads \in 0 .. MaxThreads
  BY <1>1 DEF Init
<1>4. HasClient
  BY DEF Init, HasClient
<1>5. TypeOK
  BY <1>2, <1>3 DEF Init, TypeOK
<1> QED
  BY <1>4, <1>5 DEF TypeInv

\* No step breaks it.
LEMMA TypeInvStep == TypeInv /\ [Next]_vars => TypeInv'
<1> SUFFICES ASSUME TypeInv, [Next]_vars PROVE TypeInv'
  OBVIOUS
<1>1. CASE UNCHANGED vars
  BY <1>1 DEF TypeInv, TypeOK, HasClient, vars, port, main, task, pool
<1> QED
  BY <1>1, MainKeeps, TaskKeeps, PoolKeeps DEF Next, InternalStep

-----------------------------------------------------------------------------
(* Who has which request. *)

\* A task about to call execute() holds a request that nobody else has.
HandsInv ==
  /\ \A t \in Tasks : taskPc[t] = "submit" => conn[client[t]] = "accepted"
  /\ \A t, u \in Tasks :
       taskPc[t] = "submit" /\ taskPc[u] = "submit" /\ client[t] = client[u] => t = u

\* The queue holds every waiting request, once.
QueueInv ==
  /\ \A i \in DOMAIN queue : conn[queue[i]] = "queued"
  /\ \A i, j \in DOMAIN queue : queue[i] = queue[j] => i = j
  /\ \A c \in Connections : conn[c] = "queued" => \E i \in DOMAIN queue : queue[i] = c

\* A thread serves one request; nobody waits before the core has come up.
ThreadInv ==
  /\ Cardinality(Served) <= threads
  /\ threads < CoreThreads => queue = <<>>

IInv == TypeInv /\ HandsInv /\ QueueInv /\ ThreadInv /\ ServerIsThere

\* Only so many requests are served as there are connections.
LEMMA ServedFinite == IsFiniteSet(Served) /\ Cardinality(Served) \in Nat
<1>1. Served \in SUBSET Connections
  BY DEF Served
<1> QED
  BY <1>1, NamesAssumption, FS_Subset, FS_CardinalityType

\* A thread takes the first of those that wait; the others move up.
LEMMA SeqFirst ==
  ASSUME NEW S, NEW s \in Seq(S), s # <<>>
  PROVE  /\ 1 \in DOMAIN s /\ Head(s) = s[1] /\ Head(s) \in S
         /\ Tail(s) \in Seq(S) /\ Len(s) \in Nat /\ Len(s) >= 1
         /\ DOMAIN s = 1 .. Len(s) /\ DOMAIN Tail(s) = 1 .. Len(s) - 1
         /\ \A i \in 1 .. Len(s) - 1 : Tail(s)[i] = s[i + 1]
BY HeadTailProperties

\* A step that moves no request.
Quiet ==
  /\ UNCHANGED <<conn, queue, threads, httpDown>>
  /\ \A t \in Tasks : taskPc'[t] = "submit" => taskPc[t] = "submit" /\ client'[t] = client[t]

\* The steps that do move one are few.
LEMMA FewSteps ==
  ASSUME TypeInv, [Next]_vars
  PROVE  \/ Quiet
         \/ \E t \in Tasks, c \in Connections : ServerAccepts(t, c)
         \/ \E t \in Tasks : ServerSubmits(t)
         \/ ThreadTakes \/ ThreadEnds
         \/ \E c \in Connections : ReadsHeader(c) \/ Closes(c)
         \/ MainShutsHttpIo
<1>0. TypeOK /\ taskPc \in [Tasks -> {"dead", "queued", "bind", "publish", "loop", "accept",
                                      "submit", "release", "lower"}]
  BY DEF TypeInv, TypeOK
<1>1. CASE UNCHANGED vars
  BY <1>1 DEF vars, Quiet, main, task, pool
<1>2. CASE Command
  BY <1>0, <1>2 DEF Command, StartServer, StopBridge, Quiet, main, task, pool
<1>3. CASE MainStep
  BY <1>0, <1>3 DEF MainStep, MainClosesSocket, MainForgetsSocket, MainShutsIo, Quiet, task, pool
<1>4. ASSUME NEW t \in Tasks, TaskStep(t),
             ~ \E c \in Connections : ServerAccepts(t, c), ~ServerSubmits(t)
      PROVE  Quiet
  <2>1. UNCHANGED <<client, pool, main>> /\ \E from, to \in {"dead", "queued", "bind", "publish",
             "loop", "accept", "release", "lower"} : Goto(t, from, to)
    BY <1>4 DEF TaskStep, ServerBegins, ServerBinds, ServerPublishes, ServerLoops,
       ServerAcceptFails, ServerReleases, ServerLowers, Goto
  <2> QED
    BY <1>0, <2>1 DEF Goto, Quiet, pool, main
<1>5. ASSUME NEW c \in Connections, ReadsByte(c) PROVE Quiet
  BY <1>5 DEF ReadsByte, Quiet, rest, main, task
<1> QED
  BY <1>1, <1>2, <1>3, <1>4, <1>5 DEF Next, InternalStep, Reads, Writes

\* Which requests are where, before and after execute().
LEMMA SubmitCases ==
  ASSUME TypeInv, NEW t \in Tasks, ServerSubmits(t)
  PROVE  /\ client[t] \in Connections /\ taskPc[t] = "submit"
         /\ client' = [client EXCEPT ![t] = None]
         /\ taskPc' = [taskPc EXCEPT ![t] = "loop"]
         /\ UNCHANGED httpDown
         /\ \/ /\ ~httpDown /\ Grows
               /\ conn' = [conn EXCEPT ![client[t]] = "reading"]
               /\ threads' = threads + 1 /\ queue' = queue
            \/ /\ ~httpDown /\ Queues
               /\ conn' = [conn EXCEPT ![client[t]] = "queued"]
               /\ queue' = Append(queue, client[t]) /\ threads' = threads
            \/ /\ httpDown \/ ~(Grows \/ Queues)
               /\ conn' = [conn EXCEPT ![client[t]] = "free"]
               /\ queue' = queue /\ threads' = threads
BY DEF ServerSubmits, Goto, TypeInv, HasClient, main

\* accept() returns a request that is new, execute() ends the task's hold on it.
LEMMA HandsKept == TypeInv /\ HandsInv /\ QueueInv /\ [Next]_vars => HandsInv'
<1> SUFFICES ASSUME TypeInv, HandsInv, QueueInv, [Next]_vars PROVE HandsInv'
  OBVIOUS
<1>0. /\ taskPc \in [Tasks -> {"dead", "queued", "bind", "publish", "loop", "accept",
                               "submit", "release", "lower"}]
      /\ client \in [Tasks -> Connections \cup {None}]
      /\ conn \in [Connections -> {"free", "accepted", "queued", "reading", "answering", "dropped"}]
      /\ \A t \in Tasks : taskPc[t] = "submit" => client[t] \in Connections
      /\ \A i \in DOMAIN queue : conn[queue[i]] = "queued"
  BY DEF TypeInv, TypeOK, HasClient, QueueInv
<1>1. CASE Quiet
  BY <1>1 DEF HandsInv, Quiet
<1>2. ASSUME NEW t \in Tasks, NEW c \in Connections, ServerAccepts(t, c) PROVE HandsInv'
  <2>1. /\ conn[c] = "free" /\ conn' = [conn EXCEPT ![c] = "accepted"]
        /\ client' = [client EXCEPT ![t] = c] /\ taskPc' = [taskPc EXCEPT ![t] = "submit"]
    BY <1>2 DEF ServerAccepts, Goto
  <2> QED
    BY <1>0, <2>1 DEF HandsInv
<1>3. ASSUME NEW t \in Tasks, ServerSubmits(t) PROVE HandsInv'
  BY <1>0, <1>3, SubmitCases DEF HandsInv
<1>4. ASSUME UNCHANGED <<taskPc, client>>,
             \A c \in Connections : conn[c] = "accepted" => conn'[c] = "accepted"
      PROVE  HandsInv'
  BY <1>0, <1>4 DEF HandsInv
<1>5. CASE ThreadTakes
  BY <1>0, <1>4, <1>5, SeqFirst DEF ThreadTakes, rest, task, TypeInv, TypeOK
<1>6. CASE ThreadEnds
  BY <1>4, <1>6 DEF ThreadEnds, rest, task
<1>7. ASSUME NEW c \in Connections, ReadsHeader(c) \/ Closes(c) PROVE HandsInv'
  BY <1>0, <1>4, <1>7 DEF ReadsHeader, Closes, rest, task
<1>8. CASE MainShutsHttpIo
  BY <1>0, <1>4, <1>8 DEF MainShutsHttpIo, task
<1> QED
  BY <1>1, <1>2, <1>3, <1>5, <1>6, <1>7, <1>8, FewSteps

\* The queue stays a list of exactly the waiting requests: what execute() adds
\* was in a task's hands, what a thread takes leaves, the shutdown empties it.
LEMMA QueueKept == TypeInv /\ HandsInv /\ QueueInv /\ [Next]_vars => QueueInv'
<1> SUFFICES ASSUME TypeInv, HandsInv, QueueInv, [Next]_vars PROVE QueueInv'
  OBVIOUS
<1>0. /\ conn \in [Connections -> {"free", "accepted", "queued", "reading", "answering", "dropped"}]
      /\ queue \in Seq(Connections)
      /\ DOMAIN queue = 1 .. Len(queue) /\ Len(queue) \in Nat
      /\ \A i \in DOMAIN queue : queue[i] \in Connections
  BY DEF TypeInv, TypeOK
<1>1. ASSUME queue' = queue,
             \A c \in Connections : conn[c] = "queued" <=> conn'[c] = "queued"
      PROVE  QueueInv'
  BY <1>0, <1>1 DEF QueueInv
<1>2. CASE Quiet \/ ThreadEnds
  BY <1>1, <1>2 DEF Quiet, ThreadEnds
<1>3. ASSUME NEW t \in Tasks, NEW c \in Connections, ServerAccepts(t, c) PROVE QueueInv'
  BY <1>0, <1>1, <1>3 DEF ServerAccepts
<1>4. ASSUME NEW t \in Tasks, ServerSubmits(t) PROVE QueueInv'
  <2> DEFINE c == client[t]
  <2>0. c \in Connections /\ conn[c] = "accepted"
    BY <1>4, SubmitCases DEF HandsInv
  <2>1. CASE queue' = Append(queue, c) /\ conn' = [conn EXCEPT ![c] = "queued"]
    <3>1. /\ DOMAIN queue' = 1 .. Len(queue) + 1
          /\ \A i \in DOMAIN queue : queue'[i] = queue[i]
          /\ queue'[Len(queue) + 1] = c
      BY <1>0, <2>0, <2>1, AppendProperties
    <3>2. \A i \in DOMAIN queue : queue[i] # c
      BY <2>0 DEF QueueInv
    <3>3. \A i \in DOMAIN queue' : conn'[queue'[i]] = "queued"
      BY <1>0, <2>0, <2>1, <3>1 DEF QueueInv
    <3>4. \A i, j \in DOMAIN queue' : queue'[i] = queue'[j] => i = j
      BY <1>0, <3>1, <3>2 DEF QueueInv
    <3>5. ASSUME NEW d \in Connections, conn'[d] = "queued"
          PROVE  \E i \in DOMAIN queue' : queue'[i] = d
      <4>1. CASE d = c
        BY <1>0, <3>1, <4>1
      <4>2. CASE d # c
        <5>1. conn[d] = "queued"
          BY <1>0, <2>1, <3>5, <4>2
        <5> QED
          BY <1>0, <3>1, <5>1 DEF QueueInv
      <4> QED
        BY <4>1, <4>2
    <3> QED
      BY <3>3, <3>4, <3>5 DEF QueueInv
  <2>2. CASE queue' = queue /\ \E s \in {"reading", "free"} : conn' = [conn EXCEPT ![c] = s]
    BY <1>0, <1>1, <2>0, <2>2
  <2> QED
    BY <1>4, <2>1, <2>2, SubmitCases
<1>5. CASE ThreadTakes
  <2>0. queue # <<>> /\ conn' = [conn EXCEPT ![Head(queue)] = "reading"] /\ queue' = Tail(queue)
    BY <1>5 DEF ThreadTakes
  <2>1. /\ DOMAIN queue' = 1 .. Len(queue) - 1 /\ Head(queue) = queue[1] /\ 1 \in DOMAIN queue
        /\ \A i \in DOMAIN queue' : queue'[i] = queue[i + 1] /\ i + 1 \in DOMAIN queue
    BY <1>0, <2>0, SeqFirst
  <2>2. \A i \in DOMAIN queue' : conn'[queue'[i]] = "queued"
    BY <1>0, <2>0, <2>1 DEF QueueInv
  <2>3. \A i, j \in DOMAIN queue' : queue'[i] = queue'[j] => i = j
    BY <1>0, <2>1 DEF QueueInv
  <2>4. ASSUME NEW d \in Connections, conn'[d] = "queued"
        PROVE  \E i \in DOMAIN queue' : queue'[i] = d
    <3>1. conn[d] = "queued" /\ d # queue[1]
      BY <1>0, <2>0, <2>1, <2>4
    <3>2. PICK j \in DOMAIN queue : queue[j] = d
      BY <3>1 DEF QueueInv
    <3>3. j - 1 \in DOMAIN queue' /\ queue'[j - 1] = d
      <4>1. j \in 2 .. Len(queue)
        BY <1>0, <3>1, <3>2
      <4> QED
        BY <1>0, <2>1, <3>2, <4>1
    <3> QED
      BY <3>3
  <2> QED
    BY <2>2, <2>3, <2>4 DEF QueueInv
<1>6. ASSUME NEW c \in Connections, ReadsHeader(c) \/ Closes(c) PROVE QueueInv'
  BY <1>0, <1>1, <1>6 DEF ReadsHeader, Closes
<1>7. CASE MainShutsHttpIo
  BY <1>0, <1>7 DEF MainShutsHttpIo, QueueInv
<1> QED
  BY <1>2, <1>3, <1>4, <1>5, <1>6, <1>7, FewSteps

\* A request is served by a thread that was idle or has come up for it, and
\* only a full core sends requests into the queue.
LEMMA ThreadKept == TypeInv /\ HandsInv /\ QueueInv /\ ThreadInv /\ [Next]_vars => ThreadInv'
<1> SUFFICES ASSUME TypeInv, HandsInv, QueueInv, ThreadInv, [Next]_vars PROVE ThreadInv'
  OBVIOUS
<1>0. /\ conn \in [Connections -> {"free", "accepted", "queued", "reading", "answering", "dropped"}]
      /\ queue \in Seq(Connections) /\ threads \in Nat /\ CoreThreads \in Nat \ {0}
      /\ IsFiniteSet(Served) /\ Cardinality(Served) \in Nat
  BY PoolAssumption, ServedFinite DEF TypeInv, TypeOK
<1>1. ASSUME Served' = Served, threads' = threads, queue = <<>> => queue' = <<>> PROVE ThreadInv'
  BY <1>1 DEF ThreadInv
<1>2. CASE Quiet
  BY <1>1, <1>2 DEF Quiet, Served
<1>3. ASSUME NEW t \in Tasks, NEW c \in Connections, ServerAccepts(t, c) PROVE ThreadInv'
  BY <1>0, <1>1, <1>3 DEF ServerAccepts, Served
<1>4. ASSUME NEW t \in Tasks, ServerSubmits(t) PROVE ThreadInv'
  <2> DEFINE c == client[t]
  <2>0. c \in Connections /\ conn[c] = "accepted"
    BY <1>4, SubmitCases DEF HandsInv
  <2>1. CASE /\ Grows /\ conn' = [conn EXCEPT ![c] = "reading"]
             /\ threads' = threads + 1 /\ queue' = queue
    <3>1. Served' = Served \cup {c} /\ c \notin Served
      BY <1>0, <2>0, <2>1 DEF Served
    <3>2. Cardinality(Served') = Cardinality(Served) + 1
      BY <1>0, <3>1, FS_AddElement
    <3>3. threads + 1 < CoreThreads => threads < CoreThreads
      BY <1>0
    <3> QED
      BY <1>0, <2>1, <3>2, <3>3 DEF ThreadInv
  <2>2. CASE /\ Queues /\ conn' = [conn EXCEPT ![c] = "queued"] /\ threads' = threads
    <3>1. Served' = Served
      BY <1>0, <2>0, <2>2 DEF Served
    <3>2. ~(threads' < CoreThreads)
      BY <1>0, <2>2 DEF Queues
    <3> QED
      BY <2>2, <3>1, <3>2 DEF ThreadInv
  <2>3. CASE conn' = [conn EXCEPT ![c] = "free"] /\ queue' = queue /\ threads' = threads
    <3>1. Served' = Served
      BY <1>0, <2>0, <2>3 DEF Served
    <3> QED
      BY <1>1, <2>3, <3>1
  <2> QED
    BY <1>4, <2>1, <2>2, <2>3, SubmitCases
<1>5. CASE ThreadTakes
  <2>1. /\ queue # <<>> /\ Cardinality(Served) < threads /\ threads' = threads
        /\ conn' = [conn EXCEPT ![Head(queue)] = "reading"]
    BY <1>5 DEF ThreadTakes
  <2>2. /\ Head(queue) \in Connections /\ conn[Head(queue)] = "queued"
    BY <1>0, <2>1, SeqFirst DEF QueueInv
  <2>3. Served' = Served \cup {Head(queue)} /\ Head(queue) \notin Served
    BY <1>0, <2>1, <2>2 DEF Served
  <2>4. Cardinality(Served') = Cardinality(Served) + 1
    BY <1>0, <2>3, FS_AddElement
  <2> QED
    BY <1>0, <2>1, <2>4 DEF ThreadInv
<1>6. CASE ThreadEnds
  <2>1. Served' = Served /\ queue' = <<>> /\ Cardinality(Served) < threads /\ threads' = threads - 1
    BY <1>6 DEF ThreadEnds, Served
  <2> QED
    BY <1>0, <2>1 DEF ThreadInv
<1>7. ASSUME NEW c \in Connections, ReadsHeader(c) PROVE ThreadInv'
  <2>1. Served' = Served
    BY <1>0, <1>7 DEF ReadsHeader, Served
  <2> QED
    BY <1>1, <1>7, <2>1 DEF ReadsHeader
<1>8. ASSUME NEW c \in Connections, Closes(c) PROVE ThreadInv'
  <2>1. Served' = Served \ {c} /\ queue' = queue /\ threads' = threads
    BY <1>0, <1>8 DEF Closes, Served
  <2>2. Cardinality(Served \ {c}) <= Cardinality(Served) /\ Cardinality(Served \ {c}) \in Nat
    <3>1. Served \ {c} \in SUBSET Served
      OBVIOUS
    <3>2. IsFiniteSet(Served \ {c}) /\ Cardinality(Served \ {c}) <= Cardinality(Served)
      BY <1>0, <3>1, FS_Subset
    <3> QED
      BY <3>2, FS_CardinalityType
  <2> QED
    BY <1>0, <2>1, <2>2 DEF ThreadInv
<1>9. CASE MainShutsHttpIo
  <2>1. Served' = Served
    BY <1>0, <1>9 DEF MainShutsHttpIo, Served
  <2> QED
    BY <1>1, <1>9, <2>1 DEF MainShutsHttpIo
<1> QED
  BY <1>2, <1>3, <1>4, <1>5, <1>6, <1>7, <1>8, <1>9, FewSteps

\* The flag goes up with a task, and a task leaves the loop, or ends, only with
\* the flag down; the port changes hands with its task's position.
LEMMA ThereKept == TypeInv /\ ServerIsThere /\ [Next]_vars => ServerIsThere'
<1> SUFFICES ASSUME TypeInv, ServerIsThere, [Next]_vars PROVE ServerIsThere'
  OBVIOUS
<1>0. /\ taskPc \in [Tasks -> {"dead", "queued", "bind", "publish", "loop", "accept",
                               "submit", "release", "lower"}]
      /\ listening \in Tasks \cup {None} /\ None \notin Tasks
  BY NamesAssumption DEF TypeInv, TypeOK
<1>1. ASSUME UNCHANGED <<taskPc, listening, ioDown>>, aircraftJsonRunning' => aircraftJsonRunning
      PROVE  ServerIsThere'
  BY <1>1 DEF ServerIsThere
<1>2. CASE UNCHANGED vars \/ ThreadTakes \/ ThreadEnds \/ MainShutsHttpIo
           \/ \E c \in Connections : Reads(c) \/ Writes(c)
  BY <1>1, <1>2 DEF vars, ThreadTakes, ThreadEnds, MainShutsHttpIo, Reads, Writes, ReadsByte,
     ReadsHeader, Closes, rest, port, main, task
<1>3. ASSUME NEW t \in Tasks, StartServer(t) PROVE ServerIsThere'
  BY <1>0, <1>3 DEF ServerIsThere, StartServer, port
<1>4. CASE (\E destroy \in BOOLEAN : StopBridge(destroy)) \/ MainForgetsSocket
  BY <1>1, <1>4 DEF StopBridge, MainForgetsSocket, port, task
<1>5. CASE MainClosesSocket \/ MainShutsIo
  BY <1>0, <1>5 DEF ServerIsThere, MainClosesSocket, MainShutsIo, port, task
<1>6. ASSUME NEW t \in Tasks, NEW from, NEW to, Goto(t, from, to),
             UNCHANGED <<aircraftJsonRunning, listening>>,
             \/ from = "queued" /\ to = "bind"
             \/ /\ from \in {"publish", "accept", "submit"}
                /\ to \in {"loop", "submit"}
      PROVE  ServerIsThere'
  BY <1>0, <1>6 DEF ServerIsThere, Goto, main
<1>7. ASSUME NEW t \in Tasks, TaskStep(t) PROVE ServerIsThere'
  <2>1. CASE ServerBegins(t) \/ ServerPublishes(t) \/ ServerAcceptFails(t) \/ ServerSubmits(t)
             \/ \E c \in Connections : ServerAccepts(t, c)
    BY <1>6, <2>1 DEF ServerBegins, ServerPublishes, ServerAcceptFails, ServerSubmits,
       ServerAccepts, port
  <2>2. CASE ServerBinds(t)
    BY <1>0, <2>2 DEF ServerIsThere, ServerBinds, Goto, main
  <2>3. CASE ServerLoops(t)
    BY <1>0, <2>3 DEF ServerIsThere, ServerLoops, Accepts, Goto, main, port
  <2>4. CASE ServerReleases(t)
    BY <1>0, <2>4 DEF ServerIsThere, ServerReleases, Goto, main
  <2>5. CASE ServerLowers(t)
    BY <1>0, <2>5 DEF ServerIsThere, ServerLowers, Goto, main, port
  <2> QED
    BY <1>7, <2>1, <2>2, <2>3, <2>4, <2>5 DEF TaskStep
<1> QED
  BY <1>2, <1>3, <1>4, <1>5, <1>7 DEF Next, Command, InternalStep, MainStep

-----------------------------------------------------------------------------
(* The refinement: each step is one of RequestPool's or none. *)

\* The abstract pool counts with the same operator.
LEMMA SameCount == Pool!Cardinality(Served) = Cardinality(Served)
BY DEF Pool!Cardinality, Cardinality

\* A step that moves no request is invisible.
LEMMA SameView ==
  ASSUME UNCHANGED <<Accepted, Served, Forgotten, queue, httpDown>>
  PROVE  UNCHANGED Pool!vars
BY DEF Pool!vars

\* Where a connection is.
LEMMA Whereabouts ==
  ASSUME TypeInv, NEW c \in Connections
  PROVE  /\ c \in Accepted <=> conn[c] = "accepted"
         /\ c \in Served <=> conn[c] \in {"reading", "answering"}
         /\ c \in Forgotten <=> conn[c] = "dropped"
BY DEF Accepted, Served, Forgotten

\* What becomes of the view when one connection moves.
LEMMA OneMoves ==
  ASSUME TypeInv, NEW c \in Connections, NEW to, conn' = [conn EXCEPT ![c] = to]
  PROVE  /\ to = "accepted" => Accepted' = Accepted \cup {c}
         /\ to # "accepted" => Accepted' = Accepted \ {c}
         /\ to # "accepted" /\ conn[c] # "accepted" => Accepted' = Accepted
         /\ to \in {"reading", "answering"} => Served' = Served \cup {c}
         /\ to \notin {"reading", "answering"} => Served' = Served \ {c}
         /\ (conn[c] \in {"reading", "answering"} <=> to \in {"reading", "answering"}) =>
              Served' = Served
         /\ to # "dropped" /\ conn[c] # "dropped" => Forgotten' = Forgotten
<1>1. conn'[c] = to /\ \A d \in Connections \ {c} : conn'[d] = conn[d]
  BY DEF TypeInv, TypeOK
<1>2. Accepted' = {d \in Connections : conn'[d] = "accepted"}
  BY DEF Accepted
<1>3. Served' = {d \in Connections : conn'[d] \in {"reading", "answering"}}
  BY DEF Served
<1>4. Forgotten' = {d \in Connections : conn'[d] = "dropped"}
  BY DEF Forgotten
<1> QED
  BY <1>1, <1>2, <1>3, <1>4 DEF Accepted, Served, Forgotten

\* accept() returns a connection whose last request is over.
LEMMA AcceptMaps ==
  ASSUME TypeInv, QueueInv, NEW t \in Tasks, NEW c \in Connections, ServerAccepts(t, c)
  PROVE  Pool!Arrive(c)
<1>1. /\ conn[c] = "free" /\ conn' = [conn EXCEPT ![c] = "accepted"]
      /\ queue' = queue /\ httpDown' = httpDown
  BY DEF ServerAccepts, Goto, main
<1>2. c \notin Accepted /\ c \notin Served /\ c \notin Forgotten
  BY <1>1, Whereabouts
<1>3. \A i \in DOMAIN queue : queue[i] # c
  BY <1>1 DEF QueueInv
<1>4. Accepted' = Accepted \cup {c} /\ Served' = Served /\ Forgotten' = Forgotten
  BY <1>1, <1>2, OneMoves
<1> QED
  BY <1>1, <1>2, <1>3, <1>4 DEF Pool!Arrive, Pool!Known

\* execute() serves the request at once, lets it wait, or refuses it.
LEMMA SubmitMaps ==
  ASSUME IInv, NEW t \in Tasks, ServerSubmits(t)
  PROVE  \/ Pool!ServeAtOnce(client[t]) \/ Pool!Wait(client[t]) \/ Pool!Refuse(client[t])
<1> DEFINE c == client[t]
<1>0. /\ TypeInv /\ c \in Connections /\ conn[c] = "accepted" /\ httpDown' = httpDown
      /\ c \in Accepted /\ c \notin Served /\ c \notin Forgotten
  BY SubmitCases, Whereabouts DEF IInv, HandsInv
<1>1. /\ Len(queue) \in Nat /\ Len(queue) <= QueueSize /\ threads \in Nat /\ threads <= MaxThreads
      /\ QueueSize \in Nat /\ CoreThreads \in Nat /\ MaxThreads \in Nat /\ CoreThreads <= MaxThreads
      /\ Cardinality(Served) \in Nat /\ Cardinality(Served) <= threads
      /\ threads < CoreThreads => Len(queue) = 0
  BY PoolAssumption, ServedFinite DEF IInv, TypeInv, TypeOK, ThreadInv
<1>2. CASE /\ ~httpDown /\ Grows /\ conn' = [conn EXCEPT ![c] = "reading"] /\ queue' = queue
  <2>1. /\ Accepted' = Accepted \ {c} /\ Served' = Served \cup {c} /\ Forgotten' = Forgotten
    BY <1>0, <1>2, OneMoves
  <2>2. Cardinality(Served) < MaxThreads /\ Len(queue) \in {0, QueueSize}
    BY <1>1, <1>2 DEF Grows
  <2> QED
    BY <1>0, <1>2, <2>1, <2>2, SameCount DEF Pool!ServeAtOnce
<1>3. CASE /\ ~httpDown /\ Queues /\ conn' = [conn EXCEPT ![c] = "queued"]
           /\ queue' = Append(queue, c)
  <2>1. /\ Accepted' = Accepted \ {c} /\ Served' = Served /\ Forgotten' = Forgotten
    BY <1>0, <1>3, OneMoves
  <2> QED
    BY <1>0, <1>3, <2>1 DEF Pool!Wait, Queues
<1>4. CASE /\ httpDown \/ ~(Grows \/ Queues)
           /\ conn' = [conn EXCEPT ![c] = "free"]
           /\ queue' = queue
  <2>1. /\ Accepted' = Accepted \ {c} /\ Served' = Served /\ Forgotten' = Forgotten
    BY <1>0, <1>4, OneMoves
  <2>2. httpDown \/ Len(queue) = QueueSize
    BY <1>1, <1>4 DEF Grows, Queues
  <2> QED
    BY <1>0, <1>4, <2>1, <2>2 DEF Pool!Refuse
<1> QED
  BY <1>0, <1>2, <1>3, <1>4, SubmitCases

\* An idle thread takes the request that has waited longest.
LEMMA TakeMaps ==
  ASSUME IInv, ThreadTakes
  PROVE  Pool!ServeNext
<1> DEFINE c == Head(queue)
<1>1. /\ queue # <<>> /\ queue' = Tail(queue) /\ Cardinality(Served) < threads
      /\ conn' = [conn EXCEPT ![c] = "reading"] /\ httpDown' = httpDown
  BY DEF ThreadTakes, rest, main
<1>2. TypeInv /\ queue \in Seq(Connections)
  BY DEF IInv, TypeInv, TypeOK
<1>3. c \in Connections /\ conn[c] = "queued"
  BY <1>1, <1>2, SeqFirst DEF IInv, QueueInv
<1>4. Accepted' = Accepted /\ Served' = Served \cup {c} /\ Forgotten' = Forgotten
  BY <1>1, <1>2, <1>3, OneMoves, Whereabouts
<1>5. Cardinality(Served) < MaxThreads
  BY <1>1, PoolAssumption, ServedFinite DEF IInv, TypeInv, TypeOK
<1> QED
  BY <1>1, <1>4, <1>5, SameCount DEF Pool!ServeNext

\* A request is over when its socket is closed.
LEMMA CloseMaps ==
  ASSUME TypeInv, NEW c \in Connections, Closes(c)
  PROVE  Pool!Finish(c)
<1>1. /\ conn[c] \in {"reading", "answering"} /\ conn' = [conn EXCEPT ![c] = "free"]
      /\ queue' = queue /\ httpDown' = httpDown
  BY DEF Closes, rest, main
<1>2. c \in Served /\ c \notin Accepted /\ c \notin Forgotten
  BY <1>1, Whereabouts
<1>3. Accepted' = Accepted /\ Served' = Served \ {c} /\ Forgotten' = Forgotten
  BY <1>1, <1>2, OneMoves
<1> QED
  BY <1>1, <1>2, <1>3 DEF Pool!Finish

\* shutdownNow forgets exactly those that wait.
LEMMA ShutdownMaps ==
  ASSUME IInv, MainShutsHttpIo
  PROVE  Pool!Shutdown
<1>1. /\ conn' = [c \in Connections |-> IF conn[c] = "queued" THEN "dropped" ELSE conn[c]]
      /\ queue' = <<>> /\ httpDown' = TRUE
  BY DEF MainShutsHttpIo
<1>2. Accepted' = Accepted /\ Served' = Served
  BY <1>1 DEF Accepted, Served
<1>3. queue \in Seq(Connections) /\ QueueInv
  BY DEF IInv, TypeInv, TypeOK
<1>4. \A c \in Connections : conn[c] = "queued" <=> \E i \in DOMAIN queue : queue[i] = c
  BY <1>3 DEF QueueInv
<1>5. \A i \in DOMAIN queue : queue[i] \in Connections
  BY <1>3
<1>6. Forgotten' = Forgotten \cup {queue[i] : i \in DOMAIN queue}
  BY <1>1, <1>4, <1>5 DEF Forgotten
<1> QED
  BY <1>1, <1>2, <1>6 DEF Pool!Shutdown

\* Every step is a step of the abstract pool, or invisible in it.
LEMMA StepMaps == IInv /\ [Next]_vars => [Pool!Next]_(Pool!vars)
<1> SUFFICES ASSUME IInv, [Next]_vars PROVE [Pool!Next]_(Pool!vars)
  OBVIOUS
<1>0. TypeInv /\ QueueInv
  BY DEF IInv
<1>1. CASE Quiet
  BY <1>1, SameView DEF Quiet, Accepted, Served, Forgotten
<1>2. ASSUME NEW t \in Tasks, NEW c \in Connections, ServerAccepts(t, c) PROVE Pool!Next
  BY <1>0, <1>2, AcceptMaps DEF Pool!Next
<1>3. ASSUME NEW t \in Tasks, ServerSubmits(t) PROVE Pool!Next
  BY <1>0, <1>3, SubmitMaps, SubmitCases DEF Pool!Next
<1>4. CASE ThreadTakes
  BY <1>4, TakeMaps DEF Pool!Next
<1>5. CASE ThreadEnds
  BY <1>5, SameView DEF ThreadEnds, rest, main, Accepted, Served, Forgotten
<1>6. ASSUME NEW c \in Connections, ReadsHeader(c) PROVE UNCHANGED Pool!vars
  <2>1. /\ conn[c] = "reading" /\ conn' = [conn EXCEPT ![c] = "answering"]
        /\ queue' = queue /\ httpDown' = httpDown
    BY <1>6 DEF ReadsHeader, rest, main
  <2> QED
    BY <1>0, <2>1, OneMoves, Whereabouts, SameView
<1>7. ASSUME NEW c \in Connections, Closes(c) PROVE Pool!Next
  BY <1>0, <1>7, CloseMaps DEF Pool!Next
<1>8. CASE MainShutsHttpIo
  BY <1>8, ShutdownMaps DEF Pool!Next
<1> QED
  BY <1>0, <1>1, <1>2, <1>3, <1>4, <1>5, <1>6, <1>7, <1>8, FewSteps

-----------------------------------------------------------------------------
(* Theorems. *)

\* The inductive invariant of the JSON feed, for any number of tasks, connections,
\* threads and places: every request is in one place, every thread serves one
\* request at a time, flag and port have their tasks.
THEOREM Invariance == Spec => []IInv
<1>1. Init => IInv
  <2> SUFFICES ASSUME Init PROVE IInv
    OBVIOUS
  <2>1. HandsInv /\ QueueInv /\ ServerIsThere
    BY DEF Init, HandsInv, QueueInv, ServerIsThere
  <2>2. Served = {} /\ threads = 0 /\ queue = <<>>
    BY DEF Init, Served
  <2>3. ThreadInv
    BY <2>2, FS_EmptySet DEF ThreadInv
  <2> QED
    BY <2>1, <2>3, TypeInvInit DEF IInv
<1>2. IInv /\ [Next]_vars => IInv'
  BY TypeInvStep, HandsKept, QueueKept, ThreadKept, ThereKept DEF IInv
<1> QED
  BY <1>1, <1>2, PTL DEF Spec

\* Every variable keeps its type, for pools of any size: there are never more
\* threads than httpIo's maximum nor more requests than its queue holds, and
\* no header is read beyond its limit.
THEOREM TypeCorrect == Spec => []TypeOK
<1>1. IInv => TypeOK
  BY DEF IInv, TypeInv
<1> QED
  BY <1>1, Invariance, PTL

\* However starts and stops follow one another, a raised flag has a task behind
\* it that will serve, and the port one that will give it back.
THEOREM ServerThere == Spec => []ServerIsThere
<1>1. IInv => ServerIsThere
  BY DEF IInv
<1> QED
  BY <1>1, Invariance, PTL

\* For any number of tasks, connections, threads and places in the queue, the JSON
\* feed keeps the promises of RequestPool.
THEOREM PoolImplemented == Spec => ImplementsRequestPool
<1>1. Init => Pool!Init
  BY DEF Init, Pool!Init, Accepted, Served, Forgotten
<1> QED
  BY <1>1, StepMaps, Invariance, PTL DEF Spec, ImplementsRequestPool, Pool!Spec

-----------------------------------------------------------------------------
(* Reading the header, for every input and every limit.                     *)

Less == {ss \in Nat \X Nat : ss[1] < ss[2]}

\* Every nonempty set of numbers has a least one: what the proofs by the
\* smallest counterexample below rest on.
LEMMA Least ==
  ASSUME NEW T \in SUBSET Nat, T # {}
  PROVE  \E m \in T : \A k \in T : m <= k
<1>1. IsWellFoundedOn(Less, Nat)
  BY NatLessThanWellFounded DEF OpToRel, Less
<1>2. PICK m \in T : \A k \in T : <<k, m>> \notin Less
  BY <1>1, WFMin
<1>3. ASSUME NEW k \in T PROVE m <= k
  <2>1. k \in Nat /\ m \in Nat /\ <<k, m>> \notin Less
    BY <1>2
  <2>2. k < m => <<k, m>> \in Less
    <3>1. <<k, m>> \in Nat \X Nat  BY <2>1
    <3>2. <<k, m>>[1] = k /\ <<k, m>>[2] = m  OBVIOUS
    <3> QED BY <3>1, <3>2 DEF Less
  <2> QED BY <2>1, <2>2
<1> QED BY <1>3

\* What a function must be to be the one Matches defines, up to n bytes.
MatchesTo(input, n, f) ==
  f = [i \in 0 .. n |-> IF i = 0 THEN 0 ELSE Match(f[i - 1], input[i])]

\* There is such a function: the smallest n without one would have one more
\* than n - 1.
LEMMA MatchesExist ==
  ASSUME NEW input \in Seq(Bytes), NEW n \in 0 .. Len(input)
  PROVE  \E f : MatchesTo(input, n, f)
<1> DEFINE T == {k \in 0 .. Len(input) : ~ \E f : MatchesTo(input, k, f)}
<1>1. SUFFICES ASSUME T # {} PROVE FALSE
  OBVIOUS
<1>0. Len(input) \in Nat
  OBVIOUS
<1>a. T \in SUBSET Nat
  BY <1>0
<1>2. PICK m \in T : \A k \in T : m <= k
  <2> HIDE DEF T
  <2> QED
    BY <1>1, <1>a, Least
<1>3. m \in Nat /\ m <= Len(input)
  BY <1>0, <1>2
<1>4. m # 0
  <2> DEFINE z == [i \in 0 .. 0 |-> 0]
  <2>1. z = [i \in 0 .. 0 |-> IF i = 0 THEN 0 ELSE Match(z[i - 1], input[i])]
    OBVIOUS
  <2> QED
    BY <2>1, <1>2 DEF MatchesTo
<1>5. m - 1 \in 0 .. Len(input) /\ m - 1 \notin T
  BY <1>0, <1>2, <1>3, <1>4
<1>6. PICK f : MatchesTo(input, m - 1, f)
  BY <1>5
<1> DEFINE g == [i \in 0 .. m |-> IF i < m THEN f[i] ELSE Match(f[m - 1], input[m])]
<1>7. ASSUME NEW i \in 0 .. m
      PROVE  g[i] = IF i = 0 THEN 0 ELSE Match(g[i - 1], input[i])
  <2>1. CASE i = m
    BY <1>3, <1>4, <2>1
  <2>2. CASE i # m
    <3>1. i \in 0 .. (m - 1) /\ g[i] = f[i] /\ (i # 0 => g[i - 1] = f[i - 1])
      BY <1>3, <1>4, <2>2
    <3>2. f[i] = IF i = 0 THEN 0 ELSE Match(f[i - 1], input[i])
      BY <3>1, <1>6 DEF MatchesTo
    <3> QED
      BY <3>1, <3>2
  <2> QED
    BY <2>1, <2>2
<1>8. MatchesTo(input, m, g)
  BY <1>7 DEF MatchesTo
<1> QED
  BY <1>2, <1>8

\* So Matches is it.
LEMMA MatchesDef ==
  ASSUME NEW input \in Seq(Bytes)
  PROVE  MatchesTo(input, Len(input), Matches(input))
<1>0. Len(input) \in 0 .. Len(input)
  OBVIOUS
<1>1. Matches(input) = CHOOSE f : f = [i \in 0 .. Len(input) |-> IF i = 0 THEN 0 ELSE Match(f[i - 1], input[i])]
  BY DEF Matches
<1> QED
  BY <1>0, <1>1, MatchesExist DEF MatchesTo

\* The last k of i bytes are the first k of the header's end.
EndMark == <<"CR", "LF", "CR", "LF">>
Tails(input, i, k) == k <= i /\ \A j \in 1 .. k : input[i - k + j] = EndMark[j]

\* As long as no end has been met, headerEndMatch is the length of the longest
\* beginning of the header's end that the bytes read end with.
RightAt(input, i) ==
  LET match == Matches(input)
  IN  (\A j \in 0 .. i - 1 : match[j] # 4) =>
        /\ match[i] \in 0 .. 4 /\ Tails(input, i, match[i])
        /\ \A k \in match[i] + 1 .. 4 : ~Tails(input, i, k)

\* Its value after each byte.
LEMMA MatchesAt ==
  ASSUME NEW input \in Seq(Bytes), NEW i \in 0 .. Len(input)
  PROVE  Matches(input)[i] = IF i = 0 THEN 0 ELSE Match(Matches(input)[i - 1], input[i])
BY MatchesDef DEF MatchesTo

\* Another byte lengthens what the bytes end with, or not.
LEMMA TailsStep ==
  ASSUME NEW input \in Seq(Bytes), NEW i \in 1 .. Len(input), NEW k \in 1 .. 4
  PROVE  Tails(input, i, k) <=> Tails(input, i - 1, k - 1) /\ input[i] = EndMark[k]
<1>0. i \in Nat
  OBVIOUS
<1>1. ASSUME Tails(input, i, k)
      PROVE  Tails(input, i - 1, k - 1) /\ input[i] = EndMark[k]
  <2>1. ASSUME NEW j \in 1 .. k - 1
        PROVE  input[(i - 1) - (k - 1) + j] = EndMark[j]
    <3>1. j \in 1 .. k /\ (i - 1) - (k - 1) + j = i - k + j
      BY <1>0
    <3> QED
      BY <1>1, <3>1 DEF Tails
  <2>2. k \in 1 .. k /\ i - k + k = i
    BY <1>0
  <2> QED
    BY <1>0, <1>1, <2>1, <2>2 DEF Tails
<1>2. ASSUME Tails(input, i - 1, k - 1), input[i] = EndMark[k]
      PROVE  Tails(input, i, k)
  <2>1. ASSUME NEW j \in 1 .. k
        PROVE  input[i - k + j] = EndMark[j]
    <3>1. CASE j = k
      <4>1. i - k + j = i
        BY <1>0, <3>1
      <4> QED
        BY <1>2, <3>1, <4>1
    <3>2. CASE j # k
      <4>1. j \in 1 .. k - 1 /\ (i - 1) - (k - 1) + j = i - k + j
        BY <1>0, <3>2
      <4> QED
        BY <1>2, <4>1 DEF Tails
    <3> QED
      BY <3>1, <3>2
  <2> QED
    BY <1>0, <1>2, <2>1 DEF Tails
<1> QED
  BY <1>1, <1>2

\* headerEndMatch is right after every byte: at the smallest i where it were
\* not, it would have been right one byte earlier.
LEMMA MatchRight ==
  ASSUME NEW input \in Seq(Bytes), NEW i \in 0 .. Len(input)
  PROVE  RightAt(input, i)
<1> DEFINE T == {k \in 0 .. Len(input) : ~RightAt(input, k)}
           mt == Matches(input)
<1>1. SUFFICES ASSUME T # {} PROVE FALSE
  OBVIOUS
<1>0. Len(input) \in Nat
  OBVIOUS
<1>a. T \in SUBSET Nat
  BY <1>0
<1>2. PICK m \in T : \A k \in T : m <= k
  <2> HIDE DEF T
  <2> QED
    BY <1>1, <1>a, Least
<1>3. m \in Nat /\ m <= Len(input) /\ ~RightAt(input, m)
  BY <1>0, <1>2
<1>4. \A j \in 0 .. m - 1 : mt[j] # 4
  BY <1>3 DEF RightAt
<1>5. m # 0
  <2>1. mt[0] = 0
    BY <1>0, MatchesAt
  <2>2. Tails(input, 0, 0) /\ \A k \in 1 .. 4 : ~Tails(input, 0, k)
    BY DEF Tails
  <2>3. RightAt(input, 0)
    BY <2>1, <2>2 DEF RightAt
  <2> QED
    BY <1>3, <2>3
<1>6. /\ mt[m - 1] \in 0 .. 3 /\ Tails(input, m - 1, mt[m - 1])
      /\ \A k \in mt[m - 1] + 1 .. 4 : ~Tails(input, m - 1, k)
  <2>1. m - 1 \in 0 .. Len(input) /\ m - 1 \notin T
    BY <1>0, <1>2, <1>3, <1>5
  <2>2. RightAt(input, m - 1)
    BY <2>1
  <2>3. (m - 1) - 1 < m /\ m - 1 \in 0 .. m - 1
    BY <1>3, <1>5
  <2>4. \A j \in 0 .. (m - 1) - 1 : mt[j] # 4
    BY <1>3, <1>4
  <2> QED
    BY <1>4, <2>2, <2>3, <2>4 DEF RightAt
<1>7. mt[m] = Match(mt[m - 1], input[m]) /\ m \in 1 .. Len(input) /\ input[m] \in Bytes
  BY <1>0, <1>3, <1>5, MatchesAt
<1>8. \A k \in 1 .. 4 : Tails(input, m, k) <=> Tails(input, m - 1, k - 1) /\ input[m] = EndMark[k]
  BY <1>7, TailsStep
<1>9. Tails(input, m, 0) /\ Tails(input, m - 1, 0)
  BY <1>3, <1>5 DEF Tails
<1>10. /\ EndMark[1] = "CR" /\ EndMark[2] = "LF" /\ EndMark[3] = "CR" /\ EndMark[4] = "LF"
  BY DEF EndMark
<1>11. \A k \in 1 .. 4 : Tails(input, m - 1, k) => input[m - 1] = EndMark[k]
  <2>1. ASSUME NEW k \in 1 .. 4, Tails(input, m - 1, k) PROVE input[m - 1] = EndMark[k]
    <3>1. k \in 1 .. k /\ (m - 1) - k + k = m - 1
      BY <1>3
    <3> QED
      BY <2>1, <3>1 DEF Tails
  <2> QED
    BY <2>1
<1>12. /\ Match(mt[m - 1], input[m]) \in 0 .. 4
       /\ Tails(input, m, Match(mt[m - 1], input[m]))
       /\ \A k \in Match(mt[m - 1], input[m]) + 1 .. 4 : ~Tails(input, m, k)
  <2> DEFINE p(k) == Tails(input, m - 1, k)
             q(k) == Tails(input, m, k)
             a    == mt[m - 1]
             b    == input[m]
  <2>1. a \in 0 .. 3 /\ p(a) /\ \A k \in a + 1 .. 4 : ~p(k)
    BY <1>6
  <2>2. /\ q(1) <=> b = "CR"
        /\ q(2) <=> p(1) /\ b = "LF"
        /\ q(3) <=> p(2) /\ b = "CR"
        /\ q(4) <=> p(3) /\ b = "LF"
    BY <1>8, <1>9, <1>10
  <2>3. /\ ~(p(1) /\ p(2)) /\ ~(p(2) /\ p(3))
    BY <1>10, <1>11
  <2>4. q(0) /\ b \in Bytes
    BY <1>7, <1>9
  <2>5. /\ Match(a, "CR") = IF a \in {0, 2} THEN a + 1 ELSE 1
        /\ Match(a, "LF") = IF a \in {1, 3} THEN a + 1 ELSE 0
        /\ Match(a, "x") = 0
    BY DEF Match, Advances
  <2> HIDE DEF p, q, a, b
  <2>6. Match(a, b) \in 0 .. 4 /\ q(Match(a, b)) /\ \A k \in Match(a, b) + 1 .. 4 : ~q(k)
    <3>1. CASE b = "CR"
      BY <2>1, <2>2, <2>3, <2>4, <2>5, <3>1
    <3>2. CASE b = "LF"
      BY <2>1, <2>2, <2>3, <2>4, <2>5, <3>2
    <3>3. CASE b = "x"
      BY <2>1, <2>2, <2>3, <2>4, <2>5, <3>3
    <3> QED
      BY <2>4, <3>1, <3>2, <3>3 DEF Bytes
  <2> QED
    BY <2>6 DEF p, q, a, b
<1> QED
  BY <1>3, <1>7, <1>12 DEF RightAt

\* Where the header can end within the limit.
HeaderEnds(input, limit) ==
  {i \in 4 .. Len(input) : i <= limit /\ SubSeq(input, i - 3, i) = EndMark}

\* An end seen as a slice and seen from its last byte.
LEMMA EndIsTail ==
  ASSUME NEW input \in Seq(Bytes), NEW i \in 4 .. Len(input)
  PROVE  SubSeq(input, i - 3, i) = EndMark <=> Tails(input, i, 4)
<1>0. i \in Nat /\ i - 3 \in 1 .. Len(input) + 1 /\ i \in i - 3 - 1 .. Len(input)
  OBVIOUS
<1> DEFINE e == SubSeq(input, i - 3, i)
<1>1. e \in Seq(Bytes) /\ Len(e) = 4
  BY <1>0, SubSeqProperties
<1>2. e[1] = input[i - 3] /\ e[2] = input[i - 2] /\ e[3] = input[i - 1] /\ e[4] = input[i]
  BY <1>0
<1>3. EndMark \in Seq(Bytes) /\ Len(EndMark) = 4
  BY DEF EndMark, Bytes
<1>4. e = EndMark <=> \A j \in 1 .. 4 : e[j] = EndMark[j]
  <2> HIDE DEF e
  <2> QED
    BY <1>1, <1>3, SeqEqual
<1>5. Tails(input, i, 4) <=> \A j \in 1 .. 4 : e[j] = EndMark[j]
  <2>1. /\ i - 4 + 1 = i - 3 /\ i - 4 + 2 = i - 2 /\ i - 4 + 3 = i - 1 /\ i - 4 + 4 = i
    BY <1>0
  <2>2. Tails(input, i, 4) <=>
          /\ input[i - 3] = EndMark[1] /\ input[i - 2] = EndMark[2]
          /\ input[i - 1] = EndMark[3] /\ input[i] = EndMark[4]
    BY <1>0, <2>1 DEF Tails
  <2> HIDE DEF e
  <2> QED
    BY <1>2, <2>2
<1> QED
  BY <1>4, <1>5

\* Reading stops at the first end within the limit, or at the limit, or where
\* the input ends.
LEMMA ConsumedRight ==
  ASSUME NEW input \in Seq(Bytes), NEW limit \in Nat
  PROVE  LET read == Consumed(input, limit)
             ends == HeaderEnds(input, limit)
         IN  /\ read.length \in 0 .. Len(input)
             /\ read.complete \in BOOLEAN
             /\ ends # {} => /\ read.complete /\ read.length \in ends
                             /\ \A j \in ends : read.length <= j
             /\ ends = {} => /\ ~read.complete
                             /\ read.length = IF limit <= Len(input) THEN limit ELSE Len(input)
<1> DEFINE n    == Len(input)
           mt   == Matches(input)
           stop == {i \in 0 .. n : mt[i] = 4 \/ i = limit \/ i = n}
           last == CHOOSE i \in stop : \A j \in stop : i <= j
           ends == HeaderEnds(input, limit)
<1>1. n \in Nat
  OBVIOUS
<1>2. last \in stop /\ \A j \in stop : last <= j
  <2>1. stop \in SUBSET Nat /\ n \in stop
    BY <1>1
  <2> HIDE DEF stop, n
  <2>2. \E i \in stop : \A j \in stop : i <= j
    BY <2>1, Least
  <2> QED
    BY <2>2
<1>3. Consumed(input, limit) = [length |-> last, complete |-> mt[last] = 4]
  BY DEF Consumed
<1> HIDE DEF last
<1>4. last \in 0 .. n /\ last \in Nat /\ last <= limit /\ (mt[last] = 4 \/ last = limit \/ last = n)
  <2>1. limit <= n => limit \in stop
    BY <1>1
  <2> QED
    BY <1>1, <1>2, <2>1
<1>5. \A j \in 0 .. last - 1 : mt[j] # 4
  <2>1. ASSUME NEW j \in 0 .. last - 1, mt[j] = 4 PROVE FALSE
    <3>1. j \in 0 .. n /\ j < last
      BY <1>1, <1>4
    <3> QED
      BY <1>1, <1>2, <1>4, <2>1, <3>1
  <2> QED
    BY <2>1
<1>6. ASSUME NEW i \in 0 .. last
      PROVE  mt[i] = 4 <=> Tails(input, i, 4)
  <2>1. RightAt(input, i) /\ \A j \in 0 .. i - 1 : mt[j] # 4
    BY <1>1, <1>4, <1>5, MatchRight
  <2>2. /\ mt[i] \in 0 .. 4 /\ Tails(input, i, mt[i])
        /\ \A k \in mt[i] + 1 .. 4 : ~Tails(input, i, k)
    BY <2>1 DEF RightAt
  <2> HIDE DEF mt
  <2> QED
    BY <2>2
<1>7. ASSUME NEW i \in 0 .. last
      PROVE  mt[i] = 4 <=> i \in ends
  <2>1. Tails(input, i, 4) => i >= 4
    BY <1>4 DEF Tails
  <2>2. i \in Nat /\ i <= limit /\ i <= n
    BY <1>1, <1>4
  <2>3. i >= 4 => i \in 4 .. n /\ (SubSeq(input, i - 3, i) = EndMark <=> Tails(input, i, 4))
    BY <1>1, <2>2, EndIsTail
  <2> HIDE DEF mt
  <2> QED
    BY <1>6, <2>1, <2>2, <2>3 DEF HeaderEnds
<1>8. ends \in SUBSET (4 .. n) /\ \A i \in ends : i <= limit
  BY DEF HeaderEnds
<1>9. \A j \in ends : last <= j
  <2>1. ASSUME NEW j \in ends, j < last PROVE FALSE
    <3>1. j \in 0 .. last - 1 /\ j \in 0 .. last
      BY <1>1, <1>4, <1>8, <2>1
    <3> QED
      BY <1>5, <1>7, <2>1, <3>1
  <2> QED
    BY <1>1, <1>4, <1>8, <2>1
<1>10. last \in 0 .. last
  BY <1>4
<1>11. ends # {} => mt[last] = 4 /\ last \in ends
  <2>1. ASSUME NEW j \in ends PROVE last \in ends
    <3>1. j \in Nat /\ j <= n /\ j <= limit /\ last <= j
      BY <1>1, <1>8, <1>9
    <3>2. CASE mt[last] = 4
      BY <1>7, <1>10, <3>2
    <3>3. CASE last = limit \/ last = n
      BY <1>1, <1>4, <3>1, <3>3
    <3> QED
      BY <1>4, <3>2, <3>3
  <2> QED
    BY <1>7, <1>10, <2>1
<1>12. ends = {} => mt[last] # 4 /\ last = IF limit <= n THEN limit ELSE n
  <2>1. ends = {} => mt[last] # 4
    BY <1>7, <1>10
  <2> HIDE DEF mt
  <2> QED
    BY <1>1, <1>4, <2>1
<1>13. Consumed(input, limit).length = last /\ Consumed(input, limit).complete = (mt[last] = 4)
  BY <1>3
<1>14. Consumed(input, limit).complete \in BOOLEAN
  BY <1>13
<1> HIDE DEF mt, ends, n
<1>15. /\ Consumed(input, limit).length \in 0 .. n
       /\ ends # {} => /\ Consumed(input, limit).complete
                       /\ Consumed(input, limit).length \in ends
                       /\ \A j \in ends : Consumed(input, limit).length <= j
       /\ ends = {} => /\ ~Consumed(input, limit).complete
                       /\ Consumed(input, limit).length = IF limit <= n THEN limit ELSE n
  BY <1>4, <1>9, <1>11, <1>12, <1>13
<1> QED
  BY <1>14, <1>15 DEF n, ends

\* The line ends within the header, seen in what is cut or in what arrives.
LineEnds(input, last) ==
  {i \in 1 .. last - 1 : input[i] = "CR" /\ input[i + 1] = "LF"}

\* Cutting the header off moves no line end in it.
LEMMA LineEndsCut ==
  ASSUME NEW input \in Seq(Bytes), NEW last \in 0 .. Len(input), NEW i \in 1 .. last - 1
  PROVE  SubSeq(SubSeq(input, 1, last), i, i + 1) = <<"CR", "LF">> <=> i \in LineEnds(input, last)
<1> DEFINE h == SubSeq(input, 1, last)
           e == SubSeq(h, i, i + 1)
<1>0. i \in Nat /\ last \in Nat /\ Len(input) \in Nat /\ 1 \in 1 .. Len(input) + 1
  OBVIOUS
<1>1. h \in Seq(Bytes) /\ Len(h) = last
  BY <1>0, SubSeqProperties
<1>2. h[i] = input[i] /\ h[i + 1] = input[i + 1]
  BY <1>0
<1> HIDE DEF h
<1>3. e \in Seq(Bytes) /\ Len(e) = 2 /\ e[1] = h[i] /\ e[2] = h[i + 1]
  <2>1. i \in 1 .. Len(h) + 1 /\ i + 1 \in i - 1 .. Len(h)
    BY <1>0, <1>1
  <2>2. e \in Seq(Bytes) /\ Len(e) = 2
    BY <1>0, <1>1, <2>1, SubSeqProperties
  <2>3. e[1] = h[i] /\ e[2] = h[i + 1]
    BY <1>0, <1>1, <2>1
  <2> QED
    BY <2>2, <2>3
<1>4. <<"CR", "LF">> \in Seq(Bytes)
  BY DEF Bytes
<1> HIDE DEF e
<1>5. e = <<"CR", "LF">> <=> e[1] = "CR" /\ e[2] = "LF"
  BY <1>3, <1>4, SeqEqual
<1> QED
  BY <1>2, <1>3, <1>5 DEF LineEnds, e, h

\* Whatever bytes arrive and wherever the limit is, the header is cut and its
\* first line found as CutRight says.
THEOREM CutRightAlways ==
  ASSUME NEW input \in Seq(Bytes), NEW limit \in Nat
  PROVE  CutRight(input, limit)
<1> DEFINE n      == Len(input)
           read   == Consumed(input, limit)
           last   == read.length
           ends   == HeaderEnds(input, limit)
           header == IF ends = {} THEN SubSeq(input, 1, n)
                     ELSE SubSeq(input, 1, CHOOSE i \in ends : \A j \in ends : i <= j)
           LineIs(k) == /\ SubSeq(header, k + 1, k + 2) = <<"CR", "LF">>
                        /\ \A j \in 0 .. k - 1 : SubSeq(header, j + 1, j + 2) # <<"CR", "LF">>
           line   == RequestLine(input, limit)
           crlfs  == LineEnds(input, last)
           first  == CHOOSE i \in crlfs : \A j \in crlfs : i <= j
<1>1. SUFFICES IF ends = {} /\ n >= limit THEN line = None
               ELSE IF line = None
                    THEN \A k \in 1 .. Len(header) - 2 : ~LineIs(k)
                    ELSE line >= 1 /\ LineIs(line)
  BY DEF CutRight, HeaderEnds, EndMark
<1>2. /\ last \in 0 .. n /\ read.complete \in BOOLEAN
      /\ ends # {} => read.complete /\ last \in ends /\ \A j \in ends : last <= j
      /\ ends = {} => ~read.complete /\ last = IF limit <= n THEN limit ELSE n
  BY ConsumedRight
<1>3. line = IF (last = limit /\ ~read.complete) \/ crlfs = {} THEN None
             ELSE IF first = 1 THEN None ELSE first - 1
  BY DEF RequestLine, LineEnds
<1>4. n \in Nat /\ last \in Nat
  BY <1>2
<1>5. ends \in SUBSET Nat
  BY DEF HeaderEnds
<1>6. crlfs \in SUBSET Nat /\ crlfs \in SUBSET (1 .. last - 1)
  BY <1>4 DEF LineEnds
<1>7. crlfs # {} => first \in crlfs /\ \A j \in crlfs : first <= j
  <2> HIDE DEF crlfs
  <2>1. crlfs # {} => \E i \in crlfs : \A j \in crlfs : i <= j
    BY <1>6, Least
  <2> QED
    BY <2>1
<1> HIDE DEF line, crlfs, first, last, read, ends
<1>8. CASE ends = {} /\ n >= limit
  BY <1>2, <1>3, <1>8
<1>9. CASE ~(ends = {} /\ n >= limit)
  <2>1. read.complete \/ last # limit
    BY <1>2, <1>4, <1>9
  <2>2. header = SubSeq(input, 1, last)
    <3>1. CASE ends = {}
      BY <1>2, <1>4, <1>9, <3>1
    <3>2. CASE ends # {}
      <4>1. (CHOOSE i \in ends : \A j \in ends : i <= j) = last
        <5>1. \A i \in ends : (\A j \in ends : i <= j) => i = last
          BY <1>2, <1>4, <1>5, <3>2
        <5> QED
          BY <1>2, <3>2, <5>1
      <4> QED
        BY <3>2, <4>1
    <3> QED
      BY <3>1, <3>2
  <2> HIDE DEF header
  <2>3. Len(header) = last
    BY <1>2, <1>4, <2>2
  <2>4. \A i \in 1 .. last - 1 : SubSeq(header, i, i + 1) = <<"CR", "LF">> <=> i \in crlfs
    BY <1>2, <2>2, LineEndsCut DEF crlfs
  <2>5. \A k \in 0 .. last - 2 : SubSeq(header, k + 1, k + 2) = <<"CR", "LF">> <=> k + 1 \in crlfs
    <3>1. ASSUME NEW k \in 0 .. last - 2
          PROVE  SubSeq(header, k + 1, k + 2) = <<"CR", "LF">> <=> k + 1 \in crlfs
      <4>1. k + 1 \in 1 .. last - 1 /\ (k + 1) + 1 = k + 2
        BY <1>4
      <4> QED
        BY <2>4, <4>1
    <3> QED
      BY <3>1
  <2>6. \A k \in 0 .. last - 2 :
          LineIs(k) <=> k + 1 \in crlfs /\ \A j \in 0 .. k - 1 : j + 1 \notin crlfs
    <3>1. ASSUME NEW k \in 0 .. last - 2
          PROVE  \A j \in 0 .. k - 1 : j \in 0 .. last - 2
      BY <1>4
    <3> QED
      BY <2>5, <3>1
  <2> HIDE DEF LineIs
  <2>7. CASE crlfs = {}
    <3>1. line = None
      BY <1>3, <2>7
    <3>2. \A k \in 1 .. Len(header) - 2 : ~LineIs(k)
      BY <1>4, <2>3, <2>6, <2>7
    <3> QED
      BY <1>9, <3>1, <3>2
  <2>8. CASE crlfs # {} /\ first = 1
    <3>1. line = None
      BY <1>3, <2>1, <2>8
    <3>2. ASSUME NEW k \in 1 .. Len(header) - 2 PROVE ~LineIs(k)
      <4>1. k \in 0 .. last - 2 /\ 0 \in 0 .. k - 1 /\ 0 + 1 \in crlfs
        BY <1>4, <1>7, <2>3, <2>8
      <4> QED
        BY <2>6, <4>1
    <3> QED
      BY <1>9, <3>1, <3>2
  <2>9. CASE crlfs # {} /\ first # 1
    <3>1. first \in crlfs /\ first \in Nat /\ first - 1 >= 1 /\ first - 1 \in 0 .. last - 2
      <4>1. first \in crlfs
        BY <1>7, <2>9
      <4>2. first \in 1 .. last - 1
        BY <1>6, <4>1
      <4> QED
        BY <1>4, <2>9, <4>1, <4>2
    <3>2. line = first - 1 /\ line # None
      BY <1>3, <2>1, <2>9, <3>1, NamesAssumption
    <3>3. \A j \in 0 .. (first - 1) - 1 : j + 1 \notin crlfs
      BY <1>7, <3>1
    <3>4. LineIs(first - 1)
      <4>1. (first - 1) + 1 = first
        BY <3>1
      <4> QED
        BY <2>6, <3>1, <3>3, <4>1
    <3> QED
      BY <1>9, <3>1, <3>2, <3>4
  <2> QED
    BY <2>7, <2>8, <2>9
<1> QED
  BY <1>8, <1>9

\* Every request of up to seven bytes is cut right before the first command.
THEOREM HeaderRight == Spec => []HeaderCutRight
<1>1. ASSUME NEW n \in 0 .. 7, NEW input \in [1 .. n -> Bytes] PROVE input \in Seq(Bytes)
  OBVIOUS
<1>2. HeaderCutRight
  BY <1>1, CutRightAlways DEF HeaderCutRight
<1> QED
  BY <1>2, PTL

=============================================================================
