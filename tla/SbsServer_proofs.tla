--------------------------- MODULE SbsServer_proofs ---------------------------
(***************************************************************************)
(* SbsServer: type correctness, the limit on clients, and that every       *)
(* registered client is served, for any number of clients, broadcasters    *)
(* and server tasks.                                                       *)
(***************************************************************************)
EXTENDS SbsServer, FiniteSetTheorems, TLAPS

-----------------------------------------------------------------------------
(* The inductive invariant, in named parts.                                *)

\* Positions at which a server task has a client in its hands.
Handing == {"limit", "add", "start", "remove"}

\* A server task holds a client, and a broadcaster a target, at the positions that use it.
HoldInv ==
  /\ \A s \in Servers : accepted[s] \in Clients <=> serverPc[s] \in Handing
  /\ \A b \in Broadcasters : sendPc[b] \in {"offer", "remove", "close"} => target[b] \in Clients

\* Two server tasks never hold the same client, and it is not registered before "add".
HandsInv ==
  /\ \A s, u \in Servers : accepted[s] = accepted[u] /\ accepted[s] # None => s = u
  /\ \A s \in Servers : serverPc[s] \in {"limit", "add"} => accepted[s] \notin clients

\* Tasks that have passed the limit and have yet to add their client.
Adders == {s \in Servers : serverPc[s] = "add"}

\* What such a task is about to add counts already.
LimitInv ==
  /\ IsFiniteSet(clients)
  /\ Cardinality(clients) + Cardinality(Adders) < MaxClients + Cardinality(Servers)

TypeInv == TypeOK /\ HoldInv

SbsInv == TypeInv /\ HandsInv /\ LimitInv /\ RegisteredClientIsServed

-----------------------------------------------------------------------------
(* Types.                                                                   *)

\* A new service has every variable in its type.
LEMMA InitType == Init => TypeInv
<1> SUFFICES ASSUME Init PROVE TypeInv
  OBVIOUS
<1>1. TypeOK
  <2>1. pending \in [Clients -> 0..MaxPending] /\ workers \in 0..MaxClients
    BY CapacityAssumption DEF Init
  <2>2. /\ closePc \in [Clients -> {"open", "claimed", "cleared", "closed"}]
        /\ closer \in [Clients -> Threads \cup {None}]
        /\ todo \in [Broadcasters -> SUBSET Clients]
    BY DEF Init
  <2> QED
    BY <2>1, <2>2 DEF Init, TypeOK
<1>2. HoldInv
  BY ThreadsAssumption DEF Init, HoldInv, Handing
<1> QED
  BY <1>1, <1>2 DEF TypeInv

\* A call of close() by any thread keeps the types of what it writes.
LEMMA CallCloseType ==
  ASSUME TypeOK, NEW c, NEW w \in Threads, CallClose(c, w)
  PROVE  /\ closePc' \in [Clients -> {"open", "claimed", "cleared", "closed"}]
         /\ closer' \in [Clients -> Threads \cup {None}]
BY DEF TypeOK, CallClose

\* Starting and stopping keep the types.
LEMMA CommandType ==
  ASSUME TypeInv, StartServer \/ StopBridge
  PROVE  TypeInv'
BY DEF TypeInv, TypeOK, HoldInv, Handing, StartServer, StopBridge, pools, main, server, writers,
   closing, broadcast

\* So do the steps of stopBridge and onDestroy.
LEMMA MainType ==
  ASSUME TypeInv, MainStep
  PROVE  TypeInv'
<1> USE DEF TypeInv, HoldInv, Handing
<1>1. ASSUME NEW c \in Clients, MainCloses(c) PROVE TypeInv'
  <2>1. Main \in Threads
    BY DEF Threads
  <2>2. /\ closePc' \in [Clients -> {"open", "claimed", "cleared", "closed"}]
        /\ closer' \in [Clients -> Threads \cup {None}]
    BY <1>1, <2>1, CallCloseType DEF MainCloses
  <2> QED
    BY <1>1, <2>2 DEF TypeOK, MainCloses, pools, server, writers, broadcast
<1>2. CASE MainSnapshot \/ MainClears \/ MainClosesSocket \/ MainForgetsSocket
  BY <1>2 DEF TypeOK, MainSnapshot, MainClears, MainClosesSocket, MainForgetsSocket, pools, main,
     server, writers, closing, broadcast
<1>3. CASE MainShutsIo
  BY <1>3 DEF TypeOK, MainShutsIo, pools, main, server, writers, closing, broadcast
<1>4. CASE MainShutsClientIo
  BY <1>4 DEF TypeOK, MainShutsClientIo, pools, main, server, writers, closing, broadcast
<1> QED
  BY <1>1, <1>2, <1>3, <1>4 DEF MainStep

\* So do the steps of a server task: it takes a client up at accept() and lets it go.
LEMMA ServerType ==
  ASSUME TypeInv, NEW s \in Servers, ServerStep(s) \/ ServerAccepts(s)
  PROVE  TypeInv'
<1> USE DEF TypeInv, TypeOK, HoldInv, Handing, Goto, pools, main, broadcast
<1>1. None \notin Clients
  BY ThreadsAssumption
<1>2. CASE ServerBegins(s) \/ ServerBinds(s) \/ ServerPublishes(s) \/ ServerLoops(s)
           \/ ServerAcceptFails(s) \/ ServerReleases(s) \/ ServerLowers(s)
  <2>1. CASE ServerBegins(s) \/ ServerBinds(s)
    BY <2>1 DEF ServerBegins, ServerBinds, SameClients, closing, writers
  <2>2. CASE ServerPublishes(s) \/ ServerLoops(s)
    BY <2>2 DEF ServerPublishes, ServerLoops, SameClients, closing, writers
  <2>3. CASE ServerAcceptFails(s)
    BY <2>3 DEF ServerAcceptFails, SameClients, closing, writers
  <2>4. CASE ServerReleases(s) \/ ServerLowers(s)
    BY <2>4 DEF ServerReleases, ServerLowers, SameClients, closing, writers
  <2> QED
    BY <1>2, <2>1, <2>2, <2>3, <2>4
<1>3. CASE ServerAccepts(s)
  <2>1. pending' \in [Clients -> 0..MaxPending]
    BY <1>3, CapacityAssumption DEF ServerAccepts
  <2> QED
    BY <1>3, <2>1 DEF ServerAccepts
<1>4. CASE ServerLimits(s)
  BY <1>1, <1>4 DEF ServerLimits, SameClients, closing, writers
<1>5. CASE ServerAdds(s)
  BY <1>5 DEF ServerAdds, closing, writers
<1>6. CASE ServerStartsWriter(s)
  <2>1. s \in Threads
    BY DEF Threads
  <2>2. /\ closePc' \in [Clients -> {"open", "claimed", "cleared", "closed"}]
        /\ closer' \in [Clients -> Threads \cup {None}]
    BY <1>6, <2>1, CallCloseType DEF ServerStartsWriter, closing
  <2>3. workers' \in 0..MaxClients
    BY <1>6, CapacityAssumption DEF ServerStartsWriter
  <2> QED
    BY <1>1, <1>6, <2>2, <2>3 DEF ServerStartsWriter
<1>7. CASE ServerRemoves(s)
  BY <1>1, <1>7 DEF ServerRemoves, closing, writers
<1> QED
  BY <1>2, <1>3, <1>4, <1>5, <1>6, <1>7 DEF ServerStep

\* So do the steps of a writer.
LEMMA WriterType ==
  ASSUME TypeInv, NEW c \in Clients, WriterStep(c) \/ WriterWrites(c)
  PROVE  TypeInv'
<1> USE DEF TypeInv, TypeOK, HoldInv, Handing, WriterGoto, pools, main, server, broadcast
<1>1. CASE WriterBegins(c) \/ WriterLoops(c) \/ WriterFails(c) \/ WriterWrites(c)
  BY <1>1 DEF WriterBegins, WriterLoops, WriterFails, WriterWrites, closing
<1>2. CASE WriterPolls(c)
  <2>1. pending' \in [Clients -> 0..MaxPending]
    BY <1>2, CapacityAssumption DEF WriterPolls
  <2> QED
    BY <1>2, <2>1 DEF WriterPolls, closing
<1>3. CASE WriterCloses(c)
  <2>1. c \in Threads
    BY DEF Threads
  <2>2. /\ closePc' \in [Clients -> {"open", "claimed", "cleared", "closed"}]
        /\ closer' \in [Clients -> Threads \cup {None}]
    BY <1>3, <2>1, CallCloseType DEF WriterCloses
  <2> QED
    BY <1>3, <2>2 DEF WriterCloses
<1>4. CASE WriterRemoves(c)
  BY <1>4 DEF WriterRemoves, Unregister, closing
<1> QED
  BY <1>1, <1>2, <1>3, <1>4 DEF WriterStep

\* So do the steps inside close().
LEMMA CloseType ==
  ASSUME TypeInv, NEW c \in Clients, CloseStep(c)
  PROVE  TypeInv'
BY CapacityAssumption DEF TypeInv, TypeOK, HoldInv, Handing, CloseStep, CloseClears, CloseSocket,
   pools, main, server, writers, broadcast

\* So do the steps of a broadcaster: it takes a target up in SendChecks.
LEMMA SendType ==
  ASSUME TypeInv, NEW b \in Broadcasters, SendStep(b) \/ Send(b)
  PROVE  TypeInv'
<1> USE DEF TypeInv, TypeOK, HoldInv, Handing, SendGoto, pools, main, server, writers
<1>1. CASE Send(b) \/ SendEnds(b)
  BY <1>1 DEF Send, SendEnds, closing
<1>2. CASE SendChecks(b)
  BY <1>2 DEF SendChecks, closing
<1>3. CASE SendOffers(b)
  <2>1. target[b] \in Clients
    BY <1>3 DEF SendOffers
  <2>2. pending' \in [Clients -> 0..MaxPending]
    BY <1>3, <2>1, CapacityAssumption DEF SendOffers, HasRoom
  <2> QED
    BY <1>3, <2>2 DEF SendOffers, closing
<1>4. CASE SendRemoves(b)
  BY <1>4 DEF SendRemoves, closing
<1>5. CASE SendCloses(b)
  <2>1. b \in Threads
    BY DEF Threads
  <2>2. /\ closePc' \in [Clients -> {"open", "claimed", "cleared", "closed"}]
        /\ closer' \in [Clients -> Threads \cup {None}]
    BY <1>5, <2>1, CallCloseType DEF SendCloses
  <2> QED
    BY <1>5, <2>2 DEF SendCloses
<1> QED
  BY <1>1, <1>2, <1>3, <1>4, <1>5 DEF SendStep

\* So does a step that changes nothing.
LEMMA StutterType ==
  ASSUME TypeInv, UNCHANGED vars
  PROVE  TypeInv'
BY DEF TypeInv, TypeOK, HoldInv, Handing, vars, pools, main, server, writers, closing, broadcast

\* The types are inductive.
LEMMA StepType == TypeInv /\ [Next]_vars => TypeInv'
BY CommandType, MainType, ServerType, WriterType, CloseType, SendType, StutterType
   DEF Next, InternalStep

-----------------------------------------------------------------------------
(* Steps that hand no client on and register none.                         *)

\* No task takes up or gives away a client, none comes to "limit" or "add", the list
\* does not grow, and what is left in it keeps its writer while the pool is up.
Quiet ==
  /\ accepted' = accepted
  /\ clients' \subseteq clients
  /\ \A s \in Servers : serverPc'[s] \in {"limit", "add"} => serverPc[s] = serverPc'[s]
  /\ clientIoDown => clientIoDown'
  /\ ~clientIoDown' => \A c \in clients' : writerPc'[c] \in {"none", "dead"} => writerPc'[c] = writerPc[c]

\* The sets LimitInv counts are finite, and its sum is a number.
LEMMA Counted ==
  ASSUME LimitInv
  PROVE  /\ IsFiniteSet(Adders) /\ Cardinality(Adders) \in Nat
         /\ Cardinality(clients) \in Nat /\ Cardinality(Servers) \in Nat
<1>1. Adders \subseteq Servers
  BY DEF Adders
<1> QED
  BY <1>1, ServersAssumption, FS_Subset, FS_CardinalityType DEF LimitInv

\* When neither set grows the sum does not.
LEMMA LimitKept ==
  ASSUME LimitInv, clients' \subseteq clients, Adders' \subseteq Adders
  PROVE  LimitInv'
<1>1. IsFiniteSet(clients') /\ Cardinality(clients') <= Cardinality(clients)
  BY FS_Subset DEF LimitInv
<1>2. IsFiniteSet(Adders') /\ Cardinality(Adders') <= Cardinality(Adders)
  BY Counted, FS_Subset
<1>3. Cardinality(clients') \in Nat /\ Cardinality(Adders') \in Nat
  BY <1>1, <1>2, FS_CardinalityType
<1> QED
  BY <1>1, <1>2, <1>3, Counted, CapacityAssumption DEF LimitInv

\* A quiet step keeps the invariant.
LEMMA QuietInv ==
  ASSUME SbsInv, Quiet
  PROVE  HandsInv' /\ LimitInv' /\ RegisteredClientIsServed'
<1>1. HandsInv'
  BY DEF SbsInv, HandsInv, Quiet
<1>2. Adders' \subseteq Adders
  BY DEF Quiet, Adders
<1>3. LimitInv'
  BY <1>2, LimitKept DEF SbsInv, Quiet
<1>4. RegisteredClientIsServed'
  BY DEF SbsInv, Quiet, RegisteredClientIsServed
<1> QED
  BY <1>1, <1>3, <1>4

\* Every step but five of the server task's is quiet: commands, stopBridge, onDestroy,
\* the writers, close() and the broadcasters.
LEMMA QuietSteps ==
  ASSUME TypeInv,
         \/ StartServer \/ StopBridge \/ MainStep
         \/ \E c \in Clients : WriterStep(c) \/ WriterWrites(c) \/ CloseStep(c)
         \/ \E b \in Broadcasters : SendStep(b) \/ Send(b)
         \/ UNCHANGED vars
  PROVE  Quiet
<1> USE DEF TypeInv, TypeOK, Quiet
<1>1. CASE StartServer \/ StopBridge
  BY <1>1 DEF StartServer, StopBridge, pools, main, server, writers
<1>2. CASE MainStep
  <2>1. ASSUME NEW c \in Clients, MainCloses(c) PROVE Quiet
    BY <2>1 DEF MainCloses, pools, server, writers
  <2>2. CASE MainSnapshot \/ MainClears \/ MainClosesSocket \/ MainForgetsSocket
    BY <2>2 DEF MainSnapshot, MainClears, MainClosesSocket, MainForgetsSocket, pools, server, writers
  <2>3. CASE MainShutsIo
    BY <2>3 DEF MainShutsIo, writers
  <2>4. CASE MainShutsClientIo
    BY <2>4 DEF MainShutsClientIo, server
  <2> QED
    BY <1>2, <2>1, <2>2, <2>3, <2>4 DEF MainStep
<1>3. ASSUME NEW c \in Clients, WriterStep(c) \/ WriterWrites(c) PROVE Quiet
  <2> USE DEF WriterGoto, pools, server
  <2>1. CASE WriterBegins(c) \/ WriterLoops(c) \/ WriterFails(c) \/ WriterWrites(c)
    BY <2>1 DEF WriterBegins, WriterLoops, WriterFails, WriterWrites
  <2>2. CASE WriterPolls(c) \/ WriterCloses(c)
    BY <2>2 DEF WriterPolls, WriterCloses
  <2>3. CASE WriterRemoves(c)
    BY <2>3 DEF WriterRemoves, Unregister
  <2> QED
    BY <1>3, <2>1, <2>2, <2>3 DEF WriterStep
<1>4. ASSUME NEW c \in Clients, CloseStep(c) PROVE Quiet
  BY <1>4 DEF CloseStep, CloseClears, CloseSocket, pools, server, writers
<1>5. ASSUME NEW b \in Broadcasters, SendStep(b) \/ Send(b) PROVE Quiet
  BY <1>5 DEF SendStep, Send, SendChecks, SendOffers, SendRemoves, SendCloses, SendEnds, SendGoto,
     pools, server, writers
<1>6. CASE UNCHANGED vars
  BY <1>6 DEF vars, pools, server, writers
<1> QED
  BY <1>1, <1>2, <1>3, <1>4, <1>5, <1>6

-----------------------------------------------------------------------------
(* The steps of a server task.                                             *)

\* Accepting a client: it is nobody's, and not registered.
LEMMA AcceptInv ==
  ASSUME SbsInv, NEW s \in Servers, ServerAccepts(s)
  PROVE  HandsInv' /\ LimitInv' /\ RegisteredClientIsServed'
<1> USE DEF SbsInv, TypeInv, TypeOK
<1>1. PICK c \in Clients : /\ Reusable(c) /\ \A u \in Servers : accepted[u] # c
                           /\ accepted' = [accepted EXCEPT ![s] = c]
                           /\ writerPc' = [writerPc EXCEPT ![c] = "none"]
  BY DEF ServerAccepts
<1>2. /\ serverPc[s] = "accept" /\ serverPc' = [serverPc EXCEPT ![s] = "limit"]
      /\ UNCHANGED <<clients, clientIoDown>>
  BY DEF ServerAccepts, Goto, pools
<1>3. c \notin clients /\ accepted[s] \notin Clients
  BY <1>1, <1>2 DEF Reusable, HoldInv, Handing
<1>4. HandsInv'
  BY <1>1, <1>2, <1>3 DEF HandsInv
<1>5. LimitInv'
  BY <1>2, LimitKept DEF Adders
<1>6. RegisteredClientIsServed'
  BY <1>1, <1>2, <1>3 DEF RegisteredClientIsServed
<1> QED
  BY <1>4, <1>5, <1>6

\* Passing the limit leaves room for all other tasks; being refused lets the client go.
LEMMA LimitsInv ==
  ASSUME SbsInv, NEW s \in Servers, ServerLimits(s)
  PROVE  HandsInv' /\ LimitInv' /\ RegisteredClientIsServed'
<1> USE DEF SbsInv, TypeInv, TypeOK
<1>1. /\ serverPc[s] = "limit"
      /\ UNCHANGED <<clients, clientIoDown>>
      /\ accepted[s] \in Clients /\ accepted[s] \notin clients
  BY DEF ServerLimits, SameClients, Goto, pools, HoldInv, Handing, HandsInv
<1>2. CASE ~OverLimit /\ Goto(s, "limit", "add") /\ SameClients
  <2>1. serverPc' = [serverPc EXCEPT ![s] = "add"] /\ UNCHANGED <<accepted, writerPc>>
    BY <1>2 DEF Goto, SameClients, writers
  <2>2. HandsInv' /\ RegisteredClientIsServed'
    BY <1>1, <2>1 DEF HandsInv, RegisteredClientIsServed
  <2>3. Adders' \subseteq Servers
    BY DEF Adders
  <2>4. Cardinality(Adders') <= Cardinality(Servers) /\ Cardinality(Adders') \in Nat
    BY <2>3, ServersAssumption, FS_Subset, FS_CardinalityType
  <2>5. Cardinality(clients) < MaxClients
    BY <1>2, Counted, CapacityAssumption DEF OverLimit
  <2>6. LimitInv'
    BY <1>1, <2>4, <2>5, Counted, CapacityAssumption DEF LimitInv
  <2> QED
    BY <2>2, <2>6
<1>3. CASE /\ Goto(s, "limit", "loop")
           /\ writerPc' = [writerPc EXCEPT ![accepted[s]] = "dead"]
           /\ accepted' = [accepted EXCEPT ![s] = None]
  <2>1. serverPc' = [serverPc EXCEPT ![s] = "loop"]
    BY <1>3 DEF Goto
  <2>2. HandsInv'
    BY <1>1, <1>3, <2>1 DEF HandsInv
  <2>3. LimitInv'
    BY <1>1, <2>1, LimitKept DEF Adders
  <2>4. RegisteredClientIsServed'
    BY <1>1, <1>3 DEF RegisteredClientIsServed
  <2> QED
    BY <2>2, <2>3, <2>4
<1> QED
  BY <1>2, <1>3 DEF ServerLimits

\* Registering the client: what is added to the list is taken from the adders.
LEMMA AddInv ==
  ASSUME SbsInv, NEW s \in Servers, ServerAdds(s)
  PROVE  HandsInv' /\ LimitInv' /\ RegisteredClientIsServed'
<1> USE DEF SbsInv, TypeInv, TypeOK
<1>1. /\ serverPc[s] = "add" /\ serverPc' = [serverPc EXCEPT ![s] = "start"]
      /\ clients' = clients \cup {accepted[s]}
      /\ UNCHANGED <<accepted, writerPc, clientIoDown>>
      /\ accepted[s] \in Clients /\ accepted[s] \notin clients
  BY DEF ServerAdds, Goto, pools, writers, HoldInv, Handing, HandsInv
<1>2. HandsInv'
  BY <1>1, ThreadsAssumption DEF HandsInv
<1>3. LimitInv'
  <2>1. s \in Adders /\ Adders' = Adders \ {s}
    BY <1>1 DEF Adders
  <2>2. Cardinality(Adders') = Cardinality(Adders) - 1
    BY <2>1, Counted, FS_RemoveElement
  <2>3. IsFiniteSet(clients') /\ Cardinality(clients') = Cardinality(clients) + 1
    BY <1>1, FS_AddElement DEF LimitInv
  <2> QED
    BY <2>2, <2>3, Counted, CapacityAssumption DEF LimitInv
<1>4. RegisteredClientIsServed'
  BY <1>1 DEF RegisteredClientIsServed
<1> QED
  BY <1>2, <1>3, <1>4

\* Starting the writer, and letting a rejected client go.
LEMMA StartInv ==
  ASSUME SbsInv, NEW s \in Servers, ServerStartsWriter(s) \/ ServerRemoves(s)
  PROVE  HandsInv' /\ LimitInv' /\ RegisteredClientIsServed'
<1> USE DEF SbsInv, TypeInv, TypeOK
<1>1. /\ serverPc[s] \in {"start", "remove"} /\ accepted[s] \in Clients
      /\ \E to \in {"loop", "remove"} : serverPc' = [serverPc EXCEPT ![s] = to]
      /\ accepted' \in {accepted, [accepted EXCEPT ![s] = None]}
      /\ clients' \subseteq clients /\ UNCHANGED clientIoDown
  BY DEF ServerStartsWriter, ServerRemoves, Goto, pools, HoldInv, Handing
<1>2. HandsInv'
  BY <1>1 DEF HandsInv
<1>3. LimitInv'
  BY <1>1, LimitKept DEF Adders
<1>4. RegisteredClientIsServed'
  <2>1. CASE clientIoDown
    BY <1>1, <2>1 DEF RegisteredClientIsServed
  <2>2. CASE ~clientIoDown /\ ServerStartsWriter(s)
    <3>1. /\ accepted' = [accepted EXCEPT ![s] = None]
          /\ \E pc \in {"loop", "queued"} : writerPc' = [writerPc EXCEPT ![accepted[s]] = pc]
      BY <2>2 DEF ServerStartsWriter
    <3> QED
      BY <1>1, <3>1 DEF RegisteredClientIsServed
  <2>3. CASE ServerRemoves(s)
    <3>1. /\ accepted' = [accepted EXCEPT ![s] = None] /\ UNCHANGED writerPc
          /\ clients' = clients \ {accepted[s]}
      BY <2>3 DEF ServerRemoves, writers
    <3> QED
      BY <1>1, <3>1 DEF RegisteredClientIsServed
  <2> QED
    BY <2>1, <2>2, <2>3
<1> QED
  BY <1>2, <1>3, <1>4

\* All steps of a server task.
LEMMA ServerInv ==
  ASSUME SbsInv, NEW s \in Servers, ServerStep(s) \/ ServerAccepts(s)
  PROVE  HandsInv' /\ LimitInv' /\ RegisteredClientIsServed'
<1>1. CASE ServerBegins(s) \/ ServerBinds(s) \/ ServerPublishes(s) \/ ServerLoops(s)
           \/ ServerAcceptFails(s) \/ ServerReleases(s) \/ ServerLowers(s)
  <2>1. \E from \in {"queued", "bind", "publish", "loop", "accept", "release", "lower"},
           to \in {"bind", "publish", "lower", "loop", "accept", "release", "dead"} :
             Goto(s, from, to)
    BY <1>1 DEF ServerBegins, ServerBinds, ServerPublishes, ServerLoops, ServerAcceptFails,
       ServerReleases, ServerLowers
  <2>2. UNCHANGED <<accepted, clients, writerPc>>
    BY <1>1 DEF ServerBegins, ServerBinds, ServerPublishes, ServerLoops, ServerAcceptFails,
       ServerReleases, ServerLowers, SameClients, writers
  <2>3. Quiet
    BY <2>1, <2>2 DEF Quiet, Goto, pools, SbsInv, TypeInv, TypeOK
  <2> QED
    BY <2>3, QuietInv
<1> QED
  BY <1>1, AcceptInv, LimitsInv, AddInv, StartInv DEF ServerStep

-----------------------------------------------------------------------------
(* The theorems.                                                            *)

\* The invariant holds in a new service.
LEMMA InitSbsInv == Init => SbsInv
<1> SUFFICES ASSUME Init PROVE SbsInv
  OBVIOUS
<1>1. clients = {} /\ Adders = {} /\ \A s \in Servers : accepted[s] = None /\ serverPc[s] = "dead"
  BY DEF Init, Adders
<1>2. HandsInv /\ RegisteredClientIsServed
  BY <1>1 DEF HandsInv, RegisteredClientIsServed
<1>3. LimitInv
  BY <1>1, FS_EmptySet, ServersAssumption, FS_CardinalityType, CapacityAssumption DEF LimitInv
<1> QED
  BY <1>2, <1>3, InitType DEF SbsInv

\* It is inductive.
LEMMA StepSbsInv == SbsInv /\ [Next]_vars => SbsInv'
<1> SUFFICES ASSUME SbsInv, [Next]_vars PROVE SbsInv'
  OBVIOUS
<1>1. TypeInv'
  BY StepType DEF SbsInv
<1>2. HandsInv' /\ LimitInv' /\ RegisteredClientIsServed'
  <2>1. CASE \E s \in Servers : ServerStep(s) \/ ServerAccepts(s)
    BY <2>1, ServerInv
  <2>2. CASE Quiet
    BY <2>2, QuietInv
  <2> QED
    BY <2>1, <2>2, QuietSteps DEF SbsInv, Next, InternalStep
<1> QED
  BY <1>1, <1>2 DEF SbsInv

\* The inductive invariant of the SBS feed holds in every state: which task holds which
\* client, and how many clients there are or are about to be.
THEOREM Invariance == Spec => []SbsInv
BY InitSbsInv, StepSbsInv, PTL DEF Spec

\* Every variable keeps its type, whatever server tasks, writers and broadcasters do.
THEOREM TypeCorrect == Spec => []TypeOK
<1>1. SbsInv => TypeOK
  BY DEF SbsInv, TypeInv
<1> QED
  BY <1>1, Invariance, PTL

\* The list never holds as many clients as the limit and the server tasks together:
\* each task between test and add accounts for one client over the limit at most.
THEOREM ClientsLimited == Spec => []ClientLimit
<1>1. SbsInv => ClientLimit
  BY Counted, CapacityAssumption DEF SbsInv, LimitInv, ClientLimit
<1> QED
  BY <1>1, Invariance, PTL

\* While the writer pool is up, no client is registered that nobody will serve or remove.
THEOREM RegisteredServed == Spec => []RegisteredClientIsServed
<1>1. SbsInv => RegisteredClientIsServed
  BY DEF SbsInv
<1> QED
  BY <1>1, Invariance, PTL

-----------------------------------------------------------------------------
(* The flag and the port.                                                   *)

\* Positions of a task whose socket is bound.
Bound == {"publish", "loop", "accept", "limit", "add", "start", "remove", "release"}

\* The flag and the port never outlive the tasks: behind a flag that is up, which
\* makes further starts do nothing, there is a task that has not seen it down, and
\* the port is held by a task that will release it (BS 295-335, 433-450).
ServerIsThere ==
  /\ running /\ ~ioDown => \E s \in Servers : serverPc[s] \notin {"dead", "release"}
  /\ listening # None => serverPc[listening] \in Bound

\* What moves no task and neither raises the flag nor takes the port keeps it.
LEMMA ThereStill ==
  ASSUME ServerIsThere, TypeOK, serverPc' = serverPc, running' \in {running, FALSE},
         listening' \in {listening, None}, ioDown' = ioDown
  PROVE  ServerIsThere'
<1>1. running' => running
  BY DEF TypeOK
<1>2. (running /\ ~ioDown => \E s \in Servers : serverPc[s] \notin {"dead", "release"})'
  BY <1>1 DEF ServerIsThere
<1>3. (listening # None => serverPc[listening] \in Bound)'
  BY DEF ServerIsThere, Bound
<1> QED
  BY <1>2, <1>3 DEF ServerIsThere

\* A server task's steps keep it.
LEMMA ThereServer ==
  ASSUME TypeOK, ServerIsThere, NEW s \in Servers, ServerStep(s) \/ ServerAccepts(s)
  PROVE  ServerIsThere'
<1> USE DEF TypeOK, ServerIsThere, Goto, pools, Bound
<1>1. s # None
  BY ThreadsAssumption
<1>2. CASE ServerBegins(s)
  BY <1>2 DEF ServerBegins
<1>3. CASE ServerBinds(s)
  BY <1>1, <1>3 DEF ServerBinds
<1>4. CASE ServerPublishes(s)
  BY <1>4 DEF ServerPublishes
<1>5. CASE ServerLoops(s)
  BY <1>5 DEF ServerLoops
<1>6. CASE ServerAccepts(s) \/ ServerAcceptFails(s)
  BY <1>6 DEF ServerAccepts, ServerAcceptFails
<1>7. CASE ServerLimits(s) \/ ServerAdds(s)
  BY <1>7 DEF ServerLimits, ServerAdds
<1>8. CASE ServerStartsWriter(s) \/ ServerRemoves(s)
  BY <1>8 DEF ServerStartsWriter, ServerRemoves
<1>9. CASE ServerReleases(s)
  BY <1>9 DEF ServerReleases
<1>10. CASE ServerLowers(s)
  BY <1>10 DEF ServerLowers
<1> QED
  BY <1>2, <1>3, <1>4, <1>5, <1>6, <1>7, <1>8, <1>9, <1>10 DEF ServerStep

\* All steps do.
LEMMA ThereStep == TypeInv /\ ServerIsThere /\ [Next]_vars => ServerIsThere'
<1> SUFFICES ASSUME TypeInv, ServerIsThere, [Next]_vars PROVE ServerIsThere'
  OBVIOUS
<1> USE DEF TypeInv
<1>1. CASE StartServer
  BY <1>1 DEF StartServer, TypeOK, ServerIsThere, Bound, pools
<1>2. CASE StopBridge
  BY <1>2, ThereStill DEF StopBridge, server, pools
<1>3. CASE MainStep
  <2>1. ASSUME NEW c \in Clients, MainCloses(c) PROVE ServerIsThere'
    BY <2>1, ThereStill DEF MainCloses, server, pools
  <2>2. CASE MainSnapshot \/ MainClears \/ MainClosesSocket \/ MainForgetsSocket
    BY <2>2, ThereStill DEF MainSnapshot, MainClears, MainClosesSocket, MainForgetsSocket, server, pools
  <2>3. CASE MainShutsIo
    BY <2>3 DEF MainShutsIo, TypeOK, ServerIsThere, Bound
  <2>4. CASE MainShutsClientIo
    BY <2>4, ThereStill DEF MainShutsClientIo, server
  <2> QED
    BY <1>3, <2>1, <2>2, <2>3, <2>4 DEF MainStep
<1>4. CASE \E s \in Servers : ServerStep(s) \/ ServerAccepts(s)
  BY <1>4, ThereServer
<1>5. ASSUME NEW c \in Clients, WriterStep(c) \/ WriterWrites(c) \/ CloseStep(c)
      PROVE  ServerIsThere'
  <2>1. UNCHANGED <<running, listening, serverPc, ioDown>>
    BY <1>5 DEF WriterStep, WriterBegins, WriterLoops, WriterPolls, WriterFails, WriterCloses,
       WriterRemoves, WriterWrites, WriterGoto, CloseStep, CloseClears, CloseSocket, server, pools
  <2> QED
    BY <2>1, ThereStill
<1>6. ASSUME NEW b \in Broadcasters, SendStep(b) \/ Send(b)
      PROVE  ServerIsThere'
  <2>1. UNCHANGED <<running, listening, serverPc, ioDown>>
    BY <1>6 DEF SendStep, Send, SendChecks, SendOffers, SendRemoves, SendCloses, SendEnds, SendGoto,
       server, pools
  <2> QED
    BY <2>1, ThereStill
<1>7. CASE UNCHANGED vars
  BY <1>7, ThereStill DEF vars, server, pools
<1> QED
  BY <1>1, <1>2, <1>3, <1>4, <1>5, <1>6, <1>7 DEF Next, InternalStep

\* A flag that is up always has a task behind it, and a bound port one that will
\* release it, for any number of tasks and after any stops and starts.
THEOREM ServerThere == Spec => []ServerIsThere
<1>1. Init => ServerIsThere
  BY DEF Init, ServerIsThere
<1>2. SbsInv => TypeInv
  BY DEF SbsInv
<1> QED
  BY <1>1, <1>2, ThereStep, Invariance, PTL DEF Spec

-----------------------------------------------------------------------------
(* Leaving the list.                                                        *)

\* No client leaves the list with its connection open, unless a broadcaster is on
\* its way to close it, or stopBridge clears the list (BS 441): a client registered
\* after stopBridge's snapshot stays connected and gets nothing more.
DroppedIsClosed ==
  [][\A c \in clients \ clients' :
       \/ ~IsOpen(c)
       \/ mainPc = "close"
       \/ \E b \in Broadcasters : target'[b] = c /\ sendPc'[b] = "close"]_vars

\* Who runs onClosed has closed the client, or found it closed.
ClosedInv ==
  /\ \A c \in Clients : writerPc[c] = "remove" => ~IsOpen(c)
  /\ \A s \in Servers : serverPc[s] = "remove" => ~IsOpen(accepted[s])

\* A step that opens no client and brings no thread to onClosed keeps that.
LEMMA ClosedStill ==
  ASSUME ClosedInv,
         \A c \in Clients : ~IsOpen(c) => ~IsOpen(c)',
         \A c \in Clients : writerPc'[c] = "remove" => writerPc[c] = "remove",
         \A s \in Servers : serverPc'[s] = "remove" =>
           serverPc[s] = "remove" /\ accepted'[s] = accepted[s] /\ accepted[s] \in Clients
  PROVE  ClosedInv'
BY DEF ClosedInv, IsOpen

\* A call of close() leaves its client closed, and opens no other.
LEMMA CallCloseCloses ==
  ASSUME TypeOK, NEW c \in Clients, NEW w, CallClose(c, w)
  PROVE  ~IsOpen(c)' /\ \A d \in Clients : ~IsOpen(d) => ~IsOpen(d)'
BY DEF TypeOK, CallClose, IsOpen

\* All steps keep it.
LEMMA ClosedStep == SbsInv /\ ClosedInv /\ [Next]_vars => ClosedInv'
<1> SUFFICES ASSUME SbsInv, ClosedInv, [Next]_vars PROVE ClosedInv'
  OBVIOUS
<1>0. TypeOK /\ HoldInv /\ HandsInv
  BY DEF SbsInv, TypeInv
<1>a. \A s \in Servers : serverPc[s] = "remove" => accepted[s] \in Clients
  BY <1>0 DEF HoldInv, Handing
<1>1. CASE StartServer \/ StopBridge
  BY <1>0, <1>1, <1>a, ClosedStill DEF StartServer, StopBridge, IsOpen, server, writers, closing, TypeOK
<1>2. CASE MainStep
  <2>1. ASSUME NEW c \in Clients, MainCloses(c) PROVE ClosedInv'
    BY <1>0, <1>a, <2>1, CallCloseCloses, ClosedStill DEF MainCloses, server, writers
  <2>2. CASE MainSnapshot \/ MainClears \/ MainClosesSocket \/ MainForgetsSocket
    BY <1>a, <2>2, ClosedStill DEF MainSnapshot, MainClears, MainClosesSocket, MainForgetsSocket,
       IsOpen, server, writers, closing
  <2>3. CASE MainShutsIo \/ MainShutsClientIo
    BY <1>a, <2>3, ClosedStill DEF MainShutsIo, MainShutsClientIo, IsOpen, server, writers, closing
  <2> QED
    BY <1>2, <2>1, <2>2, <2>3 DEF MainStep
<1>3. ASSUME NEW s \in Servers, ServerStep(s) \/ ServerAccepts(s) PROVE ClosedInv'
  <2> USE DEF TypeOK, Goto
  <2>1. CASE ServerBegins(s) \/ ServerBinds(s) \/ ServerPublishes(s) \/ ServerLoops(s)
             \/ ServerAcceptFails(s) \/ ServerReleases(s) \/ ServerLowers(s)
    <3>1. UNCHANGED <<accepted, closePc, writerPc>>
      BY <2>1 DEF ServerBegins, ServerBinds, ServerPublishes, ServerLoops, ServerAcceptFails,
         ServerReleases, ServerLowers, SameClients, closing, writers
    <3>2. \E to \in {"bind", "publish", "lower", "loop", "accept", "release", "dead"} :
            serverPc' = [serverPc EXCEPT ![s] = to]
      BY <2>1 DEF ServerBegins, ServerBinds, ServerPublishes, ServerLoops, ServerAcceptFails,
         ServerReleases, ServerLowers
    <3> QED
      BY <1>0, <1>a, <3>1, <3>2, ClosedStill DEF IsOpen
  <2>2. CASE ServerAccepts(s)
    <3>1. PICK c \in Clients : /\ Reusable(c) /\ \A u \in Servers : accepted[u] # c
                               /\ accepted' = [accepted EXCEPT ![s] = c]
                               /\ closePc' = [closePc EXCEPT ![c] = "open"]
                               /\ writerPc' = [writerPc EXCEPT ![c] = "none"]
      BY <2>2 DEF ServerAccepts
    <3> QED
      BY <1>0, <1>a, <2>2, <3>1 DEF ServerAccepts, ClosedInv, IsOpen
  <2>3. CASE ServerLimits(s) \/ ServerAdds(s)
    BY <1>0, <1>a, <2>3, ClosedStill DEF ServerLimits, ServerAdds, SameClients, IsOpen, closing, writers
  <2>4. CASE ServerStartsWriter(s)
    <3>1. accepted[s] \in Clients
      BY <1>0, <2>4 DEF ServerStartsWriter, HoldInv, Handing
    <3>2. CASE clientIoDown
      <4>1. ~IsOpen(accepted[s])' /\ \A d \in Clients : ~IsOpen(d) => ~IsOpen(d)'
        BY <1>0, <2>4, <3>1, <3>2, CallCloseCloses DEF ServerStartsWriter
      <4> QED
        BY <1>0, <1>a, <2>4, <3>1, <3>2, <4>1 DEF ServerStartsWriter, ClosedInv, IsOpen
    <3>3. CASE ~clientIoDown
      BY <1>0, <1>a, <2>4, <3>1, <3>3, ClosedStill DEF ServerStartsWriter, IsOpen, closing
    <3> QED
      BY <3>2, <3>3
  <2>5. CASE ServerRemoves(s)
    BY <1>0, <1>a, <2>5, ClosedStill DEF ServerRemoves, IsOpen, closing, writers
  <2> QED
    BY <1>3, <2>1, <2>2, <2>3, <2>4, <2>5 DEF ServerStep
<1>4. ASSUME NEW c \in Clients, WriterStep(c) \/ WriterWrites(c) PROVE ClosedInv'
  <2> USE DEF WriterGoto, TypeOK, server
  <2>1. CASE WriterBegins(c) \/ WriterLoops(c) \/ WriterFails(c) \/ WriterWrites(c) \/ WriterPolls(c)
             \/ WriterRemoves(c)
    BY <1>0, <1>a, <2>1, ClosedStill DEF WriterBegins, WriterLoops, WriterFails, WriterWrites,
       WriterPolls, WriterRemoves, IsOpen, closing
  <2>2. CASE WriterCloses(c)
    <3>1. ~IsOpen(c)' /\ \A d \in Clients : ~IsOpen(d) => ~IsOpen(d)'
      BY <1>0, <2>2, CallCloseCloses DEF WriterCloses
    <3> QED
      BY <1>0, <1>a, <2>2, <3>1 DEF WriterCloses, ClosedInv, IsOpen
  <2> QED
    BY <1>4, <2>1, <2>2 DEF WriterStep
<1>5. ASSUME NEW c \in Clients, CloseStep(c) PROVE ClosedInv'
  BY <1>0, <1>a, <1>5, ClosedStill DEF CloseStep, CloseClears, CloseSocket, IsOpen, server, writers, TypeOK
<1>6. ASSUME NEW b \in Broadcasters, SendStep(b) \/ Send(b) PROVE ClosedInv'
  <2>1. UNCHANGED <<serverPc, accepted, writerPc>>
    BY <1>6 DEF SendStep, Send, SendChecks, SendOffers, SendRemoves, SendCloses, SendEnds, SendGoto,
       server, writers
  <2>2. CASE SendCloses(b)
    <3>1. target[b] \in Clients
      BY <1>0, <2>2 DEF SendCloses, SendGoto, HoldInv
    <3> QED
      BY <1>0, <1>a, <2>1, <2>2, <3>1, CallCloseCloses, ClosedStill DEF SendCloses
  <2>3. CASE ~SendCloses(b)
    <3>1. closePc' = closePc
      BY <1>6, <2>3 DEF SendStep, Send, SendChecks, SendOffers, SendRemoves, SendEnds, closing
    <3> QED
      BY <1>a, <2>1, <3>1, ClosedStill DEF IsOpen
  <2> QED
    BY <2>2, <2>3
<1>7. CASE UNCHANGED vars
  BY <1>7, <1>a, ClosedStill DEF vars, IsOpen, server, writers, closing
<1> QED
  BY <1>1, <1>2, <1>3, <1>4, <1>5, <1>6, <1>7 DEF Next, InternalStep

\* Four kinds of step take clients out of the list, and each is right.
LEMMA DropStep ==
  ASSUME SbsInv, ClosedInv, [Next]_vars, NEW c \in clients, c \notin clients'
  PROVE  \/ ~IsOpen(c) \/ mainPc = "close"
         \/ \E b \in Broadcasters : target'[b] = c /\ sendPc'[b] = "close"
<1>1. CASE StartServer \/ StopBridge \/ UNCHANGED vars
  BY <1>1 DEF StartServer, StopBridge, vars
<1>2. CASE MainStep
  BY <1>2 DEF MainStep, MainSnapshot, MainClears, MainClosesSocket, MainForgetsSocket, MainShutsIo,
     MainShutsClientIo, MainCloses
<1>3. ASSUME NEW s \in Servers, ServerStep(s) \/ ServerAccepts(s) PROVE ~IsOpen(c)
  <2>1. CASE ServerRemoves(s)
    BY <2>1 DEF ServerRemoves, Goto, ClosedInv
  <2>2. CASE ~ServerRemoves(s)
    BY <1>3, <2>2 DEF ServerStep, ServerBegins, ServerBinds, ServerPublishes, ServerLoops,
       ServerAcceptFails, ServerReleases, ServerLowers, ServerAccepts, ServerLimits, ServerAdds,
       ServerStartsWriter, SameClients
  <2> QED
    BY <2>1, <2>2
<1>4. ASSUME NEW d \in Clients, WriterStep(d) \/ WriterWrites(d) \/ CloseStep(d) PROVE ~IsOpen(c)
  <2>1. CASE WriterRemoves(d)
    BY <2>1 DEF WriterRemoves, WriterGoto, Unregister, ClosedInv
  <2>2. CASE ~WriterRemoves(d)
    BY <1>4, <2>2 DEF WriterStep, WriterBegins, WriterLoops, WriterPolls, WriterFails, WriterCloses,
       WriterWrites, CloseStep, CloseClears, CloseSocket
  <2> QED
    BY <2>1, <2>2
<1>5. ASSUME NEW b \in Broadcasters, SendStep(b) \/ Send(b)
      PROVE  target'[b] = c /\ sendPc'[b] = "close"
  <2>1. CASE SendRemoves(b)
    BY <2>1 DEF SendRemoves, SendGoto, SbsInv, TypeInv, TypeOK
  <2>2. CASE ~SendRemoves(b)
    BY <1>5, <2>2 DEF SendStep, Send, SendChecks, SendOffers, SendCloses, SendEnds
  <2> QED
    BY <2>1, <2>2
<1> QED
  BY <1>1, <1>2, <1>3, <1>4, <1>5 DEF Next, InternalStep

\* A full queue, a failed write and a rejected writer all end with the client closed,
\* not only taken out of the list.
THEOREM DroppedClosed == Spec => DroppedIsClosed
<1>1. Init => ClosedInv
  BY DEF Init, ClosedInv
<1>2. SbsInv /\ ClosedInv /\ [Next]_vars =>
        [\A c \in clients \ clients' :
           \/ ~IsOpen(c)
           \/ mainPc = "close"
           \/ \E b \in Broadcasters : target'[b] = c /\ sendPc'[b] = "close"]_vars
  BY DropStep
<1> QED
  BY <1>1, <1>2, ClosedStep, Invariance, PTL DEF Spec, DroppedIsClosed

=============================================================================
