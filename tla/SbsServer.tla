------------------------------ MODULE SbsServer ------------------------------
(***************************************************************************)
(* The SBS feed of BridgeService: the server tasks that listen on port     *)
(* 30003, the ClientConnection of every accepted client with its bounded   *)
(* queue and its writer task, the threads that broadcast lines to all      *)
(* clients, and stopBridge on the main thread.                             *)
(*                                                                         *)
(* A step is one access to a shared field, to the copy-on-write list       *)
(* `clients` or to a client's queue, or one socket call.  Lines are only   *)
(* counted.  The reader that stopBridge stops in between is SdrLifecycle's.*)
(***************************************************************************)
EXTENDS Naturals, FiniteSets

CONSTANTS
  Servers,       \* identities of server tasks, reused once over
  Clients,       \* identities of ClientConnection objects, reused once let go
  Broadcasters,  \* threads that call broadcastLine
  MaxClients,    \* MAX_SBS_CLIENTS: the limit, and the threads of sbsClientIo
  MaxPending,    \* MAX_PENDING_SBS_LINES
  Main,          \* the main thread, where it is the one that closes a client
  None           \* Java null, or nobody

ASSUME ThreadsAssumption ==
  /\ {Main, None} \cap (Servers \cup Clients \cup Broadcasters) = {}
  /\ Servers \cap (Clients \cup Broadcasters) = {} /\ Clients \cap Broadcasters = {}
  /\ Main # None
ASSUME ServersAssumption  == IsFiniteSet(Servers)   \* `io` has four threads
ASSUME CapacityAssumption == MaxClients \in Nat \ {0} /\ MaxPending \in Nat \ {0}

VARIABLES
  running,               \* the flag that stopBridge and every server task share
  serverSocket,          \* the task whose socket the field holds
  listening,             \* the task whose socket is bound to the port and open
  ioDown, clientIoDown,  \* shutdownNow has run on io, on sbsClientIo
  mainPc, toClose,       \* main thread: position, clients stopBridge has yet to close
  destroying,            \* the stopBridge under way is the one of onDestroy
  serverPc, accepted,    \* each server task: position, client in its hands
  clients,               \* the list of registered clients
  pending,               \* number of lines in each client's queue
  closePc, closer,       \* progress of close() on each client, and the thread inside it
  workers,               \* threads sbsClientIo has created
  writerPc,              \* position of each client's writer task
  sendPc, todo, target   \* each broadcaster: position, clients to come, client at hand

main      == <<mainPc, toClose, destroying>>
pools     == <<ioDown, clientIoDown>>
writers   == <<workers, writerPc>>
server    == <<serverPc, accepted>>
closing   == <<closePc, closer>>
broadcast == <<sendPc, todo, target>>
vars == <<running, serverSocket, listening, pools, main, server, clients, pending, closing,
          writers, broadcast>>

Threads == Servers \cup Clients \cup Broadcasters \cup {Main}   \* a writer is named by its client

TypeOK ==
  /\ running \in BOOLEAN /\ ioDown \in BOOLEAN /\ clientIoDown \in BOOLEAN
  /\ serverSocket \in Servers \cup {None}
  /\ listening \in Servers \cup {None}
  /\ mainPc \in {"idle", "snapshot", "close", "closeSocket", "forgetSocket", "ioDown", "clientIoDown"}
  /\ toClose \subseteq Clients
  /\ destroying \in BOOLEAN
  /\ serverPc \in [Servers -> {"dead", "queued", "bind", "publish", "loop", "accept", "limit", "add",
                               "start", "remove", "release", "lower"}]
  /\ accepted \in [Servers -> Clients \cup {None}]
  /\ clients \subseteq Clients
  /\ pending \in [Clients -> 0..MaxPending]
  /\ closePc \in [Clients -> {"open", "claimed", "cleared", "closed"}]
  /\ closer \in [Clients -> Threads \cup {None}]
  /\ workers \in 0..MaxClients
  /\ writerPc \in [Clients -> {"none", "queued", "loop", "poll", "write", "close", "remove", "dead"}]
  /\ sendPc \in [Broadcasters -> {"idle", "next", "offer", "remove", "close"}]
  /\ todo \in [Broadcasters -> SUBSET Clients]
  /\ target \in [Broadcasters -> Clients \cup {None}]

Init ==
  /\ running = FALSE /\ ioDown = FALSE /\ clientIoDown = FALSE
  /\ serverSocket = None /\ listening = None
  /\ mainPc = "idle" /\ toClose = {} /\ destroying = FALSE
  /\ serverPc = [s \in Servers |-> "dead"] /\ accepted = [s \in Servers |-> None]
  /\ clients = {}
  /\ pending = [c \in Clients |-> 0]
  /\ closePc = [c \in Clients |-> "closed"] /\ closer = [c \in Clients |-> None]
  /\ workers = 0 /\ writerPc = [c \in Clients |-> "dead"]
  /\ sendPc = [b \in Broadcasters |-> "idle"]
  /\ todo = [b \in Broadcasters |-> {}] /\ target = [b \in Broadcasters |-> None]

-----------------------------------------------------------------------------
(* ClientConnection.close(), on whichever thread wins the CAS.             *)

IsOpen(c) == closePc[c] = "open"

\* Thread w is inside the body of some close().
InClose(w) == \E c \in Clients : closer[c] = w

\* The CAS; the loser returns at once.
CallClose(c, w) ==
  /\ closePc' = [closePc EXCEPT ![c] = IF IsOpen(c) THEN "claimed" ELSE @]
  /\ closer' = [closer EXCEPT ![c] = IF IsOpen(c) THEN w ELSE @]

CloseClears(c) ==
  /\ closePc[c] = "claimed"
  /\ closePc' = [closePc EXCEPT ![c] = "cleared"]
  /\ pending' = [pending EXCEPT ![c] = 0]
  /\ UNCHANGED <<running, serverSocket, listening, pools, main, server, clients, closer, writers,
                 broadcast>>

CloseSocket(c) ==
  /\ closePc[c] = "cleared"
  /\ closePc' = [closePc EXCEPT ![c] = "closed"]
  /\ closer' = [closer EXCEPT ![c] = None]
  /\ UNCHANGED <<running, serverSocket, listening, pools, main, server, clients, pending, writers,
                 broadcast>>

-----------------------------------------------------------------------------
(* Main thread: startServerIfNeeded and stopBridge.                        *)

\* Any intent but STOP; nothing happens when the flag is up.
StartServer ==
  /\ mainPc = "idle" /\ ~ioDown
  /\ ~running
  /\ running' = TRUE
  /\ \E s \in Servers : /\ serverPc[s] = "dead"
                        /\ serverPc' = [serverPc EXCEPT ![s] = "queued"]
  /\ UNCHANGED <<serverSocket, listening, pools, main, accepted, clients, pending, closing, writers,
                 broadcast>>

\* STOP, onTimeout, or onDestroy.
StopBridge ==
  /\ mainPc = "idle" /\ ~ioDown
  /\ running' = FALSE
  /\ mainPc' = "snapshot"
  /\ destroying' \in BOOLEAN
  /\ UNCHANGED <<serverSocket, listening, pools, toClose, server, clients, pending, closing, writers,
                 broadcast>>

\* The iterator of the copy-on-write list.
MainSnapshot ==
  /\ mainPc = "snapshot"
  /\ mainPc' = "close"
  /\ toClose' = clients
  /\ UNCHANGED <<running, serverSocket, listening, pools, destroying, server, clients, pending,
                 closing, writers, broadcast>>

MainCloses(c) ==
  /\ mainPc = "close" /\ c \in toClose
  /\ ~InClose(Main)
  /\ CallClose(c, Main)
  /\ toClose' = toClose \ {c}
  /\ UNCHANGED <<running, serverSocket, listening, pools, mainPc, destroying, server, clients,
                 pending, writers, broadcast>>

MainClears ==
  /\ mainPc = "close" /\ toClose = {}
  /\ ~InClose(Main)
  /\ clients' = {}
  /\ mainPc' = "closeSocket"
  /\ UNCHANGED <<running, serverSocket, listening, pools, toClose, destroying, server, pending,
                 closing, writers, broadcast>>

MainClosesSocket ==
  /\ mainPc = "closeSocket"
  /\ listening' = IF listening = serverSocket THEN None ELSE listening
  /\ mainPc' = "forgetSocket"
  /\ UNCHANGED <<running, serverSocket, pools, toClose, destroying, server, clients, pending,
                 closing, writers, broadcast>>

MainForgetsSocket ==
  /\ mainPc = "forgetSocket"
  /\ serverSocket' = None
  /\ mainPc' = IF destroying THEN "ioDown" ELSE "idle"
  /\ UNCHANGED <<running, listening, pools, toClose, destroying, server, clients, pending, closing,
                 writers, broadcast>>

\* io.shutdownNow(): tasks not yet begun are dropped; accept() ignores the interrupt.
MainShutsIo ==
  /\ mainPc = "ioDown"
  /\ ioDown' = TRUE
  /\ serverPc' = [s \in Servers |-> IF serverPc[s] = "queued" THEN "dead" ELSE serverPc[s]]
  /\ mainPc' = "clientIoDown"
  /\ UNCHANGED <<running, serverSocket, listening, clientIoDown, toClose, destroying, accepted,
                 clients, pending, closing, writers, broadcast>>

\* sbsClientIo.shutdownNow(): likewise, and running writers find their interrupt in poll().
MainShutsClientIo ==
  /\ mainPc = "clientIoDown"
  /\ clientIoDown' = TRUE
  /\ writerPc' = [c \in Clients |-> IF writerPc[c] = "queued" THEN "dead" ELSE writerPc[c]]
  /\ mainPc' = "idle"
  /\ UNCHANGED <<running, serverSocket, listening, ioDown, toClose, destroying, server, clients,
                 pending, closing, workers, broadcast>>

-----------------------------------------------------------------------------
(* A server task.                                                           *)

\* Moves server task s and leaves alone what no server step changes.
Goto(s, from, to) ==
  /\ serverPc[s] = from
  /\ ~InClose(s)
  /\ serverPc' = [serverPc EXCEPT ![s] = to]
  /\ UNCHANGED <<pools, main, broadcast>>

\* Nothing but the socket, or nothing but the flag, changes.
SameClients == UNCHANGED <<accepted, clients, pending, closing, writers>>

ServerBegins(s) ==
  /\ Goto(s, "queued", "bind")
  /\ SameClients /\ UNCHANGED <<running, serverSocket, listening>>

\* The port is free, or somebody (another task, another program) has it.
ServerBinds(s) ==
  /\ \/ /\ listening = None
        /\ listening' = s
        /\ Goto(s, "bind", "publish")
     \/ /\ Goto(s, "bind", "lower")
        /\ UNCHANGED listening
  /\ SameClients /\ UNCHANGED <<running, serverSocket>>

ServerPublishes(s) ==
  /\ Goto(s, "publish", "loop")
  /\ serverSocket' = s
  /\ SameClients /\ UNCHANGED <<running, listening>>

ServerLoops(s) ==
  /\ Goto(s, "loop", IF running THEN "accept" ELSE "release")
  /\ SameClients /\ UNCHANGED <<running, serverSocket, listening>>

\* An identity no thread holds any more can stand for a new connection.
Reusable(c) ==
  /\ closePc[c] = "closed" /\ writerPc[c] = "dead" /\ c \notin clients \cup toClose
  /\ \A b \in Broadcasters : c \notin todo[b] /\ target[b] # c

ServerAccepts(s) ==
  /\ listening = s
  /\ Goto(s, "accept", "limit")
  /\ \E c \in Clients :
       /\ Reusable(c) /\ \A u \in Servers : accepted[u] # c
       /\ accepted' = [accepted EXCEPT ![s] = c]
       /\ closePc' = [closePc EXCEPT ![c] = "open"]
       /\ pending' = [pending EXCEPT ![c] = 0]
       /\ writerPc' = [writerPc EXCEPT ![c] = "none"]
  /\ UNCHANGED <<running, serverSocket, listening, clients, closer, workers>>

\* accept() on a socket that stopBridge has closed throws; the loop goes on.
ServerAcceptFails(s) ==
  /\ listening # s
  /\ Goto(s, "accept", "loop")
  /\ SameClients /\ UNCHANGED <<running, serverSocket, listening>>

\* Fault: one client too many is let in.
OverLimitByOne == Cardinality(clients) > MaxClients

OverLimit == Cardinality(clients) >= MaxClients

\* A client over the limit, or whose streams cannot be opened, is closed.
ServerLimits(s) ==
  \/ /\ ~OverLimit
     /\ Goto(s, "limit", "add")
     /\ SameClients /\ UNCHANGED <<running, serverSocket, listening>>
  \/ /\ Goto(s, "limit", "loop")
     /\ closePc' = [closePc EXCEPT ![accepted[s]] = "closed"]
     /\ writerPc' = [writerPc EXCEPT ![accepted[s]] = "dead"]
     /\ accepted' = [accepted EXCEPT ![s] = None]
     /\ UNCHANGED <<running, serverSocket, listening, clients, pending, closer, workers>>

ServerAdds(s) ==
  /\ Goto(s, "add", "start")
  /\ clients' = clients \cup {accepted[s]}
  /\ UNCHANGED <<running, serverSocket, listening, accepted, pending, closing, writers>>

\* sbsClientIo.execute: a new thread begins with the task, until there are MaxClients
\* threads and it is queued; rejected once that pool is down.
ServerStartsWriter(s) ==
  \/ /\ ~clientIoDown
     /\ Goto(s, "start", "loop")
     /\ IF workers < MaxClients
          THEN /\ workers' = workers + 1
               /\ writerPc' = [writerPc EXCEPT ![accepted[s]] = "loop"]
          ELSE /\ writerPc' = [writerPc EXCEPT ![accepted[s]] = "queued"]
               /\ UNCHANGED workers
     /\ accepted' = [accepted EXCEPT ![s] = None]
     /\ UNCHANGED <<running, serverSocket, listening, clients, pending, closing>>
  \/ /\ clientIoDown
     /\ Goto(s, "start", "remove")
     /\ CallClose(accepted[s], s)
     /\ writerPc' = [writerPc EXCEPT ![accepted[s]] = "dead"]
     /\ UNCHANGED <<running, serverSocket, listening, accepted, clients, pending, workers>>

\* onClosed of a rejected client.
ServerRemoves(s) ==
  /\ Goto(s, "remove", "loop")
  /\ clients' = clients \ {accepted[s]}
  /\ accepted' = [accepted EXCEPT ![s] = None]
  /\ UNCHANGED <<running, serverSocket, listening, pending, closing, writers>>

\* The end of try-with-resources.
ServerReleases(s) ==
  /\ Goto(s, "release", "lower")
  /\ listening' = IF listening = s THEN None ELSE listening
  /\ SameClients /\ UNCHANGED <<running, serverSocket>>

\* The finally block, of whatever task.
ServerLowers(s) ==
  /\ Goto(s, "lower", "dead")
  /\ running' = FALSE
  /\ SameClients /\ UNCHANGED <<serverSocket, listening>>

-----------------------------------------------------------------------------
(* A client's writer task.                                                 *)

WriterGoto(c, from, to) ==
  /\ writerPc[c] = from
  /\ ~InClose(c)
  /\ writerPc' = [writerPc EXCEPT ![c] = to]
  /\ UNCHANGED <<running, serverSocket, listening, pools, main, server, workers, broadcast>>

RunningWriters == {c \in Clients : writerPc[c] \in {"loop", "poll", "write", "close", "remove"}}

WriterBegins(c) ==
  /\ Cardinality(RunningWriters) < MaxClients
  /\ WriterGoto(c, "queued", "loop")
  /\ UNCHANGED <<clients, pending, closing>>

WriterLoops(c) ==
  /\ WriterGoto(c, "loop", IF IsOpen(c) \/ pending[c] > 0 THEN "poll" ELSE "close")
  /\ UNCHANGED <<clients, pending, closing>>

\* poll(500 ms): a line, nothing, or the interrupt of shutdownNow.
WriterPolls(c) ==
  /\ \/ /\ ~clientIoDown /\ pending[c] > 0
        /\ WriterGoto(c, "poll", "write")
        /\ pending' = [pending EXCEPT ![c] = @ - 1]
     \/ /\ ~clientIoDown /\ pending[c] = 0
        /\ WriterGoto(c, "poll", "loop")
        /\ UNCHANGED pending
     \/ /\ clientIoDown
        /\ WriterGoto(c, "poll", "close")
        /\ UNCHANGED pending
  /\ UNCHANGED <<clients, closing>>

\* The peer takes the line, or it has gone.  While it does neither, write() blocks.
WriterWrites(c) ==
  /\ closePc[c] # "closed"
  /\ \E to \in {"loop", "close"} : WriterGoto(c, "write", to)
  /\ UNCHANGED <<clients, pending, closing>>

\* write() on a closed socket throws.
WriterFails(c) ==
  /\ closePc[c] = "closed"
  /\ WriterGoto(c, "write", "close")
  /\ UNCHANGED <<clients, pending, closing>>

WriterCloses(c) ==
  /\ WriterGoto(c, "close", "remove")
  /\ CallClose(c, c)
  /\ UNCHANGED <<clients, pending>>

\* Fault: onClosed is not run.
UnregisterForgotten(c) == UNCHANGED clients

Unregister(c) == clients' = clients \ {c}

WriterRemoves(c) ==
  /\ WriterGoto(c, "remove", "dead")
  /\ Unregister(c)
  /\ UNCHANGED <<pending, closing>>

-----------------------------------------------------------------------------
(* broadcastLine, off the main thread.                                     *)

SendGoto(b, from, to) ==
  /\ sendPc[b] = from
  /\ ~InClose(b)
  /\ sendPc' = [sendPc EXCEPT ![b] = to]
  /\ UNCHANGED <<running, serverSocket, listening, pools, main, server, writers>>

Send(b) ==
  /\ SendGoto(b, "idle", "next")
  /\ todo' = [todo EXCEPT ![b] = clients]
  /\ UNCHANGED <<target, clients, pending, closing>>

\* The first half of enqueue: open.get().
SendChecks(b) ==
  /\ \E c \in todo[b] :
       /\ target' = [target EXCEPT ![b] = c]
       /\ todo' = [todo EXCEPT ![b] = @ \ {c}]
       /\ SendGoto(b, "next", IF IsOpen(c) THEN "offer" ELSE "remove")
  /\ UNCHANGED <<clients, pending, closing>>

\* Fault: the queue takes one line more than its capacity.
HasRoomOffByOne(c) == pending[c] <= MaxPending

HasRoom(c) == pending[c] < MaxPending

\* Fault: a full queue is waited for (put) instead of refusing the line (offer).
NeverRefuses(c) == FALSE

Refuses(c) == ~HasRoom(c)

\* The second half: pendingLines.offer.
SendOffers(b) ==
  /\ \/ /\ SendGoto(b, "offer", "next")
        /\ HasRoom(target[b])
        /\ pending' = [pending EXCEPT ![target[b]] = @ + 1]
        /\ target' = [target EXCEPT ![b] = None]
     \/ /\ SendGoto(b, "offer", "remove")
        /\ Refuses(target[b])
        /\ UNCHANGED <<pending, target>>
  /\ UNCHANGED <<todo, clients, closing>>

SendRemoves(b) ==
  /\ SendGoto(b, "remove", "close")
  /\ clients' = clients \ {target[b]}
  /\ UNCHANGED <<todo, target, pending, closing>>

SendCloses(b) ==
  /\ SendGoto(b, "close", "next")
  /\ CallClose(target[b], b)
  /\ target' = [target EXCEPT ![b] = None]
  /\ UNCHANGED <<todo, clients, pending>>

SendEnds(b) ==
  /\ todo[b] = {}
  /\ SendGoto(b, "next", "idle")
  /\ UNCHANGED <<todo, target, clients, pending, closing>>

-----------------------------------------------------------------------------
MainStep == \/ MainSnapshot \/ MainClears \/ MainClosesSocket \/ MainForgetsSocket \/ MainShutsIo
            \/ MainShutsClientIo \/ \E c \in Clients : MainCloses(c)

ServerStep(s) == \/ ServerBegins(s) \/ ServerBinds(s) \/ ServerPublishes(s) \/ ServerLoops(s)
                 \/ ServerAcceptFails(s) \/ ServerLimits(s) \/ ServerAdds(s) \/ ServerStartsWriter(s)
                 \/ ServerRemoves(s) \/ ServerReleases(s) \/ ServerLowers(s)

WriterStep(c) == \/ WriterBegins(c) \/ WriterLoops(c) \/ WriterPolls(c) \/ WriterFails(c)
                 \/ WriterCloses(c) \/ WriterRemoves(c)

SendStep(b) == SendChecks(b) \/ SendOffers(b) \/ SendRemoves(b) \/ SendCloses(b) \/ SendEnds(b)

CloseStep(c) == CloseClears(c) \/ CloseSocket(c)

InternalStep ==
  \/ MainStep
  \/ \E s \in Servers : ServerStep(s) \/ ServerAccepts(s)
  \/ \E c \in Clients : WriterStep(c) \/ WriterWrites(c) \/ CloseStep(c)
  \/ \E b \in Broadcasters : SendStep(b) \/ Send(b)

Next == StartServer \/ StopBridge \/ InternalStep

Spec == Init /\ [][Next]_vars

\* Android schedules every thread, and a poll ends within 500 ms.  Nobody owes the
\* service an intent, a connection, a line or a peer that reads.
Fairness ==
  /\ WF_vars(MainStep)
  /\ \A s \in Servers : WF_vars(ServerStep(s))
  /\ \A c \in Clients : SF_vars(WriterStep(c)) /\ WF_vars(CloseStep(c))
  /\ \A b \in Broadcasters : WF_vars(SendStep(b))

FairSpec == Spec /\ Fairness

-----------------------------------------------------------------------------
(* Properties.                                                              *)

\* MAX_SBS_CLIENTS is exceeded by one client at most per stopped server task: the
\* limit is checked before the client is added, and such a task may be in between.
ClientLimit == Cardinality(clients) < MaxClients + Cardinality(Servers)

\* No zombie takes up a place under the limit: a registered client has a writer that
\* will take it out of the list, or the server task is about to give it one.
RegisteredClientIsServed ==
  ~clientIoDown => \A c \in clients : writerPc[c] \notin {"none", "dead"} \/ \E s \in Servers : accepted[s] = c

\* Only stopBridge, or the end of the last server task, lowers the flag.
FlagLoweredByLastServer ==
  [][running /\ ~running' => mainPc' = "snapshot" \/ \A s \in Servers : serverPc'[s] = "dead"]_vars

\* A closed client gives back its thread and its place in the list.
ClosedClientLeaves ==
  \A c \in Clients : ~IsOpen(c) ~> c \notin clients /\ writerPc[c] \in {"dead", "queued", "none"}

\* A peer that does not read holds up nobody else: every broadcast is completed, the
\* threads that close a full client included.
BroadcastReturns == \A b \in Broadcasters : sendPc[b] # "idle" ~> sendPc[b] = "idle"

=============================================================================
