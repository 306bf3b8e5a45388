------------------------------ MODULE RequestPool ------------------------------
(***************************************************************************)
(* What the JSON feed promises to the requests it accepts, whatever tasks  *)
(* and threads it has: a request is served at once, waits its turn or is   *)
(* refused; so many are served and so many wait; nobody is refused while   *)
(* there is room to wait, nobody overtakes those who wait unless there is  *)
(* none, and only the shutdown forgets a request.  JsonServer implements   *)
(* this.                                                                   *)
(***************************************************************************)
EXTENDS Naturals, Sequences, FiniteSets

CONSTANTS
  Requests,   \* identities of requests, reused once over
  Servers,    \* how many are served at a time
  Places      \* how many wait

VARIABLES
  arrived,    \* accepted, and not yet decided upon
  waiting,    \* in order of arrival
  served,     \* being read or answered
  forgotten,  \* waiting at the shutdown
  down        \* the service has been destroyed

vars == <<arrived, waiting, served, forgotten, down>>

Init ==
  /\ arrived = {} /\ waiting = <<>> /\ served = {} /\ forgotten = {}
  /\ down = FALSE

Known == arrived \cup {waiting[i] : i \in DOMAIN waiting} \cup served \cup forgotten

Arrive(r) ==
  /\ r \notin Known
  /\ arrived' = arrived \cup {r}
  /\ UNCHANGED <<waiting, served, forgotten, down>>

\* A request that does not wait: nobody does, or nobody more can.
ServeAtOnce(r) ==
  /\ ~down /\ r \in arrived
  /\ Cardinality(served) < Servers
  /\ Len(waiting) \in {0, Places}
  /\ arrived' = arrived \ {r}
  /\ served' = served \cup {r}
  /\ UNCHANGED <<waiting, forgotten, down>>

Wait(r) ==
  /\ ~down /\ r \in arrived
  /\ Len(waiting) < Places
  /\ arrived' = arrived \ {r}
  /\ waiting' = Append(waiting, r)
  /\ UNCHANGED <<served, forgotten, down>>

Refuse(r) ==
  /\ r \in arrived
  /\ down \/ Len(waiting) = Places
  /\ arrived' = arrived \ {r}
  /\ UNCHANGED <<waiting, served, forgotten, down>>

ServeNext ==
  /\ waiting # <<>>
  /\ Cardinality(served) < Servers
  /\ served' = served \cup {Head(waiting)}
  /\ waiting' = Tail(waiting)
  /\ UNCHANGED <<arrived, forgotten, down>>

Finish(r) ==
  /\ r \in served
  /\ served' = served \ {r}
  /\ UNCHANGED <<arrived, waiting, forgotten, down>>

\* Those served are served to the end.
Shutdown ==
  /\ down' = TRUE
  /\ forgotten' = forgotten \cup {waiting[i] : i \in DOMAIN waiting}
  /\ waiting' = <<>>
  /\ UNCHANGED <<arrived, served>>

Next ==
  \/ \E r \in Requests : Arrive(r) \/ ServeAtOnce(r) \/ Wait(r) \/ Refuse(r) \/ Finish(r)
  \/ ServeNext \/ Shutdown

Spec == Init /\ [][Next]_vars

=============================================================================
