------------------------------ MODULE ReaderSlot ------------------------------
(***************************************************************************)
(* What the SDR supervisor promises about its readers, whatever threads    *)
(* and locks it uses: there is one slot.  A reader is created into the     *)
(* empty slot; it leaves when it is dismissed or when it ends; a reader is *)
(* told to stop only by its own hand or by the one who dismissed it, and   *)
(* one that ends empties the slot only of itself.  SdrLifecycle implements *)
(* this: there, each of these steps is several.                            *)
(***************************************************************************)
CONSTANTS
  Readers,   \* identities of readers, reused once dead
  NoReader   \* nobody

VARIABLES
  slot,       \* the current reader
  live,       \* readers that have still work to do
  told,       \* those of them that have been told to stop
  dismissed,  \* a reader out of the slot that is about to be told
  down        \* the service has been destroyed

vars == <<slot, live, told, dismissed, down>>

Init ==
  /\ slot = NoReader /\ dismissed = NoReader
  /\ live = {} /\ told = {}
  /\ down = FALSE

Without(r, someone) == IF someone = r THEN NoReader ELSE someone

\* A reader is created.
Take(r) ==
  /\ slot = NoReader /\ r \notin live
  /\ slot' = r
  /\ live' = live \cup {r}
  /\ UNCHANGED <<told, dismissed, down>>

\* The service gives its reader up, and owes it a stop unless it is stopping.
Dismiss ==
  /\ slot # NoReader /\ dismissed = NoReader
  /\ slot' = NoReader
  /\ dismissed' = IF slot \in live \ told THEN slot ELSE NoReader
  /\ UNCHANGED <<live, told, down>>

\* A reader is told to stop, or stops itself; it is told once.
Tell(r) ==
  /\ r \in live \ told
  /\ r \in {slot, dismissed}
  /\ told' = told \cup {r}
  /\ dismissed' = Without(r, dismissed)
  /\ UNCHANGED <<slot, live, down>>

\* A reader's work is over.
End(r) ==
  /\ r \in live
  /\ live' = live \ {r}
  /\ told' = told \ {r}
  /\ slot' = Without(r, slot)
  /\ dismissed' = Without(r, dismissed)
  /\ UNCHANGED down

\* Readers that had not begun never will.
Shutdown ==
  /\ ~down /\ dismissed = NoReader
  /\ down' = TRUE
  /\ live' \in SUBSET live
  /\ told' = told \cap live'
  /\ UNCHANGED <<slot, dismissed>>

Next ==
  \/ \E r \in Readers : Take(r) \/ Tell(r) \/ End(r)
  \/ Dismiss \/ Shutdown

Spec == Init /\ [][Next]_vars

=============================================================================
