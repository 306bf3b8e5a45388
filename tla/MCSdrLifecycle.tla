--------------------------- MODULE MCSdrLifecycle ---------------------------
(***************************************************************************)
(* SdrLifecycle for the liveness run of TLC: a bounded form of the         *)
(* specification in which at most MaxCommands commands reach the service,  *)
(* so that readers may fail and be restarted for ever, but not be stopped. *)
(***************************************************************************)
EXTENDS SdrLifecycle

CONSTANTS
  MaxCommands       \* bound: commands received in one behaviour

VARIABLE commands   \* how many of them have been

BoundedInit == Init /\ commands = 0

BoundedNext ==
  \/ /\ \E c \in ServiceCommands : ~crashed /\ Command(c)
     /\ commands < MaxCommands
     /\ commands' = commands + 1
  \/ /\ InternalStep
     /\ UNCHANGED commands

BoundedSpec == BoundedInit /\ [][BoundedNext]_<<vars, commands>> /\ Fairness

=============================================================================
