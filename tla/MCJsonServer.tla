----------------------------- MODULE MCJsonServer -----------------------------
(***************************************************************************)
(* JsonServer for TLC, with a bound on the commands the main thread        *)
(* receives.                                                               *)
(***************************************************************************)
EXTENDS JsonServer

CONSTANTS
  MaxCommands       \* bound: commands received in one behaviour

VARIABLE commands   \* how many of them have been

BoundedInit == Init /\ commands = 0

BoundedNext ==
  \/ Command /\ commands < MaxCommands /\ commands' = commands + 1
  \/ InternalStep /\ UNCHANGED commands

BoundedSpec == BoundedInit /\ [][BoundedNext]_<<vars, commands>> /\ Fairness

=============================================================================
