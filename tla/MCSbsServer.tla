---------------------------- MODULE MCSbsServer ----------------------------
(***************************************************************************)
(* SbsServer for TLC: the symmetry of its safety run and, for its liveness *)
(* run, a bound on the commands the main thread receives.                  *)
(***************************************************************************)
EXTENDS SbsServer, TLC

CONSTANTS
  MaxCommands       \* bound: commands received in one behaviour

VARIABLE commands   \* how many of them have been

Symmetry == Permutations(Servers) \cup Permutations(Clients)

BoundedInit == Init /\ commands = 0

BoundedNext ==
  \/ /\ StartServer \/ StopBridge
     /\ commands < MaxCommands
     /\ commands' = commands + 1
  \/ /\ InternalStep
     /\ UNCHANGED commands

BoundedSpec == BoundedInit /\ [][BoundedNext]_<<vars, commands>> /\ Fairness

=============================================================================
