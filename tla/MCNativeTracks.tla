---------------------------- MODULE MCNativeTracks ----------------------------
(***************************************************************************)
(* NativeTracks with interchangeable addresses, for TLC.  The invariants   *)
(* mention no particular address, so permuting them loses nothing.         *)
(***************************************************************************)
EXTENDS NativeTracks, TLC

AddrSymmetry == Permutations(Addrs)

=============================================================================
