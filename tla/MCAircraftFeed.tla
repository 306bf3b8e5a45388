---------------------------- MODULE MCAircraftFeed ----------------------------
(***************************************************************************)
(* AircraftFeed with interchangeable readers, for TLC.                     *)
(***************************************************************************)
EXTENDS AircraftFeed, TLC

ReaderSymmetry == Permutations(Readers)

=============================================================================
