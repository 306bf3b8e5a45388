----------------------------- MODULE MCSdrSafety -----------------------------
(***************************************************************************)
(* SdrLifecycle with interchangeable readers, for its safety run.  Readers *)
(* are instances of one class that no command, and no property, names, so  *)
(* permuting them loses nothing.                                           *)
(***************************************************************************)
EXTENDS SdrLifecycle, TLC

ReaderSymmetry == Permutations(Readers)

=============================================================================
