------------------------------ MODULE MCRecords ------------------------------
(***************************************************************************)
(* Instance of Records for TLC.                                             *)
(***************************************************************************)
EXTENDS Records, TLC

\* Names, types and addresses are interchangeable.
Symmetry == Permutations(RecordKeys) \cup Permutations(Addresses)
=============================================================================
