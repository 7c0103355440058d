--------------------------- MODULE MCKeyedJobStart ---------------------------
(***************************************************************************)
(* An instance of KeyedJobStart for TLC.                                   *)
(***************************************************************************)
EXTENDS KeyedJobStart, TLC

\* Job identifiers are interchangeable.
JobSymmetry == Permutations(Jobs)
=============================================================================
