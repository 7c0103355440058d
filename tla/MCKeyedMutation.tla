--------------------------- MODULE MCKeyedMutation ---------------------------
(***************************************************************************)
(* Instances of KeyedMutation for TLC.                                     *)
(***************************************************************************)
EXTENDS KeyedMutation, TLC

\* Keys are interchangeable.
KeySymmetry == Permutations(Keys)
=============================================================================
