------------------------------ MODULE MCUploads ------------------------------
(***************************************************************************)
(* Instances of Uploads for TLC.                                           *)
(***************************************************************************)
EXTENDS Uploads, TLC

\* Two blocks: chunks that extend the data, and chunks that replace some.
TwoBlocks == <<1, 2>>

\* Processes are interchangeable.
CallSymmetry == Permutations(Calls)
=============================================================================
