------------------------------ MODULE MCCapture ------------------------------
(***************************************************************************)
(* Capture for TLC: values may be exchanged for one another.               *)
(***************************************************************************)
EXTENDS Capture, TLC

Symmetry == Permutations(Value)
=============================================================================
