------------------------------- MODULE MCRooms -------------------------------
(***************************************************************************)
(* Rooms for TLC.  The agents that create no rooms are alike, and so are   *)
(* the names of rooms.                                                     *)
(***************************************************************************)
EXTENDS Rooms, TLC

Symmetry == Permutations(Present \ Creators) \cup Permutations(Name)
=============================================================================
