------------------------------- MODULE MCInbox -------------------------------
(***************************************************************************)
(* Inbox for TLC: names, sessions and keys may be exchanged for one        *)
(* another.  Agents that send with the administrator's token, or join      *)
(* rooms, are all of them or none in the runs that use the symmetry.       *)
(***************************************************************************)
EXTENDS Inbox, TLC

Symmetry == Permutations(Agent) \cup Permutations(Session) \cup Permutations(Key)
=============================================================================
