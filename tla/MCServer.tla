------------------------------ MODULE MCServer ------------------------------
(* Instances of Server for TLC: one channel, with room for one member and a
   one-message history where the configuration names it. *)
EXTENDS Server, TLC

CONSTANTS c1, c2, c3, room

Symmetry == Permutations(Conns)

MCMaxMembers == [ch \in Configured |-> 1]
MCHistorySize == [ch \in Configured |-> 1]
=============================================================================
