--------------------------- MODULE MCCommandStore ---------------------------
(***************************************************************************)
(* CommandStore for TLC: client ids and run ids may be exchanged, as the   *)
(* specification and every property treat them alike.                      *)
(***************************************************************************)
EXTENDS CommandStore

Symmetry == Permutations(ClientIDs) \cup Permutations(RunIDs)
=============================================================================
