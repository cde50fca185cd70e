------------------------------ MODULE MCKeyFile ------------------------------
(***************************************************************************)
(* Three processes, keys enough for each to generate one and for one more. *)
(***************************************************************************)
EXTENDS KeyFile, TLC

CONSTANTS p1, p2, p3, k1, k2, k3, magic

MCProcesses == {p1, p2, p3}
MCKeys == {k1, k2, k3, magic}
MCSymmetry == Permutations(MCProcesses) \cup Permutations({k1, k2, k3})
=============================================================================
