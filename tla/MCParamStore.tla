---------------------------- MODULE MCParamStore ----------------------------
(* Instances of ParamStore for TLC. *)
EXTENDS ParamStore, TLC

CONSTANTS t1, t2, p1, p2, p3

MCTasks  == {t1, t2}
MCParams == {p1, p2, p3}
Symmetry == Permutations(MCTasks) \cup Permutations(MCParams)
=============================================================================
