---------------------------- MODULE MCStoreTable ----------------------------
(* StoreTable for model checking: the cores are interchangeable, which the *)
(* runs that check invariants only make use of.                            *)
EXTENDS StoreTable, TLC

CpuSymmetry == Permutations(Cpus)
=============================================================================
