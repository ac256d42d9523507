---------------------------- MODULE MCWorkbenchRun ----------------------------
(* Small instances of WorkbenchRun: two runs of one case.                      *)
EXTENDS WorkbenchRun, TLC

CONSTANTS run1, run2, case1

OneCase == [r \in Runs |-> case1]

(* Runs of one case are interchangeable.                                       *)
Symmetry == Permutations(Runs)
===============================================================================
