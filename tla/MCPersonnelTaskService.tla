---------------------- MODULE MCPersonnelTaskService ----------------------
(* Instances of PersonnelTaskService for TLC: contents and pages are         *)
(* interchangeable, so safety runs explore them up to permutation.           *)
EXTENDS PersonnelTaskService, TLC

Interchangeable == Permutations(Contents) \cup Permutations(Callers)
===========================================================================
