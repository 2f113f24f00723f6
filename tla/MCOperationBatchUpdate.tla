---------------------- MODULE MCOperationBatchUpdate ----------------------
(* Instances of OperationBatchUpdate for TLC.                              *)
EXTENDS OperationBatchUpdate, TLC

(* For safety runs: pages differ in nothing.                               *)
Interchangeable == Permutations(Pages)
=============================================================================
