----------------------- MODULE MCOperationBatchCreate -----------------------
(* Instances of OperationBatchCreate for TLC: every page has an account of   *)
(* its own, or all pages share one; pages are interchangeable either way.    *)
EXTENDS OperationBatchCreate, TLC

OwnAccounts == [c \in Pages |-> c]
SharedAccount == [c \in Pages |-> 1]
Interchangeable == Permutations(Pages)
=============================================================================
