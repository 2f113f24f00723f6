-------------------------- MODULE MCExamProvision --------------------------
(* The instances of ExamProvision that TLC checks.                           *)
EXTENDS ExamProvision, TLC

MCSymmetry == Permutations(Requests)

None == [op \in Operations |-> 0]

(* What is asked of the server, in any order and interleaving.               *)
MCBudgets ==
    {b @@ None : b \in {
        ("create" :> 2) @@ ("bind" :> 1),
        ("create" :> 1) @@ ("course" :> 1),
        ("create" :> 1) @@ ("sync" :> 1),
        ("create" :> 1) @@ ("delete" :> 2),
        ("create" :> 1) @@ ("course" :> 1) @@ ("change" :> 1),
        ("create" :> 1) @@ ("change" :> 1) @@ ("import" :> 1),
        ("change" :> 2) @@ ("erase" :> 1),
        ("change" :> 1) @@ ("course" :> 1) @@ ("erase" :> 1),
        ("change" :> 1) @@ ("sync" :> 2),
        ("change" :> 1) @@ ("delete" :> 1),
        ("course" :> 1) @@ ("sync" :> 1),
        ("import" :> 1) @@ ("rooms" :> 2) @@ ("open" :> 1),
        ("change" :> 1) @@ ("rooms" :> 1) @@ ("import" :> 1),
        ("sync" :> 1) @@ ("import" :> 1) @@ ("delete" :> 1)}}
=============================================================================
