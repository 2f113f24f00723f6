--------------------------- MODULE MCPaperBinding ---------------------------
(* The instances of PaperBinding that TLC checks.                            *)
EXTENDS PaperBinding, TLC

MCSymmetry == Permutations(Courses)
MCStarts == {2, 3}
MCDueFrom == [s \in MCStarts |-> s - 2]

(* Every exam has a formal session, or the first one has none yet.           *)
MCExams ==
    {[r \in Requirements |-> [session |-> IF r = 0 THEN first ELSE r + 1, start |-> 2]] :
        first \in {NoSession, 1}}
=============================================================================
