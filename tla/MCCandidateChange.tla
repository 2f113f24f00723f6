-------------------------- MODULE MCCandidateChange --------------------------
(* The instances of CandidateChange that TLC checks.                         *)
EXTENDS CandidateChange, TLC

CONSTANTS h1, h2

MCHandlers == {h1, h2}
MCCandidates == {1, 2}
MCSymmetry == Permutations(MCHandlers)
MCMasked == {2}
Roster(first, second) == [p \in MCCandidates |-> IF p = 1 THEN first ELSE second]
MCRosters == {Roster(1, 0)}
MCProposals == {Roster(2, 1), Roster(0, 1), Roster(Blank, 0)}
=============================================================================
