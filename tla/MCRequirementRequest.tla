----------------------- MODULE MCRequirementRequest -----------------------
(* Instances of RequirementRequest for TLC.                                *)
EXTENDS RequirementRequest, TLC

CONSTANTS subjects, text, switch

MCPayloads == {{text}, {subjects, switch}}

(* Requests differ in nothing.                                             *)
Interchangeable == Permutations(Clients)
=============================================================================
