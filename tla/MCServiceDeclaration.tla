------------------------- MODULE MCServiceDeclaration -------------------------
(* An instance of ServiceDeclaration for TLC. *)
EXTENDS ServiceDeclaration, TLC

(* Addresses are interchangeable. *)
Symmetry == Permutations(Objects)
=============================================================================
