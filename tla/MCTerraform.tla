----------------------------- MODULE MCTerraform -----------------------------
(***************************************************************************)
(* Instances of TerraformRefinement: two values of a mutable field, and    *)
(* one with another immutable field.                                       *)
(***************************************************************************)
EXTENDS TerraformRefinement, TLC

CONSTANTS small, large, elsewhere

Place == small :> "here" @@ large :> "here" @@ elsewhere :> "there"

\* The two are only compared, with each other and by the place.
ValueSymmetry == Permutations({small, large})

=============================================================================
