---------------------------- MODULE MCDependency ----------------------------
(***************************************************************************)
(* Instances of DependencyWatch: objects that refer to one another.        *)
(***************************************************************************)
EXTENDS DependencyWatch, TLC

\* What the model values of the configurations refer to.
CONSTANTS a, b

Pair == a :> b @@ b :> NoDep

=============================================================================
