------------------------------ MODULE MCDirect ------------------------------
(***************************************************************************)
(* Values for the constants of DirectReconciler that a .cfg cannot write.  *)
(***************************************************************************)
EXTENDS DirectRefinement, TLC

\* Actuation is never paused.
AlwaysOn == {[mode |-> "cluster", cc |-> "", ccc |-> "missing"]}

\* A CCC that overrides the CC, with the mode of the CC left to its default.
DefaultMode == [mode: {""}, cc: {""}, ccc: {"Paused", "Reconciling"}]

\* Nobody but KCC touches the resource; or it is changed or lost.
NoDrift == {}
LostOnly == {NoResource}

\* Specs, labels and identifiers are only compared: sound for safety.
ValueSymmetry ==
  Permutations(Specs) \union Permutations(Labels) \union Permutations(IDs)

=============================================================================
