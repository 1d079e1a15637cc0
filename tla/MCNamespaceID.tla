---------------------------- MODULE MCNamespaceID ----------------------------
(***************************************************************************)
(* Instances of NamespaceID.                                               *)
(***************************************************************************)
EXTENDS NamespaceID, TLC

\* Callers, namespaces and identifiers are all interchangeable.
Symmetries ==
  Permutations(Callers) \union Permutations(Namespaces) \union Permutations(Ids)

=============================================================================
