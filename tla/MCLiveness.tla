----------------------------- MODULE MCLiveness -----------------------------
(***************************************************************************)
(* Values for the constants of DirectLiveness that a .cfg cannot write.    *)
(***************************************************************************)
EXTENDS DirectLiveness

\* The namespace is paused and resumed, against the setting of the cluster.
PausedNamespace ==
  [mode: {"namespaced"}, cc: {"Reconciling"}, ccc: {"Paused", "Reconciling"}]

\* Nobody but KCC touches the resource.
NoDrift == {}

=============================================================================
