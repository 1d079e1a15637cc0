----------------------------- MODULE Actuation -----------------------------
(***************************************************************************)
(* When a reconcile acts on GCP at all: the actuation mode that results    *)
(* from the ConfigConnector (CC), the namespace's ConfigConnectorContext   *)
(* (CCC) and the resource's own annotation.  These are pure functions of   *)
(* pkg/controller/resourceactuation and operator/pkg/kccstate.             *)
(***************************************************************************)

(***************************************************************************)
(* What the cluster's administrator wrote.  mode is cc.Spec.Mode as        *)
(* stored: "" is legal, the CRD has no default for it; "absent" means that *)
(* there is no CC object.  "" as an actuation is an unset field, "missing" *)
(* a namespace without a CCC.                                              *)
(***************************************************************************)
ActuationField == {"", "Reconciling", "Paused"}

CC == [mode: {"absent", "", "cluster", "namespaced"}, cc: ActuationField]

KCCState ==
  [mode: {"absent", "", "cluster", "namespaced"},
   cc: ActuationField,
   ccc: ActuationField \union {"missing"}]

\* A CC and a CCC that were read one after the other.
CCOf(k) == [mode |-> k.mode, cc |-> k.cc]
Settings(cc, ccc) == [mode |-> cc.mode, cc |-> cc.cc, ccc |-> ccc]

\* Does FetchLiveKCCState read the CCC of the resource's namespace?
ReadsCCC(k) == k.mode \in {"", "namespaced"}

\* The pair (CC, CCC) a reconcile works with, or the error it returns.
FetchLiveKCCState(k) ==
  [err  |-> ReadsCCC(k) /\ k.ccc = "missing",
   mode |-> IF k.mode = "absent" THEN "" ELSE k.mode,
   cc   |-> IF k.mode = "absent" THEN "" ELSE k.cc,
   ccc  |-> IF ReadsCCC(k) /\ k.ccc # "missing" THEN k.ccc ELSE ""]

\* A plausible slip in the next definition: CC is asked before CCC.
CCBeforeCCC(live) ==
  CASE live.cc # "" -> live.cc
    [] live.cc = "" /\ live.ccc # "" /\ live.mode = "namespaced" -> live.ccc
    [] OTHER -> "Reconciling"

\* CCC in namespaced mode, else CC, else the default.
DecideActuationMode(live) ==
  CASE live.ccc # "" /\ live.mode = "namespaced" -> live.ccc
    [] ~(live.ccc # "" /\ live.mode = "namespaced") /\ live.cc # "" -> live.cc
    [] OTHER -> "Reconciling"

(***************************************************************************)
(* "error": the annotation's value is not an actuation mode.  A paused     *)
(* resource may still be deleted; a paused namespace or cluster may not    *)
(* delete either.                                                          *)
(***************************************************************************)
ShouldSkipActuation(annotation, isDeleting, live) ==
  CASE annotation = "Reconciling" -> "proceed"
    [] annotation = "Paused" -> IF isDeleting THEN "proceed" ELSE "skip"
    [] annotation = "" ->
         IF DecideActuationMode(live) = "Paused" THEN "skip" ELSE "proceed"
    [] OTHER -> "error"

=============================================================================
