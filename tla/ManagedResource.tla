--------------------------- MODULE ManagedResource ---------------------------
(***************************************************************************)
(* What Config Connector promises about one object and its GCP resource,   *)
(* without saying how: no work queue, no copies, no finalizers, no status. *)
(* DirectRefinement shows that DirectReconciler keeps these promises, and  *)
(* TerraformRefinement that TerraformReconciler does for named resources.  *)
(*                                                                         *)
(* The life of the object is "absent", "loose" (it may vanish any time),   *)
(* "held" (it cannot without Config Connector), "deleting" (its user wants *)
(* the GCP resource deleted too) or "leaving" (it was deleted, and the     *)
(* resource is to stay: abandoned, or the CRD is being uninstalled).       *)
(***************************************************************************)
CONSTANTS Desired, NoResource

VARIABLES
  life,      \* of the object
  asked,     \* what its user has asked for since the object was created
  resource,  \* the GCP resource, or NoResource
  managed,   \* has Config Connector created, updated or acquired it, and does
             \* the object lead to it?
  waived     \* may Config Connector leave resources behind?

vars == <<life, asked, resource, managed, waived>>

Kept == life \in {"held", "deleting", "leaving"}

-----------------------------------------------------------------------------
\* Users and others.
Create(d) ==
  /\ life = "absent"
  /\ life' = "loose" /\ asked' = {d}
  /\ UNCHANGED <<resource, managed, waived>>

Edit(d) ==
  /\ life # "absent"
  /\ asked' = asked \union {d}
  /\ UNCHANGED <<life, resource, managed, waived>>

Remove ==
  /\ \/ life = "loose" /\ life' = "absent"
     \/ life = "held" /\ life' \in {"deleting", "leaving"}
  /\ UNCHANGED <<asked, resource, managed, waived>>

\* The user withdraws the wish to keep the resource.
Reconsider ==
  /\ life = "leaving" /\ life' = "deleting"
  /\ UNCHANGED <<asked, resource, managed, waived>>

\* Someone excuses Config Connector, or a reference it needs is gone.
LetGo ==
  /\ waived' = TRUE
  /\ UNCHANGED <<life, asked, resource, managed>>

Drift(d) ==
  /\ resource' = d
  /\ managed' = (managed /\ resource # NoResource /\ d # NoResource)
  /\ UNCHANGED <<life, asked, waived>>

-----------------------------------------------------------------------------
\* Config Connector.
Hold ==
  /\ life = "loose" /\ life' = "held"
  /\ UNCHANGED <<asked, resource, managed, waived>>

\* The resource is created or changed for an object that is held, and into
\* something that was asked of this object.
Apply(d) ==
  /\ waived \/ (Kept /\ d \in asked)
  /\ resource' = d /\ managed' = TRUE
  /\ UNCHANGED <<life, asked, waived>>

\* A resource whose identifier is not known beforehand is created before the
\* object leads to it (Acquire), and may get lost, but not while there is one
\* that the object leads to.
Attempt(d) ==
  /\ waived \/ (Kept /\ d \in asked /\ ~managed)
  /\ resource' = d /\ managed' = FALSE
  /\ UNCHANGED <<life, asked, waived>>

Acquire ==
  /\ waived \/ Kept
  /\ managed' = (resource # NoResource)
  /\ UNCHANGED <<life, asked, resource, waived>>

Destroy ==
  /\ life = "deleting"
  /\ resource' = NoResource /\ managed' = FALSE
  /\ UNCHANGED <<life, asked, waived>>

\* The object goes when there is nothing left to manage.
Release ==
  /\ life \in {"deleting", "leaving"} /\ life' = "absent"
  /\ waived \/ ~managed
  /\ UNCHANGED <<asked, resource, managed, waived>>

-----------------------------------------------------------------------------
Init ==
  /\ life = "absent" /\ asked = {}
  /\ resource = NoResource /\ managed = FALSE /\ waived = FALSE

Next ==
  \/ \E d \in Desired: Create(d) \/ Edit(d) \/ Apply(d) \/ Attempt(d)
  \/ \E d \in Desired \union {NoResource}: Drift(d)
  \/ Remove \/ Reconsider \/ LetGo
  \/ Hold \/ Acquire \/ Destroy \/ Release

Spec == Init /\ [][Next]_vars

=============================================================================
