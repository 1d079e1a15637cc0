-------------------------- MODULE DirectRefinement --------------------------
(***************************************************************************)
(* DirectReconciler implements ManagedResource.  The only thing it does    *)
(* not remember by itself is what users have asked for; a history variable *)
(* does.                                                                   *)
(***************************************************************************)
EXTENDS DirectInvariant

VARIABLE asked   \* history: what the object has said since it was created

Remembers ==
  asked' = IF obj' = NoObject THEN asked
           ELSE IF obj = NoObject THEN {obj'.want}
           ELSE asked \union {obj'.want}

RememberingInit == Init /\ asked = {}
RememberingNext == Next /\ Remembers

RememberingSpec == RememberingInit /\ [][RememberingNext]_<<vars, asked>>

\* The life of the object, from its finalizers and the history of requests.
LifeOf(o, r) ==
  IF o = NoObject THEN "absent"
  ELSE IF Controller \notin o.fins THEN "loose"
  ELSE IF ~o.deleting THEN "held"
  ELSE IF r = [by |-> "user", abandon |-> FALSE] THEN "deleting"
  ELSE "leaving"

life == LifeOf(obj, request)

Resource == INSTANCE ManagedResource WITH resource <- gcp

(***************************************************************************)
(* Whatever the controller and the deletion defender do, with copies that  *)
(* are stale, writes that conflict, calls that fail and processes that     *)
(* die, is what ManagedResource allows: nothing is created or changed      *)
(* before the object is held, nothing but what its user asked for since it *)
(* was created, nothing is deleted but on request, and the object does not *)
(* go before its resource does.                                            *)
(***************************************************************************)
ResourceIsManaged == Resource!Spec

-----------------------------------------------------------------------------
(***************************************************************************)
(* Why: what the object says, and what a copy with the finalizer says, has *)
(* been asked for.                                                         *)
(***************************************************************************)
AskedInv ==
  /\ obj # NoObject => obj.want \in asked
  /\ Busy /\ Controller \in ctl.u.fins /\ ~waived => ctl.u.want \in asked

=============================================================================
