------------------------ MODULE TerraformRefinement ------------------------
(***************************************************************************)
(* TerraformReconciler implements ManagedResource for resources that are   *)
(* found by their name.  For generated IDs it does not: one that is lost   *)
(* before it is recorded leaves a resource behind that nobody let go of.   *)
(*                                                                         *)
(* The mapping shows ManagedResource the named resource and nothing else.  *)
(* History variables remember what users have asked for.                   *)
(***************************************************************************)
EXTENDS TerraformReconciler

VARIABLES
  asked,   \* history: the specs the object has had since it was created
  doomed,  \* history: has its deletion asked for that of the resource?
  excused  \* history: may the reconciler leave resources behind?

history == <<asked, doomed, excused>>

\* A deletion asks for that of the resource unless the object has had the
\* abandon annotation all along; the annotation, once seen, is an excuse.
RemembersNamed ==
  /\ asked' = IF obj' = NoObject THEN asked
              ELSE IF obj = NoObject THEN {obj'.spec}
              ELSE asked \union {obj'.spec}
  /\ doomed' = /\ obj' # NoObject /\ obj'.deleting
               /\ doomed \/ ~obj'.abandon
  /\ excused' = \/ excused \/ waived' # {}
                \/ obj' # NoObject /\ obj'.abandon

Remembers == IF source = "name" THEN RemembersNamed ELSE UNCHANGED history

RememberingInit == Init /\ asked = {} /\ doomed = FALSE /\ excused = FALSE
RememberingNext == Next /\ Remembers

RememberingSpec == RememberingInit /\ [][RememberingNext]_<<vars, history>>

-----------------------------------------------------------------------------
LifeOf(o, d) ==
  IF o = NoObject THEN "absent"
  ELSE IF Controller \notin o.fins THEN "loose"
  ELSE IF ~o.deleting THEN "held"
  ELSE IF d THEN "deleting" ELSE "leaving"

\* A name belongs to one resource at a time.
ResourceIn(g) ==
  IF \A i \in 1..MaxMade: g[i] = NoSpec THEN NoSpec
  ELSE g[CHOOSE i \in 1..MaxMade: g[i] # NoSpec]

life     == IF source = "name" THEN LifeOf(obj, doomed) ELSE "absent"
resource == IF source = "name" THEN ResourceIn(gcp) ELSE NoSpec
managed  == resource # NoSpec

Resource == INSTANCE ManagedResource
              WITH Desired <- Specs, NoResource <- NoSpec, waived <- excused

(***************************************************************************)
(* With copies that are old, writes that conflict, answers that are lost,  *)
(* restarts and a parent that comes and goes, the reconciler keeps the     *)
(* promises of ManagedResource: nothing is created or changed before the   *)
(* object is held, and only into what its user asked for since it was      *)
(* created; nothing is destroyed but on request; and the object does not   *)
(* go before its resource does, unless the reconciler is excused.          *)
(***************************************************************************)
NamedIsManaged == Resource!Spec

-----------------------------------------------------------------------------
(***************************************************************************)
(* Why: what the object says, and what a copy with the finalizer says, is  *)
(* remembered, even if the copy is old.                                    *)
(***************************************************************************)
RememberedInv ==
  source = "name" =>
    /\ doomed \in BOOLEAN /\ excused \in BOOLEAN
    /\ obj # NoObject =>
         /\ obj.spec \in asked
         /\ obj.abandon => excused
         /\ obj.deleting /\ ~obj.abandon => doomed
    /\ run.step # "idle" /\ Controller \in run.u.fins =>
         /\ run.u.spec \in asked
         /\ run.u.deleting /\ ~run.u.abandon => doomed
    /\ run.step \in {"deleteFetch", "destroy"} => ~run.u.abandon
    /\ waived # {} => excused

=============================================================================
