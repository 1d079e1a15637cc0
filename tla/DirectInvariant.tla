-------------------------- MODULE DirectInvariant --------------------------
(***************************************************************************)
(* Why NoOrphan and DeletesOnRequestOnly hold: the inductive invariant of  *)
(* DirectReconciler, in parts.  Each part is about one promise that the    *)
(* code keeps across remote calls.                                         *)
(***************************************************************************)
EXTENDS DirectReconciler

Busy == ctl.step # "idle"
Defending == dd.step # "idle"

\* Nobody but the controller, or an uninstall, can take the object away.
Held == obj # NoObject /\ Controller \in obj.fins

\* A deletion that has passed the defender.
Passed(o) == o.deleting /\ Controller \in o.fins /\ Defender \notin o.fins

\* Where a deletion comes from; objects get both finalizers or none; the
\* abandon annotation is there only if someone set it.
ObjectInv ==
  /\ obj = NoObject => current = {}
  /\ obj # NoObject =>
       /\ ~obj.deleting => obj.fins \in {{}, Finalizers}
       /\ obj.deleting => obj.fins # {} /\ request.by # "nobody"
       /\ obj.deleting /\ request.abandon => obj.abandon
       /\ Passed(obj) => request.by = "user"
       /\ obj.abandon => waived

\* A CRD that is terminating excuses KCC; what is gone is not managed.
WorldInv ==
  /\ crd = "terminating" => waived
  /\ request.by = "uninstall" => crd = "terminating"
  /\ managed => gcp # NoResource

\* The defender: its copy is the object if it is current (optimistic
\* concurrency), and what it found out about the CRD still tells an
\* uninstall from a user's deletion when it is used.
DefenderInv ==
  Defending =>
    /\ dd.u \in Object
    /\ dd.u.deleting /\ Defender \in dd.u.fins
    /\ "dd" \in current => dd.u = obj
    /\ dd.u.abandon => waived
    /\ dd.step = "update" /\ dd.uninstalling => waived
    /\ dd.step = "update" /\ ~dd.uninstalling /\ "dd" \in current =>
         request.by = "user"

\* The controller: its copy is the object if it is current.  If it is stale,
\* a finalizer that the controller has seen is nevertheless still there, and
\* so is a deletion that has passed the defender.
GoodCopy(u) ==
  /\ "ctl" \in current => u = obj
  /\ u.abandon => waived
  /\ Controller \in u.fins /\ ~waived => Held
  /\ Passed(u) =>
       /\ obj # NoObject
       /\ Passed(obj)
       /\ request.abandon => u.abandon

CopyInv == Busy => ctl.u \in Object /\ GoodCopy(ctl.u)

\* What the controller knows at each of its steps.
StepInv ==
  /\ ctl.step = "report" => ctl.cond \in Trouble
  /\ ctl.step \in {"fins", "pausedFins"} => ~ctl.u.deleting
  /\ ctl.step = "apply" => Controller \in ctl.u.fins
  /\ ctl.step \in {"delete", "markDeleted", "unfinalize"} => Passed(ctl.u)
  /\ ctl.step = "delete" => ~ctl.u.abandon
  /\ ctl.step \in {"markDeleted", "unfinalize"} => waived \/ ~managed

\* Identifiers: what is managed can be found from the object; only a reconcile
\* under way changes the identifier, and nothing that was there to be found is
\* overlooked before Create.
IdentityInv ==
  /\ managed /\ ~waived => Knows(obj)
  /\ Busy /\ Controller \in ctl.u.fins /\ ctl.step # "report" /\ ~waived =>
       obj.id = ctl.u.id
  /\ Busy /\ Controller \notin ctl.u.fins => waived \/ ~managed
  /\ ctl.id # NoID =>
       /\ ctl.id = name /\ Controller \in ctl.u.fins
       /\ ctl.step \in {"annotate", "publish", "update", "upToDate", "report"}
  /\ ctl.step \in {"fins", "apply"} =>
       IF ctl.found = NoResource THEN waived \/ ~managed ELSE Knows(ctl.u)

(***************************************************************************)
(* The inductive invariant: as long as a resource is managed there is an   *)
(* object with the finalizer that leads to it, whatever the copies say.    *)
(***************************************************************************)
IndInv ==
  /\ TypeOK /\ ObjectInv /\ WorldInv /\ DefenderInv /\ CopyInv /\ StepInv
  /\ IdentityInv /\ NoOrphan

=============================================================================
