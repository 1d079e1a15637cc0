-------------------------- MODULE DirectReconciler --------------------------
(***************************************************************************)
(* The life of one Config Connector object under the direct controller:    *)
(* pkg/controller/direct/directbase (the reconcile loop), lifecyclehandler *)
(* (the status it writes), deletiondefender (the guard against losing GCP  *)
(* resources when a CRD is uninstalled) and predicate (which changes wake  *)
(* the loop up), against a Kubernetes API server with optimistic           *)
(* concurrency and a GCP API that fails.                                   *)
(*                                                                         *)
(* One action is what happens between two remote calls; the reconciler's   *)
(* copy of the object is therefore as stale as it can be in the code.      *)
(***************************************************************************)
EXTENDS Naturals, Actuation

CONSTANTS
  Specs,          \* values of the object's spec
  Labels,         \* values of metadata.labels
  NoObject,       \* the name is free in the API server
  NoResource,     \* the GCP resource does not exist
  NoID,           \* no identifier is known
  IDs,            \* the identifiers GCP makes up
  Namings,        \* "given": users name the resource; "generated": GCP does
  Requests,       \* bound: what users ask for besides edits and deletions
  MaxGeneration,  \* bound: users edit specs and pause below this generation,
                  \* and set or unset the deletion policy up to it
  IntervalZero,   \* is the annotation reconcile-interval-in-seconds "0"?
  Annotations,    \* values users give the actuation-mode annotation
  KCCStates,      \* CC/CCC settings the administrator uses
  Drifts          \* what others may make of the GCP resource

Controller == "cnrm.cloud.google.com/finalizer"
Defender   == "cnrm.cloud.google.com/deletion-defender"
Finalizers == {Controller, Defender}

\* What the GCP resource should look like: its spec and its labels.
Desired == [spec: Specs, labels: Labels]

Conditions ==
  {"None", "UpToDate", "Updating", "Failed", "Dependency", "Deleted"}

(***************************************************************************)
(* The fields of the object that steer the controllers.  id is the         *)
(* generated identifier in status.externalRef or spec.resourceID.          *)
(* resourceVersion is not a field: see current.                            *)
(***************************************************************************)
Object ==
  [want: Desired, id: IDs \union {NoID}, gen: Nat,
   fins: SUBSET Finalizers, deleting: BOOLEAN,
   abandon: BOOLEAN, actuation: {"", "Reconciling", "Paused", "invalid"},
   obsGen: Nat, cond: Conditions]

ASSUME DirectAssumption ==
  /\ Requests \subseteq {"abandon", "uninstall"}
  /\ MaxGeneration \in Nat
  /\ IntervalZero \in BOOLEAN
  /\ Annotations \subseteq {"", "Reconciling", "Paused", "invalid"}
  /\ KCCStates \subseteq KCCState
  /\ NoResource \notin Desired
  /\ NoID \notin IDs
  /\ Namings \subseteq {"given", "generated"}
  /\ Drifts \subseteq Desired \union {NoResource}
  /\ NoObject \notin Object

VARIABLES
  obj,       \* the object in the API server, or NoObject
  current,   \* who holds a copy with the object's current resourceVersion
  crd,       \* "installed" or "terminating"
  kcc,       \* the CC/CCC settings
  naming,    \* how resources of this kind get their names
  gcp,       \* the GCP resource, or NoResource
  name,      \* the identifier GCP made up for it, if it did
  queue,     \* the object's key in the work queue: due now, due on a timer
  ctl,       \* the reconcile in progress
  dd,        \* the deletion defender's reconcile in progress
  managed,   \* history: has KCC created, updated or acquired what is in GCP,
             \* and has its identifier been on the object (or is it named)?
  confirmed, \* history: what KCC last applied to GCP or found to be there
  request,   \* history: who asked for the deletion, and was abandon asked?
  waived     \* history: may KCC have left a GCP resource behind for a reason?

vars == <<obj, current, crd, kcc, naming, name, gcp, queue, ctl, dd,
          managed, confirmed, request, waived>>

ghosts == <<managed, confirmed, request, waived>>
world  == <<crd, kcc, naming, name>>

CtlSteps == {"idle", "cc", "gate", "pausedFins", "defaults", "find", "fins",
             "apply", "annotate", "publish", "update", "upToDate", "report",
             "delete", "markDeleted", "unfinalize"}

NoCC == [mode |-> "absent", cc |-> ""]

Idle == [step |-> "idle", u |-> NoObject, cc |-> NoCC, found |-> NoResource,
         id |-> NoID, cond |-> "None", again |-> FALSE, held |-> FALSE]
DefenderIdle == [step |-> "idle", u |-> NoObject, uninstalling |-> FALSE]

CtlState ==
  [step: CtlSteps, u: Object \union {NoObject}, cc: CC,
   found: Desired \union {NoResource}, id: IDs \union {NoID},
   cond: Conditions \union {"unset"}, again: BOOLEAN, held: BOOLEAN]

DefenderState ==
  [step: {"idle", "crd", "update"}, u: Object \union {NoObject},
   uninstalling: BOOLEAN]

QueueState == [now: BOOLEAN, timer: BOOLEAN]

TypeOK ==
  /\ obj \in Object \union {NoObject}
  /\ current \subseteq {"ctl", "dd"}
  /\ crd \in {"installed", "terminating"}
  /\ kcc \in KCCState
  /\ naming \in Namings
  /\ name \in IDs \union {NoID}
  /\ gcp \in Desired \union {NoResource}
  /\ queue \in QueueState
  /\ ctl \in CtlState
  /\ dd \in DefenderState
  /\ managed \in BOOLEAN
  /\ confirmed \in Desired \union {NoResource}
  /\ request \in [by: {"nobody", "user", "uninstall"}, abandon: BOOLEAN]
  /\ waived \in BOOLEAN

-----------------------------------------------------------------------------
(***************************************************************************)
(* The API server.  An update is accepted only from a client whose copy    *)
(* carries the current resourceVersion; one that changes nothing leaves    *)
(* the version alone; an object that is being deleted goes away with its   *)
(* last finalizer.                                                         *)
(***************************************************************************)
Stored(new) == IF new.deleting /\ new.fins = {} THEN NoObject ELSE new

Write(who, new) ==
  /\ obj # NoObject
  /\ who \in current
  /\ obj' = Stored(new)
  /\ current' = IF Stored(new) = NoObject THEN {}
                ELSE IF new = obj THEN current ELSE {who}

\* The call returns an error: a conflict, a rejection, or an answer that is
\* lost after the server did its work (the caller's copy is then stale too).
WriteFails(who, new) ==
  \/ UNCHANGED <<obj, current>>
  \/ /\ obj # NoObject /\ who \in current
     /\ obj' = Stored(new)
     /\ current' = IF new = obj THEN current ELSE {}

\* An update of nothing but annotations that the model leaves out, and one
\* that fails.
Touch(who) ==
  /\ obj # NoObject /\ who \in current
  /\ UNCHANGED obj /\ current' = {who}

TouchFails(who) ==
  /\ UNCHANGED obj
  /\ UNCHANGED current \/ (who \in current /\ current' = {})

\* A write by anyone else: every copy is stale from now on.
Overwrite(new) == obj' = new /\ current' = {}

\* UnderlyingResourceOutOfSyncPredicate.Update: does the change from old to
\* new wake the reconciler?  Annotations other than the interval do not, nor
\* does the status.  Of the reconciler's own writes only SetSpecResourceID
\* satisfies it.  The slip: the removal of the defender's finalizer goes
\* unnoticed.
OutOfSyncIgnoringDefender(old, new) ==
  \/ ~old.deleting /\ new.deleting
  \/ old.want.labels # new.want.labels
  \/ old.gen # new.gen

OutOfSync(old, new) ==
  \/ ~old.deleting /\ new.deleting
  \/ Defender \in old.fins /\ Defender \notin new.fins
  \/ old.want.labels # new.want.labels
  \/ old.gen # new.gen

Enqueue(due) == queue' = [queue EXCEPT !.now = @ \/ due]

-----------------------------------------------------------------------------
(***************************************************************************)
(* How a reconcile ends.  An error and Result{Requeue} put the key back    *)
(* with backoff, RequeueAfter starts a timer.                              *)
(***************************************************************************)
Retry == ctl' = Idle /\ Enqueue(TRUE)

\* The tail of Reconcile: no timer while the defender is awaited, since the
\* removal of its finalizer is an event; none with an interval of zero.
\* The slip: the test of the finalizer is the wrong way round.
FinishWhileDefended(u) ==
  /\ ctl' = Idle
  /\ queue' = [queue EXCEPT !.timer =
                 @ \/ (~IntervalZero /\ u.deleting /\ Defender \in u.fins)]

Finish(u) ==
  /\ ctl' = Idle
  /\ queue' = [queue EXCEPT !.timer =
                 @ \/ (~IntervalZero /\ ~(u.deleting /\ Defender \in u.fins))]

Goto(step) == ctl' = [ctl EXCEPT !.step = step] /\ UNCHANGED queue

\* HandleUpdateFailed, HandleDeleteFailed, HandleUnresolvableDeps come next.
Report(cond) ==
  ctl' = [ctl EXCEPT !.step = "report", !.cond = cond] /\ UNCHANGED queue

\* The outcome of a call that is not a success.
Trouble == {"Failed", "Dependency"}

(***************************************************************************)
(* ShouldSkip: with an interval of zero, nothing is done for an object     *)
(* that is up to date at its current generation.                           *)
(***************************************************************************)
ShouldSkipIgnoringGeneration(u) == IntervalZero /\ u.cond = "UpToDate"

ShouldSkip(u) ==
  /\ IntervalZero
  /\ u.obsGen = u.gen
  /\ u.cond = "UpToDate"

\* Reconcile, up to doReconcile: read the object.
Get ==
  /\ ctl.step = "idle" /\ queue.now
  /\ queue' = [queue EXCEPT !.now = FALSE]
  /\ IF obj = NoObject \/ (obj # NoObject /\ ShouldSkip(obj))
       THEN UNCHANGED <<ctl, current>>
       ELSE /\ ctl' = [Idle EXCEPT !.step = "cc", !.u = obj]
            /\ current' = current \union {"ctl"}
  /\ UNCHANGED <<obj, world, gcp, dd, ghosts>>

(***************************************************************************)
(* The documented meaning of the pause settings: CCC wins in namespaced    *)
(* mode, which is the default mode; a paused resource can be deleted.      *)
(***************************************************************************)
PausedPerDocs(k, annotation, isDeleting) ==
  \/ annotation = "Paused" /\ ~isDeleting
  \/ /\ annotation = ""
     /\ k.mode # "absent"
     /\ IF k.mode # "cluster" /\ k.ccc \in {"Reconciling", "Paused"}
          THEN k.ccc = "Paused"
          ELSE k.cc = "Paused"

\* FetchLiveKCCState reads the CC first, ...
FetchCC ==
  /\ ctl.step = "cc"
  /\ \/ /\ ctl' = [ctl EXCEPT !.step = "gate", !.cc = CCOf(kcc)]
        /\ UNCHANGED queue
     \/ Retry
  /\ UNCHANGED <<obj, current, world, gcp, dd, ghosts>>

\* ... then the CCC, which may be newer; doReconcile goes on to ask whether
\* actuation is on for this object.
Gate ==
  /\ ctl.step = "gate"
  /\ LET u        == ctl.u
         seen     == Settings(ctl.cc, kcc.ccc)
         live     == FetchLiveKCCState(seen)
         decision == ShouldSkipActuation(u.actuation, u.deleting, live)
     IN  \/ live.err /\ Retry
         \/ ~live.err /\ decision = "error" /\ Report("Failed")
         \/ /\ ~live.err /\ decision = "proceed"
            /\ ctl' = [ctl EXCEPT !.step = "defaults",
                         !.held = PausedPerDocs(seen, u.actuation, u.deleting)]
            /\ UNCHANGED queue
         \/ /\ ~live.err /\ decision = "skip"
            /\ IF u.deleting \/ Finalizers \subseteq u.fins
                 THEN Finish(u)
                 ELSE Goto("pausedFins")
  /\ UNCHANGED <<obj, current, world, gcp, dd, ghosts>>

WithFinalizers(u) == [u EXCEPT !.fins = Finalizers]

\* ensureFinalizers for a paused object; its error is swallowed.
PausedFinalizers ==
  /\ ctl.step = "pausedFins"
  /\ \/ Write("ctl", WithFinalizers(ctl.u))
     \/ WriteFails("ctl", WithFinalizers(ctl.u))
  /\ Finish(ctl.u)
  /\ UNCHANGED <<world, gcp, dd, ghosts>>

\* doReconcile applies the defaulters, which set an annotation.
ApplyDefaults ==
  /\ ctl.step = "defaults"
  /\ \/ (UNCHANGED <<obj, current>> \/ Touch("ctl")) /\ Goto("find")
     \/ TouchFails("ctl") /\ Retry
  /\ UNCHANGED <<world, gcp, dd, ghosts>>

-----------------------------------------------------------------------------
\* Where a deletion goes on, once the GCP resource has been looked up.
\* The slip: the defender is not awaited.
AfterFindNotAwaiting(u, found) ==
  IF ~u.deleting THEN "fins"
  ELSE IF Controller \notin u.fins THEN "done"
  ELSE IF u.abandon \/ found = NoResource THEN "markDeleted"
  ELSE "delete"

AfterFind(u, found) ==
  IF ~u.deleting THEN "fins"
  ELSE IF Controller \notin u.fins \/ Defender \in u.fins THEN "done"
  ELSE IF u.abandon \/ found = NoResource THEN "markDeleted"
  ELSE "delete"

\* Does the object lead to the resource in GCP?
Knows(u) == naming = "given" \/ (u.id # NoID /\ u.id = name)

\* What Adapter.Find returns: nothing without a known identifier.
Found(u) == IF Knows(u) THEN gcp ELSE NoResource

\* AdapterForObject and Find.  Without a channel for immediate requests an
\* unresolved reference ends in a retry, in either of the two.
Find ==
  /\ ctl.step = "find"
  /\ \/ \E c \in Trouble: Report(c)
     \/ LET found == Found(ctl.u)
            next  == AfterFind(ctl.u, found)
        IN  IF next = "done"
              THEN Finish(ctl.u)
              ELSE /\ ctl' = [ctl EXCEPT !.step = next, !.found = found]
                   /\ UNCHANGED queue
  /\ UNCHANGED <<obj, current, world, gcp, dd, ghosts>>

\* A plausible slip: finalizers are set in memory only.
EnsureFinalizersInMemory ==
  /\ ctl.step = "fins"
  /\ ctl' = [ctl EXCEPT !.step = "apply", !.u = WithFinalizers(ctl.u)]
  /\ UNCHANGED <<obj, current, queue, world, gcp, dd, ghosts>>

\* ensureFinalizers, before anything is created or changed in GCP.
EnsureFinalizers ==
  /\ ctl.step = "fins"
  /\ LET new == WithFinalizers(ctl.u)
     IN  \/ /\ Finalizers \subseteq ctl.u.fins
            /\ Goto("apply") /\ UNCHANGED <<obj, current>>
         \/ /\ ~(Finalizers \subseteq ctl.u.fins)
            /\ Write("ctl", new)
            /\ ctl' = [ctl EXCEPT !.step = "apply", !.u = new]
            /\ UNCHANGED queue
         \/ /\ ~(Finalizers \subseteq ctl.u.fins)
            /\ WriteFails("ctl", new) /\ Retry
  /\ UNCHANGED <<world, gcp, dd, ghosts>>

-----------------------------------------------------------------------------
\* The adapter saves what it knows next: id is an identifier it has learnt,
\* cond the Ready condition it sets, or "unset".  An adapter that waits for
\* GCP may ask for a requeue.  Of those that set no condition, some update the
\* object first, and some leave the status to the reconciler.
Publish(id, cond) ==
  /\ \E step \in {"annotate", "publish", "update"}, again \in BOOLEAN:
       /\ step # "publish" => cond = "unset"
       /\ again => cond = "Updating"
       /\ ctl' = [ctl EXCEPT !.step = step, !.id = id,
                            !.cond = cond, !.again = again]
  /\ UNCHANGED queue

\* GCP creates the resource under the name it is given, unless that is taken,
\* or under a new identifier, whatever else there is.
FreshIDs ==
  IF naming = "generated"
    THEN IDs \ ({name, ctl.u.id} \union {o.id: o \in {obj, dd.u} \ {NoObject}})
    ELSE {n \in {NoID}: gcp = NoResource}

Insert(id) ==
  /\ gcp' = ctl.u.want /\ name' = id
  /\ managed' = (naming = "given")
  /\ confirmed' = ctl.u.want

\* Adapter.Create.  A long-running operation may fail for the client and
\* still take effect; the identifier is then lost.
Create ==
  /\ ctl.step = "apply" /\ ctl.found = NoResource
  /\ \/ \E id \in FreshIDs:
          /\ Insert(id)
          /\ \/ \E c \in {"unset", "UpToDate", "Updating"}: Publish(id, c)
             \/ Report("Failed")
     \/ /\ \E c \in Trouble: Report(c)
        /\ UNCHANGED <<gcp, name, managed, confirmed>>
  /\ UNCHANGED <<obj, current, crd, kcc, naming, dd, request, waived>>

\* GCP changes the resource.
Actuate(d) == gcp' = d /\ managed' = TRUE /\ confirmed' = d

\* Adapter.Update: nothing to change; a change, which may again fail for the
\* client only; or a resource that is still busy with an earlier operation.
Update ==
  /\ ctl.step = "apply" /\ ctl.found # NoResource
  /\ \/ /\ ctl.found = ctl.u.want
        /\ confirmed' = ctl.u.want
        /\ managed' = (gcp # NoResource)
        /\ UNCHANGED gcp
        /\ \E c \in {"unset", "UpToDate"}: Publish(NoID, c)
     \/ /\ ctl.found # ctl.u.want /\ gcp # NoResource
        /\ Actuate(ctl.u.want)
        /\ \/ \E c \in {"unset", "UpToDate", "Updating"}: Publish(NoID, c)
           \/ Report("Failed")
     \/ /\ \/ Publish(NoID, "Updating")
           \/ \E c \in Trouble: Report(c)
        /\ UNCHANGED <<gcp, managed, confirmed>>
  /\ UNCHANGED <<obj, current, world, dd, request, waived>>

\* A plausible slip in the next definition: a status that names no resource
\* replaces one that does.
CarryingOnly(u, id) == [u EXCEPT !.id = id]

\* A status without an identifier keeps the one there was.
Carrying(u, id) == [u EXCEPT !.id = IF id = NoID THEN @ ELSE id]

\* History: a resource is managed once the object carries its identifier.
Recorded ==
  managed' = IF obj' \notin {obj, NoObject} /\ obj'.id # obj.id
               THEN gcp # NoResource ELSE managed

\* An error of Create or Update before its status is in the copy.
ReportsNoID ==
  ctl' = [ctl EXCEPT !.step = "report", !.cond = "Failed", !.id = NoID]

\* The identifier in the spec makes a new generation.
WithResourceID(u, id) == [u EXCEPT !.id = id, !.gen = @ + 1]

\* CreateOperation.SetSpecResourceID, which some adapters call before they
\* save the status.  The bound on the generation is TLC's.
SetSpecResourceID ==
  /\ ctl.step = "annotate" /\ ctl.id # NoID /\ ctl.u.gen < MaxGeneration
  /\ LET new == WithResourceID(ctl.u, ctl.id)
     IN  \/ /\ Write("ctl", new)
            /\ ctl' = [ctl EXCEPT !.step = "publish", !.u = new]
            /\ Enqueue(OutOfSync(ctl.u, new))
         \/ WriteFails("ctl", new) /\ ReportsNoID /\ Enqueue(obj' # obj)
  /\ Recorded
  /\ UNCHANGED <<world, gcp, dd, confirmed, request, waived>>

\* Operation.SetLastModifiedCookie, likewise, sets an annotation.
SetLastModifiedCookie ==
  /\ ctl.step = "annotate"
  /\ \/ /\ UNCHANGED <<obj, current>> \/ Touch("ctl")
        /\ Goto("publish") \/ Goto("update")
     \/ TouchFails("ctl") /\ ReportsNoID /\ UNCHANGED queue
  /\ UNCHANGED <<world, gcp, dd, ghosts>>

\* A status write by the reconciler, always for the generation it read.
Status(u, cond) == [u EXCEPT !.cond = cond, !.obsGen = u.gen]

\* How a successful reconcile ends, given what the adapter asked for.
Done(u, again) == IF again THEN Retry ELSE Finish(u)

\* The Ready condition that Operation.UpdateStatus writes: an adapter that
\* gives none keeps the one there was.
ReadyCondition(u, cond) == IF cond = "unset" THEN u.cond ELSE cond

\* Operation.UpdateStatus.  A Ready condition set here is the last word.  If
\* the call fails the new status is still in the copy.
UpdateStatus ==
  /\ ctl.step = "publish"
  /\ LET new == Status(Carrying(ctl.u, ctl.id),
                       ReadyCondition(ctl.u, ctl.cond))
     IN  \/ /\ Write("ctl", new)
            /\ IF ctl.cond = "unset"
                 THEN /\ ctl' = [ctl EXCEPT !.step = "update", !.u = new]
                      /\ UNCHANGED queue
                 ELSE Done(new, ctl.again)
         \/ WriteFails("ctl", new) /\ Report("Failed")
  /\ Recorded
  /\ UNCHANGED <<world, gcp, dd, confirmed, request, waived>>

\* HandleUpToDate, first call of updateAPIServer: nothing but the status is
\* new, but the update fails if the object has changed meanwhile.
UpdateAPIServer ==
  /\ ctl.step = "update"
  /\ \/ Write("ctl", ctl.u) /\ Goto("upToDate")
     \/ WriteFails("ctl", ctl.u) /\ Retry
  /\ UNCHANGED <<world, gcp, dd, ghosts>>

\* A plausible slip: to get around conflicts, the status is put on the object
\* as it is now.
HandleUpToDateRereading ==
  /\ ctl.step = "upToDate" /\ obj # NoObject
  /\ Overwrite(Status(obj, "UpToDate")) /\ Done(ctl.u, ctl.again)
  /\ UNCHANGED <<world, gcp, dd, ghosts>>

\* HandleUpToDate, second call of updateAPIServer: the status.
HandleUpToDate ==
  /\ ctl.step = "upToDate"
  /\ LET new == Status(Carrying(ctl.u, ctl.id), "UpToDate")
     IN  \/ Write("ctl", new) /\ Done(new, ctl.again)
         \/ WriteFails("ctl", new) /\ Retry
  /\ Recorded
  /\ UNCHANGED <<world, gcp, dd, confirmed, request, waived>>

\* HandleUpdateFailed, HandleDeleteFailed, HandleUnresolvableDeps: all end in
\* a retry; the last one writes nothing if its message is the same as before.
HandleFailed ==
  /\ ctl.step = "report"
  /\ \/ /\ ctl.cond = "Dependency" /\ ctl.u.cond = "Dependency"
        /\ UNCHANGED <<obj, current>>
     \/ LET new == Status(Carrying(ctl.u, ctl.id), ctl.cond)
        IN  Write("ctl", new) \/ WriteFails("ctl", new)
  /\ Retry
  /\ Recorded
  /\ UNCHANGED <<world, gcp, dd, confirmed, request, waived>>

-----------------------------------------------------------------------------
\* Adapter.Delete.  A reference that no longer exists counts as success,
\* whatever has become of the GCP resource.
Delete ==
  /\ ctl.step = "delete"
  /\ \/ /\ gcp' = NoResource /\ managed' = FALSE
        /\ UNCHANGED waived
        /\ Goto("markDeleted") \/ Report("Failed")
     \/ /\ UNCHANGED <<gcp, managed>>
        /\ waived' = TRUE
        /\ Goto("markDeleted")
     \/ /\ UNCHANGED <<gcp, managed, waived>>
        /\ \E c \in Trouble: Report(c)
  /\ UNCHANGED <<obj, current, world, dd, confirmed, request>>

\* HandleDeleted: the status first, ...
MarkDeleted ==
  /\ ctl.step = "markDeleted"
  /\ LET new == Status(ctl.u, "Deleted")
     IN  \/ /\ Write("ctl", new)
            /\ ctl' = [ctl EXCEPT !.step = "unfinalize", !.u = new]
            /\ UNCHANGED queue
         \/ WriteFails("ctl", new) /\ Retry
  /\ UNCHANGED <<world, gcp, dd, ghosts>>

\* ... then the finalizer, and with it the object.
Unfinalize ==
  /\ ctl.step = "unfinalize"
  /\ LET new == [ctl.u EXCEPT !.fins = @ \ {Controller}]
     IN  \/ Write("ctl", new) /\ Finish(ctl.u)
         \/ WriteFails("ctl", new) /\ Retry
  /\ UNCHANGED <<world, gcp, dd, ghosts>>

\* The timer of RequeueAfter.
TimerFires ==
  /\ queue.timer
  /\ queue' = [now |-> TRUE, timer |-> FALSE]
  /\ UNCHANGED <<obj, current, world, gcp, ctl, dd, ghosts>>

\* The manager dies; the new one lists the objects there are.
Restart ==
  /\ ctl' = Idle
  /\ queue' = [now |-> obj # NoObject, timer |-> FALSE]
  /\ UNCHANGED <<obj, current, world, gcp, dd, ghosts>>

-----------------------------------------------------------------------------
(***************************************************************************)
(* The deletion defender, a process of its own.  It looks at the object    *)
(* first and at the CRD second; it watches every change and is retried     *)
(* after an error, so it is due as long as it has work.                    *)
(***************************************************************************)
DefenderGet ==
  /\ dd.step = "idle"
  /\ obj # NoObject
  /\ obj.deleting /\ Defender \in obj.fins
  /\ dd' = [dd EXCEPT !.step = "crd", !.u = obj]
  /\ current' = current \union {"dd"}
  /\ UNCHANGED <<obj, world, gcp, queue, ctl, ghosts>>

\* A plausible slip: what isUninstalling returned in an earlier reconcile
\* (here: before anyone uninstalled anything) is used again.
IsUninstallingCached ==
  /\ dd.step = "crd"
  /\ dd' = [dd EXCEPT !.step = "update", !.uninstalling = FALSE]
  /\ UNCHANGED <<obj, current, world, gcp, queue, ctl, ghosts>>

\* isUninstalling: a live read of the CRD.
IsUninstalling ==
  /\ dd.step = "crd"
  /\ dd' = [dd EXCEPT !.step = "update", !.uninstalling = (crd = "terminating")]
  /\ UNCHANGED <<obj, current, world, gcp, queue, ctl, ghosts>>

\* What the defender makes of the object.
Defended(u, uninstalling) ==
  IF uninstalling
    THEN [u EXCEPT !.fins = @ \ Finalizers, !.abandon = TRUE]
    ELSE [u EXCEPT !.fins = @ \ {Defender}]

\* The update, and the event it causes if the object is still there.
DefenderUpdate ==
  /\ dd.step = "update"
  /\ LET new == Defended(dd.u, dd.uninstalling)
     IN  /\ Write("dd", new)
         /\ Enqueue(Stored(new) # NoObject /\ OutOfSync(dd.u, new))
  /\ dd' = DefenderIdle
  /\ UNCHANGED <<world, gcp, ctl, ghosts>>

\* An error in any of the defender's calls, or its process dies.
DefenderFails ==
  /\ dd.step # "idle"
  /\ dd' = DefenderIdle
  /\ UNCHANGED <<obj, current, world, gcp, queue, ctl, ghosts>>

-----------------------------------------------------------------------------
(***************************************************************************)
(* Everyone else: users, administrators, the API server's own CRD          *)
(* finalization and other users of the GCP project.                        *)
(***************************************************************************)
\* A user may give the identifier of a resource that is there already.
UserCreates ==
  /\ obj = NoObject /\ crd = "installed"
  /\ \E d \in Desired, id \in {NoID} \union {n \in {name}: gcp # NoResource}:
       Overwrite([want |-> d, id |-> id, gen |-> 1, fins |-> {}, deleting |-> FALSE,
                  abandon |-> FALSE, actuation |-> "", obsGen |-> 0,
                  cond |-> "None"])
  /\ Enqueue(TRUE)
  /\ request' = [by |-> "nobody", abandon |-> FALSE]
  /\ UNCHANGED <<world, gcp, ctl, dd, managed, confirmed, waived>>

\* An edit that leaves the object where it is, and the event it causes.
Edited(new) ==
  /\ Overwrite(new)
  /\ Enqueue(OutOfSync(obj, new))

UserEditsSpec ==
  /\ obj # NoObject /\ obj.gen < MaxGeneration
  /\ \E s \in Specs \ {obj.want.spec}:
       Edited([obj EXCEPT !.want.spec = s, !.gen = @ + 1])
  /\ UNCHANGED <<world, gcp, ctl, dd, ghosts>>

UserEditsLabels ==
  /\ obj # NoObject
  /\ \E l \in Labels \ {obj.want.labels}:
       Edited([obj EXCEPT !.want.labels = l])
  /\ UNCHANGED <<world, gcp, ctl, dd, ghosts>>

UserSetsAbandon ==
  /\ "abandon" \in Requests
  /\ obj # NoObject /\ ~obj.abandon /\ obj.gen <= MaxGeneration
  /\ Edited([obj EXCEPT !.abandon = TRUE])
  /\ waived' = TRUE
  /\ UNCHANGED <<world, gcp, ctl, dd, managed, confirmed, request>>

UserUnsetsAbandon ==
  /\ obj # NoObject /\ obj.abandon /\ obj.gen <= MaxGeneration
  /\ Edited([obj EXCEPT !.abandon = FALSE])
  /\ request' = [request EXCEPT !.abandon = FALSE]
  /\ UNCHANGED <<world, gcp, ctl, dd, managed, confirmed, waived>>

UserSetsActuation ==
  /\ obj # NoObject /\ obj.gen < MaxGeneration
  /\ \E a \in Annotations \ {obj.actuation}:
       Edited([obj EXCEPT !.actuation = a])
  /\ UNCHANGED <<world, gcp, ctl, dd, ghosts>>

\* A deletion is a new generation of an object that has finalizers; one
\* without goes at once, and the predicate ignores that event.
Removed(by) ==
  /\ obj # NoObject /\ ~obj.deleting
  /\ IF obj.fins = {}
       THEN Overwrite(NoObject) /\ UNCHANGED queue
       ELSE Edited([obj EXCEPT !.deleting = TRUE, !.gen = @ + 1])
  /\ request' = [by |-> by, abandon |-> obj.abandon]
  /\ UNCHANGED <<world, gcp, ctl, dd, managed, confirmed, waived>>

UserDeletes == Removed("user")

Uninstall ==
  /\ "uninstall" \in Requests
  /\ crd = "installed"
  /\ crd' = "terminating"
  /\ waived' = TRUE
  /\ UNCHANGED <<obj, current, kcc, naming, name, gcp, queue, ctl, dd,
                 managed, confirmed, request>>

\* The API server deletes the instances of a CRD that is terminating.
CRDFinalization == crd = "terminating" /\ Removed("uninstall")

AdminConfigures ==
  /\ \E k \in KCCStates \ {kcc}: kcc' = k
  /\ UNCHANGED <<obj, current, crd, naming, name, gcp, queue, ctl, dd, ghosts>>

\* Others do not get to make a resource with an identifier of GCP's making.
Drift ==
  /\ gcp = NoResource => naming = "given"
  /\ \E d \in Drifts \ {gcp}:
       /\ gcp' = d
       /\ managed' = (managed /\ gcp # NoResource /\ d # NoResource)
  /\ UNCHANGED <<obj, current, world, queue, ctl, dd,
                 confirmed, request, waived>>

-----------------------------------------------------------------------------
Init ==
  /\ obj = NoObject /\ current = {}
  /\ crd = "installed" /\ kcc \in KCCStates
  /\ naming \in Namings
  /\ gcp = NoResource /\ name = NoID
  /\ queue = [now |-> FALSE, timer |-> FALSE]
  /\ ctl = Idle /\ dd = DefenderIdle
  /\ managed = FALSE /\ confirmed = NoResource
  /\ request = [by |-> "nobody", abandon |-> FALSE]
  /\ waived = FALSE

Reconcile ==
  \/ Get \/ FetchCC \/ Gate \/ PausedFinalizers \/ ApplyDefaults
  \/ Find \/ EnsureFinalizers
  \/ Create \/ Update \/ SetSpecResourceID \/ SetLastModifiedCookie
  \/ UpdateStatus \/ UpdateAPIServer \/ HandleUpToDate \/ HandleFailed
  \/ Delete \/ MarkDeleted \/ Unfinalize

Defend == DefenderGet \/ IsUninstalling \/ DefenderUpdate

Users ==
  \/ UserCreates \/ UserEditsSpec \/ UserEditsLabels \/ UserSetsAbandon
  \/ UserUnsetsAbandon \/ UserSetsActuation \/ UserDeletes
  \/ Uninstall \/ CRDFinalization \/ AdminConfigures \/ Drift

Next ==
  \/ Reconcile \/ TimerFires \/ Restart
  \/ Defend \/ DefenderFails
  \/ Users

Spec == Init /\ [][Next]_vars

-----------------------------------------------------------------------------
(***************************************************************************)
(* A GCP resource that KCC has created, updated or acquired always has an  *)
(* object with the controller's finalizer behind it, so that deleting the  *)
(* object cannot leave it behind: whatever crashes, conflicts and lost     *)
(* answers there were, unless someone asked KCC to let go.  Where GCP      *)
(* makes up the identifier, the promise begins when the object has it:     *)
(* between Create and the write that records it the resource can be lost.  *)
(***************************************************************************)
NoOrphan ==
  managed /\ ~waived =>
    obj # NoObject /\ Controller \in obj.fins

(***************************************************************************)
(* As long as there is a resource whose identifier the object has carried, *)
(* KCC creates no other one, although Find takes an object without an      *)
(* identifier for one without a resource: no failure, conflict or status   *)
(* write loses what was recorded.                                          *)
(***************************************************************************)
NotCreatedTwice == [][name' # name => waived \/ ~managed]_vars

(***************************************************************************)
(* KCC is about to delete the GCP resource only for an object that a user  *)
(* asked to delete, and that did not have the abandon annotation all the   *)
(* time since.  Uninstalling the CRD is never such a request: this is what *)
(* the deletion defender is for.                                           *)
(***************************************************************************)
DeletesOnRequestOnly ==
  ctl.step = "delete" =>
    /\ obj # NoObject
    /\ obj.deleting
    /\ request = [by |-> "user", abandon |-> FALSE]

(***************************************************************************)
(* A status that says UpToDate at the current generation is true: the      *)
(* object's spec is what KCC last applied to or found in GCP.  ShouldSkip  *)
(* relies on it.                                                           *)
(***************************************************************************)
UpToDateIsTrue ==
  obj # NoObject /\ obj.cond = "UpToDate" /\ obj.obsGen = obj.gen =>
    confirmed # NoResource /\ confirmed.spec = obj.want.spec

(***************************************************************************)
(* An object that is being deleted is never taken for one that needs no    *)
(* work: with an interval of zero nothing would ever finalize it.          *)
(***************************************************************************)
DeletionIsNotSkipped ==
  obj # NoObject /\ obj.deleting => ~ShouldSkip(obj)

(***************************************************************************)
(* A reconcile that found actuation paused, as the documentation defines   *)
(* it, changes nothing in GCP.                                             *)
(***************************************************************************)
PausedIsPaused ==
  ctl.step \in {"apply", "delete"} => ~ctl.held

(***************************************************************************)
(* No object is forgotten: with periodic reconciles, the reconciler is at  *)
(* work on every object, has it queued or has a timer running for it,      *)
(* unless the object waits for the defender, whose write is an event.      *)
(* Reconcile sets no timer in that case, on the strength of a copy that    *)
(* may be stale.                                                           *)
(***************************************************************************)
NeverForgotten ==
  obj # NoObject /\ ~IntervalZero =>
    \/ ctl.step # "idle"
    \/ queue.now \/ queue.timer
    \/ obj.deleting /\ Defender \in obj.fins

=============================================================================
