------------------------- MODULE TerraformReconciler -------------------------
(***************************************************************************)
(* One object of a kind that is reconciled through Terraform, and the GCP  *)
(* resources made for it: pkg/controller/tf, pkg/krmtotf.  The DCL         *)
(* reconciler (pkg/controller/dcl) takes the same steps, except that its   *)
(* library refuses a replacement (BlockDestruction) when it is to be made. *)
(*                                                                         *)
(* What tells this reconciler from the direct one is how it finds the      *)
(* resource: by a name that the user specifies, or by an ID that GCP makes *)
(* up when it creates the resource and that is recorded in the object      *)
(* afterwards.                                                             *)
(*                                                                         *)
(* A key whose reconcile has ended is due again, by a retry or after the   *)
(* interval, which is not zero here.  Leases are the subject of Leaser.    *)
(***************************************************************************)
EXTENDS Naturals

CONSTANTS
  IDSources,  \* where kinds keep the ID of their resource: see below
  Specs,      \* what users ask for
  Immutable,  \* the immutable fields of each
  NoSpec,
  NoObject,
  MaxMade,    \* bound: how many resources are ever created
  Faults      \* what may go wrong: see below

\* The ID is the name, which users choose, or made up by GCP and recorded in
\* spec.resourceID or in the status.
\* edit: users write the object while it is reconciled; write: a write to
\* the API server fails; answer: a call takes effect and reports an error;
\* restart: the manager dies; drift: others change or delete the resource;
\* abandonedParent: the parent object goes away and leaves its resource.
ASSUME TerraformAssumption ==
  /\ IDSources \subseteq {"name", "spec", "status"}
  /\ NoSpec \notin Specs
  /\ MaxMade \in Nat
  /\ Faults \subseteq {"edit", "write", "answer", "restart", "drift",
                       "abandonedParent"}

Controller == "cnrm.cloud.google.com/finalizer"
Defender   == "cnrm.cloud.google.com/deletion-defender"
Finalizers == {Controller, Defender}

\* id is the server-generated ID, 0 if none is recorded; ready is the Ready
\* condition.
Object ==
  [spec: Specs, id: 0..MaxMade, fins: SUBSET Finalizers,
   deleting: BOOLEAN, abandon: BOOLEAN, ready: BOOLEAN]

ASSUME ObjectAssumption == NoObject \notin Object

VARIABLES
  source,   \* where the kind of the object keeps the ID; never changes
  obj,      \* the object in the API server
  current,  \* does the reconcile's copy have the object's version?
  run,      \* the reconcile: its step, its copy, the live state it fetched
  gcp,      \* the resources that were created for the object
  made,     \* how many there have been
  parent,   \* the parent: ready, unready, gone, or abandoned by its object
  paused,   \* the actuation mode
  waived    \* history: resources the reconciler let go of knowingly

vars == <<source, obj, current, run, gcp, made, parent, paused, waived>>

world == <<gcp, made, parent, paused, waived>>

Steps == {"idle", "gate", "pause", "sync", "finalize", "updating", "apply",
          "record", "status", "deleting", "delete", "deleteFetch", "destroy",
          "deleted", "unfinalize", "report"}

NoLive == [id |-> 0, spec |-> NoSpec]
Idle   == [step |-> "idle", u |-> NoObject, live |-> NoLive]

TypeOK ==
  /\ source \in IDSources
  /\ obj \in Object \union {NoObject}
  /\ current \in BOOLEAN
  /\ run \in [step: Steps, u: Object \union {NoObject},
              live: [id: 0..MaxMade, spec: Specs \union {NoSpec}]]
  /\ gcp \in [1..MaxMade -> Specs \union {NoSpec}]
  /\ made \in 0..MaxMade
  /\ parent \in {"ready", "unready", "gone", "abandoned"}
  /\ paused \in BOOLEAN
  /\ waived \subseteq 1..MaxMade

-----------------------------------------------------------------------------
Lives == {i \in 1..MaxMade: gcp[i] # NoSpec}

\* FetchLiveState: import by the name, or by the ID if there is one.
FetchLiveState(u) ==
  {[id |-> i, spec |-> gcp[i]]:
     i \in IF source = "name" THEN Lives ELSE Lives \intersect {u.id}}

\* hasServerGeneratedIDAndHadBeenCreatedOnceAlready.  The slip: the check is
\* left out.
NeverCreatedBefore(u) == FALSE

HadBeenCreatedOnceAlready(u) == source # "name" /\ u.id # 0

RequiresNew(live, u) ==
  live # NoLive /\ Immutable[live.spec] # Immutable[u.spec]

\* NewImmutableFieldsMutationError.  The slip: the diff is applied as it is.
MutatesNothing(live, u) == FALSE

MutatesImmutableFields(live, u) == RequiresNew(live, u)

-----------------------------------------------------------------------------
Goto(step) == run' = [run EXCEPT !.step = step]

\* A write with the version of the copy, which then is what the server
\* answers.  Writes of the status leave the rest of the object alone.
Writes(step, new, next) ==
  /\ run.step = step /\ current
  /\ obj' = IF new.deleting /\ new.fins = {} THEN NoObject ELSE new
  /\ \/ run' = IF next = "idle" THEN Idle
               ELSE [run EXCEPT !.step = next, !.u = new]
     \/ "answer" \in Faults /\ run' = Idle
  /\ UNCHANGED current

WriteSteps == {"pause", "finalize", "updating", "record", "status",
               "deleting", "deleted", "unfinalize", "report"}

\* A conflict, or another error, ends the reconcile.
WriteFails ==
  /\ run.step \in WriteSteps
  /\ current => "write" \in Faults
  /\ run' = Idle
  /\ UNCHANGED <<obj, current>> /\ UNCHANGED world

-----------------------------------------------------------------------------
\* DoReconcile: read the object, ...
Get ==
  /\ run.step = "idle" /\ obj # NoObject
  /\ run' = [step |-> "gate", u |-> obj, live |-> NoLive]
  /\ current' = TRUE
  /\ UNCHANGED obj /\ UNCHANGED world

\* ... then the actuation mode.
Gate ==
  /\ run.step = "gate"
  /\ IF paused
       THEN IF run.u.deleting \/ run.u.fins = Finalizers THEN run' = Idle
            ELSE Goto("pause")
       ELSE Goto("sync")
  /\ UNCHANGED <<obj, current>> /\ UNCHANGED world

PauseFinalizes ==
  /\ Writes("pause", [run.u EXCEPT !.fins = Finalizers], "idle")
  /\ UNCHANGED world

\* sync of an object that is not being deleted, up to EnsureFinalizers: the
\* parent is not ready, the resource must not be recreated or replaced, or
\* there is something to do or to report.
Fetch ==
  /\ run.step = "sync" /\ ~run.u.deleting
  /\ IF parent # "ready" THEN Goto("report")
     ELSE \E live \in IF FetchLiveState(run.u) = {} THEN {NoLive}
                      ELSE FetchLiveState(run.u):
            IF \/ HadBeenCreatedOnceAlready(run.u) /\ live = NoLive
               \/ MutatesImmutableFields(live, run.u)
              THEN Goto("report")
              ELSE run' = [run EXCEPT !.step = "finalize", !.live = live]
  /\ UNCHANGED <<obj, current>> /\ UNCHANGED world

\* Any call to GCP before Apply may fail; nothing has been done then.
FetchFails ==
  /\ run.step \in {"sync", "deleteFetch"}
  /\ run.step = "sync" => ~run.u.deleting
  /\ Goto("report")
  /\ UNCHANGED <<obj, current>> /\ UNCHANGED world

\* handleUpToDate writes what it learnt, if there is anything to write.
UpToDateStep ==
  IF run.u.ready /\ (source = "name" \/ run.u.id = run.live.id)
    THEN "idle" ELSE "record"

AfterFinalizers ==
  IF run.live.spec = run.u.spec THEN UpToDateStep ELSE "updating"

\* The slip: the finalizers are set on the copy, to be written some day.
EnsureFinalizersInMemory ==
  /\ run.step = "finalize"
  /\ run' = IF AfterFinalizers = "idle" THEN Idle
            ELSE [run EXCEPT !.step = AfterFinalizers, !.u.fins = Finalizers]
  /\ UNCHANGED <<obj, current>> /\ UNCHANGED world

EnsureFinalizers ==
  /\ run.step = "finalize"
  /\ \/ /\ run.u.fins = Finalizers
        /\ run' = IF AfterFinalizers = "idle" THEN Idle
                  ELSE [run EXCEPT !.step = AfterFinalizers]
        /\ UNCHANGED <<obj, current>>
     \/ /\ run.u.fins # Finalizers
        /\ Writes("finalize", [run.u EXCEPT !.fins = Finalizers],
                  AfterFinalizers)
  /\ UNCHANGED world

HandleUpdating ==
  /\ Writes("updating", [obj EXCEPT !.ready = FALSE], "apply")
  /\ UNCHANGED world

\* Apply: an update, a creation, or a replacement; GCP creates nothing
\* under a parent that is gone, and updates nothing that is gone.
Apply ==
  /\ run.step = "apply"
  /\ LET create == run.live = NoLive \/ RequiresNew(run.live, run.u)
         id     == IF create THEN made + 1 ELSE run.live.id
     IN  /\ IF create THEN made < MaxMade /\ parent # "gone"
                      ELSE gcp[id] # NoSpec
         /\ made' = IF create THEN made + 1 ELSE made
         /\ gcp' = [i \in 1..MaxMade |->
                      IF i = id THEN run.u.spec
                      ELSE IF create /\ i = run.live.id THEN NoSpec
                      ELSE gcp[i]]
         /\ \/ run' = [run EXCEPT !.step = "record",
                         !.live = [id |-> id, spec |-> run.u.spec]]
            \/ "answer" \in Faults /\ Goto("report")
  /\ UNCHANGED <<obj, current, parent, paused, waived>>

\* The slip: the error of a deletion is not looked at.
ApplyFailsUnnoticed ==
  /\ run.step \in {"apply", "destroy"}
  /\ Goto(IF run.step = "apply" THEN "report" ELSE "deleted")
  /\ UNCHANGED <<obj, current>> /\ UNCHANGED world

ApplyFails ==
  /\ run.step \in {"apply", "destroy"}
  /\ Goto("report")
  /\ UNCHANGED <<obj, current>> /\ UNCHANGED world

ID == IF source = "name" THEN 0 ELSE run.live.id

\* HandleUpToDate: one write of the metadata and the spec, ...
RecordSpec ==
  /\ Writes("record",
            IF source = "spec" THEN [run.u EXCEPT !.id = ID] ELSE run.u,
            "status")
  /\ UNCHANGED world

\* ... and one of the status.
RecordStatus ==
  /\ Writes("status", [obj EXCEPT !.ready = TRUE, !.id = ID], "idle")
  /\ UNCHANGED world

\* HandleUpdateFailed, HandleDeleteFailed and HandleUnresolvableDeps.
Report ==
  /\ Writes("report", [obj EXCEPT !.ready = FALSE], "idle")
  /\ UNCHANGED world

-----------------------------------------------------------------------------
\* sync of an object that is being deleted: nothing to finalize, or not yet.
FinalizesNothing ==
  /\ run.step = "sync" /\ run.u.deleting
  /\ Controller \notin run.u.fins \/ Defender \in run.u.fins
  /\ run' = Idle
  /\ UNCHANGED <<obj, current>> /\ UNCHANGED world

HandleDeleting ==
  /\ run.step = "sync" /\ run.u.deleting /\ run.u.fins = {Controller}
  /\ Goto("deleting")
  /\ UNCHANGED <<obj, current>> /\ UNCHANGED world

WritesDeleting ==
  /\ Writes("deleting", [obj EXCEPT !.ready = FALSE], "delete")
  /\ UNCHANGED world

\* The slip: an orphan gets a step of its own that nobody takes further.
DeleteStrandingOrphans ==
  /\ run.step = "delete"
  /\ Goto(IF run.u.abandon THEN "deleted"
          ELSE IF parent \in {"gone", "abandoned"} THEN "orphaned"
          ELSE IF parent = "unready" THEN "report" ELSE "deleteFetch")
  /\ UNCHANGED <<obj, current>> /\ UNCHANGED world

\* The abandon annotation, isOrphaned, and the parent's Ready condition.  An
\* object whose parent object left its resource is an orphan, too.
Delete ==
  /\ run.step = "delete"
  /\ Goto(IF run.u.abandon \/ parent \in {"gone", "abandoned"} THEN "deleted"
          ELSE IF parent = "unready" THEN "report" ELSE "deleteFetch")
  /\ waived' = IF parent = "abandoned" THEN waived \union Lives ELSE waived
  /\ UNCHANGED <<obj, current, gcp, made, parent, paused>>

\* FetchLiveStateForDelete.
FetchForDelete ==
  /\ run.step = "deleteFetch"
  /\ IF FetchLiveState(run.u) = {} THEN Goto("deleted")
     ELSE \E live \in FetchLiveState(run.u):
            run' = [run EXCEPT !.step = "destroy", !.live = live]
  /\ UNCHANGED <<obj, current>> /\ UNCHANGED world

Destroy ==
  /\ run.step = "destroy"
  /\ gcp' = [gcp EXCEPT ![run.live.id] = NoSpec]
  /\ \/ Goto("deleted")
     \/ "answer" \in Faults /\ Goto("report")
  /\ UNCHANGED <<obj, current, made, parent, paused, waived>>

\* HandleDeleted: the status first, ...
HandleDeleted ==
  /\ Writes("deleted", [obj EXCEPT !.ready = FALSE], "unfinalize")
  /\ UNCHANGED world

\* ... then the finalizer.
Unfinalize ==
  /\ Writes("unfinalize", [run.u EXCEPT !.fins = @ \ {Controller}], "idle")
  /\ waived' = IF run.u.abandon THEN waived \union Lives ELSE waived
  /\ UNCHANGED <<gcp, made, parent, paused>>

-----------------------------------------------------------------------------
\* Everybody else.
MayWrite == run.step = "idle" \/ "edit" \in Faults

UserCreates(s) ==
  /\ obj = NoObject /\ MayWrite
  /\ obj' = [spec |-> s, id |-> 0, fins |-> {}, deleting |-> FALSE,
             abandon |-> FALSE, ready |-> FALSE]
  /\ current' = FALSE
  /\ UNCHANGED run /\ UNCHANGED world

UserEdits(s) ==
  /\ obj # NoObject /\ MayWrite
  /\ obj' = [obj EXCEPT !.spec = s]
  /\ current' = FALSE
  /\ UNCHANGED run /\ UNCHANGED world

UserSetsDeletionPolicy ==
  /\ obj # NoObject /\ MayWrite
  /\ obj' = [obj EXCEPT !.abandon = ~@]
  /\ current' = FALSE
  /\ UNCHANGED run /\ UNCHANGED world

UserDeletes ==
  /\ obj # NoObject /\ ~obj.deleting /\ MayWrite
  /\ obj' = IF obj.fins = {} THEN NoObject ELSE [obj EXCEPT !.deleting = TRUE]
  /\ current' = FALSE
  /\ UNCHANGED run /\ UNCHANGED world

\* The deletion defender lets go: see DirectReconciler.
DefenderFinalizes ==
  /\ obj # NoObject /\ obj.deleting /\ Defender \in obj.fins
  /\ LET left == obj.fins \ {Defender}
     IN  obj' = IF left = {} THEN NoObject ELSE [obj EXCEPT !.fins = left]
  /\ current' = FALSE
  /\ UNCHANGED run /\ UNCHANGED world

TogglesPause ==
  /\ paused' = ~paused
  /\ UNCHANGED <<obj, current, run, gcp, made, parent, waived>>

\* The parent object changes; what it takes with it in GCP is below it.
ParentChanges(p) ==
  /\ p # parent
  /\ p = "abandoned" => parent # "gone" /\ "abandonedParent" \in Faults
  /\ p = "gone" => parent # "abandoned"
  /\ parent' = p
  /\ gcp' = IF p = "gone" THEN [i \in 1..MaxMade |-> NoSpec] ELSE gcp
  /\ UNCHANGED <<obj, current, run, made, paused, waived>>

Drift(i) ==
  /\ "drift" \in Faults /\ gcp[i] # NoSpec
  /\ \E s \in Specs \union {NoSpec}:
       /\ s # gcp[i]
       /\ s # NoSpec => Immutable[s] = Immutable[gcp[i]]
       /\ gcp' = [gcp EXCEPT ![i] = s]
  /\ UNCHANGED <<obj, current, run, made, parent, paused, waived>>

Restart ==
  /\ "restart" \in Faults /\ run # Idle
  /\ run' = Idle
  /\ UNCHANGED <<obj, current>> /\ UNCHANGED world

-----------------------------------------------------------------------------
Init ==
  /\ source \in IDSources
  /\ obj = NoObject /\ current = FALSE /\ run = Idle
  /\ gcp = [i \in 1..MaxMade |-> NoSpec] /\ made = 0
  /\ parent = "ready" /\ paused = FALSE /\ waived = {}

Reconciles ==
  \/ Get \/ Gate \/ PauseFinalizes \/ Fetch \/ FetchFails
  \/ EnsureFinalizers \/ HandleUpdating \/ Apply \/ ApplyFails
  \/ RecordSpec \/ RecordStatus \/ Report
  \/ FinalizesNothing \/ HandleDeleting \/ WritesDeleting \/ Delete
  \/ FetchForDelete \/ Destroy \/ HandleDeleted \/ Unfinalize
  \/ WriteFails

Acts ==
  \/ Reconciles
  \/ \E s \in Specs: UserCreates(s) \/ UserEdits(s)
  \/ UserSetsDeletionPolicy \/ UserDeletes \/ DefenderFinalizes
  \/ TogglesPause
  \/ \E p \in {"ready", "unready", "gone", "abandoned"}: ParentChanges(p)
  \/ \E i \in 1..MaxMade: Drift(i)
  \/ Restart

Next == Acts /\ UNCHANGED source

Spec == Init /\ [][Next]_vars

-----------------------------------------------------------------------------
\* A resource that the object leads to: by its name, or by the recorded ID.
Tracked(i) ==
  /\ obj # NoObject /\ Controller \in obj.fins
  /\ source # "name" => obj.id = i

(***************************************************************************)
(* Every resource that has a name can be found from the object and will be *)
(* deleted with it, unless the reconciler let go of it.                    *)
(***************************************************************************)
Accounted == source = "name" => \A i \in Lives \ waived: Tracked(i)

(***************************************************************************)
(* A resource the object has led to once, it leads to as long as the       *)
(* resource exists: the finalizers and the recorded ID survive every write *)
(* that users, the defender and the reconciler make with copies that may   *)
(* be old, until the resource is gone or the reconciler lets go of it.     *)
(***************************************************************************)
NeverLosesTrack ==
  [][\A i \in Lives: Tracked(i) /\ gcp'[i] # NoSpec =>
       Tracked(i)' \/ i \in waived']_vars

(***************************************************************************)
(* Once an ID is recorded no further resource is created for the object,   *)
(* whatever happened to the one it names: "Don't "recreate" the resource". *)
(***************************************************************************)
NeverRecreated ==
  [][made' # made /\ source # "name" => obj.id = 0]_vars

(***************************************************************************)
(* A resource is destroyed by the reconciler for an object that is being   *)
(* deleted, never as the first half of a replacement: a change of an       *)
(* immutable field is an error.                                            *)
(***************************************************************************)
DestructionIsRequested ==
  [][\A i \in 1..MaxMade:
       gcp[i] # NoSpec /\ gcp'[i] = NoSpec /\ run' # run
         => obj # NoObject /\ obj.deleting]_vars

(***************************************************************************)
(* FetchLiveState takes a missing ID for a missing resource: "this means   *)
(* the resource has not yet been created".                                 *)
(***************************************************************************)
UnrecordedIsUncreated ==
  run.step = "sync" /\ source # "name" /\ run.u.id = 0
    => Lives \subseteq waived

-----------------------------------------------------------------------------
\* Why.  What FetchLiveState can find for a copy of the object.
Findable(u) == IF source = "name" THEN Lives ELSE Lives \intersect {u.id}

\* Finalizers come in pairs, and the defender's goes first.
ObjectInv ==
  obj # NoObject =>
    obj.fins \in IF obj.deleting THEN {Finalizers, {Controller}}
                 ELSE {{}, Finalizers}

\* A copy that is current is the object.  From one with the finalizer only
\* the spec and the annotations of the object may have moved on.
CopyInv ==
  run.step # "idle" =>
    /\ run.u # NoObject
    /\ current => run.u = obj
    /\ Controller \in run.u.fins =>
         /\ obj # NoObject /\ Controller \in obj.fins /\ obj.id = run.u.id
         /\ run.u.deleting => obj.deleting

\* What the steps of sync have established: the live state that Apply goes
\* by is that of the object's resource, and there is none if it is absent.
UpdateInv ==
  /\ run.step \in {"pause", "finalize", "updating", "apply", "record", "status"}
       => ~run.u.deleting
  /\ run.step \in {"updating", "apply", "record", "status"} =>
       run.u.fins = Finalizers
  /\ run.step \in {"finalize", "updating", "apply"} =>
       /\ ~RequiresNew(run.live, run.u)
       /\ run.live = NoLive => Findable(run.u) = {}
       /\ run.live # NoLive => run.live.id # 0
  /\ run.step \in {"finalize", "updating", "apply", "record", "status"} =>
       source = "name" \/ run.u.id \in {0, run.live.id}

\* What the steps of a deletion have: in the end nothing is left to find.
DeleteInv ==
  /\ run.step \in {"deleting", "delete", "deleteFetch", "destroy", "deleted",
                   "unfinalize"} =>
       run.u.deleting /\ run.u.fins = {Controller}
  /\ run.step = "destroy" =>
       run.live.id # 0 /\ Findable(run.u) \subseteq {run.live.id}
  /\ run.step \in {"deleted", "unfinalize"} /\ ~run.u.abandon =>
       Findable(run.u) \subseteq waived

\* A parent takes its resources along; a name belongs to one at a time.
WorldInv ==
  /\ parent = "gone" => Lives = {}
  /\ source = "name" => \A i, j \in Lives: i = j

(***************************************************************************)
(* The invariant behind the properties above.  That the resource can be    *)
(* found is a matter of the copy the reconcile works with, which may be    *)
(* old: what it is about is that nobody but this reconcile can take away   *)
(* the finalizer or the ID that it has seen.                               *)
(***************************************************************************)
TrackInv ==
  Accounted /\ ObjectInv /\ CopyInv /\ UpdateInv /\ DeleteInv /\ WorldInv

=============================================================================
