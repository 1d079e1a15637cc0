---------------------------- MODULE DirectProofs ----------------------------
(***************************************************************************)
(* IndInv is an invariant of DirectReconciler, and with it TypeOK,         *)
(* NoOrphan and DeletesOnRequestOnly, for all values of the constants;     *)
(* its part IdentityInv is why no second resource is created               *)
(* (NotCreatedTwice).  PausedIsPaused is an invariant for all settings     *)
(* that spell out the mode.  UpToDateIsTrue and DeletionIsNotSkipped say   *)
(* that a status is never believed for longer than it is true,             *)
(* NeverForgotten that the wake-ups of an object do not get lost.          *)
(***************************************************************************)
EXTENDS DirectInvariant, TLAPS

\* The inductive invariant without IdentityInv, whose proof comes last.
CoreInv ==
  /\ TypeOK /\ ObjectInv /\ WorldInv /\ DefenderInv /\ CopyInv /\ StepInv
  /\ NoOrphan

\* A status write changes nothing but the status.
LEMMA StatusKeeps ==
  ASSUME NEW o \in Object, NEW c \in Conditions
  PROVE  /\ Status(o, c) \in Object
         /\ Status(o, c).fins = o.fins
         /\ Status(o, c).deleting = o.deleting
         /\ Status(o, c).abandon = o.abandon
         /\ Status(o, c).id = o.id
  BY DEF Status, Object

\* One that saves an identifier too changes nothing but the two.
LEMMA Saves ==
  ASSUME NEW o \in Object, NEW i \in IDs \union {NoID}, NEW c \in Conditions,
         NEW new, new = Status(Carrying(o, i), c)
  PROVE  /\ new \in Object
         /\ new.want = o.want /\ new.gen = o.gen /\ new.fins = o.fins
         /\ new.deleting = o.deleting /\ new.abandon = o.abandon
         /\ new.cond = c /\ new.obsGen = o.gen
         /\ new.id = IF i = NoID THEN o.id ELSE i
<1>1. PICK j \in IDs \union {NoID} : j = IF i = NoID THEN o.id ELSE i
  BY DEF Object
<1>2. Carrying(o, i) = [o EXCEPT !.id = j]
  BY <1>1 DEF Carrying, Object
<1> QED BY <1>1, <1>2 DEF Status, Object

\* So does one of the spec, which has a new generation.
LEMMA SavesInSpec ==
  ASSUME NEW o \in Object, NEW i \in IDs,
         NEW new, new = WithResourceID(o, i)
  PROVE  /\ new \in Object
         /\ new.want = o.want /\ new.gen = o.gen + 1 /\ new.fins = o.fins
         /\ new.deleting = o.deleting /\ new.abandon = o.abandon
         /\ new.cond = o.cond /\ new.obsGen = o.obsGen
         /\ new.id = i
<1>1. o.gen \in Nat
  BY DEF Object
<1>2. PICK g \in Nat : g = o.gen + 1
  BY <1>1
<1>3. new = [o EXCEPT !.id = i, !.gen = g]
  BY <1>2 DEF WithResourceID, Object
<1>4. /\ new \in Object
      /\ new.want = o.want /\ new.gen = g /\ new.fins = o.fins
      /\ new.deleting = o.deleting /\ new.abandon = o.abandon
      /\ new.cond = o.cond /\ new.obsGen = o.obsGen
      /\ new.id = i
  BY <1>3 DEF Object
<1> QED BY <1>2, <1>4

\* Nor does a change of the finalizers change anything else.
LEMMA FinalizersKeep ==
  ASSUME NEW o \in Object, NEW F \in SUBSET Finalizers
  PROVE  /\ [o EXCEPT !.fins = F] \in Object
         /\ [o EXCEPT !.fins = F].fins = F
         /\ [o EXCEPT !.fins = F].deleting = o.deleting
         /\ [o EXCEPT !.fins = F].abandon = o.abandon
  BY DEF Object

\* Setting both finalizers changes nothing else.
LEMMA WithFinalizersKeeps ==
  ASSUME NEW o \in Object
  PROVE  /\ WithFinalizers(o) \in Object
         /\ WithFinalizers(o).fins = Finalizers
         /\ WithFinalizers(o).deleting = o.deleting
         /\ WithFinalizers(o).abandon = o.abandon
         /\ WithFinalizers(o).id = o.id
  BY DEF WithFinalizers, Object

\* An update of the queue is a queue.
LEMMA QueueTypes ==
  ASSUME NEW q \in QueueState, NEW b \in BOOLEAN
  PROVE  [q EXCEPT !.now = b] \in QueueState /\ [q EXCEPT !.timer = b] \in QueueState
  BY DEF QueueState

\* What a worker without a reconcile knows.
LEMMA IdleState ==
  /\ Idle \in CtlState /\ Idle.step = "idle" /\ Idle.held = FALSE
  /\ Idle.id = NoID
  BY DEF Idle, CtlState, CtlSteps, Conditions, NoCC, CC, ActuationField

\* A reconcile that ends leaves nothing of its private state.
LEMMA Endings ==
  ASSUME TypeOK, NEW u, Retry \/ Finish(u)
  PROVE  /\ ctl' \in CtlState /\ queue' \in QueueState
         /\ ctl'.step = "idle" /\ ctl'.held = FALSE /\ ctl'.id = NoID
<1>1. ctl' = Idle
  BY DEF Retry, Finish
<1>2. queue' \in QueueState
  BY DEF TypeOK, Retry, Finish, Enqueue, QueueState
<1> QED BY <1>1, <1>2, IdleState

\* One that goes on keeps its copy of the object.
LEMMA GoesOn ==
  ASSUME TypeOK, NEW s \in CtlSteps, Goto(s)
  PROVE  /\ ctl' \in CtlState /\ queue' \in QueueState
         /\ ctl'.step = s /\ ctl'.u = ctl.u /\ ctl'.held = ctl.held
         /\ ctl'.id = ctl.id
  BY DEF TypeOK, Goto, CtlState

\* A reconcile that reports an error keeps its copy, and has one to report.
LEMMA Reports ==
  ASSUME TypeOK, NEW c \in Trouble, Report(c)
  PROVE  /\ ctl' \in CtlState /\ queue' \in QueueState
         /\ ctl'.step = "report" /\ ctl'.u = ctl.u /\ ctl'.cond = c
         /\ ctl'.held = ctl.held /\ ctl'.id = ctl.id
  BY DEF TypeOK, Report, CtlState, CtlSteps, Conditions, Trouble

\* One that saves its status next keeps its copy.
LEMMA Publishes ==
  ASSUME TypeOK, NEW c \in {"unset", "UpToDate", "Updating"},
         NEW id \in IDs \union {NoID}, Publish(id, c)
  PROVE  /\ ctl' \in CtlState /\ queue' \in QueueState
         /\ ctl'.step \in {"annotate", "publish", "update"} /\ ctl'.u = ctl.u
         /\ ctl'.held = ctl.held /\ ctl'.id = id /\ ctl'.cond = c
         /\ ctl'.step # "publish" => c = "unset"
  BY DEF TypeOK, Publish, CtlState, CtlSteps, Conditions

\* One that failed before its status was in the copy forgets the identifier.
LEMMA ReportsNothing ==
  ASSUME TypeOK, ReportsNoID
  PROVE  /\ ctl' \in CtlState
         /\ ctl'.step = "report" /\ ctl'.u = ctl.u /\ ctl'.cond = "Failed"
         /\ ctl'.held = ctl.held /\ ctl'.id = NoID
  BY DEF TypeOK, ReportsNoID, CtlState, CtlSteps, Conditions

(***************************************************************************)
(* The controller writes an object that differs from its copy in the       *)
(* status or the identifier, or has got the finalizers.  Whether the call  *)
(* succeeds, fails or loses its answer, its copy and, after a success,     *)
(* what it wrote is a good copy of what is stored.  Only an object with    *)
(* the finalizer gets an identifier.                                       *)
(***************************************************************************)
LEMMA ControllerWrites ==
  ASSUME IndInv, Busy,
         NEW u \in Object, u = ctl.u,
         NEW new \in Object,
         new.deleting = u.deleting, new.abandon = u.abandon,
         new.fins = u.fins \/ (new.fins = Finalizers /\ ~u.deleting),
         new.id = u.id \/ Controller \in u.fins,
         Write("ctl", new) \/ WriteFails("ctl", new),
         UNCHANGED managed \/ Recorded,
         UNCHANGED <<crd, gcp, dd, request, waived>>
  PROVE  /\ obj' \in Object \union {NoObject}
         /\ current' \subseteq {"ctl", "dd"}
         /\ managed' \in BOOLEAN
         /\ ObjectInv' /\ WorldInv' /\ DefenderInv' /\ NoOrphan'
         /\ WriteFails("ctl", new) => GoodCopy(u)'
         /\ Write("ctl", new) => GoodCopy(new)'
<1> USE DEF Write, WriteFails, Stored, Controller, Defender, Finalizers
<1>1. \/ obj' = obj /\ current' = current
      \/ /\ obj # NoObject /\ "ctl" \in current /\ obj = u
         /\ obj' = new /\ current' \subseteq {"ctl"}
  BY DEF IndInv, TypeOK, ObjectInv, CopyInv, GoodCopy
<1>2. obj' \in Object \union {NoObject} /\ current' \subseteq {"ctl", "dd"}
  BY <1>1 DEF IndInv, TypeOK
<1>m. managed' \in BOOLEAN /\ (managed' => gcp # NoResource)
  <2>1. \/ managed' = managed
        \/ managed' = (gcp # NoResource)
    BY DEF Recorded
  <2>2. managed' \in BOOLEAN
    BY <2>1, Zenon DEF IndInv, TypeOK
  <2> QED BY <2>1, <2>2 DEF IndInv, WorldInv
<1>n. managed' => managed \/ (obj' = new /\ obj = u /\ Controller \in u.fins)
  BY <1>1 DEF Recorded
<1>3. CASE obj' = obj /\ current' = current
  <2>1. ObjectInv' /\ WorldInv' /\ DefenderInv' /\ NoOrphan'
    <3>1. managed' = managed
      BY <1>3 DEF Recorded
    <3> QED BY <1>3, <3>1
            DEF IndInv, ObjectInv, WorldInv, DefenderInv, NoOrphan, Passed,
                Defending
  <2>2. GoodCopy(u)'
    BY <1>3 DEF IndInv, CopyInv, GoodCopy, Held, Passed
  <2>3. Write("ctl", new) => GoodCopy(new)'
    <3> SUFFICES ASSUME Write("ctl", new) PROVE GoodCopy(new)'
      OBVIOUS
    <3>1. obj = u /\ new = u
      BY <1>3 DEF IndInv, TypeOK, ObjectInv, CopyInv, GoodCopy
    <3> QED BY <2>2, <3>1
  <2> QED BY <1>2, <1>m, <2>1, <2>2, <2>3
<1>4. CASE /\ obj # NoObject /\ "ctl" \in current /\ obj = u
           /\ obj' = new /\ current' \subseteq {"ctl"}
  <2>1. ObjectInv'
    BY <1>4, DirectAssumption DEF IndInv, ObjectInv, Passed
  <2>2. WorldInv' /\ DefenderInv'
    BY <1>4, <1>m DEF IndInv, WorldInv, DefenderInv, Defending
  <2>3. NoOrphan'
    BY <1>4, <1>n, DirectAssumption DEF IndInv, NoOrphan
  <2>4. ASSUME WriteFails("ctl", new) PROVE GoodCopy(u)'
    BY <1>4, <2>4, DirectAssumption
    DEF IndInv, CopyInv, GoodCopy, Held, Passed
  <2>5. GoodCopy(new)'
    BY <1>4, DirectAssumption DEF IndInv, CopyInv, GoodCopy, Held, Passed
  <2> QED BY <1>2, <1>m, <2>1, <2>2, <2>3, <2>4, <2>5
<1> QED BY <1>1, <1>3, <1>4

\* A step of the controller that leaves the object as it is.
LEMMA ControllerMoves ==
  ASSUME IndInv, Busy,
         ctl'.step = "idle" \/ ctl'.u = ctl.u,
         waived => waived',
         managed' => gcp' # NoResource,
         current' \subseteq current,
         UNCHANGED <<obj, crd, dd, request>>
  PROVE  ObjectInv' /\ WorldInv' /\ DefenderInv' /\ CopyInv'
<1>1. ObjectInv' /\ WorldInv' /\ DefenderInv'
  BY DEF IndInv, ObjectInv, WorldInv, DefenderInv, Passed, Defending
<1>2. CopyInv'
  BY DEF IndInv, CopyInv, GoodCopy, Busy, Held, Passed
<1> QED BY <1>1, <1>2

\* Someone else writes the object, leaving the finalizers alone.
LEMMA OthersWrite ==
  ASSUME IndInv, obj # NoObject,
         NEW new \in Object, Overwrite(new),
         new.fins = obj.fins, new.deleting = obj.deleting,
         new.abandon => waived', waived => waived',
         request'.by = request.by,
         request'.abandon => request.abandon,
         new.deleting /\ request'.abandon => new.abandon,
         UNCHANGED <<crd, gcp, ctl, dd, managed>>
  PROVE  ObjectInv' /\ WorldInv' /\ DefenderInv' /\ CopyInv' /\ NoOrphan'
<1> USE DirectAssumption DEF Overwrite
<1>1. ObjectInv'
  BY DEF IndInv, ObjectInv, Passed
<1>2. WorldInv' /\ DefenderInv'
  BY DEF IndInv, WorldInv, DefenderInv, Defending
<1>3. CopyInv'
  BY DEF IndInv, CopyInv, GoodCopy, Busy, Held, Passed
<1>4. NoOrphan'
  BY DEF IndInv, NoOrphan
<1> QED BY <1>1, <1>2, <1>3, <1>4

-----------------------------------------------------------------------------
(***************************************************************************)
(* One lemma for every action: the invariant is kept.                      *)
(***************************************************************************)
\* Get: a fresh copy is a good copy.
LEMMA GetKeeps == IndInv /\ Get => CoreInv'
<1> SUFFICES ASSUME IndInv, Get PROVE CoreInv'
  OBVIOUS
<1> USE DEF Get, ghosts, world
<1>1. \/ ctl' = ctl /\ current' = current
      \/ /\ obj \in Object /\ current' = current \union {"ctl"}
         /\ ctl' \in CtlState /\ ctl'.step = "cc" /\ ctl'.u = obj
  <2>1. [Idle EXCEPT !.step = "cc", !.u = obj].step = "cc"
        /\ [Idle EXCEPT !.step = "cc", !.u = obj].u = obj
    BY DEF Idle
  <2>2. obj \in Object => [Idle EXCEPT !.step = "cc", !.u = obj] \in CtlState
    BY IdleState DEF CtlState, CtlSteps
  <2> QED BY <2>1, <2>2 DEF IndInv, TypeOK
<1>2. TypeOK'
  BY <1>1, QueueTypes DEF IndInv, TypeOK
<1>3. ObjectInv' /\ WorldInv' /\ DefenderInv' /\ NoOrphan'
  BY <1>1 DEF IndInv, TypeOK, ObjectInv, WorldInv, DefenderInv, NoOrphan,
              Passed, Defending
<1>4. CopyInv' /\ StepInv'
  BY <1>1 DEF IndInv, ObjectInv, CopyInv, StepInv, GoodCopy, Busy, Held, Passed
<1> QED BY <1>2, <1>3, <1>4 DEF CoreInv

\* Steps that are over once the object, GCP and the settings have been read.
LEMMA ReadKeeps ==
  ASSUME IndInv, Busy,
         ctl' \in CtlState, queue' \in QueueState,
         \/ ctl'.step = "idle"
         \/ ctl'.u = ctl.u /\ ctl'.step # "idle",
         StepInv',
         current' \subseteq current,
         UNCHANGED <<obj, world, gcp, dd, ghosts>>
  PROVE  CoreInv'
<1>1. TypeOK'
  BY DEF IndInv, TypeOK, ghosts, world
<1>2. ObjectInv' /\ WorldInv' /\ DefenderInv' /\ CopyInv'
  BY ControllerMoves DEF IndInv, WorldInv, ghosts, world
<1>3. NoOrphan'
  BY DEF IndInv, NoOrphan, ghosts
<1> QED BY <1>1, <1>2, <1>3 DEF CoreInv

\* FetchCC: the CC is read, or the reconcile fails.
LEMMA FetchCCKeeps == IndInv /\ FetchCC => CoreInv'
<1> SUFFICES ASSUME IndInv, FetchCC PROVE CoreInv'
  OBVIOUS
<1>1. /\ ctl' \in CtlState /\ queue' \in QueueState
      /\ \/ ctl'.step = "idle"
         \/ ctl'.u = ctl.u /\ ctl'.step = "gate"
  <2>1. CCOf(kcc) \in CC
    BY DEF IndInv, TypeOK, KCCState, CC, CCOf
  <2>2. CASE ctl' = [ctl EXCEPT !.step = "gate", !.cc = CCOf(kcc)]
             /\ UNCHANGED queue
    BY <2>1, <2>2 DEF IndInv, TypeOK, CtlState, CtlSteps
  <2> QED BY <2>2, Endings DEF FetchCC, IndInv
<1>2. StepInv'
  BY <1>1 DEF StepInv
<1> QED BY <1>1, <1>2, ReadKeeps DEF FetchCC, Busy

\* Gate: whatever it decides, a paused object's finalizers are set only if
\* it is not being deleted.
LEMMA GateKeeps == IndInv /\ Gate => CoreInv'
<1> SUFFICES ASSUME IndInv, Gate PROVE CoreInv'
  OBVIOUS
<1>1. /\ ctl.step = "gate"
      /\ UNCHANGED <<obj, current, world, gcp, dd, ghosts>>
      /\ \/ Retry
         \/ Finish(ctl.u)
         \/ Report("Failed")
         \/ ~ctl.u.deleting /\ Goto("pausedFins")
         \/ \E b \in BOOLEAN :
              ctl' = [ctl EXCEPT !.step = "defaults", !.held = b]
              /\ UNCHANGED queue
  BY DEF Gate, PausedPerDocs
<1>2. /\ ctl' \in CtlState /\ queue' \in QueueState
      /\ \/ ctl'.step = "idle"
         \/ /\ ctl'.u = ctl.u
            /\ \/ ctl'.step = "report" /\ ctl'.cond \in Trouble
               \/ ctl'.step = "pausedFins" /\ ~ctl.u.deleting
               \/ ctl'.step = "defaults"
  <2>1. CASE \E b \in BOOLEAN :
              ctl' = [ctl EXCEPT !.step = "defaults", !.held = b]
              /\ UNCHANGED queue
    BY <2>1 DEF IndInv, TypeOK, CtlState, CtlSteps
  <2> QED BY <1>1, <2>1, Endings, GoesOn, Reports
          DEF IndInv, Trouble, CtlSteps
<1>3. StepInv'
  BY <1>2 DEF StepInv
<1> QED BY <1>1, <1>2, <1>3, ReadKeeps DEF Busy

\* ApplyDefaults and SetLastModifiedCookie write nothing that matters here.
LEMMA TouchKeeps ==
  IndInv /\ (ApplyDefaults \/ SetLastModifiedCookie) => CoreInv'
<1> SUFFICES ASSUME IndInv, ApplyDefaults \/ SetLastModifiedCookie
             PROVE  CoreInv'
  OBVIOUS
<1>1. /\ Busy /\ current' \subseteq current
      /\ UNCHANGED <<obj, world, gcp, dd, ghosts>>
  BY DEF ApplyDefaults, SetLastModifiedCookie, Touch, TouchFails, Busy
<1>2. /\ ctl' \in CtlState /\ queue' \in QueueState
      /\ \/ ctl'.step = "idle"
         \/ /\ ctl'.u = ctl.u
            /\ \/ ctl'.step = "report" /\ ctl'.cond \in Trouble
               \/ ctl'.step \in {"find", "publish", "update"}
  <2>1. TypeOK
    BY DEF IndInv
  <2>2. CASE \E st \in {"find", "publish", "update"} : Goto(st)
    BY <2>1, <2>2, GoesOn DEF CtlSteps
  <2>3. CASE Retry
    BY <2>1, <2>3, Endings
  <2>4. CASE ReportsNoID /\ UNCHANGED queue
    BY <2>1, <2>4, ReportsNothing DEF TypeOK, Trouble
  <2> QED BY <2>2, <2>3, <2>4 DEF ApplyDefaults, SetLastModifiedCookie
<1>3. StepInv'
  BY <1>2 DEF StepInv
<1> QED BY <1>1, <1>2, <1>3, ReadKeeps

\* What is managed is found: an object with the finalizer, however old the
\* copy, has the identifier of the copy.
LEMMA ManagedIsFound ==
  ASSUME IndInv, ctl.step = "find", Found(ctl.u) = NoResource
  PROVE  waived \/ ~managed
<1> SUFFICES ASSUME ~waived, managed PROVE FALSE
  OBVIOUS
<1>1. Controller \in ctl.u.fins
  BY DEF IndInv, IdentityInv, Busy
<1>2. Knows(obj) /\ obj.id = ctl.u.id
  BY <1>1 DEF IndInv, IdentityInv, Busy
<1>3. Found(ctl.u) = gcp
  BY <1>2 DEF Knows, Found
<1> QED BY <1>3 DEF IndInv, WorldInv

\* Find: AfterFind picks the steps that StepInv describes.
LEMMA FindKeeps == IndInv /\ Find => CoreInv'
<1> SUFFICES ASSUME IndInv, Find PROVE CoreInv'
  OBVIOUS
<1>0. PICK f \in Desired \union {NoResource} : f = Found(ctl.u)
  BY DEF Found, IndInv, TypeOK
<1>1. /\ ctl.step = "find"
      /\ UNCHANGED <<obj, current, world, gcp, dd, ghosts>>
      /\ \/ \E c \in Trouble : Report(c)
         \/ Finish(ctl.u)
         \/ /\ AfterFind(ctl.u, f) # "done" /\ UNCHANGED queue
            /\ ctl' = [ctl EXCEPT !.step = AfterFind(ctl.u, f), !.found = f]
  BY <1>0 DEF Find
<1>2. /\ ctl' \in CtlState /\ queue' \in QueueState
      /\ \/ ctl'.step = "idle"
         \/ /\ ctl'.u = ctl.u
            /\ \/ ctl'.step = "report" /\ ctl'.cond \in Trouble
               \/ /\ AfterFind(ctl.u, f) # "done"
                  /\ ctl'.step = AfterFind(ctl.u, f)
  <2>1. AfterFind(ctl.u, f) \in CtlSteps \union {"done"}
    BY DEF AfterFind, CtlSteps
  <2>2. CASE /\ AfterFind(ctl.u, f) # "done" /\ UNCHANGED queue
             /\ ctl' = [ctl EXCEPT !.step = AfterFind(ctl.u, f), !.found = f]
    BY <2>1, <2>2 DEF IndInv, TypeOK, CtlState
  <2> QED BY <1>1, <2>2, Endings, Reports DEF IndInv
<1>3. f = NoResource => waived \/ ~managed
  BY <1>0, <1>1, ManagedIsFound
<1>4. ctl.u.abandon => waived
  BY <1>1 DEF IndInv, CopyInv, GoodCopy, Busy
<1>5. StepInv'
  BY <1>1, <1>2, <1>3, <1>4 DEF StepInv, AfterFind, Passed, ghosts
<1>6. ctl'.step = "idle" \/ (ctl'.u = ctl.u /\ ctl'.step # "idle")
  BY <1>2 DEF AfterFind
<1> QED BY <1>1, <1>2, <1>5, <1>6, ReadKeeps DEF Busy

\* Create and Update act only for an object that holds the finalizer.
LEMMA ApplyKeeps ==
  ASSUME IndInv, ctl.step = "apply",
         ctl' \in CtlState, queue' \in QueueState,
         \/ ctl'.step = "report" /\ ctl'.cond \in Trouble
         \/ ctl'.step \in {"annotate", "publish", "update"},
         ctl'.u = ctl.u,
         gcp' \in Desired \union {NoResource}, managed' \in BOOLEAN,
         confirmed' \in Desired \union {NoResource},
         name' \in IDs \union {NoID},
         managed' => gcp' # NoResource,
         UNCHANGED <<obj, current, crd, kcc, naming, dd, request, waived>>
  PROVE  CoreInv'
<1>1. TypeOK'
  BY DEF IndInv, TypeOK
<1>2. ObjectInv' /\ WorldInv' /\ DefenderInv' /\ CopyInv'
  BY ControllerMoves DEF Busy
<1>3. StepInv'
  BY DEF StepInv
<1>4. NoOrphan'
  BY DEF IndInv, StepInv, CopyInv, GoodCopy, Busy, Held, NoOrphan
<1> QED BY <1>1, <1>2, <1>3, <1>4 DEF CoreInv

\* What Create and Update do next: report, or save an identifier.
LEMMA AfterApply ==
  ASSUME TypeOK,
         \/ \E c \in Trouble : Report(c)
         \/ \E i \in IDs \union {NoID}, c \in {"unset", "UpToDate", "Updating"} :
              Publish(i, c)
  PROVE  /\ ctl' \in CtlState /\ queue' \in QueueState
         /\ ctl'.u = ctl.u /\ ctl'.held = ctl.held
         /\ \/ ctl'.step = "report" /\ ctl'.cond \in Trouble
            \/ ctl'.step \in {"annotate", "publish", "update"}
  BY Reports, Publishes

\* Create: the finalizer it relies on is still there, however old its copy.
LEMMA CreateKeeps == IndInv /\ Create => CoreInv'
<1> SUFFICES ASSUME IndInv, Create PROVE CoreInv'
  OBVIOUS
<1>1. ctl.u.want \in Desired /\ ctl.u.want # NoResource
  BY DirectAssumption DEF IndInv, CopyInv, Create, Busy, Object
<1>2. FreshIDs \subseteq IDs \union {NoID}
  BY DEF FreshIDs
<1>3. /\ \/ \E c \in Trouble : Report(c)
         \/ \E i \in IDs \union {NoID}, c \in {"unset", "UpToDate", "Updating"} :
              Publish(i, c)
      /\ \/ \E i \in IDs \union {NoID} : Insert(i)
         \/ UNCHANGED <<gcp, name, managed, confirmed>>
      /\ ctl.step = "apply"
      /\ UNCHANGED <<obj, current, crd, kcc, naming, dd, request, waived>>
  BY <1>2 DEF Create, Trouble
<1>4. /\ ctl' \in CtlState /\ queue' \in QueueState /\ ctl'.u = ctl.u
      /\ \/ ctl'.step = "report" /\ ctl'.cond \in Trouble
         \/ ctl'.step \in {"annotate", "publish", "update"}
  BY <1>3, AfterApply DEF IndInv
<1>5. /\ gcp' \in Desired \union {NoResource}
      /\ confirmed' \in Desired \union {NoResource}
      /\ name' \in IDs \union {NoID}
  BY <1>1, <1>3 DEF Insert, IndInv, TypeOK
<1>6. managed' \in BOOLEAN
  BY <1>3, Zenon DEF Insert, IndInv, TypeOK
<1>7. managed' => gcp' # NoResource
  BY <1>1, <1>3 DEF Insert, IndInv, WorldInv
<1> QED BY <1>3, <1>4, <1>5, <1>6, <1>7, ApplyKeeps

\* Update: likewise, whether it changes, acquires or waits.
LEMMA UpdateKeeps == IndInv /\ Update => CoreInv'
<1> SUFFICES ASSUME IndInv, Update PROVE CoreInv'
  OBVIOUS
<1>1. ctl.u.want \in Desired /\ ctl.u.want # NoResource
  BY DirectAssumption DEF IndInv, CopyInv, Update, Busy, Object
<1>2. /\ \/ \E c \in Trouble : Report(c)
         \/ \E i \in IDs \union {NoID}, c \in {"unset", "UpToDate", "Updating"} :
              Publish(i, c)
      /\ \/ Actuate(ctl.u.want)
         \/ UNCHANGED <<gcp, managed, confirmed>>
         \/ /\ confirmed' = ctl.u.want /\ managed' = (gcp # NoResource)
            /\ UNCHANGED gcp
      /\ ctl.step = "apply"
      /\ UNCHANGED <<obj, current, crd, kcc, naming, name, dd, request, waived>>
  BY DEF Update, Trouble, world
<1>3. /\ ctl' \in CtlState /\ queue' \in QueueState /\ ctl'.u = ctl.u
      /\ \/ ctl'.step = "report" /\ ctl'.cond \in Trouble
         \/ ctl'.step \in {"annotate", "publish", "update"}
  BY <1>2, AfterApply DEF IndInv
<1>4. /\ gcp' \in Desired \union {NoResource}
      /\ confirmed' \in Desired \union {NoResource}
      /\ name' \in IDs \union {NoID}
  BY <1>1, <1>2 DEF Actuate, IndInv, TypeOK
<1>5. managed' \in BOOLEAN
  BY <1>2, Zenon DEF Actuate, IndInv, TypeOK
<1>6. managed' => gcp' # NoResource
  BY <1>1, <1>2 DEF Actuate, IndInv, WorldInv
<1> QED BY <1>2, <1>3, <1>4, <1>5, <1>6, ApplyKeeps

\* Delete: nothing is managed afterwards, or KCC is excused.
LEMMA DeleteKeeps == IndInv /\ Delete => CoreInv'
<1> SUFFICES ASSUME IndInv, Delete PROVE CoreInv'
  OBVIOUS
<1>1. /\ ctl.step = "delete"
      /\ UNCHANGED <<obj, current, world, dd, confirmed, request>>
      /\ \E c \in Trouble : Report(c)  \/  Goto("markDeleted")
      /\ \/ gcp' = NoResource /\ managed' = FALSE /\ waived' = waived
         \/ gcp' = gcp /\ managed' = managed /\ waived' = TRUE
         \/ /\ gcp' = gcp /\ managed' = managed /\ waived' = waived
            /\ \E c \in Trouble : Report(c)
  BY DEF Delete, Trouble
<1>2. /\ ctl' \in CtlState /\ queue' \in QueueState /\ ctl'.u = ctl.u
      /\ \/ ctl'.step = "report" /\ ctl'.cond \in Trouble
         \/ ctl'.step = "markDeleted" /\ (waived' \/ ~managed')
  BY <1>1, Reports, GoesOn DEF IndInv, CtlSteps, Trouble
<1>3. TypeOK'
  BY <1>1, <1>2 DEF IndInv, TypeOK, world
<1>4. ObjectInv' /\ WorldInv' /\ DefenderInv' /\ CopyInv'
  BY <1>1, <1>2, ControllerMoves DEF IndInv, WorldInv, Busy, world
<1>5. StepInv' /\ NoOrphan'
  BY <1>1, <1>2 DEF IndInv, StepInv, NoOrphan, Passed
<1> QED BY <1>3, <1>4, <1>5 DEF CoreInv

-----------------------------------------------------------------------------
(***************************************************************************)
(* The steps that write to the API server.  What remains to be shown of    *)
(* each is that it goes on with what it wrote or with its old copy, and    *)
(* that its next step may rely on StepInv.                                 *)
(***************************************************************************)
LEMMA WriteKeeps ==
  ASSUME IndInv, Busy,
         NEW u \in Object, u = ctl.u,
         NEW new \in Object,
         new.deleting = u.deleting, new.abandon = u.abandon,
         new.fins = u.fins \/ (new.fins = Finalizers /\ ~u.deleting),
         new.id = u.id \/ Controller \in u.fins,
         Write("ctl", new) \/ WriteFails("ctl", new),
         ctl' \in CtlState, queue' \in QueueState,
         \/ ctl'.step = "idle"
         \/ Write("ctl", new) /\ ctl'.u = new
         \/ WriteFails("ctl", new) /\ ctl'.u = u,
         StepInv',
         UNCHANGED managed \/ Recorded,
         UNCHANGED <<world, gcp, dd, confirmed, request, waived>>
  PROVE  CoreInv'
<1>1. /\ managed' \in BOOLEAN
      /\ obj' \in Object \union {NoObject}
      /\ current' \subseteq {"ctl", "dd"}
      /\ ObjectInv' /\ WorldInv' /\ DefenderInv' /\ NoOrphan'
      /\ WriteFails("ctl", new) => GoodCopy(u)'
      /\ Write("ctl", new) => GoodCopy(new)'
  BY ControllerWrites DEF world
<1>2. TypeOK'
  BY <1>1 DEF IndInv, TypeOK, world
<1>3. CopyInv'
  BY <1>1 DEF CopyInv, GoodCopy, Busy
<1> QED BY <1>1, <1>2, <1>3 DEF CoreInv

\* PausedFinalizers: both finalizers or none, even if the write is lost.
LEMMA PausedFinalizersKeeps == IndInv /\ PausedFinalizers => CoreInv'
<1> SUFFICES ASSUME IndInv, PausedFinalizers PROVE CoreInv'
  OBVIOUS
<1>1. PICK u \in Object : u = ctl.u /\ ~u.deleting
  BY DEF IndInv, PausedFinalizers, CopyInv, StepInv, Busy
<1>2. PICK new \in Object : /\ new = WithFinalizers(ctl.u)
                           /\ new.fins = Finalizers
                           /\ new.deleting = u.deleting
                           /\ new.abandon = u.abandon /\ new.id = u.id
  BY <1>1, WithFinalizersKeeps
<1>3. ctl' \in CtlState /\ queue' \in QueueState /\ ctl'.step = "idle"
  BY Endings DEF IndInv, PausedFinalizers
<1>4. StepInv'
  BY <1>3 DEF StepInv
<1> QED BY <1>1, <1>2, <1>3, <1>4, WriteKeeps
        DEF PausedFinalizers, Busy, ghosts

\* EnsureFinalizers: the reconcile goes on only once both are stored.
LEMMA EnsureFinalizersKeeps == IndInv /\ EnsureFinalizers => CoreInv'
<1> SUFFICES ASSUME IndInv, EnsureFinalizers PROVE CoreInv'
  OBVIOUS
<1>1. PICK u \in Object : u = ctl.u /\ ~u.deleting
  BY DEF IndInv, EnsureFinalizers, CopyInv, StepInv, Busy
<1>2. PICK new \in Object : /\ new = WithFinalizers(ctl.u)
                           /\ new.fins = Finalizers
                           /\ new.deleting = u.deleting
                           /\ new.abandon = u.abandon /\ new.id = u.id
  BY <1>1, WithFinalizersKeeps
<1>3. CASE /\ Finalizers \subseteq ctl.u.fins
           /\ Goto("apply") /\ UNCHANGED <<obj, current>>
  <2>1. /\ ctl' \in CtlState /\ queue' \in QueueState
        /\ ctl'.step = "apply" /\ ctl'.u = ctl.u
    BY <1>3, GoesOn DEF IndInv, CtlSteps
  <2>2. UNCHANGED <<obj, current, world, gcp, dd, ghosts>> /\ Busy
    BY <1>3 DEF EnsureFinalizers, Busy
  <2>3. TypeOK' /\ StepInv' /\ NoOrphan'
    BY <1>3, <2>1, <2>2 DEF IndInv, TypeOK, StepInv, NoOrphan, Finalizers,
                            world, ghosts
  <2>4. ObjectInv' /\ WorldInv' /\ DefenderInv' /\ CopyInv'
    BY <2>1, <2>2, ControllerMoves DEF IndInv, WorldInv, world, ghosts
  <2> QED BY <2>3, <2>4 DEF CoreInv
<1>4. CASE /\ Write("ctl", new) /\ UNCHANGED queue
           /\ ctl' = [ctl EXCEPT !.step = "apply", !.u = new]
  <2>1. ctl' \in CtlState /\ ctl'.step = "apply" /\ ctl'.u = new
    BY <1>4 DEF IndInv, TypeOK, CtlState, CtlSteps
  <2>2. StepInv' /\ queue' \in QueueState
    BY <1>2, <1>4, <2>1 DEF IndInv, TypeOK, StepInv, Finalizers
  <2> QED BY <1>1, <1>2, <1>4, <2>1, <2>2, WriteKeeps
          DEF EnsureFinalizers, Busy, ghosts
<1>5. CASE WriteFails("ctl", new) /\ Retry
  <2>1. ctl' \in CtlState /\ queue' \in QueueState /\ ctl'.step = "idle"
    BY <1>5, Endings DEF IndInv
  <2>2. StepInv'
    BY <2>1 DEF StepInv
  <2> QED BY <1>1, <1>2, <1>5, <2>1, <2>2, WriteKeeps
          DEF EnsureFinalizers, Busy, ghosts
<1> QED BY <1>2, <1>3, <1>4, <1>5 DEF EnsureFinalizers

\* What is saved with the status: an identifier, if the finalizer is there.
LEMMA SavesKeep ==
  ASSUME IndInv, Busy, NEW c \in Conditions
  PROVE  \E u \in Object, new \in Object :
           /\ u = ctl.u /\ new = Status(Carrying(ctl.u, ctl.id), c)
           /\ new.fins = u.fins
           /\ new.deleting = u.deleting /\ new.abandon = u.abandon
           /\ new.id = u.id \/ Controller \in u.fins
<1>1. ctl.u \in Object /\ ctl.id \in IDs \union {NoID}
  BY DEF IndInv, CopyInv, TypeOK, CtlState
<1>2. ctl.id # NoID => Controller \in ctl.u.fins
  BY DEF IndInv, IdentityInv
<1> QED BY <1>1, <1>2, Saves

\* UpdateStatus: no more than the status and the identifier is new.
LEMMA UpdateStatusKeeps == IndInv /\ UpdateStatus => CoreInv'
<1> SUFFICES ASSUME IndInv, UpdateStatus PROVE CoreInv'
  OBVIOUS
<1>1. Busy
  BY DEF UpdateStatus, Busy
<1>2. ReadyCondition(ctl.u, ctl.cond) \in Conditions
  BY <1>1 DEF IndInv, TypeOK, CopyInv, CtlState, ReadyCondition, Object
<1>3. PICK u \in Object, new \in Object :
        /\ u = ctl.u
        /\ new = Status(Carrying(ctl.u, ctl.id), ReadyCondition(ctl.u, ctl.cond))
        /\ new.fins = u.fins
        /\ new.deleting = u.deleting /\ new.abandon = u.abandon
        /\ new.id = u.id \/ Controller \in u.fins
  BY <1>1, <1>2, SavesKeep
<1>r. Recorded /\ UNCHANGED <<world, gcp, dd, confirmed, request, waived>>
  BY DEF UpdateStatus
<1>4. CASE /\ Write("ctl", new) /\ UNCHANGED queue
           /\ ctl' = [ctl EXCEPT !.step = "update", !.u = new]
  <2>1. ctl' \in CtlState /\ ctl'.step = "update" /\ ctl'.u = new
    BY <1>4 DEF IndInv, TypeOK, CtlState, CtlSteps
  <2>2. StepInv' /\ queue' \in QueueState
    BY <1>4, <2>1 DEF IndInv, TypeOK, StepInv
  <2> QED BY <1>1, <1>3, <1>r, <1>4, <2>1, <2>2, WriteKeeps
<1>5. CASE Write("ctl", new) /\ (Retry \/ Finish(new))
  <2>1. ctl' \in CtlState /\ queue' \in QueueState /\ ctl'.step = "idle"
    BY <1>5, Endings DEF IndInv
  <2>2. StepInv'
    BY <2>1 DEF StepInv
  <2> QED BY <1>1, <1>3, <1>r, <1>5, <2>1, <2>2, WriteKeeps
<1>6. CASE WriteFails("ctl", new) /\ Report("Failed")
  <2>1. /\ ctl' \in CtlState /\ queue' \in QueueState
        /\ ctl'.step = "report" /\ ctl'.u = u /\ ctl'.cond \in Trouble
    BY <1>3, <1>6, Reports DEF IndInv, Trouble
  <2>2. StepInv'
    BY <2>1 DEF StepInv
  <2> QED BY <1>1, <1>3, <1>r, <1>6, <2>1, <2>2, WriteKeeps
<1> QED BY <1>3, <1>4, <1>5, <1>6 DEF UpdateStatus, Done

\* SetSpecResourceID: the same for the spec.
LEMMA SetSpecResourceIDKeeps == IndInv /\ SetSpecResourceID => CoreInv'
<1> SUFFICES ASSUME IndInv, SetSpecResourceID PROVE CoreInv'
  OBVIOUS
<1>1. Busy /\ ctl.u \in Object /\ ctl.id \in IDs /\ Controller \in ctl.u.fins
  BY DEF SetSpecResourceID, Busy, IndInv, TypeOK, CopyInv, CtlState, IdentityInv
<1>2. PICK u \in Object, new \in Object :
        /\ u = ctl.u
        /\ new = WithResourceID(ctl.u, ctl.id)
        /\ new.fins = u.fins
        /\ new.deleting = u.deleting /\ new.abandon = u.abandon
  BY <1>1, SavesInSpec
<1>3. Recorded /\ UNCHANGED <<world, gcp, dd, confirmed, request, waived>>
  BY DEF SetSpecResourceID
<1>4. queue' \in QueueState
  BY DEF SetSpecResourceID, Enqueue, IndInv, TypeOK, QueueState
<1>5. CASE /\ Write("ctl", new)
           /\ ctl' = [ctl EXCEPT !.step = "publish", !.u = new]
  <2>1. ctl' \in CtlState /\ ctl'.step = "publish" /\ ctl'.u = new
    BY <1>5 DEF IndInv, TypeOK, CtlState, CtlSteps
  <2>2. StepInv'
    BY <2>1 DEF StepInv
  <2> QED BY <1>1, <1>2, <1>3, <1>4, <1>5, <2>1, <2>2, WriteKeeps
<1>6. CASE WriteFails("ctl", new) /\ ReportsNoID
  <2>1. /\ ctl' \in CtlState
        /\ ctl'.step = "report" /\ ctl'.u = u /\ ctl'.cond \in Trouble
    BY <1>2, <1>6, ReportsNothing DEF IndInv, Trouble
  <2>2. StepInv'
    BY <2>1 DEF StepInv
  <2> QED BY <1>1, <1>2, <1>3, <1>4, <1>6, <2>1, <2>2, WriteKeeps
<1> QED BY <1>2, <1>5, <1>6 DEF SetSpecResourceID

\* UpdateAPIServer: nothing is new, but the copy is known to be current.
LEMMA UpdateAPIServerKeeps == IndInv /\ UpdateAPIServer => CoreInv'
<1> SUFFICES ASSUME IndInv, UpdateAPIServer PROVE CoreInv'
  OBVIOUS
<1>1. PICK u \in Object : u = ctl.u
  BY DEF IndInv, UpdateAPIServer, CopyInv, Busy
<1>2. CASE Write("ctl", u) /\ Goto("upToDate")
  <2>1. /\ ctl' \in CtlState /\ queue' \in QueueState
        /\ ctl'.step = "upToDate" /\ ctl'.u = u
    BY <1>1, <1>2, GoesOn DEF IndInv, CtlSteps
  <2>2. StepInv'
    BY <2>1 DEF StepInv
  <2> QED BY <1>1, <1>2, <2>1, <2>2, WriteKeeps
          DEF UpdateAPIServer, Busy, ghosts
<1>3. CASE WriteFails("ctl", u) /\ Retry
  <2>1. ctl' \in CtlState /\ queue' \in QueueState /\ ctl'.step = "idle"
    BY <1>3, Endings DEF IndInv
  <2>2. StepInv'
    BY <2>1 DEF StepInv
  <2> QED BY <1>1, <1>3, <2>1, <2>2, WriteKeeps
          DEF UpdateAPIServer, Busy, ghosts
<1> QED BY <1>1, <1>2, <1>3 DEF UpdateAPIServer

\* HandleUpToDate: no more than the status and the identifier is new.
LEMMA HandleUpToDateKeeps == IndInv /\ HandleUpToDate => CoreInv'
<1> SUFFICES ASSUME IndInv, HandleUpToDate PROVE CoreInv'
  OBVIOUS
<1>1. Busy
  BY DEF HandleUpToDate, Busy
<1>2. PICK u \in Object, new \in Object :
        /\ u = ctl.u /\ new = Status(Carrying(ctl.u, ctl.id), "UpToDate")
        /\ new.fins = u.fins
        /\ new.deleting = u.deleting /\ new.abandon = u.abandon
        /\ new.id = u.id \/ Controller \in u.fins
  <2>1. "UpToDate" \in Conditions
    BY DEF Conditions
  <2> QED BY <1>1, <2>1, SavesKeep
<1>3. /\ Write("ctl", new) \/ WriteFails("ctl", new)
      /\ Retry \/ Finish(new)
      /\ Recorded /\ UNCHANGED <<world, gcp, dd, confirmed, request, waived>>
  BY <1>2 DEF HandleUpToDate, Done
<1>4. ctl' \in CtlState /\ queue' \in QueueState /\ ctl'.step = "idle"
  BY <1>3, Endings DEF IndInv
<1>5. StepInv'
  BY <1>4 DEF StepInv
<1> QED BY <1>1, <1>2, <1>3, <1>4, <1>5, WriteKeeps

\* HandleFailed: no more than the status and the identifier is new.
LEMMA HandleFailedKeeps == IndInv /\ HandleFailed => CoreInv'
<1> SUFFICES ASSUME IndInv, HandleFailed PROVE CoreInv'
  OBVIOUS
<1>1. Busy /\ ctl.cond \in Conditions
  BY DEF HandleFailed, Busy, IndInv, StepInv, Trouble, Conditions
<1>2. PICK u \in Object, new \in Object :
        /\ u = ctl.u /\ new = Status(Carrying(ctl.u, ctl.id), ctl.cond)
        /\ new.fins = u.fins
        /\ new.deleting = u.deleting /\ new.abandon = u.abandon
        /\ new.id = u.id \/ Controller \in u.fins
  BY <1>1, SavesKeep
<1>3. /\ Write("ctl", new) \/ WriteFails("ctl", new)
      /\ Retry
      /\ Recorded /\ UNCHANGED <<world, gcp, dd, confirmed, request, waived>>
  BY <1>2 DEF HandleFailed, WriteFails
<1>4. ctl' \in CtlState /\ queue' \in QueueState /\ ctl'.step = "idle"
  BY <1>3, Endings DEF IndInv
<1>5. StepInv'
  BY <1>4 DEF StepInv
<1> QED BY <1>1, <1>2, <1>3, <1>4, <1>5, WriteKeeps

\* MarkDeleted: no more than the status is new, and the copy stays good for
\* the removal of the finalizer.
LEMMA MarkDeletedKeeps == IndInv /\ MarkDeleted => CoreInv'
<1> SUFFICES ASSUME IndInv, MarkDeleted PROVE CoreInv'
  OBVIOUS
<1>1. PICK u \in Object : u = ctl.u /\ Passed(u) /\ (waived \/ ~managed)
  BY DEF IndInv, MarkDeleted, CopyInv, StepInv, Busy
<1>2. PICK new \in Object :
        /\ new = Status(ctl.u, "Deleted")
        /\ new.fins = u.fins
        /\ new.deleting = u.deleting /\ new.abandon = u.abandon
        /\ new.id = u.id
  BY <1>1, StatusKeeps DEF Conditions
<1>3. CASE /\ Write("ctl", new) /\ UNCHANGED queue
           /\ ctl' = [ctl EXCEPT !.step = "unfinalize", !.u = new]
  <2>1. ctl' \in CtlState /\ ctl'.step = "unfinalize" /\ ctl'.u = new
    BY <1>3 DEF IndInv, TypeOK, CtlState, CtlSteps
  <2>2. StepInv' /\ queue' \in QueueState
    BY <1>1, <1>2, <1>3, <2>1
    DEF IndInv, TypeOK, StepInv, Passed, MarkDeleted, ghosts
  <2> QED BY <1>1, <1>2, <1>3, <2>1, <2>2, WriteKeeps
          DEF MarkDeleted, Busy, ghosts
<1>4. CASE WriteFails("ctl", new) /\ Retry
  <2>1. ctl' \in CtlState /\ queue' \in QueueState /\ ctl'.step = "idle"
    BY <1>4, Endings DEF IndInv
  <2>2. StepInv'
    BY <2>1 DEF StepInv
  <2> QED BY <1>1, <1>2, <1>4, <2>1, <2>2, WriteKeeps
          DEF MarkDeleted, Busy, ghosts
<1> QED BY <1>2, <1>3, <1>4 DEF MarkDeleted

\* Unfinalize: the object goes, and nothing that KCC manages is left behind.
LEMMA UnfinalizeKeeps == IndInv /\ Unfinalize => CoreInv'
<1> SUFFICES ASSUME IndInv, Unfinalize PROVE CoreInv'
  OBVIOUS
<1> USE DEF Controller, Defender, Finalizers
<1>1. PICK u \in Object : u = ctl.u /\ Passed(u) /\ (waived \/ ~managed)
  BY DEF IndInv, Unfinalize, CopyInv, StepInv, Busy
<1>2. PICK new \in Object :
        /\ new = [ctl.u EXCEPT !.fins = @ \ {Controller}]
        /\ new.fins = {} /\ new.deleting
  <2>1. u.fins = {Controller}
    BY <1>1 DEF Passed, Object
  <2>2. /\ [u EXCEPT !.fins = {}] \in Object
        /\ [u EXCEPT !.fins = {}].fins = {}
        /\ [u EXCEPT !.fins = {}].deleting = u.deleting
    BY FinalizersKeep
  <2>3. [u EXCEPT !.fins = @ \ {Controller}] = [u EXCEPT !.fins = {}]
    BY <2>1 DEF Object
  <2> QED BY <1>1, <2>2, <2>3 DEF Passed
<1>3. \/ obj' = obj /\ current' = current
      \/ obj' = NoObject /\ current' = {}
  <2>1. "ctl" \in current => obj # new
    BY <1>1, <1>2 DEF IndInv, CopyInv, GoodCopy, Busy, Unfinalize, Passed
  <2> QED BY <1>2, <2>1 DEF Unfinalize, Write, WriteFails, Stored
<1>4. ctl' \in CtlState /\ queue' \in QueueState /\ ctl'.step = "idle"
  BY Endings DEF IndInv, Unfinalize
<1>5. UNCHANGED <<world, gcp, dd, ghosts>>
  BY DEF Unfinalize
<1>6. TypeOK'
  BY <1>3, <1>4, <1>5 DEF IndInv, TypeOK, world, ghosts
<1>7. ObjectInv' /\ WorldInv' /\ DefenderInv'
  BY <1>3, <1>5 DEF IndInv, ObjectInv, WorldInv, DefenderInv, Passed,
                    Defending, world, ghosts
<1>8. CopyInv' /\ StepInv' /\ NoOrphan'
  BY <1>1, <1>3, <1>4, <1>5 DEF IndInv, CopyInv, StepInv, NoOrphan, Busy,
                                ghosts
<1> QED BY <1>6, <1>7, <1>8 DEF CoreInv

\* TimerFires changes the queue only.
LEMMA TimerFiresKeeps == IndInv /\ TimerFires => CoreInv'
<1> SUFFICES ASSUME IndInv, TimerFires PROVE CoreInv'
  OBVIOUS
<1> USE DEF TimerFires, world, ghosts
<1>1. TypeOK'
  BY DEF IndInv, TypeOK, QueueState
<1>2. ObjectInv' /\ WorldInv' /\ DefenderInv' /\ NoOrphan'
  BY DEF IndInv, ObjectInv, WorldInv, DefenderInv, NoOrphan, Passed, Defending
<1>3. CopyInv' /\ StepInv'
  BY DEF IndInv, CopyInv, StepInv, GoodCopy, Busy, Held, Passed
<1> QED BY <1>1, <1>2, <1>3 DEF CoreInv

\* Restart: the new process knows nothing, hence nothing false.
LEMMA RestartKeeps == IndInv /\ Restart => CoreInv'
<1> SUFFICES ASSUME IndInv, Restart PROVE CoreInv'
  OBVIOUS
<1> USE DEF Restart, world, ghosts
<1>1. ctl' \in CtlState /\ ctl'.step = "idle"
  BY IdleState
<1>2. TypeOK'
  BY <1>1 DEF IndInv, TypeOK, QueueState
<1>3. ObjectInv' /\ WorldInv' /\ DefenderInv' /\ NoOrphan'
  BY DEF IndInv, ObjectInv, WorldInv, DefenderInv, NoOrphan, Passed, Defending
<1>4. CopyInv' /\ StepInv'
  BY <1>1 DEF CopyInv, StepInv, Busy
<1> QED BY <1>2, <1>3, <1>4 DEF CoreInv

-----------------------------------------------------------------------------
(***************************************************************************)
(* The deletion defender.                                                  *)
(***************************************************************************)
\* DefenderGet: a fresh copy is the object.
LEMMA DefenderGetKeeps == IndInv /\ DefenderGet => CoreInv'
<1> SUFFICES ASSUME IndInv, DefenderGet PROVE CoreInv'
  OBVIOUS
<1> USE DEF DefenderGet, world, ghosts
<1>1. /\ obj \in Object
      /\ dd' \in DefenderState /\ dd'.step = "crd" /\ dd'.u = obj
  BY DEF IndInv, TypeOK, DefenderState
<1>2. TypeOK'
  BY <1>1 DEF IndInv, TypeOK
<1>3. ObjectInv' /\ WorldInv' /\ NoOrphan'
  BY DEF IndInv, ObjectInv, WorldInv, NoOrphan, Passed
<1>4. DefenderInv'
  BY <1>1 DEF IndInv, ObjectInv, DefenderInv, Defending
<1>5. CopyInv' /\ StepInv'
  BY DEF IndInv, CopyInv, StepInv, GoodCopy, Busy, Held, Passed
<1> QED BY <1>2, <1>3, <1>4, <1>5 DEF CoreInv

\* IsUninstalling: no CRD that is installed now had its objects deleted by
\* its uninstallation, so the deletion was a user's.
LEMMA IsUninstallingKeeps == IndInv /\ IsUninstalling => CoreInv'
<1> SUFFICES ASSUME IndInv, IsUninstalling PROVE CoreInv'
  OBVIOUS
<1> USE DEF IsUninstalling, world, ghosts
<1>1. /\ dd' \in DefenderState /\ dd'.step = "update" /\ dd'.u = dd.u
      /\ dd'.uninstalling = (crd = "terminating")
  BY DEF IndInv, TypeOK, DefenderState
<1>2. TypeOK'
  BY <1>1 DEF IndInv, TypeOK
<1>3. ObjectInv' /\ WorldInv' /\ NoOrphan'
  BY DEF IndInv, ObjectInv, WorldInv, NoOrphan, Passed
<1>4. request.by \in {"nobody", "user", "uninstall"}
  BY DEF IndInv, TypeOK
<1>5. DefenderInv'
  BY <1>1, <1>4 DEF IndInv, TypeOK, ObjectInv, WorldInv, DefenderInv, Defending
<1>6. CopyInv' /\ StepInv'
  BY DEF IndInv, CopyInv, StepInv, GoodCopy, Busy, Held, Passed
<1> QED BY <1>2, <1>3, <1>5, <1>6 DEF CoreInv

\* DefenderFails: it will start all over.
LEMMA DefenderFailsKeeps == IndInv /\ DefenderFails => CoreInv'
<1> SUFFICES ASSUME IndInv, DefenderFails PROVE CoreInv'
  OBVIOUS
<1> USE DEF DefenderFails, world, ghosts
<1>1. dd' \in DefenderState /\ dd'.step = "idle"
  BY DEF DefenderIdle, DefenderState
<1>2. TypeOK'
  BY <1>1 DEF IndInv, TypeOK
<1>3. ObjectInv' /\ WorldInv' /\ DefenderInv' /\ NoOrphan'
  BY <1>1 DEF IndInv, ObjectInv, WorldInv, DefenderInv, NoOrphan, Passed,
              Defending
<1>4. CopyInv' /\ StepInv'
  BY DEF IndInv, CopyInv, StepInv, GoodCopy, Busy, Held, Passed
<1> QED BY <1>2, <1>3, <1>4 DEF CoreInv

\* What the defender writes is what it read a moment ago, its finalizer
\* gone, and with an uninstall the object goes too.
LEMMA DefendedKeeps ==
  ASSUME NEW u \in Object, NEW b \in BOOLEAN
  PROVE  /\ Defended(u, b) \in Object
         /\ Defended(u, b).fins = IF b THEN {} ELSE u.fins \ {Defender}
         /\ Defended(u, b).deleting = u.deleting
         /\ ~b => Defended(u, b).abandon = u.abandon
<1>1. CASE b = TRUE
  BY <1>1 DEF Defended, Object, Finalizers
<1>2. CASE b = FALSE
  BY <1>2 DEF Defended, Object, Finalizers
<1> QED BY <1>1, <1>2

\* DefenderUpdate: what it found out about the CRD is true of the deletion
\* it lets pass, since a stale copy is refused.
LEMMA DefenderUpdateKeeps == IndInv /\ DefenderUpdate => CoreInv'
<1> SUFFICES ASSUME IndInv, DefenderUpdate PROVE CoreInv'
  OBVIOUS
<1> USE DEF Controller, Defender, Finalizers
<1>1. PICK u \in Object, b \in BOOLEAN :
        /\ u = dd.u /\ b = dd.uninstalling
        /\ u = obj /\ obj # NoObject
        /\ u.deleting /\ Defender \in u.fins
        /\ b => waived
        /\ ~b => request.by = "user"
  BY DEF IndInv, TypeOK, DefenderState, DefenderUpdate, DefenderInv, Write,
         Defending
<1>2. PICK new \in Object :
        /\ new = Defended(dd.u, dd.uninstalling)
        /\ new.fins = IF b THEN {} ELSE u.fins \ {Defender}
        /\ new.deleting
        /\ ~b => new.abandon = u.abandon
  BY <1>1, DefendedKeeps
<1>3. /\ Write("dd", new)
      /\ Enqueue(Stored(new) # NoObject /\ OutOfSync(dd.u, new))
      /\ dd' = DefenderIdle
      /\ UNCHANGED <<world, gcp, ctl, ghosts>>
  BY <1>2 DEF DefenderUpdate
<1>4. \/ /\ obj' = NoObject /\ current' = {}
         /\ b \/ Controller \notin u.fins
      \/ /\ obj' = new /\ obj' # NoObject /\ current' = {"dd"}
         /\ ~b /\ new.fins = {Controller} /\ Controller \in u.fins
  <2>1. u.fins \subseteq Finalizers /\ new # u
    BY <1>1, <1>2 DEF Object
  <2>2. new # NoObject
    BY DirectAssumption
  <2> QED BY <1>1, <1>2, <1>3, <2>1, <2>2 DEF Write, Stored
<1>5. dd' \in DefenderState /\ dd'.step = "idle"
  BY <1>3 DEF DefenderIdle, DefenderState
<1>6. queue' \in QueueState
  BY <1>3 DEF Enqueue, IndInv, TypeOK, QueueState
<1>7. TypeOK'
  BY <1>3, <1>4, <1>5, <1>6 DEF IndInv, TypeOK, world, ghosts
<1>8. ObjectInv'
  BY <1>1, <1>2, <1>3, <1>4 DEF IndInv, ObjectInv, Passed, ghosts
<1>9. WorldInv' /\ DefenderInv' /\ StepInv'
  BY <1>3, <1>5 DEF IndInv, WorldInv, DefenderInv, StepInv, Defending, Passed,
                    world, ghosts
<1>10. NoOrphan'
  BY <1>1, <1>2, <1>3, <1>4 DEF IndInv, NoOrphan, ghosts
<1>11. CopyInv'
  <2>1. ~Passed(obj)
    BY <1>1 DEF Passed
  <2> QED BY <1>1, <1>2, <1>3, <1>4, <2>1
          DEF IndInv, CopyInv, GoodCopy, Busy, Held, Passed, ghosts
<1> QED BY <1>7, <1>8, <1>9, <1>10, <1>11 DEF CoreInv

-----------------------------------------------------------------------------
(***************************************************************************)
(* Users, administrators and GCP.                                          *)
(***************************************************************************)
\* UserCreates: a new object has no finalizers, and no copy is of it.
LEMMA UserCreatesKeeps == IndInv /\ UserCreates => CoreInv'
<1> SUFFICES ASSUME IndInv, UserCreates PROVE CoreInv'
  OBVIOUS
<1> USE DEF UserCreates, world
<1>1. /\ obj' \in Object /\ obj' # NoObject /\ current' = {}
      /\ obj'.fins = {} /\ ~obj'.deleting /\ ~obj'.abandon
  <2>1. PICK d \in Desired, i \in IDs \union {NoID} :
          Overwrite([want |-> d, id |-> i, gen |-> 1, fins |-> {},
                     deleting |-> FALSE, abandon |-> FALSE, actuation |-> "",
                     obsGen |-> 0, cond |-> "None"])
    BY DEF IndInv, TypeOK
  <2>2. obj' \in Object
    BY <2>1 DEF Overwrite, Object, Conditions
  <2>3. obj'.fins = {} /\ ~obj'.deleting /\ ~obj'.abandon /\ current' = {}
    BY <2>1 DEF Overwrite
  <2> QED BY <2>2, <2>3, DirectAssumption
<1>2. queue' \in QueueState
  BY DEF Enqueue, IndInv, TypeOK, QueueState
<1>3. /\ request' \in [by: {"nobody", "user", "uninstall"}, abandon: BOOLEAN]
      /\ request'.by = "nobody" /\ ~request'.abandon
  OBVIOUS
<1>4. TypeOK'
  BY <1>1, <1>2, <1>3 DEF IndInv, TypeOK
<1>5. ObjectInv' /\ WorldInv'
  BY <1>1, <1>3 DEF IndInv, ObjectInv, WorldInv, Passed
<1>6. DefenderInv'
  BY <1>1 DEF IndInv, DefenderInv, Defending
<1>7. CopyInv'
  BY <1>1 DEF IndInv, CopyInv, GoodCopy, Busy, Held, Passed
<1>8. StepInv' /\ NoOrphan'
  BY DEF IndInv, StepInv, NoOrphan, Passed
<1> QED BY <1>4, <1>5, <1>6, <1>7, <1>8 DEF CoreInv

\* An edit that neither deletes nor finalizes the object.
SameLife(o, new) ==
  new \in Object /\ new.fins = o.fins /\ new.deleting = o.deleting

\* The edits of spec, labels and annotations are such edits.
LEMMA SpecEdit ==
  ASSUME NEW o \in Object, NEW s \in Specs
  PROVE  /\ SameLife(o, [o EXCEPT !.want.spec = s, !.gen = @ + 1])
         /\ [o EXCEPT !.want.spec = s, !.gen = @ + 1].abandon = o.abandon
<1>1. o.want \in Desired /\ o.gen \in Nat
  BY DEF Object
<1>2. PICK w \in Desired : w = [o.want EXCEPT !.spec = s]
  BY <1>1 DEF Desired
<1>3. PICK g \in Nat : g = o.gen + 1
  BY <1>1
<1>4. [o EXCEPT !.want.spec = s, !.gen = @ + 1] = [o EXCEPT !.want = w, !.gen = g]
  BY <1>2, <1>3 DEF Object
<1>5. /\ SameLife(o, [o EXCEPT !.want = w, !.gen = g])
      /\ [o EXCEPT !.want = w, !.gen = g].abandon = o.abandon
  BY DEF Object, SameLife
<1> QED BY <1>4, <1>5

\* The same for labels, ...
LEMMA LabelsEdit ==
  ASSUME NEW o \in Object, NEW l \in Labels
  PROVE  /\ SameLife(o, [o EXCEPT !.want.labels = l])
         /\ [o EXCEPT !.want.labels = l].abandon = o.abandon
<1>1. o.want \in Desired
  BY DEF Object
<1>2. PICK w \in Desired : w = [o.want EXCEPT !.labels = l]
  BY <1>1 DEF Desired
<1>3. [o EXCEPT !.want.labels = l] = [o EXCEPT !.want = w]
  BY <1>2 DEF Object
<1>4. /\ SameLife(o, [o EXCEPT !.want = w])
      /\ [o EXCEPT !.want = w].abandon = o.abandon
  BY DEF Object, SameLife
<1> QED BY <1>3, <1>4

\* ... for the actuation mode ...
LEMMA ActuationEdit ==
  ASSUME NEW o \in Object, NEW a \in Annotations
  PROVE  /\ SameLife(o, [o EXCEPT !.actuation = a])
         /\ [o EXCEPT !.actuation = a].abandon = o.abandon
<1>1. a \in {"", "Reconciling", "Paused", "invalid"}
  BY DirectAssumption
<1> QED BY <1>1 DEF Object, SameLife

\* ... and for the deletion policy.
LEMMA AbandonEdit ==
  ASSUME NEW o \in Object, NEW b \in BOOLEAN
  PROVE  /\ SameLife(o, [o EXCEPT !.abandon = b])
         /\ [o EXCEPT !.abandon = b].abandon = b
  BY DEF Object, SameLife

\* It keeps the invariant, whatever it does about abandon.
LEMMA EditKeeps ==
  ASSUME IndInv, obj # NoObject, NEW new, SameLife(obj, new), Edited(new),
         new.abandon => waived', waived => waived', waived' \in BOOLEAN,
         request' \in [by: {"nobody", "user", "uninstall"}, abandon: BOOLEAN],
         request'.by = request.by,
         request'.abandon => request.abandon,
         new.deleting /\ request'.abandon => new.abandon,
         UNCHANGED <<world, gcp, ctl, dd, managed, confirmed>>
  PROVE  CoreInv'
<1>1. ObjectInv' /\ WorldInv' /\ DefenderInv' /\ CopyInv' /\ NoOrphan'
  BY OthersWrite DEF Edited, world, SameLife
<1>2. queue' \in QueueState
  BY DEF Edited, Enqueue, IndInv, TypeOK, QueueState
<1>3. TypeOK'
  BY <1>2 DEF IndInv, TypeOK, Edited, Overwrite, world, SameLife
<1>4. StepInv'
  BY DEF IndInv, StepInv, Passed
<1> QED BY <1>1, <1>3, <1>4 DEF CoreInv

\* UserEditsSpec leaves finalizers and deletion alone.
LEMMA UserEditsSpecKeeps == IndInv /\ UserEditsSpec => CoreInv'
<1> SUFFICES ASSUME IndInv, UserEditsSpec PROVE CoreInv'
  OBVIOUS
<1>1. PICK s \in Specs :
        Edited([obj EXCEPT !.want.spec = s, !.gen = @ + 1])
  BY DEF UserEditsSpec
<1>2. PICK new :
        /\ new = [obj EXCEPT !.want.spec = s, !.gen = @ + 1]
        /\ SameLife(obj, new)
        /\ new.abandon = obj.abandon
  <2>1. obj \in Object
    BY DEF IndInv, TypeOK, UserEditsSpec
  <2> QED BY <2>1, SpecEdit
<1>3. /\ obj # NoObject
      /\ UNCHANGED <<world, gcp, ctl, dd, ghosts>>
  BY DEF UserEditsSpec
<1>4. Edited(new)
  BY <1>1, <1>2
<1>5. /\ new.abandon => waived
      /\ new.deleting /\ request.abandon => new.abandon
  BY <1>2, <1>3 DEF SameLife, IndInv, ObjectInv
<1> QED BY <1>2, <1>3, <1>4, <1>5, EditKeeps DEF IndInv, TypeOK, ghosts

\* UserEditsLabels leaves them alone.
LEMMA UserEditsLabelsKeeps == IndInv /\ UserEditsLabels => CoreInv'
<1> SUFFICES ASSUME IndInv, UserEditsLabels PROVE CoreInv'
  OBVIOUS
<1>1. PICK l \in Labels : Edited([obj EXCEPT !.want.labels = l])
  BY DEF UserEditsLabels
<1>2. PICK new :
        /\ new = [obj EXCEPT !.want.labels = l]
        /\ SameLife(obj, new)
        /\ new.abandon = obj.abandon
  <2>1. obj \in Object
    BY DEF IndInv, TypeOK, UserEditsLabels
  <2> QED BY <2>1, LabelsEdit
<1>3. /\ obj # NoObject
      /\ UNCHANGED <<world, gcp, ctl, dd, ghosts>>
  BY DEF UserEditsLabels
<1>4. Edited(new)
  BY <1>1, <1>2
<1>5. /\ new.abandon => waived
      /\ new.deleting /\ request.abandon => new.abandon
  BY <1>2, <1>3 DEF SameLife, IndInv, ObjectInv
<1> QED BY <1>2, <1>3, <1>4, <1>5, EditKeeps DEF IndInv, TypeOK, ghosts

\* UserSetsAbandon: KCC is excused from now on.
LEMMA UserSetsAbandonKeeps == IndInv /\ UserSetsAbandon => CoreInv'
<1> SUFFICES ASSUME IndInv, UserSetsAbandon PROVE CoreInv'
  OBVIOUS
<1>1. PICK new :
        /\ new = [obj EXCEPT !.abandon = TRUE]
        /\ SameLife(obj, new)
        /\ new.abandon
  BY AbandonEdit DEF IndInv, TypeOK, UserSetsAbandon
<1>2. /\ obj # NoObject /\ Edited(new) /\ waived' = TRUE
      /\ UNCHANGED <<world, gcp, ctl, dd, managed, confirmed, request>>
  BY <1>1 DEF UserSetsAbandon
<1> QED BY <1>1, <1>2, EditKeeps DEF IndInv, TypeOK

\* UserUnsetsAbandon: the request to abandon is withdrawn with it.
LEMMA UserUnsetsAbandonKeeps == IndInv /\ UserUnsetsAbandon => CoreInv'
<1> SUFFICES ASSUME IndInv, UserUnsetsAbandon PROVE CoreInv'
  OBVIOUS
<1>1. PICK new :
        /\ new = [obj EXCEPT !.abandon = FALSE]
        /\ SameLife(obj, new)
        /\ ~new.abandon
  BY AbandonEdit DEF IndInv, TypeOK, UserUnsetsAbandon
<1>2. /\ obj # NoObject /\ Edited(new)
      /\ request' = [request EXCEPT !.abandon = FALSE]
      /\ UNCHANGED <<world, gcp, ctl, dd, managed, confirmed, waived>>
  BY <1>1 DEF UserUnsetsAbandon
<1>3. /\ request' \in [by: {"nobody", "user", "uninstall"}, abandon: BOOLEAN]
      /\ request'.by = request.by /\ ~request'.abandon
  BY <1>2 DEF IndInv, TypeOK
<1> QED BY <1>1, <1>2, <1>3, EditKeeps DEF IndInv, TypeOK

\* UserSetsActuation leaves finalizers and deletion alone.
LEMMA UserSetsActuationKeeps == IndInv /\ UserSetsActuation => CoreInv'
<1> SUFFICES ASSUME IndInv, UserSetsActuation PROVE CoreInv'
  OBVIOUS
<1>1. PICK a \in Annotations : Edited([obj EXCEPT !.actuation = a])
  BY DEF UserSetsActuation
<1>2. PICK new :
        /\ new = [obj EXCEPT !.actuation = a]
        /\ SameLife(obj, new)
        /\ new.abandon = obj.abandon
  <2>1. obj \in Object
    BY DEF IndInv, TypeOK, UserSetsActuation
  <2> QED BY <2>1, ActuationEdit
<1>3. /\ obj # NoObject
      /\ UNCHANGED <<world, gcp, ctl, dd, ghosts>>
  BY DEF UserSetsActuation
<1>4. Edited(new)
  BY <1>1, <1>2
<1>5. /\ new.abandon => waived
      /\ new.deleting /\ request.abandon => new.abandon
  BY <1>2, <1>3 DEF SameLife, IndInv, ObjectInv
<1> QED BY <1>2, <1>3, <1>4, <1>5, EditKeeps DEF IndInv, TypeOK, ghosts

\* A deletion starts with both finalizers in place, or ends at once because
\* there are none: then KCC manages nothing for the object.
LEMMA RemovedKeeps ==
  ASSUME IndInv, NEW by \in {"user", "uninstall"}, Removed(by),
         by = "uninstall" => crd = "terminating"
  PROVE  CoreInv'
<1> USE DEF Controller, Defender, Finalizers
<1>1. PICK o \in Object : o = obj /\ o # NoObject /\ ~o.deleting
  BY DirectAssumption DEF Removed, IndInv, TypeOK
<1>2. PICK new \in Object : /\ new = [o EXCEPT !.deleting = TRUE, !.gen = @ + 1]
                           /\ new.fins = o.fins /\ new.deleting
                           /\ new.abandon = o.abandon
  <2>1. PICK g \in Nat : g = o.gen + 1
    <3>1. o.gen \in Nat
      BY DEF Object
    <3> QED BY <3>1
  <2>2. [o EXCEPT !.deleting = TRUE, !.gen = @ + 1]
          = [o EXCEPT !.deleting = TRUE, !.gen = g]
    BY <2>1 DEF Object
  <2>3. /\ [o EXCEPT !.deleting = TRUE, !.gen = g] \in Object
        /\ [o EXCEPT !.deleting = TRUE, !.gen = g].fins = o.fins
        /\ [o EXCEPT !.deleting = TRUE, !.gen = g].deleting
        /\ [o EXCEPT !.deleting = TRUE, !.gen = g].abandon = o.abandon
    BY DEF Object
  <2> QED BY <2>2, <2>3
<1>3. /\ current' = {}
      /\ \/ o.fins = {} /\ obj' = NoObject
         \/ o.fins = Finalizers /\ obj' = new /\ obj' # NoObject
  <2>1. \/ o.fins = {} /\ Overwrite(NoObject)
        \/ o.fins # {} /\ Overwrite(new)
    BY <1>1, <1>2 DEF Removed, Edited
  <2>2. o.fins \in {{}, Finalizers}
    BY <1>1 DEF IndInv, ObjectInv
  <2> QED BY <2>1, <2>2, DirectAssumption DEF Overwrite
<1>4. queue' \in QueueState
  BY DEF Removed, Edited, Enqueue, IndInv, TypeOK, QueueState
<1>5. request' = [by |-> by, abandon |-> o.abandon] /\ o.abandon \in BOOLEAN
  BY <1>1 DEF Removed, Object
<1>6. UNCHANGED <<world, gcp, ctl, dd, managed, confirmed, waived>>
  BY DEF Removed
<1>7. TypeOK'
  BY <1>3, <1>4, <1>5, <1>6 DEF IndInv, TypeOK, world
<1>8. ObjectInv'
  BY <1>1, <1>2, <1>3, <1>5, <1>6 DEF IndInv, ObjectInv, Passed
<1>9. WorldInv' /\ DefenderInv' /\ StepInv'
  BY <1>3, <1>5, <1>6 DEF IndInv, WorldInv, DefenderInv, StepInv, Defending,
                          Passed, world
<1>10. NoOrphan'
  BY <1>1, <1>2, <1>3, <1>6 DEF IndInv, NoOrphan
<1>11. CopyInv'
  <2>1. Busy => ~Passed(ctl.u)
    BY <1>1 DEF IndInv, CopyInv, GoodCopy, Passed
  <2> QED BY <1>1, <1>2, <1>3, <1>6, <2>1
          DEF IndInv, CopyInv, GoodCopy, Busy, Held, Passed
<1> QED BY <1>7, <1>8, <1>9, <1>10, <1>11 DEF CoreInv

\* Uninstall: KCC is excused from now on.
LEMMA UninstallKeeps == IndInv /\ Uninstall => CoreInv'
<1> SUFFICES ASSUME IndInv, Uninstall PROVE CoreInv'
  OBVIOUS
<1> USE DEF Uninstall
<1>1. TypeOK'
  BY DEF IndInv, TypeOK
<1>2. ObjectInv' /\ WorldInv' /\ DefenderInv' /\ NoOrphan'
  BY DEF IndInv, ObjectInv, WorldInv, DefenderInv, NoOrphan, Passed, Defending
<1>3. CopyInv' /\ StepInv'
  BY DEF IndInv, CopyInv, StepInv, GoodCopy, Busy, Held, Passed
<1> QED BY <1>1, <1>2, <1>3 DEF CoreInv

\* AdminConfigures: no part of the invariant depends on CC and CCC.
LEMMA AdminConfiguresKeeps == IndInv /\ AdminConfigures => CoreInv'
<1> SUFFICES ASSUME IndInv, AdminConfigures PROVE CoreInv'
  OBVIOUS
<1> USE DEF AdminConfigures, ghosts
<1>1. kcc' \in KCCState
  BY DirectAssumption
<1>2. TypeOK'
  BY <1>1 DEF IndInv, TypeOK
<1>3. ObjectInv' /\ WorldInv' /\ DefenderInv' /\ NoOrphan'
  BY DEF IndInv, ObjectInv, WorldInv, DefenderInv, NoOrphan, Passed, Defending
<1>4. CopyInv' /\ StepInv'
  BY DEF IndInv, CopyInv, StepInv, GoodCopy, Busy, Held, Passed
<1> QED BY <1>2, <1>3, <1>4 DEF CoreInv

\* Drift: what others recreate in GCP is not KCC's until it acquires it.
LEMMA DriftKeeps == IndInv /\ Drift => CoreInv'
<1> SUFFICES ASSUME IndInv, Drift PROVE CoreInv'
  OBVIOUS
<1>1. /\ gcp' \in Desired \union {NoResource}
      /\ managed' => managed /\ gcp' # NoResource
      /\ UNCHANGED <<obj, current, world, queue, ctl, dd,
                     confirmed, request, waived>>
  BY DirectAssumption DEF Drift
<1>2. managed' \in BOOLEAN
  BY Zenon DEF Drift
<1>3. TypeOK'
  BY <1>1, <1>2 DEF IndInv, TypeOK, world
<1>4. ObjectInv' /\ WorldInv' /\ DefenderInv' /\ NoOrphan'
  BY <1>1 DEF IndInv, ObjectInv, WorldInv, DefenderInv, NoOrphan, Passed,
              Defending, world
<1>5. CopyInv' /\ StepInv'
  BY <1>1 DEF IndInv, CopyInv, StepInv, GoodCopy, Busy, Held, Passed
<1> QED BY <1>3, <1>4, <1>5 DEF CoreInv

\* The invariant holds initially.
LEMMA InitInv == Init => IndInv
<1> SUFFICES ASSUME Init PROVE IndInv
  OBVIOUS
<1> USE DEF Init
<1>1. /\ ctl \in CtlState /\ ctl.step = "idle"
      /\ dd \in DefenderState /\ dd.step = "idle"
  BY IdleState DEF DefenderIdle, DefenderState
<1>2. queue \in QueueState
  BY DEF QueueState
<1>3. TypeOK
  BY <1>1, <1>2, DirectAssumption DEF TypeOK
<1>4. ObjectInv /\ WorldInv /\ DefenderInv /\ NoOrphan
  BY <1>1 DEF ObjectInv, WorldInv, DefenderInv, NoOrphan, Defending
<1>5. CopyInv /\ StepInv
  BY <1>1 DEF CopyInv, StepInv, Busy
<1>6. IdentityInv
  BY <1>1, IdleState DEF IdentityInv, Busy
<1> QED BY <1>3, <1>4, <1>5, <1>6 DEF IndInv

\* A step of something else keeps it.
LEMMA StutterKeeps == IndInv /\ UNCHANGED vars => CoreInv'
<1> SUFFICES ASSUME IndInv, UNCHANGED vars PROVE CoreInv'
  OBVIOUS
<1> USE DEF vars
<1>1. TypeOK'
  BY DEF IndInv, TypeOK
<1>2. ObjectInv' /\ WorldInv' /\ DefenderInv' /\ NoOrphan'
  BY DEF IndInv, ObjectInv, WorldInv, DefenderInv, NoOrphan, Passed, Defending
<1>3. CopyInv' /\ StepInv'
  BY DEF IndInv, CopyInv, StepInv, GoodCopy, Busy, Held, Passed
<1> QED BY <1>1, <1>2, <1>3 DEF CoreInv

-----------------------------------------------------------------------------
(***************************************************************************)
(* The identifiers.                                                        *)
(***************************************************************************)
\* The fields of a copy with another status, or with its finalizers.
LEMMA Fields ==
  ASSUME NEW o \in Object, NEW c \in Conditions
  PROVE  /\ Status(o, c) \in Object /\ WithFinalizers(o) \in Object
         /\ Status(o, c).want = o.want /\ WithFinalizers(o).want = o.want
         /\ Status(o, c).gen = o.gen /\ WithFinalizers(o).gen = o.gen
         /\ Status(o, c).fins = o.fins
         /\ WithFinalizers(o).fins = Finalizers
         /\ Status(o, c).deleting = o.deleting
         /\ WithFinalizers(o).deleting = o.deleting
         /\ Status(o, c).cond = c /\ WithFinalizers(o).cond = o.cond
         /\ Status(o, c).obsGen = o.gen /\ WithFinalizers(o).obsGen = o.obsGen
         /\ Status(o, c).id = o.id /\ WithFinalizers(o).id = o.id
BY DEF Status, WithFinalizers, Object

\* A write of the controller that keeps or sets the finalizers stores the
\* copy it was made from, or nothing.
LEMMA Writes ==
  ASSUME IndInv, Busy, NEW new \in Object,
         new.deleting = ctl.u.deleting,
         new.fins = ctl.u.fins \/ new.fins = Finalizers,
         Write("ctl", new) \/ WriteFails("ctl", new)
  PROVE  /\ \/ UNCHANGED obj
            \/ obj # NoObject /\ obj = ctl.u /\ obj' = new /\ new # NoObject
         /\ Write("ctl", new) => obj # NoObject /\ obj = ctl.u /\ obj' = new
<1>1. "ctl" \in current => ctl.u = obj
  BY DEF IndInv, CopyInv, GoodCopy
<1>2. obj # NoObject /\ obj = ctl.u => Stored(new) = new
  BY DEF IndInv, ObjectInv, Stored, Finalizers
<1> QED BY <1>1, <1>2, DirectAssumption DEF Write, WriteFails

\* Somebody else's step: the identifier of the object stays.
LEMMA IdentityOthers ==
  ASSUME IndInv, CoreInv', UNCHANGED <<ctl, naming, name>>,
         waived => waived', managed' => managed,
         obj' = obj \/ obj' = NoObject \/ obj = NoObject \/ obj'.id = obj.id
  PROVE  IdentityInv'
<1>1. (managed /\ ~waived => Knows(obj))'
  BY DEF IndInv, CoreInv, NoOrphan, IdentityInv, Knows
<1>2. (Busy /\ Controller \in ctl.u.fins /\ ctl.step # "report" /\ ~waived =>
         obj.id = ctl.u.id)'
  BY DEF IndInv, CoreInv, CopyInv, GoodCopy, Held, Busy, IdentityInv
<1> QED BY <1>1, <1>2 DEF IndInv, IdentityInv, Busy, Knows

\* A step of the controller that changes no identifier.
LEMMA IdentityMoves ==
  ASSUME IndInv, CoreInv', UNCHANGED <<naming, name>>,
         waived => waived', managed' => managed,
         obj' = obj \/ obj' = NoObject \/ (obj # NoObject /\ obj'.id = obj.id),
         \/ ctl'.step = "idle" /\ ctl'.id = NoID
         \/ /\ Busy /\ ctl.step # "report" /\ ctl'.u.id = ctl.u.id
            /\ Controller \in ctl'.u.fins =>
                 Controller \in ctl.u.fins \/ obj' = ctl'.u
            /\ Controller \in ctl.u.fins => Controller \in ctl'.u.fins
            /\ \/ ctl'.id = NoID
               \/ /\ ctl'.id = ctl.id
                  /\ ctl'.step \in {"annotate", "publish", "update", "upToDate",
                                    "report"}
            /\ ctl'.step \in {"fins", "apply"} =>
                 IF ctl'.found = NoResource THEN waived \/ ~managed
                 ELSE Knows(ctl'.u)
  PROVE  IdentityInv'
<1>1. (managed /\ ~waived => Knows(obj))'
  BY DEF IndInv, CoreInv, NoOrphan, IdentityInv, Knows
<1>2. CASE ctl'.step = "idle" /\ ctl'.id = NoID
  BY <1>1, <1>2 DEF IdentityInv, Busy
<1>3. CASE ctl'.step # "idle"
  <2>1. (Busy /\ Controller \in ctl.u.fins /\ ctl.step # "report" /\ ~waived =>
           obj.id = ctl.u.id)'
    BY <1>3 DEF IndInv, CoreInv, CopyInv, GoodCopy, Held, Busy, IdentityInv
  <2>2. (Busy /\ Controller \notin ctl.u.fins => waived \/ ~managed)'
    BY <1>3 DEF IndInv, Busy, IdentityInv
  <2>3. (ctl.id # NoID =>
           /\ ctl.id = name /\ Controller \in ctl.u.fins
           /\ ctl.step \in {"annotate", "publish", "update", "upToDate",
                            "report"})'
    BY <1>3 DEF IndInv, IdentityInv
  <2>4. (ctl.step \in {"fins", "apply"} =>
           IF ctl.found = NoResource THEN waived \/ ~managed
           ELSE Knows(ctl.u))'
    BY <1>3 DEF Knows
  <2> QED BY <1>1, <2>1, <2>2, <2>3, <2>4 DEF IdentityInv
<1> QED BY <1>2, <1>3

\* A write that may record the identifier of what has just been created.
LEMMA IdentityRecords ==
  ASSUME IndInv, CoreInv', Busy, NEW new \in Object,
         new.id = IF ctl.id = NoID THEN ctl.u.id ELSE ctl.id,
         new.fins = ctl.u.fins,
         obj' = obj \/ (obj # NoObject /\ obj = ctl.u /\ obj' = new),
         Recorded, UNCHANGED <<naming, name, gcp, waived>>,
         \/ ctl'.step = "idle" /\ ctl'.id = NoID
         \/ /\ ctl'.step = "report" /\ ctl'.u = ctl.u
            /\ ctl'.id \in {NoID, ctl.id}
         \/ /\ ctl'.step \in {"publish", "update"} /\ ctl'.u = new
            /\ obj' = new /\ ctl'.id = ctl.id
  PROVE  IdentityInv'
<1>1. ctl.id # NoID => ctl.id = name /\ Controller \in ctl.u.fins
  BY DEF IndInv, IdentityInv
<1>2. managed' # managed => obj' = new /\ ctl.id # NoID
  BY DEF Recorded
<1>3. obj' = obj \/ obj'.id = obj.id \/ (ctl.id # NoID /\ obj'.id = name)
  BY <1>1
<1>4. (managed /\ ~waived => Knows(obj))'
  <2> SUFFICES ASSUME managed', ~waived' PROVE Knows(obj)'
    OBVIOUS
  <2>1. CASE ctl.id # NoID /\ obj'.id = name
    BY <1>1, <2>1 DEF Knows
  <2>2. CASE ~(ctl.id # NoID /\ obj'.id = name)
    BY <1>1, <1>2, <1>3, <2>2 DEF IndInv, IdentityInv, Knows
  <2> QED BY <2>1, <2>2
<1>5. (Busy /\ Controller \notin ctl.u.fins => waived \/ ~managed)'
  BY <1>1, <1>2 DEF IndInv, IdentityInv, Busy
<1> QED BY <1>1, <1>4, <1>5 DEF IdentityInv, Busy

\* Create: nothing that was managed has been overlooked, and the object does
\* not lead to what is new until the identifier is recorded.
LEMMA CreateIdentity == IndInv /\ Create => IdentityInv'
<1> SUFFICES ASSUME IndInv, Create PROVE IdentityInv'
  OBVIOUS
<1>1. /\ ctl.step = "apply" /\ ctl.id = NoID /\ Controller \in ctl.u.fins
      /\ UNCHANGED <<obj, naming, waived>>
  BY DEF Create, IndInv, StepInv, IdentityInv
<1>2. CASE UNCHANGED <<name, managed>> /\ \E c \in Trouble : Report(c)
  <2>1. ctl'.step = "report" /\ ctl'.u = ctl.u /\ ctl'.id = NoID
    BY <1>1, <1>2, Reports DEF IndInv
  <2> QED BY <1>1, <1>2, <2>1 DEF IndInv, IdentityInv, Busy, Knows
<1>3. CASE \E i \in IDs \union {NoID} :
             /\ Insert(i)
             /\ \/ \E c \in {"unset", "UpToDate", "Updating"} : Publish(i, c)
                \/ Report("Failed")
  <2>1. PICK i \in IDs \union {NoID} :
          /\ Insert(i)
          /\ \/ \E c \in {"unset", "UpToDate", "Updating"} : Publish(i, c)
             \/ Report("Failed")
    BY <1>3
  <2>2. /\ ctl'.step \in {"annotate", "publish", "update", "report"}
        /\ ctl'.u = ctl.u
        /\ ctl'.id = i \/ (ctl'.id = NoID /\ ctl'.step = "report")
    BY <1>1, <2>1, Reports, Publishes DEF IndInv, Trouble
  <2>3. name' = i /\ (managed' => naming = "given")
    BY <2>1 DEF Insert
  <2>4. (Busy /\ Controller \in ctl.u.fins /\ ctl.step # "report" /\ ~waived =>
           obj.id = ctl.u.id)'
    BY <1>1, <2>2 DEF IndInv, IdentityInv, Busy
  <2> QED BY <1>1, <2>2, <2>3, <2>4 DEF IdentityInv, Busy, Knows
<1>4. FreshIDs \subseteq IDs \union {NoID}
  BY DEF FreshIDs
<1> QED BY <1>2, <1>3, <1>4 DEF Create

\* Update: it acts on what its copy, and hence the object, leads to.
LEMMA UpdateIdentity == IndInv /\ Update => IdentityInv'
<1> SUFFICES ASSUME IndInv, Update PROVE IdentityInv'
  OBVIOUS
<1>1. /\ ctl.step = "apply" /\ ctl.id = NoID /\ Controller \in ctl.u.fins
      /\ Knows(ctl.u)
      /\ UNCHANGED <<obj, naming, name, waived>>
  BY DEF Update, IndInv, StepInv, IdentityInv, world
<1>2. ~waived => obj.id = ctl.u.id
  BY <1>1 DEF IndInv, IdentityInv, Busy
<1>3. /\ ctl'.step \in {"annotate", "publish", "update", "report"}
      /\ ctl'.u = ctl.u /\ ctl'.id = NoID
  <2>1. \/ \E c \in Trouble : Report(c)
        \/ \E c \in {"unset", "UpToDate", "Updating"} : Publish(NoID, c)
    BY DEF Update, Trouble
  <2> QED BY <1>1, <2>1, Reports, Publishes DEF IndInv
<1> QED BY <1>1, <1>2, <1>3 DEF IdentityInv, Busy, Knows

\* The writes of the controller that may record an identifier.
LEMMA RecordingIdentity ==
  ASSUME IndInv, CoreInv',
         UpdateStatus \/ HandleUpToDate \/ HandleFailed \/ SetSpecResourceID
  PROVE  IdentityInv'
<1>1. Busy /\ ctl.u \in Object /\ ctl.id \in IDs \union {NoID} /\ ctl \in CtlState
  BY DEF IndInv, CopyInv, Busy, TypeOK, CtlState, UpdateStatus, HandleUpToDate,
         HandleFailed, SetSpecResourceID
<1>2. Recorded /\ UNCHANGED <<naming, name, gcp, waived>>
  BY DEF UpdateStatus, HandleUpToDate, HandleFailed, SetSpecResourceID, world
<1>3. ASSUME NEW c \in Conditions, NEW new,
             new = Status(Carrying(ctl.u, ctl.id), c),
             Write("ctl", new) \/ WriteFails("ctl", new),
             \/ ctl'.step = "idle" /\ ctl'.id = NoID
             \/ ctl'.step = "report" /\ ctl'.u = ctl.u /\ ctl'.id = ctl.id
             \/ /\ ctl'.step = "update" /\ ctl'.u = new /\ Write("ctl", new)
                /\ ctl'.id = ctl.id
      PROVE  IdentityInv'
  <2>1. new \in Object /\ new.fins = ctl.u.fins /\ new.deleting = ctl.u.deleting
        /\ new.id = IF ctl.id = NoID THEN ctl.u.id ELSE ctl.id
    BY <1>1, <1>3, Saves
  <2>2. /\ obj' = obj \/ (obj # NoObject /\ obj = ctl.u /\ obj' = new)
        /\ Write("ctl", new) => obj' = new
    BY <1>1, <1>3, <2>1, Writes
  <2> QED BY <1>1, <1>2, <1>3, <2>1, <2>2, IdentityRecords
<1>4. CASE UpdateStatus
  <2>1. ReadyCondition(ctl.u, ctl.cond) \in Conditions
    BY <1>1 DEF ReadyCondition, CtlState, Object
  <2>2. PICK new : new = Status(Carrying(ctl.u, ctl.id),
                                ReadyCondition(ctl.u, ctl.cond))
    OBVIOUS
  <2>3. CASE /\ Write("ctl", new)
             /\ ctl' = [ctl EXCEPT !.step = "update", !.u = new]
    <3>1. ctl'.step = "update" /\ ctl'.u = new /\ ctl'.id = ctl.id
      BY <1>1, <2>3 DEF CtlState
    <3> QED BY <1>3, <2>1, <2>2, <2>3, <3>1
  <2>4. CASE Write("ctl", new) /\ (Retry \/ Finish(new))
    BY <1>3, <2>1, <2>2, <2>4, IdleState DEF Retry, Finish
  <2>5. CASE WriteFails("ctl", new) /\ Report("Failed")
    <3>1. ctl'.step = "report" /\ ctl'.u = ctl.u /\ ctl'.id = ctl.id
      BY <1>1, <2>5 DEF Report, CtlState
    <3> QED BY <1>3, <2>1, <2>2, <2>5, <3>1
  <2> QED BY <1>4, <2>2, <2>3, <2>4, <2>5 DEF UpdateStatus, Done
<1>5. CASE HandleUpToDate
  <2>1. "UpToDate" \in Conditions
    BY DEF Conditions
  <2>2. PICK new : /\ new = Status(Carrying(ctl.u, ctl.id), "UpToDate")
                   /\ Write("ctl", new) \/ WriteFails("ctl", new)
                   /\ Retry \/ Finish(new)
    BY <1>5 DEF HandleUpToDate, Done
  <2> QED BY <1>3, <2>1, <2>2, IdleState DEF Retry, Finish
<1>6. CASE HandleFailed
  <2>1. ctl.cond \in Conditions
    BY <1>6 DEF HandleFailed, IndInv, StepInv, Trouble, Conditions
  <2>2. PICK new : /\ new = Status(Carrying(ctl.u, ctl.id), ctl.cond)
                   /\ Write("ctl", new) \/ WriteFails("ctl", new)
    BY <1>6 DEF HandleFailed, WriteFails
  <2> QED BY <1>3, <1>6, <2>1, <2>2, IdleState DEF HandleFailed, Retry
<1>7. CASE SetSpecResourceID
  <2>1. PICK new : new = WithResourceID(ctl.u, ctl.id)
    OBVIOUS
  <2>2. new \in Object /\ new.fins = ctl.u.fins /\ new.deleting = ctl.u.deleting
        /\ new.id = IF ctl.id = NoID THEN ctl.u.id ELSE ctl.id
    BY <1>1, <1>7, <2>1, SavesInSpec DEF SetSpecResourceID
  <2>3. CASE /\ Write("ctl", new)
             /\ ctl' = [ctl EXCEPT !.step = "publish", !.u = new]
    <3>1. ctl'.step = "publish" /\ ctl'.u = new /\ ctl'.id = ctl.id
      BY <1>1, <2>3 DEF CtlState
    <3>2. obj # NoObject /\ obj = ctl.u /\ obj' = new
      BY <1>1, <2>2, <2>3, Writes
    <3> QED BY <1>1, <1>2, <2>2, <3>1, <3>2, IdentityRecords
  <2>4. CASE WriteFails("ctl", new) /\ ReportsNoID
    <3>1. ctl'.step = "report" /\ ctl'.u = ctl.u /\ ctl'.id = NoID
      BY <2>4, ReportsNothing DEF IndInv
    <3>2. obj' = obj \/ (obj # NoObject /\ obj = ctl.u /\ obj' = new)
      BY <1>1, <2>2, <2>4, Writes
    <3> QED BY <1>1, <1>2, <2>2, <3>1, <3>2, IdentityRecords
  <2> QED BY <1>7, <2>1, <2>3, <2>4 DEF SetSpecResourceID
<1> QED BY <1>4, <1>5, <1>6, <1>7

\* The writes of the controller that record none.
LEMMA WritingIdentity ==
  ASSUME IndInv, CoreInv',
         \/ PausedFinalizers \/ EnsureFinalizers \/ UpdateAPIServer
         \/ MarkDeleted \/ Unfinalize
  PROVE  IdentityInv'
<1>1. Busy /\ ctl.u \in Object /\ ctl \in CtlState /\ ctl.step # "report"
  BY DEF IndInv, CopyInv, Busy, TypeOK, PausedFinalizers, EnsureFinalizers,
         UpdateAPIServer, MarkDeleted, Unfinalize
<1>2. UNCHANGED <<naming, name, waived, managed>>
  BY DEF PausedFinalizers, EnsureFinalizers, UpdateAPIServer, MarkDeleted,
         Unfinalize, world, ghosts
<1>n. "None" \in Conditions /\ "Deleted" \in Conditions
  BY DEF Conditions
<1>3. CASE PausedFinalizers \/ EnsureFinalizers
  <2>1. PICK new : /\ new = WithFinalizers(ctl.u) /\ new \in Object
                   /\ new.deleting = ctl.u.deleting /\ new.fins = Finalizers
                   /\ new.id = ctl.u.id
    BY <1>1, <1>n, Fields
  <2>2. UNCHANGED obj \/ Write("ctl", new) \/ WriteFails("ctl", new)
    BY <1>3, <2>1 DEF PausedFinalizers, EnsureFinalizers
  <2>3. /\ obj' = obj \/ (obj # NoObject /\ obj = ctl.u /\ obj' = new)
        /\ Write("ctl", new) => obj' = new
    BY <1>1, <2>1, <2>2, Writes
  <2>4. \/ ctl'.step = "idle" /\ ctl'.id = NoID
        \/ /\ ctl'.step = "apply" /\ ctl.step = "fins"
           /\ ctl'.id = ctl.id /\ ctl'.found = ctl.found
           /\ \/ ctl'.u = ctl.u
              \/ ctl'.u = new /\ Write("ctl", new)
    BY <1>1, <1>3, <2>1, IdleState
    DEF PausedFinalizers, EnsureFinalizers, Finish, Retry, Goto, CtlState
  <2>5. ctl.step = "fins" => ctl.id = NoID
    BY DEF IndInv, IdentityInv
  <2>6. ctl.step = "fins" =>
          IF ctl.found = NoResource THEN waived \/ ~managed ELSE Knows(ctl.u)
    BY DEF IndInv, IdentityInv
  <2>7. Controller \in Finalizers
    BY DEF Finalizers
  <2> QED BY <1>1, <1>2, <2>1, <2>3, <2>4, <2>5, <2>6, <2>7, IdentityMoves
          DEF Knows
<1>4. CASE UpdateAPIServer
  <2>1. obj' = obj
    BY <1>1, <1>4, Writes DEF UpdateAPIServer
  <2>2. \/ ctl'.step = "idle" /\ ctl'.id = NoID
        \/ ctl'.step = "upToDate" /\ ctl'.u = ctl.u /\ ctl'.id = ctl.id
    BY <1>1, <1>4, IdleState DEF UpdateAPIServer, Retry, Goto, CtlState
  <2> QED BY <1>1, <1>2, <2>1, <2>2, IdentityMoves
<1>5. CASE MarkDeleted
  <2>1. PICK new : /\ new = Status(ctl.u, "Deleted") /\ new \in Object
                   /\ new.deleting = ctl.u.deleting /\ new.fins = ctl.u.fins
                   /\ new.id = ctl.u.id
    BY <1>1, <1>n, Fields
  <2>2. /\ obj' = obj \/ (obj # NoObject /\ obj = ctl.u /\ obj' = new)
    BY <1>1, <1>5, <2>1, Writes DEF MarkDeleted
  <2>3. ctl.id = NoID
    BY <1>5 DEF MarkDeleted, IndInv, IdentityInv
  <2>4. \/ ctl'.step = "idle" /\ ctl'.id = NoID
        \/ ctl'.step = "unfinalize" /\ ctl'.u = new /\ ctl'.id = ctl.id
    BY <1>1, <1>5, <2>1, IdleState DEF MarkDeleted, Retry, CtlState
  <2> QED BY <1>1, <1>2, <2>1, <2>2, <2>3, <2>4, IdentityMoves
<1>6. CASE Unfinalize
  <2>1. PICK new : new = [ctl.u EXCEPT !.fins = ctl.u.fins \ {Controller}]
    OBVIOUS
  <2>2. Passed(ctl.u)
    BY <1>6 DEF Unfinalize, IndInv, StepInv
  <2>3. Stored(new) = NoObject
    BY <1>1, <2>1, <2>2 DEF Passed, Object, Finalizers, Stored
  <2>4. obj' = obj \/ obj' = NoObject
    BY <1>6, <2>1, <2>3 DEF Unfinalize, Write, WriteFails
  <2>5. ctl'.step = "idle" /\ ctl'.id = NoID
    BY <1>6, IdleState DEF Unfinalize, Retry, Finish
  <2> QED BY <1>2, <2>4, <2>5, IdentityMoves
<1> QED BY <1>3, <1>4, <1>5, <1>6

\* The steps of the controller that write no object.
LEMMA ReadingIdentity ==
  ASSUME IndInv, CoreInv',
         \/ Get \/ FetchCC \/ Gate \/ ApplyDefaults \/ Find
         \/ SetLastModifiedCookie \/ Delete \/ Restart
  PROVE  IdentityInv'
<1>1. /\ UNCHANGED <<obj, naming, name>> /\ (waived => waived')
      /\ managed' => managed
  BY DEF Get, FetchCC, Gate, ApplyDefaults, Find, SetLastModifiedCookie, Delete,
         Restart, Touch, TouchFails, world, ghosts
<1>2. TypeOK /\ ctl \in CtlState
  BY DEF IndInv, TypeOK
<1>3. CASE Get
  <2>1. CASE ctl' = [Idle EXCEPT !.step = "cc", !.u = obj]
    <3>1. ctl'.step = "cc" /\ ctl'.u = obj /\ ctl'.id = NoID
      BY <2>1 DEF Idle
    <3>2. UNCHANGED <<managed, waived>>
      BY <1>3 DEF Get, ghosts
    <3>3. obj # NoObject
      BY <1>3, <2>1, <3>1 DEF Get
    <3> QED BY <1>1, <3>1, <3>2, <3>3
            DEF IndInv, NoOrphan, IdentityInv, Knows, Busy
  <2>2. CASE ctl' = ctl
    BY <1>1, <2>2, IdentityOthers
  <2> QED BY <1>3, <2>1, <2>2 DEF Get
<1>4. CASE Restart
  BY <1>1, <1>4, IdleState, IdentityMoves DEF Restart
<1>5. CASE FetchCC \/ Gate \/ ApplyDefaults \/ SetLastModifiedCookie \/ Delete
  <2>1. \/ ctl'.step = "idle" /\ ctl'.id = NoID
        \/ /\ ctl'.u = ctl.u /\ ctl'.step \notin {"fins", "apply"}
           /\ \/ ctl'.id = NoID
              \/ /\ ctl'.id = ctl.id
                 /\ ctl'.step \in {"publish", "update", "report"}
    <3>1. CASE FetchCC
      <4>1. ctl.id = NoID
        BY <3>1 DEF FetchCC, IndInv, IdentityInv
      <4> QED BY <1>2, <3>1, <4>1, IdleState DEF FetchCC, Retry, CtlState
    <3>2. CASE Gate
      <4>1. ctl.id = NoID
        BY <3>2 DEF Gate, IndInv, IdentityInv
      <4> QED BY <1>2, <3>2, <4>1, IdleState
              DEF Gate, Retry, Finish, Report, Goto, CtlState
    <3>3. CASE ApplyDefaults
      <4>1. ctl.id = NoID
        BY <3>3 DEF ApplyDefaults, IndInv, IdentityInv
      <4> QED BY <1>2, <3>3, <4>1, IdleState DEF ApplyDefaults, Retry, Goto, CtlState
    <3>4. CASE SetLastModifiedCookie
      BY <1>2, <3>4 DEF SetLastModifiedCookie, ReportsNoID, Goto, CtlState
    <3>5. CASE Delete
      <4>1. ctl.id = NoID
        BY <3>5 DEF Delete, IndInv, IdentityInv
      <4> QED BY <1>2, <3>5, <4>1 DEF Delete, Report, Goto, CtlState
    <3> QED BY <1>5, <3>1, <3>2, <3>3, <3>4, <3>5
  <2>2. Busy /\ ctl.step # "report"
    BY <1>5 DEF FetchCC, Gate, ApplyDefaults, SetLastModifiedCookie, Delete, Busy
  <2> QED BY <1>1, <2>1, <2>2, IdentityMoves
<1>6. CASE Find
  <2>1. ctl.step = "find" /\ ctl.id = NoID
    BY <1>6 DEF Find, IndInv, IdentityInv
  <2>2. \/ ctl'.step = "idle" /\ ctl'.id = NoID
        \/ ctl'.step = "report" /\ ctl'.u = ctl.u /\ ctl'.id = NoID
        \/ ctl'.u = ctl.u /\ ctl'.id = NoID /\ ctl'.found = Found(ctl.u)
    BY <1>2, <1>6, <2>1, IdleState DEF Find, Finish, Report, CtlState
  <2>3. IF Found(ctl.u) = NoResource THEN waived \/ ~managed ELSE Knows(ctl.u)
    <3>1. Found(ctl.u) # NoResource => Knows(ctl.u)
      BY DEF Found
    <3> QED BY <2>1, <3>1, ManagedIsFound
  <2> QED BY <1>1, <2>1, <2>2, <2>3, IdentityMoves DEF Busy
<1> QED BY <1>3, <1>4, <1>5, <1>6

\* The fields of the object that others leave alone.
LEMMA OthersKeepID ==
  ASSUME IndInv, \/ TimerFires \/ Defend \/ DefenderFails \/ Users
                 \/ UNCHANGED vars
  PROVE  /\ UNCHANGED <<ctl, naming, name>>
         /\ waived => waived'
         /\ managed' => managed
         /\ obj' = obj \/ obj' = NoObject \/ obj = NoObject \/ obj'.id = obj.id
<1>0. managed' = managed \/ Drift
  BY DEF TimerFires, Defend, DefenderFails, DefenderGet, IsUninstalling,
         DefenderUpdate, Users, UserCreates, UserEditsSpec, UserEditsLabels,
         UserSetsAbandon, UserUnsetsAbandon, UserSetsActuation, UserDeletes,
         Removed, Uninstall, CRDFinalization, AdminConfigures, vars, world,
         ghosts
<1>d. Drift => (managed' => managed)
  BY DEF Drift
<1>w. waived' = waived \/ waived' = TRUE
  BY DEF TimerFires, Defend, DefenderFails, DefenderGet, IsUninstalling,
         DefenderUpdate, Users, UserCreates, UserEditsSpec, UserEditsLabels,
         UserSetsAbandon, UserUnsetsAbandon, UserSetsActuation, UserDeletes,
         Removed, Uninstall, CRDFinalization, AdminConfigures, Drift, vars, world,
         ghosts
<1>1. UNCHANGED <<ctl, naming, name>>
  BY DEF TimerFires, Defend, DefenderFails, DefenderGet, IsUninstalling,
         DefenderUpdate, Users, UserCreates, UserEditsSpec, UserEditsLabels,
         UserSetsAbandon, UserUnsetsAbandon, UserSetsActuation, UserDeletes,
         Removed, Uninstall, CRDFinalization, AdminConfigures, Drift, vars, world,
         ghosts
<1>2. obj' = obj \/ obj' = NoObject \/ obj = NoObject \/ obj'.id = obj.id
  <2>1. obj # NoObject => obj \in Object
    BY DEF IndInv, TypeOK
  <2>2. CASE DefenderUpdate
    <3>1. dd.u \in Object /\ dd.u = obj
          /\ obj' = Stored(Defended(dd.u, dd.uninstalling))
      BY <2>2 DEF DefenderUpdate, Write, IndInv, DefenderInv, Defending
    <3>2. Defended(dd.u, dd.uninstalling).id = dd.u.id
      BY <3>1 DEF Defended, Object
    <3> QED BY <3>1, <3>2 DEF Stored
  <2>3. CASE UserEditsSpec \/ UserEditsLabels \/ UserSetsAbandon
             \/ UserUnsetsAbandon \/ UserSetsActuation
    BY <2>1, <2>3 DEF UserEditsSpec, UserEditsLabels, UserSetsAbandon,
       UserUnsetsAbandon, UserSetsActuation, Edited, Overwrite, Object
  <2>4. CASE UserDeletes \/ CRDFinalization
    BY <2>1, <2>4 DEF UserDeletes, CRDFinalization, Removed, Edited, Overwrite,
       Object
  <2>5. CASE \/ TimerFires \/ DefenderGet \/ IsUninstalling \/ DefenderFails
             \/ UserCreates \/ Uninstall \/ AdminConfigures \/ Drift
             \/ UNCHANGED vars
    BY <2>5 DEF TimerFires, DefenderGet, IsUninstalling, DefenderFails,
       UserCreates, Uninstall, AdminConfigures, Drift, vars
  <2> QED BY <2>2, <2>3, <2>4, <2>5 DEF Defend, Users
<1> QED BY <1>0, <1>d, <1>w, <1>1, <1>2

-----------------------------------------------------------------------------
\* The rest of the invariant is kept by every step.
LEMMA CoreStep == IndInv /\ [Next]_vars => CoreInv'
<1> SUFFICES ASSUME IndInv, [Next]_vars PROVE CoreInv'
  OBVIOUS
<1>1. CASE Reconcile
  BY <1>1, GetKeeps, FetchCCKeeps, GateKeeps, PausedFinalizersKeeps,
     TouchKeeps, FindKeeps, EnsureFinalizersKeeps, CreateKeeps, UpdateKeeps,
     SetSpecResourceIDKeeps, UpdateStatusKeeps, UpdateAPIServerKeeps,
     HandleUpToDateKeeps, HandleFailedKeeps, DeleteKeeps, MarkDeletedKeeps,
     UnfinalizeKeeps
  DEF Reconcile
<1>2. CASE TimerFires \/ Restart
  BY <1>2, TimerFiresKeeps, RestartKeeps
<1>3. CASE Defend \/ DefenderFails
  BY <1>3, DefenderGetKeeps, IsUninstallingKeeps, DefenderUpdateKeeps,
     DefenderFailsKeeps
  DEF Defend
<1>4. CASE Users
  <2>1. CASE UserDeletes \/ CRDFinalization
    BY <2>1, RemovedKeeps DEF UserDeletes, CRDFinalization
  <2> QED BY <1>4, <2>1, UserCreatesKeeps, UserEditsSpecKeeps,
             UserEditsLabelsKeeps, UserSetsAbandonKeeps,
             UserUnsetsAbandonKeeps, UserSetsActuationKeeps, UninstallKeeps,
             AdminConfiguresKeeps, DriftKeeps
          DEF Users
<1>5. CASE UNCHANGED vars
  BY <1>5, StutterKeeps
<1> QED BY <1>1, <1>2, <1>3, <1>4, <1>5 DEF Next

\* So are the identifiers.
LEMMA IdentityStep == IndInv /\ [Next]_vars => IdentityInv'
<1> SUFFICES ASSUME IndInv, [Next]_vars PROVE IdentityInv'
  OBVIOUS
<1>1. CoreInv'
  BY CoreStep
<1>2. CASE Reconcile \/ Restart
  BY <1>1, <1>2, ReadingIdentity, WritingIdentity, RecordingIdentity,
     CreateIdentity, UpdateIdentity
  DEF Reconcile
<1>3. CASE TimerFires \/ Defend \/ DefenderFails \/ Users \/ UNCHANGED vars
  BY <1>1, <1>3, OthersKeepID, IdentityOthers
<1> QED BY <1>2, <1>3 DEF Next

(***************************************************************************)
(* The invariant holds in every reachable state: the reconciler's copy of  *)
(* the object, however stale, never claims more about the finalizers than  *)
(* the API server would confirm.                                           *)
(***************************************************************************)
THEOREM Invariance == Spec => []IndInv
<1>1. Init => IndInv
  BY InitInv
<1>2. IndInv /\ [Next]_vars => IndInv'
  BY CoreStep, IdentityStep DEF IndInv, CoreInv
<1> QED BY <1>1, <1>2, PTL DEF Spec

(***************************************************************************)
(* Every variable keeps to its type.                                       *)
(***************************************************************************)
THEOREM TypeCorrect == Spec => []TypeOK
<1>1. IndInv => TypeOK
  BY DEF IndInv
<1> QED BY <1>1, Invariance, PTL

(***************************************************************************)
(* ensureFinalizers before Create and Update is enough: whatever crashes,  *)
(* conflicts and lost answers there are, a GCP resource that KCC manages   *)
(* has an object with the controller's finalizer, unless KCC was told to   *)
(* let go of it.                                                           *)
(***************************************************************************)
THEOREM OrphanFreedom == Spec => []NoOrphan
<1>1. IndInv => NoOrphan
  BY DEF IndInv
<1> QED BY <1>1, Invariance, PTL

(***************************************************************************)
(* The deletion defender is enough: when the reconciler is about to delete *)
(* the GCP resource, a user has deleted the object and has not asked to    *)
(* abandon the resource.  No interleaving of a CRD's uninstallation makes  *)
(* it look like a user's deletion.                                         *)
(***************************************************************************)
THEOREM DeletionIsRequested == Spec => []DeletesOnRequestOnly
<1>1. IndInv => DeletesOnRequestOnly
  <2> SUFFICES ASSUME IndInv, ctl.step = "delete"
               PROVE  /\ obj # NoObject /\ obj.deleting
                      /\ request = [by |-> "user", abandon |-> FALSE]
    BY DEF DeletesOnRequestOnly
  <2>1. /\ obj # NoObject /\ Passed(obj)
        /\ request.abandon => ctl.u.abandon
        /\ ~ctl.u.abandon
    BY DEF IndInv, StepInv, CopyInv, GoodCopy, Busy
  <2>2. request.by = "user" /\ ~request.abandon
    BY <2>1 DEF IndInv, ObjectInv
  <2>3. request = [by |-> "user", abandon |-> FALSE]
    BY <2>2 DEF IndInv, TypeOK
  <2> QED BY <2>1, <2>3 DEF Passed
<1> QED BY <1>1, Invariance, PTL

(***************************************************************************)
(* No second resource: whatever Find overlooks for want of an identifier,  *)
(* Create never makes another resource while there is one whose identifier *)
(* the object has carried.                                                 *)
(***************************************************************************)
THEOREM SingleCreation == Spec => NotCreatedTwice
<1>1. IndInv /\ [Next]_vars => [name' # name => waived \/ ~managed]_vars
  <2> SUFFICES ASSUME IndInv, [Next]_vars, name' # name
               PROVE  waived \/ ~managed
    OBVIOUS
  <2>1. Create
    <3>1. ~(Reconcile /\ ~Create)
      BY DEF Reconcile, world, Get, FetchCC, Gate, PausedFinalizers,
             ApplyDefaults, Find, EnsureFinalizers, Update, SetSpecResourceID,
             SetLastModifiedCookie, UpdateStatus, UpdateAPIServer,
             HandleUpToDate, HandleFailed, Delete, MarkDeleted, Unfinalize
    <3>2. ~(TimerFires \/ Defend \/ DefenderFails \/ Users \/ UNCHANGED vars)
      BY OthersKeepID
    <3>3. ~Restart
      BY DEF Restart, world
    <3> QED BY <3>1, <3>2, <3>3 DEF Next
  <2> QED BY <2>1 DEF Create, IndInv, IdentityInv
<1> QED BY <1>1, Invariance, PTL DEF Spec, NotCreatedTwice

-----------------------------------------------------------------------------
\* No reconcile that is under way should have been held back.
NoneHeld ==
  /\ kcc \in KCCStates /\ ctl.held = FALSE
  /\ ctl.step = "gate" => \E k \in KCCStates : ctl.cc = CCOf(k)

\* Where the mode is written out, the code's decision is the documented one.
LEMMA DecisionPerDocs ==
  ASSUME NEW k \in KCCState, k.mode # "", NEW d \in BOOLEAN,
         NEW a \in {"", "Reconciling", "Paused", "invalid"},
         ~FetchLiveKCCState(k).err
  PROVE  LET live == FetchLiveKCCState(k)
         IN  ShouldSkipActuation(a, d, live) = "proceed" =>
               ~PausedPerDocs(k, a, d)
<1> USE DEF FetchLiveKCCState, ReadsCCC, DecideActuationMode,
            ShouldSkipActuation, PausedPerDocs
<1>1. /\ k.mode \in {"absent", "cluster", "namespaced"}
      /\ k.cc \in {"", "Reconciling", "Paused"}
      /\ k.ccc \in {"", "Reconciling", "Paused", "missing"}
  BY DEF KCCState, ActuationField
<1>2. CASE a = ""
  <2>1. CASE k.mode = "absent"
    BY <1>2, <2>1
  <2>2. CASE k.mode = "cluster"
    BY <1>1, <1>2, <2>2
  <2>3. CASE k.mode = "namespaced"
    BY <1>1, <1>2, <2>3
  <2> QED BY <1>1, <2>1, <2>2, <2>3
<1>3. CASE a # ""
  BY <1>3
<1> QED BY <1>2, <1>3

\* Settings read one after the other are settings.
LEMMA SettingsType ==
  ASSUME NEW k \in KCCState, NEW l \in KCCState
  PROVE  /\ Settings(CCOf(k), l.ccc) \in KCCState
         /\ Settings(CCOf(k), l.ccc).mode = k.mode
BY DEF Settings, CCOf, KCCState

\* Every step keeps it: only Gate starts to act, and it asks DecisionPerDocs.
LEMMA NoneHeldKeeps ==
  ASSUME \A k \in KCCStates : k.mode # ""
  PROVE  IndInv /\ NoneHeld /\ [Next]_vars => NoneHeld'
<1> SUFFICES ASSUME IndInv, NoneHeld, [Next]_vars PROVE NoneHeld'
  OBVIOUS
<1>1. kcc' \in KCCStates
  <2>1. kcc' = kcc \/ kcc' \in KCCStates
    BY DEF Next, Reconcile, Defend, Users, vars, world,
           Get, FetchCC, Gate, PausedFinalizers, ApplyDefaults, Find,
           EnsureFinalizers, Create, Update, SetSpecResourceID,
           SetLastModifiedCookie, UpdateStatus, UpdateAPIServer, HandleUpToDate, HandleFailed, Delete,
           MarkDeleted, Unfinalize, TimerFires, Restart, DefenderGet,
           IsUninstalling, DefenderUpdate, DefenderFails, UserCreates,
           UserEditsSpec, UserEditsLabels, UserSetsAbandon, UserUnsetsAbandon,
           UserSetsActuation, UserDeletes, Removed, Uninstall, CRDFinalization,
           AdminConfigures, Drift
  <2> QED BY <2>1 DEF NoneHeld
<1>2. TypeOK /\ ctl \in CtlState /\ ctl.held = FALSE
  BY DEF IndInv, TypeOK, NoneHeld
<1>3. ASSUME Gate PROVE ctl'.held = FALSE /\ ctl'.step # "gate"
  <2> DEFINE seen == Settings(ctl.cc, kcc.ccc)
  <2>1. CASE /\ ctl.step = "gate" /\ ~FetchLiveKCCState(seen).err
             /\ ShouldSkipActuation(ctl.u.actuation, ctl.u.deleting,
                                    FetchLiveKCCState(seen)) = "proceed"
             /\ ctl' = [ctl EXCEPT !.step = "defaults",
                          !.held = PausedPerDocs(seen, ctl.u.actuation,
                                                 ctl.u.deleting)]
    <3>1. /\ ctl.u.actuation \in {"", "Reconciling", "Paused", "invalid"}
          /\ ctl.u.deleting \in BOOLEAN
      BY <2>1 DEF IndInv, CopyInv, Busy, Object
    <3>2. seen \in KCCState /\ seen.mode # ""
      <4>1. PICK k \in KCCStates : ctl.cc = CCOf(k)
        BY <2>1 DEF NoneHeld
      <4>2. k \in KCCState /\ kcc \in KCCState /\ k.mode # ""
        BY DirectAssumption DEF NoneHeld
      <4>3. /\ Settings(CCOf(k), kcc.ccc) \in KCCState
            /\ Settings(CCOf(k), kcc.ccc).mode # ""
        BY <4>2, SettingsType
      <4> QED BY <4>1, <4>3, Zenon
    <3> HIDE DEF seen
    <3>3. ~PausedPerDocs(seen, ctl.u.actuation, ctl.u.deleting)
      BY <2>1, <3>1, <3>2, DecisionPerDocs
    <3>4. PausedPerDocs(seen, ctl.u.actuation, ctl.u.deleting) = FALSE
      BY <3>3, Zenon DEF PausedPerDocs
    <3>5. ctl' = [ctl EXCEPT !.step = "defaults", !.held = FALSE]
      BY <2>1, <3>4, Zenon
    <3> QED BY <1>2, <3>5 DEF CtlState
  <2>2. CASE Retry \/ Finish(ctl.u) \/ Report("Failed") \/ Goto("pausedFins")
    BY <1>2, <2>2, Endings, Reports, GoesOn DEF Trouble, CtlSteps
  <2> QED BY <1>3, <2>1, <2>2 DEF Gate
<1>c. ASSUME FetchCC PROVE NoneHeld'
  <2>1. CASE ctl' = [ctl EXCEPT !.step = "gate", !.cc = CCOf(kcc)]
    <3>1. ctl'.cc = CCOf(kcc) /\ ctl'.held = FALSE
      BY <1>2, <2>1 DEF CtlState
    <3>2. kcc \in KCCStates
      BY DEF NoneHeld
    <3> QED BY <1>1, <3>1, <3>2 DEF NoneHeld
  <2>2. CASE Retry
    BY <1>1, <1>2, <2>2, Endings DEF NoneHeld
  <2> QED BY <1>c, <2>1, <2>2 DEF FetchCC
<1>4. ASSUME Get \/ Find \/ ApplyDefaults
      PROVE  ctl'.held = FALSE /\ ctl'.step # "gate"
  <2>1. CASE ctl' = [Idle EXCEPT !.step = "cc", !.u = obj]
    BY <2>1 DEF Idle
  <2>2. CASE \E c \in Trouble : Report(c)
    BY <1>2, <2>2, Reports
  <2>3. CASE Finish(ctl.u) \/ Retry
    BY <1>2, <2>3, Endings
  <2>4. CASE \E f : ctl' = [ctl EXCEPT !.step = AfterFind(ctl.u, f), !.found = f]
    BY <1>2, <2>4 DEF CtlState, AfterFind
  <2>5. CASE Goto("find")
    BY <1>2, <2>5, GoesOn DEF CtlSteps
  <2>6. CASE ctl' = ctl /\ ctl.step = "idle"
    BY <1>2, <2>6
  <2> QED BY <1>4, <2>1, <2>2, <2>3, <2>4, <2>5, <2>6
          DEF Get, Find, ApplyDefaults
<1>5. ASSUME Create \/ Update \/ Delete \/ SetLastModifiedCookie
      PROVE  ctl'.held = FALSE /\ ctl'.step # "gate"
  <2>1. \/ \E c \in Trouble : Report(c)
        \/ \E st \in {"publish", "update", "markDeleted"} : Goto(st)
        \/ ReportsNoID
        \/ \E i \in IDs \union {NoID}, c \in {"unset", "UpToDate", "Updating"} :
             Publish(i, c)
    <3>1. FreshIDs \subseteq IDs \union {NoID}
      BY DEF FreshIDs
    <3> QED BY <1>5, <3>1
            DEF Create, Update, Delete, SetLastModifiedCookie, Trouble
  <2>2. CASE \E st \in {"publish", "update", "markDeleted"} : Goto(st)
    BY <1>2, <2>2, GoesOn DEF CtlSteps
  <2>3. CASE ReportsNoID
    BY <1>2, <2>3, ReportsNothing
  <2> QED BY <1>2, <2>1, <2>2, <2>3, Reports, Publishes
<1>6. ASSUME \/ PausedFinalizers \/ EnsureFinalizers \/ UpdateStatus
             \/ UpdateAPIServer \/ HandleUpToDate \/ HandleFailed
             \/ MarkDeleted \/ Unfinalize \/ SetSpecResourceID
      PROVE  ctl'.held = FALSE /\ ctl'.step # "gate"
  <2>1. \/ Retry \/ \E u : Finish(u)
        \/ Report("Failed") \/ ReportsNoID
        \/ \E st \in {"apply", "upToDate"} : Goto(st)
        \/ \E u : \E st \in {"apply", "update", "publish", "unfinalize"} :
             ctl' = [ctl EXCEPT !.step = st, !.u = u]
    BY <1>6 DEF PausedFinalizers, EnsureFinalizers, UpdateStatus,
                UpdateAPIServer, HandleUpToDate, HandleFailed, MarkDeleted,
                Unfinalize, SetSpecResourceID, Done
  <2>2. CASE \E u : \E st \in {"apply", "update", "publish", "unfinalize"} :
               ctl' = [ctl EXCEPT !.step = st, !.u = u]
    BY <1>2, <2>2 DEF CtlState
  <2>3. CASE ReportsNoID
    BY <1>2, <2>3, ReportsNothing
  <2>4. CASE \E st \in {"apply", "upToDate"} : Goto(st)
    BY <1>2, <2>4, GoesOn DEF CtlSteps
  <2> QED BY <1>2, <2>1, <2>2, <2>3, <2>4, Endings, Reports DEF Trouble
<1>7. ASSUME ~Reconcile PROVE NoneHeld'
  <2>1. ctl' = ctl \/ ctl' = Idle
    BY <1>7, OthersKeepID DEF Next, Restart
  <2> QED BY <1>1, <1>2, <2>1, IdleState DEF NoneHeld
<1> QED BY <1>1, <1>3, <1>c, <1>4, <1>5, <1>6, <1>7 DEF Reconcile, NoneHeld

(***************************************************************************)
(* A pause is a pause: if every setting of the administrator spells out    *)
(* the mode, then no reconcile that found actuation paused, as the         *)
(* documentation defines it, goes on to change GCP, however the settings   *)
(* change while it runs.                                                   *)
(***************************************************************************)
THEOREM PauseIsHonoured ==
  ASSUME \A k \in KCCStates : k.mode # ""
  PROVE  Spec => []PausedIsPaused
<1>1. Init => NoneHeld
  BY IdleState DEF Init, NoneHeld
<1>2. IndInv /\ NoneHeld /\ [Next]_vars => NoneHeld'
  BY NoneHeldKeeps
<1>3. NoneHeld => PausedIsPaused
  BY DEF NoneHeld, PausedIsPaused
<1> QED BY <1>1, <1>2, <1>3, Invariance, PTL DEF Spec

-----------------------------------------------------------------------------
\* The status speaks for the current generation.
Fresh(o) == o.cond = "UpToDate" /\ o.obsGen = o.gen

\* What the status of an object may say, given what was confirmed last.
Honest(o, c) ==
  o # NoObject =>
    /\ o.obsGen <= o.gen
    /\ Fresh(o) => c # NoResource /\ c.spec = o.want.spec
    /\ o.deleting => ~Fresh(o)

\* A copy may be stale, but not while the status of the object is fresh: only
\* the controller writes the status, and a new spec is a new generation.
CopyAgrees ==
  Busy /\ obj # NoObject /\ Fresh(obj) => ctl.u.want.spec = obj.want.spec

\* What is about to be called up to date has just been confirmed.
StepAgrees ==
  /\ \/ ctl.step \in {"annotate", "update", "upToDate"}
     \/ ctl.step = "publish" /\ ctl.cond # "Updating"
     => confirmed = ctl.u.want
  /\ ctl.step \in {"apply", "annotate", "publish", "update", "upToDate"} =>
       ~ctl.u.deleting

StatusInv == Honest(obj, confirmed) /\ CopyAgrees /\ StepAgrees

\* An object that the controller saw waiting for the defender still does, or
\* has been queued since.
Awaited(o) == o.deleting /\ Defender \in o.fins

WakeInv ==
  ~IntervalZero /\ obj # NoObject =>
    /\ Busy /\ Awaited(ctl.u) => queue.now \/ queue.timer \/ Awaited(obj)
    /\ ~Busy => queue.now \/ queue.timer \/ Awaited(obj)

-----------------------------------------------------------------------------
\* The status says what it said before, or something that is true.
LEMMA HonestWrite ==
  ASSUME StatusInv, NEW u \in Object, NEW new \in Object,
         obj # NoObject, obj = u, obj' = new,
         new.want = u.want, new.gen = u.gen, new.deleting = u.deleting,
         \/ new.cond = u.cond /\ new.obsGen = u.obsGen
         \/ new.cond # "UpToDate" /\ new.obsGen = u.gen
         \/ new.obsGen = u.gen /\ confirmed = u.want /\ ~u.deleting,
         UNCHANGED confirmed
  PROVE  Honest(obj', confirmed')
<1>1. u.gen \in Nat /\ u.want # NoResource
  BY DirectAssumption DEF Object
<1>2. u.obsGen \in Nat /\ u.obsGen <= u.gen
      /\ (Fresh(u) => confirmed # NoResource /\ confirmed.spec = u.want.spec)
      /\ (u.deleting => ~Fresh(u))
  BY DEF StatusInv, Honest, Object
<1>3. new.obsGen <= new.gen
  BY <1>1, <1>2
<1>4. Fresh(new) => confirmed # NoResource /\ confirmed.spec = new.want.spec
  BY <1>1, <1>2 DEF Fresh
<1>5. new.deleting => ~Fresh(new)
  BY <1>2 DEF Fresh
<1> QED BY <1>3, <1>4, <1>5 DEF Honest

\* Then the copy agrees with the object as before.
LEMMA CopyWrite ==
  ASSUME StatusInv, Busy, ctl'.step = "idle" \/ ctl'.u.want = ctl.u.want,
         \/ UNCHANGED obj
         \/ obj # NoObject /\ obj = ctl.u /\ obj'.want = ctl.u.want
  PROVE  CopyAgrees'
BY DEF StatusInv, CopyAgrees, Busy

\* Steps of the reconcile that leave the object and what was confirmed.
LEMMA StatusMoves ==
  ASSUME IndInv, StatusInv,
         \/ Get \/ FetchCC \/ Gate \/ ApplyDefaults \/ Find \/ Restart
         \/ SetLastModifiedCookie
  PROVE  StatusInv'
<1>1. UNCHANGED <<obj, confirmed>>
  BY DEF Get, FetchCC, Gate, ApplyDefaults, Find, Restart, Touch, TouchFails,
         SetLastModifiedCookie, ghosts
<1>2. Honest(obj, confirmed)'
  BY <1>1 DEF StatusInv, Honest, Fresh
<1>3. CASE Get
  <2>1. UNCHANGED ctl \/ ctl' = [Idle EXCEPT !.step = "cc", !.u = obj]
    BY <1>3 DEF Get
  <2>2. CopyAgrees' /\ StepAgrees'
    <3>1. CASE UNCHANGED ctl
      BY <1>1, <3>1 DEF StatusInv, CopyAgrees, StepAgrees, Busy, Fresh
    <3>2. CASE ctl' = [Idle EXCEPT !.step = "cc", !.u = obj]
      <4>1. ctl'.step = "cc" /\ ctl'.u = obj
        BY <3>2 DEF Idle
      <4> QED BY <1>1, <4>1 DEF CopyAgrees, StepAgrees
    <3> QED BY <2>1, <3>1, <3>2
  <2> QED BY <1>2, <2>2 DEF StatusInv
<1>4. CASE FetchCC \/ Gate \/ ApplyDefaults \/ Find \/ Restart
           \/ SetLastModifiedCookie
  <2>1. \/ ctl'.step = "idle"
        \/ /\ Busy /\ ctl'.u = ctl.u
           /\ \/ ctl'.step \notin {"apply", "annotate", "publish", "update",
                                    "upToDate"}
              \/ ctl.step = "annotate"
    <3>0. CASE FetchCC \/ ApplyDefaults
      BY <3>0, IdleState
      DEF FetchCC, ApplyDefaults, Busy, Retry, Goto, IndInv, TypeOK, CtlState
    <3>a. CASE SetLastModifiedCookie
      BY <3>a
      DEF SetLastModifiedCookie, ReportsNoID, Busy, Goto, IndInv, TypeOK,
          CtlState
    <3>1. CASE Gate
      BY <3>1, IdleState
      DEF Gate, Busy, Retry, Report, Finish, Goto, IndInv, TypeOK, CtlState
    <3>2. CASE Find
      BY <3>2, IdleState
      DEF Find, AfterFind, Busy, Report, Finish, IndInv, TypeOK, CtlState
    <3>3. CASE Restart
      BY <3>3, IdleState DEF Restart
    <3> QED BY <1>4, <3>0, <3>a, <3>1, <3>2, <3>3
  <2>2. CopyAgrees' /\ StepAgrees'
    BY <1>1, <2>1 DEF StatusInv, CopyAgrees, StepAgrees, Busy, Fresh
  <2> QED BY <1>2, <2>2 DEF StatusInv
<1> QED BY <1>3, <1>4

\* Setting the finalizers leaves the status alone.
LEMMA StatusFinalizers ==
  ASSUME IndInv, StatusInv, PausedFinalizers \/ EnsureFinalizers
  PROVE  StatusInv'
<1> DEFINE new == WithFinalizers(ctl.u)
<1>1. Busy /\ ctl.u \in Object /\ ctl \in CtlState /\ ~ctl.u.deleting
      /\ UNCHANGED confirmed
  BY DEF IndInv, CopyInv, StepInv, Busy, TypeOK, PausedFinalizers,
         EnsureFinalizers, ghosts
<1>2. new \in Object /\ new.want = ctl.u.want /\ new.gen = ctl.u.gen
      /\ new.deleting = ctl.u.deleting /\ new.fins = Finalizers
      /\ new.cond = ctl.u.cond /\ new.obsGen = ctl.u.obsGen
  <2>1. "None" \in Conditions BY DEF Conditions
  <2> QED BY <1>1, <2>1, Fields
<1>3. UNCHANGED obj \/ Write("ctl", new) \/ WriteFails("ctl", new)
  BY DEF PausedFinalizers, EnsureFinalizers
<1>4. \/ ctl'.step = "idle"
      \/ ctl'.step = "apply" /\ (ctl'.u = ctl.u \/ ctl'.u = new)
  BY <1>1, IdleState
  DEF PausedFinalizers, EnsureFinalizers, Finish, Retry, Goto, CtlState
<1> HIDE DEF new
<1>5. UNCHANGED obj \/ (obj # NoObject /\ obj = ctl.u /\ obj' = new)
  BY <1>1, <1>2, <1>3, Writes
<1>6. Honest(obj, confirmed)'
  <2>1. CASE UNCHANGED obj
    BY <1>1, <2>1 DEF StatusInv, Honest, Fresh
  <2>2. CASE obj # NoObject /\ obj = ctl.u /\ obj' = new
    BY <1>1, <1>2, <2>2, HonestWrite
  <2> QED BY <1>5, <2>1, <2>2
<1>7. CopyAgrees'
  BY <1>1, <1>2, <1>4, <1>5, CopyWrite
<1>8. StepAgrees'
  BY <1>1, <1>2, <1>4 DEF StepAgrees
<1> QED BY <1>6, <1>7, <1>8 DEF StatusInv

\* Create and Update confirm what the copy says; if the status is fresh, this
\* is what the object says.
LEMMA StatusApply ==
  ASSUME IndInv, StatusInv, Create \/ Update
  PROVE  StatusInv'
<1>1. Busy /\ ctl.u \in Object /\ ctl \in CtlState /\ ctl.step = "apply"
      /\ UNCHANGED obj
  BY DEF IndInv, CopyInv, Busy, TypeOK, Create, Update
<1>2. ctl'.u = ctl.u /\ ctl'.step # "idle"
  BY <1>1 DEF Create, Update, Publish, Report, CtlState
<1>3. \/ confirmed' = ctl.u.want
      \/ /\ UNCHANGED confirmed
         /\ ctl'.step = "report" \/ (ctl'.step = "publish" /\ ctl'.cond = "Updating")
  BY <1>1 DEF Create, Insert, Update, Publish, Report, Actuate, CtlState
<1>4. ctl'.step \in {"annotate", "publish", "update", "report"} /\ ~ctl.u.deleting
  BY <1>1 DEF Create, Update, Publish, Report, CtlState, StatusInv, StepAgrees
<1>5. Honest(obj, confirmed)'
  <2>1. CASE UNCHANGED confirmed
    BY <1>1, <2>1 DEF StatusInv, Honest, Fresh
  <2>2. CASE confirmed' = ctl.u.want
    <3>1. ctl.u.want # NoResource
      BY <1>1, DirectAssumption DEF Object
    <3> QED BY <1>1, <2>2, <3>1
            DEF StatusInv, Honest, CopyAgrees, Fresh
  <2> QED BY <1>3, <2>1, <2>2
<1>6. CopyAgrees'
  BY <1>1, <1>2, CopyWrite
<1>7. StepAgrees'
  BY <1>2, <1>3, <1>4 DEF StepAgrees
<1> QED BY <1>5, <1>6, <1>7 DEF StatusInv

\* The controller writes the status of what it has just confirmed, or says
\* that something is wrong.
LEMMA StatusWrites ==
  ASSUME IndInv, StatusInv, UpdateStatus \/ HandleUpToDate \/ HandleFailed
                              \/ MarkDeleted
  PROVE  StatusInv'
<1> USE IdleState
<1>1. Busy /\ ctl.u \in Object /\ ctl \in CtlState /\ UNCHANGED confirmed
      /\ ctl.id \in IDs \union {NoID}
  BY DEF IndInv, CopyInv, Busy, TypeOK, CtlState, UpdateStatus, HandleUpToDate,
         HandleFailed, MarkDeleted, ghosts
<1>2. PICK c \in Conditions, new \in Object:
        /\ new.want = ctl.u.want /\ new.gen = ctl.u.gen
        /\ new.deleting = ctl.u.deleting /\ new.fins = ctl.u.fins
        /\ new.cond = c /\ new.obsGen = ctl.u.gen
        /\ UNCHANGED obj \/ Write("ctl", new) \/ WriteFails("ctl", new)
        /\ c # "UpToDate" \/ (confirmed = ctl.u.want /\ ~ctl.u.deleting)
        /\ \/ ctl'.step = "idle"
           \/ ctl'.step \in {"report", "unfinalize"} /\ ctl'.u = ctl.u
           \/ ctl'.step = "unfinalize" /\ ctl'.u = new
           \/ /\ ctl'.step = "update" /\ ctl'.u = new
              /\ confirmed = ctl.u.want /\ ~ctl.u.deleting
  <2>1. CASE UpdateStatus
    <3> DEFINE c == ReadyCondition(ctl.u, ctl.cond)
               new == Status(Carrying(ctl.u, ctl.id), c)
    <3>1. c \in Conditions /\ (ctl.cond # "unset" => c = ctl.cond)
      BY <1>1 DEF ReadyCondition, CtlState, Object
    <3>2. ctl.cond # "Updating" => confirmed = ctl.u.want
      BY <2>1 DEF UpdateStatus, StatusInv, StepAgrees
    <3>3. ~ctl.u.deleting
      BY <2>1 DEF UpdateStatus, StatusInv, StepAgrees
    <3>4. Write("ctl", new) \/ WriteFails("ctl", new)
      BY <2>1 DEF UpdateStatus
    <3>5. \/ ctl'.step = "idle"
          \/ ctl'.step = "report" /\ ctl'.u = ctl.u
          \/ ctl'.step = "update" /\ ctl'.u = new /\ ctl.cond = "unset"
      BY <1>1, <2>1 DEF UpdateStatus, Done, Retry, Finish, Report, CtlState
    <3>6. /\ new \in Object
          /\ new.want = ctl.u.want /\ new.gen = ctl.u.gen
          /\ new.deleting = ctl.u.deleting /\ new.fins = ctl.u.fins
          /\ new.cond = c /\ new.obsGen = ctl.u.gen
      BY <1>1, <3>1, Saves
    <3> HIDE DEF c, new
    <3> QED BY <3>1, <3>2, <3>3, <3>4, <3>5, <3>6
  <2>2. CASE HandleUpToDate
    <3> DEFINE new == Status(Carrying(ctl.u, ctl.id), "UpToDate")
    <3>1. "UpToDate" \in Conditions BY DEF Conditions
    <3>2. /\ new \in Object
          /\ new.want = ctl.u.want /\ new.gen = ctl.u.gen
          /\ new.deleting = ctl.u.deleting /\ new.fins = ctl.u.fins
          /\ new.cond = "UpToDate" /\ new.obsGen = ctl.u.gen
      BY <1>1, <3>1, Saves
    <3>3. /\ Write("ctl", new) \/ WriteFails("ctl", new)
          /\ ctl'.step = "idle" /\ confirmed = ctl.u.want /\ ~ctl.u.deleting
      BY <2>2 DEF HandleUpToDate, Done, Retry, Finish, StatusInv, StepAgrees
    <3> HIDE DEF new
    <3> QED BY <3>1, <3>2, <3>3
  <2>3. CASE HandleFailed
    <3> DEFINE new == Status(Carrying(ctl.u, ctl.id), ctl.cond)
    <3>1. ctl.cond \in Conditions /\ ctl.cond # "UpToDate"
      BY <2>3 DEF HandleFailed, IndInv, StepInv, Trouble, Conditions
    <3>2. /\ new \in Object
          /\ new.want = ctl.u.want /\ new.gen = ctl.u.gen
          /\ new.deleting = ctl.u.deleting /\ new.fins = ctl.u.fins
          /\ new.cond = ctl.cond /\ new.obsGen = ctl.u.gen
      BY <1>1, <3>1, Saves
    <3>3. /\ UNCHANGED obj \/ Write("ctl", new) \/ WriteFails("ctl", new)
          /\ ctl'.step = "idle"
      BY <2>3 DEF HandleFailed, Retry
    <3> HIDE DEF new
    <3> QED BY <3>1, <3>2, <3>3
  <2>4. CASE MarkDeleted
    <3> DEFINE new == Status(ctl.u, "Deleted")
    <3>1. "Deleted" \in Conditions BY DEF Conditions
    <3>2. /\ new \in Object
          /\ new.want = ctl.u.want /\ new.gen = ctl.u.gen
          /\ new.deleting = ctl.u.deleting /\ new.fins = ctl.u.fins
          /\ new.cond = "Deleted" /\ new.obsGen = ctl.u.gen
      BY <1>1, <3>1, Fields
    <3>3. /\ Write("ctl", new) \/ WriteFails("ctl", new)
          /\ ctl'.step = "idle" \/ (ctl'.step = "unfinalize" /\ ctl'.u = new)
      BY <1>1, <2>4 DEF MarkDeleted, Retry, CtlState
    <3> HIDE DEF new
    <3> QED BY <3>1, <3>2, <3>3
  <2> QED BY <2>1, <2>2, <2>3, <2>4
<1>4. UNCHANGED obj \/ (obj # NoObject /\ obj = ctl.u /\ obj' = new)
  BY <1>1, <1>2, Writes
<1>5. Honest(obj, confirmed)'
  <2>1. CASE UNCHANGED obj
    BY <1>1, <2>1 DEF StatusInv, Honest, Fresh
  <2>2. CASE obj # NoObject /\ obj = ctl.u /\ obj' = new
    BY <1>1, <1>2, <2>2, HonestWrite
  <2> QED BY <1>4, <2>1, <2>2
<1>7. CopyAgrees'
  BY <1>1, <1>2, <1>4, CopyWrite
<1>8. StepAgrees'
  BY <1>1, <1>2 DEF StepAgrees
<1> QED BY <1>5, <1>7, <1>8 DEF StatusInv

\* An identifier in the spec is a new generation, of which nothing is said.
LEMMA StatusResourceID ==
  ASSUME IndInv, StatusInv, SetSpecResourceID
  PROVE  StatusInv'
<1>1. Busy /\ ctl.u \in Object /\ ctl \in CtlState /\ UNCHANGED confirmed
      /\ ctl.id \in IDs /\ ctl.step = "annotate"
  BY DEF IndInv, CopyInv, Busy, TypeOK, CtlState, SetSpecResourceID
<1>2. PICK new \in Object:
        /\ new = WithResourceID(ctl.u, ctl.id)
        /\ new.want = ctl.u.want /\ new.gen = ctl.u.gen + 1
        /\ new.deleting = ctl.u.deleting /\ new.fins = ctl.u.fins
        /\ new.cond = ctl.u.cond /\ new.obsGen = ctl.u.obsGen
  BY <1>1, SavesInSpec
<1>3. UNCHANGED obj \/ (obj # NoObject /\ obj = ctl.u /\ obj' = new)
  BY <1>1, <1>2, Writes DEF SetSpecResourceID
<1>4. \/ ctl'.step = "publish" /\ ctl'.u = new
      \/ ctl'.step = "report" /\ ctl'.u = ctl.u
  BY <1>1, <1>2 DEF SetSpecResourceID, ReportsNoID, CtlState
<1>5. Honest(obj, confirmed)'
  <2>1. CASE UNCHANGED obj
    BY <1>1, <2>1 DEF StatusInv, Honest, Fresh
  <2>2. CASE obj # NoObject /\ obj = ctl.u /\ obj' = new
    <3>1. ctl.u.gen \in Nat /\ ctl.u.obsGen \in Nat /\ ctl.u.obsGen <= ctl.u.gen
      BY <1>1, <2>2 DEF StatusInv, Honest, Object
    <3>2. ~Fresh(new) /\ new.obsGen <= new.gen
      BY <1>2, <3>1 DEF Fresh
    <3> QED BY <2>2, <3>2 DEF Honest
  <2> QED BY <1>3, <2>1, <2>2
<1>6. CopyAgrees'
  BY <1>1, <1>2, <1>3, <1>4, CopyWrite
<1>7. StepAgrees'
  BY <1>1, <1>2, <1>4 DEF StatusInv, StepAgrees
<1> QED BY <1>5, <1>6, <1>7 DEF StatusInv

\* Writes that leave the status alone, or let the object go.
LEMMA StatusRest ==
  ASSUME IndInv, StatusInv, UpdateAPIServer \/ Unfinalize \/ Delete
  PROVE  StatusInv'
<1> USE IdleState
<1>1. Busy /\ ctl.u \in Object /\ ctl \in CtlState /\ UNCHANGED confirmed
  BY DEF IndInv, CopyInv, Busy, TypeOK, UpdateAPIServer, Unfinalize, Delete,
         ghosts
<1>2. UNCHANGED obj \/ obj' = NoObject
  <2>1. CASE UpdateAPIServer
    BY <1>1, <2>1, Writes DEF UpdateAPIServer
  <2>2. CASE Unfinalize
    <3> DEFINE new == [ctl.u EXCEPT !.fins = ctl.u.fins \ {Controller}]
    <3>1. Passed(ctl.u) BY <2>2 DEF Unfinalize, IndInv, StepInv
    <3>2. Stored(new) = NoObject
      BY <1>1, <3>1 DEF Passed, Object, Finalizers, Stored
    <3> QED BY <2>2, <3>2 DEF Unfinalize, Write, WriteFails
  <2>3. CASE Delete
    BY <2>3 DEF Delete
  <2> QED BY <2>1, <2>2, <2>3
<1>3. \/ ctl'.step = "idle"
      \/ ctl'.step \in {"markDeleted", "report"} /\ ctl'.u = ctl.u
      \/ ctl'.step = "upToDate" /\ ctl'.u = ctl.u /\ ctl.step = "update"
  BY <1>1 DEF UpdateAPIServer, Unfinalize, Delete, Goto, Report, Retry, Finish,
       CtlState
<1>4. Honest(obj, confirmed)'
  BY <1>1, <1>2 DEF StatusInv, Honest, Fresh
<1>5. CopyAgrees'
  BY <1>1, <1>2, <1>3 DEF StatusInv, CopyAgrees, Fresh, Busy
<1>6. StepAgrees'
  BY <1>1, <1>3 DEF StatusInv, StepAgrees
<1> QED BY <1>4, <1>5, <1>6 DEF StatusInv

\* Somebody else's write keeps the status and the spec, or starts a new
\* generation, or a new object.
LEMMA StatusOthers ==
  ASSUME IndInv, StatusInv, UNCHANGED <<ctl, confirmed>>,
         \/ UNCHANGED obj
         \/ obj' = NoObject
         \/ obj' \in Object /\ obj'.cond = "None"
              /\ obj'.obsGen <= obj'.gen /\ ~obj'.deleting
         \/ /\ obj # NoObject /\ obj' \in Object
            /\ obj'.cond = obj.cond /\ obj'.obsGen = obj.obsGen
            /\ \/ obj'.gen = obj.gen + 1
               \/ /\ obj'.gen = obj.gen /\ obj'.want.spec = obj.want.spec
                  /\ obj'.deleting = obj.deleting
  PROVE  StatusInv'
<1>1. StepAgrees'
  BY DEF StatusInv, StepAgrees
<1>2. CASE UNCHANGED obj \/ obj' = NoObject
  BY <1>1, <1>2 DEF StatusInv, Honest, CopyAgrees, Fresh, Busy
<1>3. CASE obj' \in Object /\ obj'.cond = "None"
           /\ obj'.obsGen <= obj'.gen /\ ~obj'.deleting
  BY <1>1, <1>3 DEF StatusInv, Honest, CopyAgrees, Fresh
<1>4. CASE /\ obj # NoObject /\ obj' \in Object
           /\ obj'.cond = obj.cond /\ obj'.obsGen = obj.obsGen
           /\ obj'.gen = obj.gen + 1
  <2>1. obj \in Object BY <1>4 DEF IndInv, TypeOK
  <2>2. obj.gen \in Nat /\ obj.obsGen \in Nat /\ obj.obsGen <= obj.gen
    BY <1>4, <2>1 DEF StatusInv, Honest, Object
  <2>3. ~Fresh(obj') /\ obj'.obsGen <= obj'.gen
    BY <1>4, <2>2 DEF Fresh
  <2> QED BY <1>1, <2>3 DEF StatusInv, Honest, CopyAgrees, Fresh
<1>5. CASE /\ obj # NoObject /\ obj' \in Object
           /\ obj'.cond = obj.cond /\ obj'.obsGen = obj.obsGen
           /\ obj'.gen = obj.gen /\ obj'.want.spec = obj.want.spec
           /\ obj'.deleting = obj.deleting
  BY <1>1, <1>5 DEF StatusInv, Honest, CopyAgrees, Fresh, Busy
<1> QED BY <1>2, <1>3, <1>4, <1>5

\* An object after one of the writes of users or of the defender: the fields
\* that the status and the wake-ups are about.
LEMMA OthersShape ==
  ASSUME IndInv, obj # NoObject,
         \/ UserEditsSpec \/ UserEditsLabels \/ UserSetsAbandon
         \/ UserUnsetsAbandon \/ UserSetsActuation
  PROVE  /\ obj' \in Object
         /\ obj'.cond = obj.cond /\ obj'.obsGen = obj.obsGen
         /\ obj'.fins = obj.fins /\ obj'.deleting = obj.deleting
         /\ \/ obj'.gen = obj.gen + 1
            \/ obj'.gen = obj.gen /\ obj'.want.spec = obj.want.spec
<1>0. obj \in Object /\ obj.want \in Desired /\ obj.gen \in Nat
  BY DEF IndInv, TypeOK, Object
<1>1. CASE UserEditsSpec
  <2>1. PICK d \in Specs: obj' = [obj EXCEPT !.want.spec = d, !.gen = obj.gen + 1]
    BY <1>1 DEF UserEditsSpec, Edited, Overwrite
  <2>2. PICK w \in Desired: w = [obj.want EXCEPT !.spec = d]
    BY <1>0 DEF Desired
  <2>3. PICK g \in Nat: g = obj.gen + 1
    BY <1>0
  <2>4. obj' = [obj EXCEPT !.want = w, !.gen = g]
    BY <1>0, <2>1, <2>2, <2>3 DEF Object
  <2> HIDE DEF Desired
  <2>5. obj' \in Object /\ obj'.cond = obj.cond /\ obj'.obsGen = obj.obsGen
        /\ obj'.fins = obj.fins /\ obj'.deleting = obj.deleting /\ obj'.gen = g
    BY <1>0, <2>4 DEF Object
  <2> QED BY <2>3, <2>5
<1>2. CASE UserEditsLabels
  <2>1. PICK l \in Labels: obj' = [obj EXCEPT !.want.labels = l]
    BY <1>2 DEF UserEditsLabels, Edited, Overwrite
  <2>2. PICK w \in Desired: w = [obj.want EXCEPT !.labels = l]
                            /\ w.spec = obj.want.spec
    <3>1. [obj.want EXCEPT !.labels = l] \in Desired
      BY <1>0 DEF Desired
    <3>2. [obj.want EXCEPT !.labels = l].spec = obj.want.spec
      BY <1>0 DEF Desired
    <3> QED BY <3>1, <3>2
  <2>3. obj' = [obj EXCEPT !.want = w]
    BY <1>0, <2>1, <2>2 DEF Object
  <2> QED BY <1>0, <2>2, <2>3 DEF Object
<1>3. CASE UserSetsAbandon \/ UserUnsetsAbandon
  <2>1. PICK b \in BOOLEAN: obj' = [obj EXCEPT !.abandon = b]
    BY <1>3 DEF UserSetsAbandon, UserUnsetsAbandon, Edited, Overwrite
  <2> QED BY <1>0, <2>1 DEF Object
<1>4. CASE UserSetsActuation
  <2>1. PICK a \in {"", "Reconciling", "Paused", "invalid"}:
          obj' = [obj EXCEPT !.actuation = a]
    BY <1>4, DirectAssumption DEF UserSetsActuation, Edited, Overwrite
  <2> QED BY <1>0, <2>1 DEF Object
<1> QED BY <1>1, <1>2, <1>3, <1>4

\* An object after its deletion was asked for.
LEMMA RemovedShape ==
  ASSUME IndInv, NEW by, Removed(by)
  PROVE  \/ obj' = NoObject
         \/ /\ obj # NoObject /\ obj' \in Object
            /\ obj'.cond = obj.cond /\ obj'.obsGen = obj.obsGen
            /\ obj'.gen = obj.gen + 1
            /\ ~obj.deleting /\ obj'.deleting
<1>0. obj \in Object /\ obj # NoObject /\ obj.gen \in Nat /\ ~obj.deleting
  BY DEF IndInv, TypeOK, Object, Removed
<1>1. obj' = NoObject \/ obj' = [obj EXCEPT !.deleting = TRUE, !.gen = obj.gen + 1]
  BY DEF Removed, Edited, Overwrite
<1>2. CASE obj' = [obj EXCEPT !.deleting = TRUE, !.gen = obj.gen + 1]
  <2>1. PICK g \in Nat: g = obj.gen + 1
    BY <1>0
  <2>2. obj' = [obj EXCEPT !.deleting = TRUE, !.gen = g]
    BY <1>2, <2>1
  <2>3. obj' \in Object /\ obj'.cond = obj.cond /\ obj'.obsGen = obj.obsGen
        /\ obj'.deleting /\ obj'.gen = g
    BY <1>0, <2>2 DEF Object
  <2> QED BY <1>0, <2>1, <2>3
<1> QED BY <1>1, <1>2

\* An object after the defender's write.
LEMMA DefenderShape ==
  ASSUME IndInv, DefenderUpdate
  PROVE  /\ obj # NoObject /\ dd.u = obj
         /\ \/ obj' = NoObject
            \/ /\ obj' \in Object
               /\ obj'.cond = obj.cond /\ obj'.obsGen = obj.obsGen
               /\ obj'.gen = obj.gen /\ obj'.want = obj.want
               /\ obj'.deleting = obj.deleting
               /\ OutOfSync(dd.u, obj') /\ queue'.now
<1> DEFINE new == Defended(dd.u, dd.uninstalling)
<1>1. dd.u \in Object /\ dd.u = obj /\ obj # NoObject /\ obj' = Stored(new)
      /\ Defender \in obj.fins
      /\ Enqueue(Stored(new) # NoObject /\ OutOfSync(dd.u, new))
  BY DEF DefenderUpdate, Write, IndInv, DefenderInv, Defending
<1>2. /\ new \in Object /\ new.cond = obj.cond /\ new.obsGen = obj.obsGen
      /\ new.gen = obj.gen /\ new.want = obj.want
      /\ new.deleting = obj.deleting /\ Defender \notin new.fins
  BY <1>1 DEF Defended, Object, Finalizers
<1> HIDE DEF new
<1>3. OutOfSync(dd.u, new)
  BY <1>1, <1>2 DEF OutOfSync
<1>4. Stored(new) # NoObject => queue'.now
  BY <1>1, <1>3 DEF Enqueue, IndInv, TypeOK, QueueState
<1> QED BY <1>1, <1>2, <1>3, <1>4 DEF Stored

\* The status stays honest in every step.
LEMMA StatusStep ==
  ASSUME IndInv, StatusInv, [Next]_vars
  PROVE  StatusInv'
<1>1. CASE Reconcile
  BY <1>1, StatusMoves, StatusFinalizers, StatusApply, StatusWrites,
     StatusResourceID, StatusRest
  DEF Reconcile
<1>2. CASE Restart
  BY <1>2, StatusMoves
<1>3. CASE UNCHANGED <<obj, ctl, confirmed>>
  BY <1>3, StatusOthers
<1>4. CASE DefenderUpdate
  <2>1. UNCHANGED <<ctl, confirmed>> BY <1>4 DEF DefenderUpdate, ghosts
  <2> QED BY <1>4, <2>1, DefenderShape, StatusOthers
<1>5. CASE UserCreates
  <2>1. UNCHANGED <<ctl, confirmed>> BY <1>5 DEF UserCreates
  <2>2. PICK d \in Desired, i \in IDs \union {NoID}:
          obj' = [want |-> d, id |-> i, gen |-> 1, fins |-> {},
                  deleting |-> FALSE, abandon |-> FALSE, actuation |-> "",
                  obsGen |-> 0, cond |-> "None"]
    BY <1>5 DEF UserCreates, Overwrite, IndInv, TypeOK
  <2>3. obj' \in Object
    BY <2>2 DEF Object, Conditions
  <2>4. obj'.cond = "None" /\ obj'.obsGen = 0 /\ obj'.gen = 1
        /\ obj'.deleting = FALSE
    BY <2>2
  <2> QED BY <2>1, <2>3, <2>4, StatusOthers
<1>6. CASE UserEditsSpec \/ UserEditsLabels \/ UserSetsAbandon
           \/ UserUnsetsAbandon \/ UserSetsActuation
  <2>1. UNCHANGED <<ctl, confirmed>> /\ obj # NoObject
    BY <1>6 DEF UserEditsSpec, UserEditsLabels, UserSetsAbandon,
         UserUnsetsAbandon, UserSetsActuation, ghosts
  <2> QED BY <1>6, <2>1, OthersShape, StatusOthers
<1>7. CASE UserDeletes \/ CRDFinalization
  <2>1. PICK by: Removed(by)
    BY <1>7 DEF UserDeletes, CRDFinalization
  <2>2. UNCHANGED <<ctl, confirmed>> BY <2>1 DEF Removed
  <2> QED BY <2>1, <2>2, RemovedShape, StatusOthers
<1>8. CASE TimerFires \/ DefenderGet \/ IsUninstalling \/ DefenderFails
           \/ Uninstall \/ AdminConfigures \/ Drift \/ UNCHANGED vars
  BY <1>3, <1>8
  DEF TimerFires, DefenderGet, IsUninstalling, DefenderFails, Uninstall,
      AdminConfigures, Drift, vars, ghosts
<1> QED
  BY <1>1, <1>2, <1>4, <1>5, <1>6, <1>7, <1>8 DEF Next, Defend, Users

\* Initially there is nothing to say.
LEMMA StatusInit == Init => StatusInv
BY IdleState DEF Init, StatusInv, Honest, CopyAgrees, StepAgrees, Busy

\* The status the controller has written is true as long as it is believed:
\* neither a stale copy nor a lost answer makes the object look up to date.
THEOREM StatusIsTrue == Spec => []UpToDateIsTrue
<1>1. Init => StatusInv
  BY StatusInit
<1>2. IndInv /\ StatusInv /\ [Next]_vars => StatusInv'
  BY StatusStep
<1>3. StatusInv => UpToDateIsTrue
  BY DEF StatusInv, Honest, Fresh, UpToDateIsTrue
<1> QED BY <1>1, <1>2, <1>3, Invariance, PTL DEF Spec

\* ShouldSkip never leaves an object alone that is being deleted.
THEOREM DeletionIsSeen == Spec => []DeletionIsNotSkipped
<1>1. Init => StatusInv
  BY StatusInit
<1>2. IndInv /\ StatusInv /\ [Next]_vars => StatusInv'
  BY StatusStep
<1>3. StatusInv => DeletionIsNotSkipped
  BY DEF StatusInv, Honest, Fresh, DeletionIsNotSkipped, ShouldSkip
<1> QED BY <1>1, <1>2, <1>3, Invariance, PTL DEF Spec

-----------------------------------------------------------------------------
\* Something is due, or will be.
Due == queue.now \/ queue.timer

\* A reconcile that ends with an error is due again; one that ends well has a
\* timer, unless its copy waits for the defender.
LEMMA EndsDue ==
  ASSUME TypeOK, ~IntervalZero, NEW u
  PROVE  /\ Retry => Due' /\ ~Busy'
         /\ Finish(u) => ~Busy' /\ (Due => Due') /\ (~Awaited(u) => Due')
<1>1. Retry => Due' /\ ~Busy'
  BY IdleState DEF Retry, Enqueue, Due, Busy, TypeOK, QueueState
<1>2. Finish(u) => ~Busy' /\ (Due => Due') /\ (~Awaited(u) => Due')
  BY IdleState DEF Finish, Due, Busy, Awaited, TypeOK, QueueState
<1> QED BY <1>1, <1>2

\* A reconcile that ends, knowing what its copy says.
LEMMA EndWakes ==
  ASSUME IndInv, WakeInv, ~IntervalZero, Busy, NEW u,
         Awaited(u) => Awaited(ctl.u),
         obj' # NoObject => obj # NoObject /\ (Awaited(obj) => Awaited(obj')),
         Retry \/ Finish(u)
  PROVE  WakeInv'
<1>1. TypeOK BY DEF IndInv
<1>2. Due' \/ (Finish(u) /\ Awaited(u) /\ ~Due)
  BY <1>1, EndsDue
<1>3. ~Busy' BY <1>1, EndsDue
<1>4. CASE Due'
  BY <1>3, <1>4 DEF WakeInv, Due
<1>5. CASE Awaited(u) /\ ~Due
  BY <1>3, <1>5 DEF WakeInv, Due
<1> QED BY <1>2, <1>4, <1>5

\* A reconcile that goes on without news about the defender.
LEMMA GoesOnWakes ==
  ASSUME WakeInv, ~IntervalZero, Busy, Busy', Due => Due',
         Awaited(ctl'.u) => Awaited(ctl.u),
         obj' # NoObject => obj # NoObject /\ (Awaited(obj) => Awaited(obj'))
  PROVE  WakeInv'
BY DEF WakeInv, Due

\* What the reconciler's own writes do not do: take the defender's finalizer
\* away, or bring an object back.
LEMMA OwnWrite ==
  ASSUME IndInv, Busy, ctl.u \in Object, NEW new \in Object,
         new.deleting = ctl.u.deleting, new.fins = ctl.u.fins,
         Write("ctl", new) \/ WriteFails("ctl", new)
  PROVE  obj' # NoObject => obj # NoObject /\ (Awaited(obj) => Awaited(obj'))
<1>1. UNCHANGED obj \/ (obj # NoObject /\ obj = ctl.u /\ obj' = new)
  BY Writes
<1> QED BY <1>1 DEF Awaited

LEMMA OwnSave ==
  ASSUME IndInv, Busy, ctl.u \in Object, ctl.id \in IDs \union {NoID},
         NEW c \in Conditions, NEW new,
         new = Status(Carrying(ctl.u, ctl.id), c) \/ new = Status(ctl.u, c),
         Write("ctl", new) \/ WriteFails("ctl", new)
  PROVE  obj' # NoObject => obj # NoObject /\ (Awaited(obj) => Awaited(obj'))
<1>1. /\ new \in Object
      /\ new.deleting = ctl.u.deleting /\ new.fins = ctl.u.fins
  BY Saves, Fields
<1> QED BY <1>1, OwnWrite

LEMMA OwnWrites ==
  ASSUME IndInv, \/ PausedFinalizers \/ EnsureFinalizers \/ UpdateStatus
                 \/ UpdateAPIServer \/ HandleUpToDate \/ HandleFailed
                 \/ MarkDeleted \/ Unfinalize \/ SetSpecResourceID
  PROVE  /\ Busy /\ ctl.u \in Object /\ ctl \in CtlState
         /\ obj' # NoObject => obj # NoObject /\ (Awaited(obj) => Awaited(obj'))
<1>1. Busy /\ ctl.u \in Object /\ ctl \in CtlState
      /\ ctl.id \in IDs \union {NoID}
  BY DEF IndInv, CopyInv, Busy, TypeOK, CtlState, PausedFinalizers,
         EnsureFinalizers, UpdateStatus, UpdateAPIServer, HandleUpToDate,
         HandleFailed, MarkDeleted, Unfinalize, SetSpecResourceID
<1>2. CASE PausedFinalizers \/ EnsureFinalizers
  <2> DEFINE new == WithFinalizers(ctl.u)
  <2>1. "None" \in Conditions BY DEF Conditions
  <2>2. new \in Object /\ new.deleting = ctl.u.deleting /\ new.fins = Finalizers
    BY <1>1, <2>1, Fields
  <2>3. UNCHANGED obj \/ Write("ctl", new) \/ WriteFails("ctl", new)
    BY <1>2 DEF PausedFinalizers, EnsureFinalizers
  <2> HIDE DEF new
  <2>4. UNCHANGED obj \/ (obj # NoObject /\ obj = ctl.u /\ obj' = new)
    BY <1>1, <2>2, <2>3, Writes
  <2> QED BY <1>1, <2>2, <2>4 DEF Awaited, Finalizers
<1>3. CASE UpdateStatus \/ HandleUpToDate \/ HandleFailed \/ MarkDeleted
           \/ SetSpecResourceID
  <2>2. CASE UpdateStatus
    <3>1. ReadyCondition(ctl.u, ctl.cond) \in Conditions
      BY <1>1 DEF ReadyCondition, CtlState, Object
    <3>2. PICK new: /\ new = Status(Carrying(ctl.u, ctl.id),
                                    ReadyCondition(ctl.u, ctl.cond))
                    /\ Write("ctl", new) \/ WriteFails("ctl", new)
      BY <2>2 DEF UpdateStatus
    <3> QED BY <1>1, <3>1, <3>2, OwnSave
  <2>3. CASE HandleUpToDate
    <3>1. "UpToDate" \in Conditions BY DEF Conditions
    <3>2. PICK new: /\ new = Status(Carrying(ctl.u, ctl.id), "UpToDate")
                    /\ Write("ctl", new) \/ WriteFails("ctl", new)
      BY <2>3 DEF HandleUpToDate
    <3> QED BY <1>1, <3>1, <3>2, OwnSave
  <2>4. CASE HandleFailed
    <3>1. ctl.cond \in Conditions
      BY <2>4 DEF HandleFailed, IndInv, StepInv, Trouble, Conditions
    <3>2. PICK new: /\ new = Status(Carrying(ctl.u, ctl.id), ctl.cond)
                    /\ Write("ctl", new) \/ WriteFails("ctl", new)
      BY <2>4 DEF HandleFailed, WriteFails
    <3> QED BY <1>1, <3>1, <3>2, OwnSave
  <2>5. CASE MarkDeleted
    <3>1. "Deleted" \in Conditions BY DEF Conditions
    <3>2. PICK new: /\ new = Status(ctl.u, "Deleted")
                    /\ Write("ctl", new) \/ WriteFails("ctl", new)
      BY <2>5 DEF MarkDeleted
    <3> QED BY <1>1, <3>1, <3>2, OwnSave
  <2>6. CASE SetSpecResourceID
    <3>1. ctl.id \in IDs BY <1>1, <2>6 DEF SetSpecResourceID
    <3>2. PICK new : new = WithResourceID(ctl.u, ctl.id) OBVIOUS
    <3>3. /\ new \in Object
          /\ new.deleting = ctl.u.deleting /\ new.fins = ctl.u.fins
      BY <1>1, <3>1, <3>2, SavesInSpec
    <3>4. Write("ctl", new) \/ WriteFails("ctl", new)
      BY <2>6, <3>2 DEF SetSpecResourceID
    <3> QED BY <1>1, <3>3, <3>4, OwnWrite
  <2> QED BY <1>3, <2>2, <2>3, <2>4, <2>5, <2>6
<1>4. CASE UpdateAPIServer
  BY <1>1, <1>4, Writes DEF UpdateAPIServer
<1>5. CASE Unfinalize
  <2> DEFINE new == [ctl.u EXCEPT !.fins = ctl.u.fins \ {Controller}]
  <2>1. Passed(ctl.u) BY <1>5 DEF Unfinalize, IndInv, StepInv
  <2>2. Stored(new) = NoObject
    BY <1>1, <2>1 DEF Passed, Object, Finalizers, Stored
  <2> QED BY <1>1, <1>5, <2>2 DEF Unfinalize, Write, WriteFails
<1> QED BY <1>2, <1>3, <1>4, <1>5

\* The reconciler loses no wake-up of its own.
LEMMA ReconcileWakes ==
  ASSUME IndInv, WakeInv, ~IntervalZero, Reconcile
  PROVE  WakeInv'
<1> USE IdleState
<1>0. TypeOK /\ ctl \in CtlState BY DEF IndInv, TypeOK
<1>1. CASE Get
  <2>1. CASE obj = NoObject
    BY <1>1, <2>1 DEF Get, WakeInv
  <2>2. CASE obj # NoObject
    <3>1. ~ShouldSkip(obj) BY DEF ShouldSkip
    <3>2. ctl' = [Idle EXCEPT !.step = "cc", !.u = obj] /\ UNCHANGED obj
      BY <1>1, <2>2, <3>1 DEF Get
    <3>3. ctl'.step = "cc" /\ ctl'.u = obj
      BY <3>2 DEF Idle
    <3> QED BY <3>2, <3>3 DEF WakeInv, Busy
  <2> QED BY <2>1, <2>2
<1>2. CASE FetchCC \/ Gate \/ ApplyDefaults \/ Find \/ Create \/ Update
           \/ SetLastModifiedCookie \/ Delete
  <2>1. UNCHANGED obj /\ Busy
    BY <1>2 DEF FetchCC, Gate, ApplyDefaults, Find, Create, Update,
         SetLastModifiedCookie, Delete, Touch, TouchFails, Busy
  <2>2. \/ Retry \/ Finish(ctl.u)
        \/ UNCHANGED queue /\ ctl'.u = ctl.u /\ ctl'.step # "idle"
    <3>1. CASE Gate
      BY <1>0, <3>1 DEF Gate, Report, Goto, CtlState
    <3>2. CASE Find
      BY <1>0, <3>2 DEF Find, AfterFind, Report, CtlState
    <3>3. CASE Create
      BY <1>0, <3>3 DEF Create, Publish, Report, CtlState
    <3>4. CASE Update
      BY <1>0, <3>4 DEF Update, Publish, Report, CtlState
    <3>5. CASE Delete
      BY <1>0, <3>5 DEF Delete, Report, Goto, CtlState
    <3>6. CASE FetchCC \/ ApplyDefaults \/ SetLastModifiedCookie
      BY <1>0, <3>6 DEF FetchCC, ApplyDefaults, SetLastModifiedCookie,
         ReportsNoID, Goto, CtlState
    <3> QED BY <1>2, <3>1, <3>2, <3>3, <3>4, <3>5, <3>6
  <2>3. CASE Retry \/ Finish(ctl.u)
    BY <2>1, <2>3, EndWakes
  <2>4. CASE UNCHANGED queue /\ ctl'.u = ctl.u /\ ctl'.step # "idle"
    BY <2>1, <2>4, GoesOnWakes DEF Busy, Due
  <2> QED BY <2>2, <2>3, <2>4
<1>3. CASE \/ PausedFinalizers \/ EnsureFinalizers \/ UpdateStatus
           \/ UpdateAPIServer \/ HandleUpToDate \/ HandleFailed
           \/ MarkDeleted \/ Unfinalize \/ SetSpecResourceID
  <2>1. /\ Busy /\ ctl.u \in Object /\ ctl.id \in IDs \union {NoID}
        /\ obj' # NoObject => obj # NoObject /\ (Awaited(obj) => Awaited(obj'))
    BY <1>0, <1>3, OwnWrites DEF CtlState
  <2>2. /\ \A c \in Conditions: Awaited(Status(ctl.u, c)) => Awaited(ctl.u)
        /\ ~ctl.u.deleting => ~Awaited(WithFinalizers(ctl.u))
    <3>1. "None" \in Conditions BY DEF Conditions
    <3> QED BY <2>1, <3>1, Fields DEF Awaited
  <2>s. ASSUME NEW c \in Conditions, NEW new,
               new = Status(Carrying(ctl.u, ctl.id), c)
        PROVE  Awaited(new) => Awaited(ctl.u)
    BY <2>1, <2>s, Saves DEF Awaited
  <2>3. \E u: /\ Awaited(u) => Awaited(ctl.u)
              /\ \/ Retry \/ Finish(u)
                 \/ (Due => Due') /\ ctl'.u = u /\ ctl'.step # "idle"
    <3> USE DEF Due
    <3>1. CASE PausedFinalizers
      BY <3>1 DEF PausedFinalizers
    <3>2. CASE EnsureFinalizers
      <4>1. ~ctl.u.deleting BY <3>2 DEF EnsureFinalizers, IndInv, StepInv
      <4> QED BY <1>0, <2>2, <3>2, <4>1 DEF EnsureFinalizers, Goto, CtlState
    <3>3. CASE UpdateStatus
      <4> DEFINE c == ReadyCondition(ctl.u, ctl.cond)
                 new == Status(Carrying(ctl.u, ctl.id), c)
      <4>1. c \in Conditions
        BY <1>0, <2>1 DEF ReadyCondition, CtlState, Object
      <4>2. Awaited(new) => Awaited(ctl.u) BY <2>s, <4>1
      <4>3. \/ Retry \/ Finish(new)
            \/ UNCHANGED queue /\ ctl'.u = new /\ ctl'.step # "idle"
            \/ UNCHANGED queue /\ ctl'.u = ctl.u /\ ctl'.step # "idle"
        BY <1>0, <3>3 DEF UpdateStatus, Done, Report, CtlState
      <4> HIDE DEF new
      <4> QED BY <4>2, <4>3
    <3>4. CASE UpdateAPIServer
      BY <1>0, <3>4 DEF UpdateAPIServer, Goto, CtlState
    <3>5. CASE HandleUpToDate
      <4>1. "UpToDate" \in Conditions BY DEF Conditions
      <4>2. PICK new: /\ new = Status(Carrying(ctl.u, ctl.id), "UpToDate")
                      /\ Retry \/ Finish(new)
        BY <3>5 DEF HandleUpToDate, Done
      <4> QED BY <2>s, <4>1, <4>2
    <3>6. CASE HandleFailed
      BY <3>6 DEF HandleFailed
    <3>7. CASE MarkDeleted
      BY <1>0, <2>2, <3>7 DEF MarkDeleted, CtlState, Conditions
    <3>8. CASE Unfinalize
      BY <3>8 DEF Unfinalize
    <3>9. CASE SetSpecResourceID
      <4>1. ctl.id \in IDs /\ queue \in QueueState
        BY <1>0, <2>1, <3>9 DEF SetSpecResourceID, TypeOK
      <4>2. PICK new: new = WithResourceID(ctl.u, ctl.id) OBVIOUS
      <4>3. Awaited(new) => Awaited(ctl.u)
        BY <2>1, <4>1, <4>2, SavesInSpec DEF Awaited
      <4>4. Due => Due'
        BY <3>9, <4>1 DEF SetSpecResourceID, Enqueue, QueueState
      <4>5. ctl'.step # "idle" /\ (ctl'.u = new \/ ctl'.u = ctl.u)
        BY <1>0, <3>9, <4>2 DEF SetSpecResourceID, ReportsNoID, CtlState
      <4> QED BY <4>3, <4>4, <4>5
    <3> QED BY <1>3, <3>1, <3>2, <3>3, <3>4, <3>5, <3>6, <3>7, <3>8, <3>9
  <2>4. PICK u: /\ Awaited(u) => Awaited(ctl.u)
                /\ \/ Retry \/ Finish(u)
                   \/ (Due => Due') /\ ctl'.u = u /\ ctl'.step # "idle"
    BY <2>3
  <2>5. CASE Retry \/ Finish(u)
    BY <2>1, <2>4, <2>5, EndWakes
  <2>6. CASE (Due => Due') /\ ctl'.u = u /\ ctl'.step # "idle"
    BY <2>1, <2>4, <2>6, GoesOnWakes DEF Busy
  <2> QED BY <2>4, <2>5, <2>6
<1> QED BY <1>1, <1>2, <1>3 DEF Reconcile

\* Nor is one lost in any other step.
LEMMA WakeStep ==
  ASSUME IndInv, WakeInv, [Next]_vars
  PROVE  WakeInv'
<1> USE IdleState
<1>0. CASE IntervalZero
  BY <1>0 DEF WakeInv
<1>q. queue \in QueueState BY DEF IndInv, TypeOK
<1>1. CASE ~IntervalZero /\ Reconcile
  BY <1>1, ReconcileWakes
<1>2. CASE TimerFires \/ UserCreates
  <2>1. CASE TimerFires
    <3>1. queue'.now
      BY <2>1, <1>q DEF TimerFires, QueueState
    <3> QED BY <3>1 DEF WakeInv
  <2>2. CASE UserCreates
    <3>1. queue'.now
      BY <2>2, <1>q DEF UserCreates, Enqueue, QueueState
    <3> QED BY <3>1 DEF WakeInv
  <2> QED BY <1>2, <2>1, <2>2
<1>3. CASE Restart
  <2>1. obj' = obj /\ (obj # NoObject => queue'.now)
    BY <1>3 DEF Restart
  <2> QED BY <2>1 DEF WakeInv
<1>4. CASE DefenderUpdate
  <2>1. obj' = NoObject \/ queue'.now
    BY <1>4, DefenderShape
  <2> QED BY <2>1 DEF WakeInv
<1>5. CASE UserEditsSpec \/ UserEditsLabels \/ UserSetsAbandon
           \/ UserUnsetsAbandon \/ UserSetsActuation
  <2>1. UNCHANGED ctl /\ obj # NoObject /\ (queue.now => queue'.now)
        /\ queue'.timer = queue.timer
    BY <1>5, <1>q DEF UserEditsSpec, UserEditsLabels, UserSetsAbandon,
         UserUnsetsAbandon, UserSetsActuation, Edited, Enqueue, QueueState
  <2>2. obj'.fins = obj.fins /\ obj'.deleting = obj.deleting
    BY <1>5, <2>1, OthersShape
  <2> QED BY <2>1, <2>2 DEF WakeInv, Busy, Awaited
<1>6. CASE UserDeletes \/ CRDFinalization
  <2>1. PICK by: Removed(by)
    BY <1>6 DEF UserDeletes, CRDFinalization
  <2>2. CASE obj' = NoObject
    BY <2>2 DEF WakeInv
  <2>3. CASE obj' # NoObject
    <3>1. obj # NoObject /\ ~obj.deleting /\ obj'.deleting
      BY <2>1, <2>3, RemovedShape
    <3>2. queue'.now
      BY <1>q, <2>1, <2>3, <3>1
      DEF Removed, Edited, Overwrite, Enqueue, OutOfSync, QueueState
    <3> QED BY <3>2 DEF WakeInv
  <2> QED BY <2>2, <2>3
<1>7. CASE DefenderGet \/ IsUninstalling \/ DefenderFails \/ Uninstall
           \/ AdminConfigures \/ Drift \/ UNCHANGED vars
  <2>1. UNCHANGED <<obj, ctl, queue>>
    BY <1>7 DEF DefenderGet, IsUninstalling, DefenderFails, Uninstall,
         AdminConfigures, Drift, vars
  <2> QED BY <2>1 DEF WakeInv, Busy, Awaited
<1> QED
  BY <1>0, <1>1, <1>2, <1>3, <1>4, <1>5, <1>6, <1>7, DirectAssumption
  DEF Next, Defend, Users

\* The reconciler forgets no object: the timer it does not set on the
\* strength of a stale copy is never one that would have been needed.
THEOREM NoObjectIsForgotten == Spec => []NeverForgotten
<1>1. Init => WakeInv
  BY DEF Init, WakeInv
<1>2. IndInv /\ WakeInv /\ [Next]_vars => WakeInv'
  BY WakeStep
<1>3. WakeInv => NeverForgotten
  BY DEF WakeInv, NeverForgotten, Busy, Awaited
<1> QED BY <1>1, <1>2, <1>3, Invariance, PTL DEF Spec

=============================================================================
