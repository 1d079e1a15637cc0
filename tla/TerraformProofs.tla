--------------------------- MODULE TerraformProofs ---------------------------
(***************************************************************************)
(* The TF reconciler keeps track of the resources it makes, recreates none *)
(* and destroys none unasked: for all specs, sources of IDs, numbers of    *)
(* resources and faults.                                                   *)
(***************************************************************************)
EXTENDS TerraformRefinement, TLAPS

Lived == [id: 0..MaxMade, spec: Specs \union {NoSpec}]

LEMMA Runs ==
  /\ NoLive \in Lived /\ Idle \in [step: Steps, u: Object \union {NoObject},
                                   live: Lived]
  /\ Idle.step = "idle" /\ NoLive.id = 0
BY TerraformAssumption DEF NoLive, Idle, Lived, Steps

\* What FetchLiveState finds has an ID of its own, and that of the copy if
\* the ID is not the name.
LEMMA Fetched ==
  ASSUME TypeOK, NEW u \in Object
  PROVE  /\ \A live \in FetchLiveState(u):
              /\ live \in Lived /\ live # NoLive /\ live.id # 0
              /\ live.id \in Findable(u)
         /\ FetchLiveState(u) = {} <=> Findable(u) = {}
<1>1. FetchLiveState(u) = {[id |-> i, spec |-> gcp[i]]: i \in Findable(u)}
  BY DEF FetchLiveState, Findable
<1>2. \A i \in Findable(u): i \in 1..MaxMade /\ gcp[i] \in Specs
  BY DEF Findable, Lives, TypeOK
<1>3. ASSUME NEW i \in Findable(u)
      PROVE  /\ [id |-> i, spec |-> gcp[i]] \in Lived
             /\ [id |-> i, spec |-> gcp[i]].id # 0
  BY <1>2, TerraformAssumption DEF Lived
<1>4. \A live \in FetchLiveState(u):
        live \in Lived /\ live.id # 0 /\ live.id \in Findable(u)
  BY <1>1, <1>3
<1>5. FetchLiveState(u) = {} <=> Findable(u) = {}
  BY <1>1
<1>6. \A live \in FetchLiveState(u): live # NoLive
  BY <1>4, Runs
<1> QED BY <1>4, <1>5, <1>6

-----------------------------------------------------------------------------
\* A reconcile that has ended leaves only what is true of everyone.
LEMMA Ends ==
  ASSUME TypeOK, TrackInv, run' = Idle, UNCHANGED <<obj, current, source>>,
         UNCHANGED world
  PROVE  TypeOK' /\ TrackInv'
<1>1. TypeOK'
  BY Runs DEF TypeOK, world, Lived
<1>2. CopyInv' /\ UpdateInv' /\ DeleteInv'
  BY Runs DEF CopyInv, UpdateInv, DeleteInv
<1>3. Accounted' /\ ObjectInv' /\ WorldInv'
  BY DEF TrackInv, world, Accounted, ObjectInv, WorldInv, Lives, Tracked
<1> QED BY <1>1, <1>2, <1>3 DEF TrackInv

\* A step that writes nothing has only its own preconditions to see to.
LEMMA Moves ==
  ASSUME TypeOK, TrackInv, run.step # "idle", NEW step \in Steps \ {"idle"},
         NEW live \in Lived,
         run' = [run EXCEPT !.step = step, !.live = live],
         UNCHANGED <<obj, current, source>>, UNCHANGED world,
         UpdateInv' /\ DeleteInv'
  PROVE  TypeOK' /\ TrackInv'
<1>1. run'.step = step /\ run'.u = run.u /\ run'.live = live
  BY DEF TypeOK
<1>2. TypeOK'
  BY DEF TypeOK, world, Lived
<1>3. CopyInv'
  BY <1>1 DEF TrackInv, CopyInv
<1>4. Accounted' /\ ObjectInv' /\ WorldInv'
  BY DEF TrackInv, world, Accounted, ObjectInv, WorldInv, Lives, Tracked
<1> QED BY <1>2, <1>3, <1>4 DEF TrackInv

\* A failure may be reported from any step.
LEMMA Reporting ==
  ASSUME TypeOK, TrackInv, run.step # "idle", Goto("report"),
         UNCHANGED <<obj, current, source>>, UNCHANGED world
  PROVE  TypeOK' /\ TrackInv'
<1>1. /\ run' = [run EXCEPT !.step = "report", !.live = run.live]
      /\ run.live \in Lived /\ run'.step = "report"
  BY DEF Goto, TypeOK, Lived
<1>2. UpdateInv' /\ DeleteInv'
  BY <1>1 DEF UpdateInv, DeleteInv
<1> QED BY <1>1, <1>2, Moves DEF Steps

\* A write of the reconcile is made with the object as it is, and takes no
\* finalizer away.
LEMMA Written ==
  ASSUME TypeOK, TrackInv, run.step # "idle", current,
         NEW new \in Object, obj' = new,
         new.deleting = obj.deleting,
         new.fins = obj.fins \/ (new.fins = Finalizers /\ ~obj.deleting),
         UNCHANGED <<current, source>>, UNCHANGED world,
         \/ run' = Idle
         \/ \E step \in Steps \ {"idle"}:
              /\ run' = [run EXCEPT !.step = step, !.u = new]
              /\ UpdateInv' /\ DeleteInv'
  PROVE  TypeOK' /\ TrackInv'
<1>1. run.u = obj /\ obj \in Object
  BY DEF TrackInv, CopyInv, TypeOK
<1>2. Accounted' /\ ObjectInv' /\ WorldInv'
  BY <1>1, ObjectAssumption DEF TrackInv, world, Accounted, ObjectInv, WorldInv, Lives, Tracked,
     Finalizers
<1>3. CASE run' = Idle
  <2>1. TypeOK'
    BY <1>3, Runs DEF TypeOK, world, Lived
  <2>2. CopyInv' /\ UpdateInv' /\ DeleteInv'
    BY <1>3, Runs DEF CopyInv, UpdateInv, DeleteInv
  <2> QED BY <1>2, <2>1, <2>2 DEF TrackInv
<1>4. ASSUME NEW step \in Steps \ {"idle"},
             run' = [run EXCEPT !.step = step, !.u = new],
             UpdateInv' /\ DeleteInv'
      PROVE  TypeOK' /\ TrackInv'
  <2>1. TypeOK'
    BY <1>4 DEF TypeOK, world
  <2>2. run'.u = new /\ run'.step = step
    BY <1>4 DEF TypeOK
  <2>3. CopyInv'
    BY <2>2, ObjectAssumption DEF CopyInv
  <2> QED BY <1>2, <1>4, <2>1, <2>3 DEF TrackInv
<1> QED BY <1>3, <1>4

\* The writes of others conflict with the reconcile's, and leave it the
\* finalizer and the ID that it has seen.
LEMMA OthersWrite ==
  ASSUME TypeOK, TrackInv, obj' \in Object \union {NoObject}, ObjectInv',
         obj # NoObject /\ Controller \in obj.fins =>
           /\ obj' # NoObject /\ Controller \in obj'.fins /\ obj'.id = obj.id
           /\ obj.deleting => obj'.deleting,
         current' = FALSE, UNCHANGED <<run, source>>, UNCHANGED world
  PROVE  TypeOK' /\ TrackInv'
<1>1. TypeOK'
  BY DEF TypeOK, world
<1>2. Accounted' /\ WorldInv'
  BY DEF TrackInv, world, Accounted, WorldInv, Lives, Tracked
<1>3. CopyInv'
  BY DEF TrackInv, CopyInv
<1>4. UpdateInv' /\ DeleteInv'
  BY DEF TrackInv, world, UpdateInv, DeleteInv, Findable, Lives, RequiresNew
<1> QED BY <1>1, <1>2, <1>3, <1>4 DEF TrackInv

\* Resources that go leave less to find.
LEMMA LessLives ==
  ASSUME TypeOK, TrackInv, gcp' \in [1..MaxMade -> Specs \union {NoSpec}],
         Lives' \subseteq Lives, parent' = "gone" => Lives' = {},
         parent' \in {"ready", "unready", "gone", "abandoned"},
         paused' \in BOOLEAN,
         UNCHANGED <<run, source, obj, current, made, waived>>
  PROVE  TypeOK' /\ TrackInv'
<1>1. TypeOK'
  BY DEF TypeOK
<1>2. Accounted' /\ ObjectInv' /\ CopyInv' /\ WorldInv'
  BY DEF TrackInv, Accounted, ObjectInv, CopyInv, WorldInv, Tracked
<1>3. Findable(run.u)' \subseteq Findable(run.u)
  BY DEF Findable
<1>4. UpdateInv' /\ DeleteInv'
  BY <1>3 DEF TrackInv, UpdateInv, DeleteInv, RequiresNew
<1> QED BY <1>1, <1>2, <1>4 DEF TrackInv

-----------------------------------------------------------------------------
\* Steps of sync that only look.
LEMMA Looking ==
  ASSUME TypeOK, TrackInv, UNCHANGED source, Get \/ Gate \/ Fetch \/ FetchFails
  PROVE  TypeOK' /\ TrackInv'
<1>1. CASE Get
  <2>1. TypeOK'
    BY <1>1, Runs DEF Get, TypeOK, world, Steps, Lived
  <2>2. CopyInv' /\ UpdateInv' /\ DeleteInv'
    BY <1>1 DEF Get, CopyInv, UpdateInv, DeleteInv
  <2>3. Accounted' /\ ObjectInv' /\ WorldInv'
    BY <1>1
    DEF Get, TrackInv, world, Accounted, ObjectInv, WorldInv, Lives, Tracked
  <2> QED BY <2>1, <2>2, <2>3 DEF TrackInv
<1>2. CASE Gate
  <2>1. CASE run' = Idle
    BY <1>2, <2>1, Ends DEF Gate
  <2>2. CASE run' # Idle
    <3>1. PICK step \in {"pause", "sync"}:
            Goto(step) /\ (step = "pause" => ~run.u.deleting)
      BY <1>2, <2>2 DEF Gate
    <3>2. /\ run' = [run EXCEPT !.step = step, !.live = run.live]
          /\ run.live \in Lived /\ run'.step = step /\ run'.u = run.u
      BY <3>1 DEF Goto, TypeOK, Lived
    <3>3. UpdateInv' /\ DeleteInv'
      BY <3>1, <3>2 DEF UpdateInv, DeleteInv
    <3> QED BY <1>2, <3>2, <3>3, Moves DEF Gate, Steps
  <2> QED BY <2>1, <2>2
<1>3. CASE Fetch
  <2>1. CASE Goto("report")
    BY <1>3, <2>1, Reporting DEF Fetch
  <2>2. CASE ~Goto("report")
    <3>1. run.u \in Object
      BY <1>3 DEF Fetch, TrackInv, CopyInv, TypeOK
    <3>2. PICK live \in IF FetchLiveState(run.u) = {} THEN {NoLive}
                        ELSE FetchLiveState(run.u):
            /\ ~(HadBeenCreatedOnceAlready(run.u) /\ live = NoLive)
            /\ ~MutatesImmutableFields(live, run.u)
            /\ run' = [run EXCEPT !.step = "finalize", !.live = live]
      BY <1>3, <2>2 DEF Fetch
    <3>3. /\ live \in Lived
          /\ live = NoLive => Findable(run.u) = {}
          /\ live # NoLive => live.id # 0 /\ live.id \in Findable(run.u)
      BY <3>1, <3>2, Fetched, Runs
    <3>4. run'.step = "finalize" /\ run'.u = run.u /\ run'.live = live
      BY <3>2 DEF TypeOK
    <3>5. Findable(run.u)' = Findable(run.u) /\ UNCHANGED source
      BY <1>3, <3>4 DEF Fetch, world, Findable, Lives
    <3>6. source = "name" \/ run.u.id \in {0, live.id}
      BY <3>2, <3>3 DEF HadBeenCreatedOnceAlready, Findable
    <3>7. UpdateInv'
      BY <1>3, <3>2, <3>3, <3>4, <3>5, <3>6
      DEF Fetch, UpdateInv, MutatesImmutableFields, RequiresNew
    <3>8. DeleteInv'
      BY <3>4 DEF DeleteInv
    <3> QED BY <1>3, <3>2, <3>3, <3>7, <3>8, Moves DEF Fetch, Steps
  <2> QED BY <2>1, <2>2
<1>4. CASE FetchFails
  BY <1>4, Reporting DEF FetchFails
<1> QED BY <1>1, <1>2, <1>3, <1>4

\* What a write makes of the reconcile, if the object stays.
LEMMA WriteStep ==
  ASSUME TypeOK, TrackInv, NEW step \in Steps \ {"idle"}, NEW new \in Object,
         NEW next \in Steps, Writes(step, new, next),
         UNCHANGED source, UNCHANGED world,
         new.deleting = obj.deleting,
         new.fins = obj.fins \/ (new.fins = Finalizers /\ ~obj.deleting),
         next # "idle" /\ run' = [run EXCEPT !.step = next, !.u = new] =>
           UpdateInv' /\ DeleteInv'
  PROVE  TypeOK' /\ TrackInv'
<1>1. obj = run.u /\ obj \in Object /\ run.step = step
  BY DEF Writes, TrackInv, CopyInv, TypeOK
<1>2. new.deleting => new.fins # {}
  BY <1>1, ObjectAssumption DEF TrackInv, ObjectInv, Finalizers
<1>3. obj' = new
  BY <1>2 DEF Writes
<1>4. \/ run' = Idle
      \/ next # "idle" /\ run' = [run EXCEPT !.step = next, !.u = new]
  BY DEF Writes
<1> QED BY <1>1, <1>3, <1>4, Written DEF Writes

\* The writes of sync: finalizers, the status before Apply, the ID after.
LEMMA Updating ==
  ASSUME TypeOK, TrackInv, UNCHANGED source,
         \/ PauseFinalizes \/ EnsureFinalizers \/ HandleUpdating
         \/ RecordSpec \/ RecordStatus \/ Report
  PROVE  TypeOK' /\ TrackInv'
<1> USE DEF Steps
<1>1. ASSUME run.step # "idle"
      PROVE  run.u \in Object /\ (current => obj = run.u)
  BY <1>1 DEF TrackInv, CopyInv, TypeOK
<1>2. CASE PauseFinalizes
  <2> DEFINE new == [run.u EXCEPT !.fins = Finalizers]
  <2>1. Writes("pause", new, "idle") /\ obj = run.u /\ run.u \in Object
    BY <1>1, <1>2 DEF PauseFinalizes, Writes
  <2>2. /\ new \in Object /\ new.deleting = obj.deleting
        /\ new.fins = Finalizers /\ ~obj.deleting
    BY <2>1 DEF Object, Writes, TrackInv, UpdateInv
  <2> HIDE DEF new
  <2> QED BY <1>2, <2>1, <2>2, WriteStep DEF PauseFinalizes
<1>3. CASE EnsureFinalizers
  <2>1. run.step = "finalize" /\ run.u \in Object /\ ~run.u.deleting
    BY <1>1, <1>3 DEF EnsureFinalizers, TrackInv, UpdateInv
  <2>2. AfterFinalizers \in {"idle", "record", "updating"}
    BY DEF AfterFinalizers, UpToDateStep
  <2>3. CASE run' = Idle /\ UNCHANGED <<obj, current>>
    BY <1>3, <2>3, Ends DEF EnsureFinalizers
  <2>4. CASE /\ run.u.fins = Finalizers /\ UNCHANGED <<obj, current>>
             /\ run' = [run EXCEPT !.step = AfterFinalizers]
             /\ AfterFinalizers # "idle"
    <3>1. /\ run' = [run EXCEPT !.step = AfterFinalizers, !.live = run.live]
          /\ run.live \in Lived /\ run'.live = run.live
          /\ run'.step = AfterFinalizers /\ run'.u = run.u
      BY <2>4 DEF TypeOK, Lived
    <3>2. Findable(run.u)' = Findable(run.u) /\ UNCHANGED source
      BY <1>3, <3>1 DEF EnsureFinalizers, world, Findable, Lives
    <3>3. UpdateInv' /\ DeleteInv'
      BY <2>1, <2>2, <2>4, <3>1, <3>2
      DEF TrackInv, UpdateInv, DeleteInv, RequiresNew
    <3>4. AfterFinalizers \in Steps \ {"idle"}
      BY <2>2, <2>4
    <3>5. UNCHANGED <<obj, current>> /\ UNCHANGED world
      BY <1>3, <2>4 DEF EnsureFinalizers
    <3>6. run.step # "idle"
      BY <2>1
    <3> HIDE DEF Steps
    <3> QED BY <3>1, <3>3, <3>4, <3>5, <3>6, Moves
  <2>5. CASE Writes("finalize", [run.u EXCEPT !.fins = Finalizers],
                    AfterFinalizers)
    <3> DEFINE new == [run.u EXCEPT !.fins = Finalizers]
    <3>1. /\ new \in Object /\ new.deleting = run.u.deleting /\ new.id = run.u.id
          /\ new.fins = Finalizers /\ new.spec = run.u.spec
          /\ obj = run.u
      BY <1>1, <2>1, <2>5 DEF Object, Writes
    <3>2. Writes("finalize", new, AfterFinalizers)
      BY <2>5
    <3> HIDE DEF new
    <3>3. ASSUME AfterFinalizers # "idle",
                 run' = [run EXCEPT !.step = AfterFinalizers, !.u = new]
          PROVE  UpdateInv' /\ DeleteInv'
      <4>1. /\ run'.live = run.live /\ run'.step = AfterFinalizers
            /\ run'.u = new
        BY <3>3 DEF TypeOK
      <4>2. Findable(run.u)' = Findable(run.u) /\ UNCHANGED source
        BY <1>3, <3>1, <4>1 DEF EnsureFinalizers, world, Findable, Lives
      <4> QED
        BY <2>1, <2>2, <3>1, <4>1, <4>2
        DEF TrackInv, UpdateInv, DeleteInv, RequiresNew
    <3>4. AfterFinalizers \in Steps /\ "finalize" \in Steps \ {"idle"}
      BY <2>2
    <3>5. UNCHANGED world
      BY <1>3 DEF EnsureFinalizers
    <3>6. new.deleting = obj.deleting /\ ~obj.deleting
      BY <2>1, <3>1
    <3> QED BY <3>1, <3>2, <3>3, <3>4, <3>5, <3>6, WriteStep
  <2> QED BY <1>3, <2>3, <2>4, <2>5 DEF EnsureFinalizers
<1>4. CASE HandleUpdating
  <2> DEFINE new == [obj EXCEPT !.ready = FALSE]
  <2>1. Writes("updating", new, "apply") /\ obj = run.u /\ run.u \in Object
    BY <1>1, <1>4 DEF HandleUpdating, Writes
  <2>2. /\ new \in Object /\ new.deleting = obj.deleting /\ new.id = obj.id
        /\ new.fins = obj.fins /\ new.spec = obj.spec
    BY <2>1 DEF Object
  <2> HIDE DEF new
  <2>3. ASSUME run' = [run EXCEPT !.step = "apply", !.u = new]
        PROVE  UpdateInv' /\ DeleteInv'
    <3>1. run'.live = run.live /\ run'.step = "apply" /\ run'.u = new
      BY <2>3 DEF TypeOK
    <3>2. Findable(run.u)' = Findable(run.u) /\ UNCHANGED source
      BY <1>4, <2>1, <2>2, <3>1 DEF HandleUpdating, world, Findable, Lives
    <3> QED
      BY <2>1, <2>2, <3>1, <3>2
      DEF Writes, TrackInv, UpdateInv, DeleteInv, RequiresNew
  <2> QED BY <1>4, <2>1, <2>2, <2>3, WriteStep DEF HandleUpdating
<1>5. CASE RecordSpec
  <2> DEFINE new == IF source = "spec" THEN [run.u EXCEPT !.id = ID] ELSE run.u
  <2>1. Writes("record", new, "status") /\ obj = run.u /\ run.u \in Object
    BY <1>1, <1>5 DEF RecordSpec, Writes
  <2>2. ID \in 0..MaxMade
    BY TerraformAssumption DEF ID, TypeOK
  <2>3. /\ new \in Object /\ new.deleting = obj.deleting
        /\ new.fins = obj.fins /\ new.id \in {obj.id, ID}
    BY <2>1, <2>2 DEF Object
  <2> HIDE DEF new
  <2>4. ASSUME run' = [run EXCEPT !.step = "status", !.u = new]
        PROVE  UpdateInv' /\ DeleteInv'
    <3>1. run'.live = run.live /\ run'.step = "status" /\ run'.u = new
      BY <2>4 DEF TypeOK
    <3> QED
      BY <2>1, <2>3, <3>1 DEF Writes, TrackInv, UpdateInv, DeleteInv, ID
  <2> QED BY <1>5, <2>1, <2>3, <2>4, WriteStep DEF RecordSpec
<1>6. CASE RecordStatus
  <2> DEFINE new == [obj EXCEPT !.ready = TRUE, !.id = ID]
  <2>1. Writes("status", new, "idle") /\ obj = run.u /\ run.u \in Object
    BY <1>1, <1>6 DEF RecordStatus, Writes
  <2>2. ID \in 0..MaxMade
    BY TerraformAssumption DEF ID, TypeOK
  <2>3. new \in Object /\ new.deleting = obj.deleting /\ new.fins = obj.fins
    BY <2>1, <2>2 DEF Object
  <2> HIDE DEF new
  <2> QED BY <1>6, <2>1, <2>3, WriteStep DEF RecordStatus
<1>7. CASE Report
  <2> DEFINE new == [obj EXCEPT !.ready = FALSE]
  <2>1. Writes("report", new, "idle") /\ obj = run.u /\ run.u \in Object
    BY <1>1, <1>7 DEF Report, Writes
  <2>2. new \in Object /\ new.deleting = obj.deleting /\ new.fins = obj.fins
    BY <2>1 DEF Object
  <2> HIDE DEF new
  <2> QED BY <1>7, <2>1, <2>2, WriteStep DEF Report
<1> QED BY <1>2, <1>3, <1>4, <1>5, <1>6, <1>7

\* Apply updates what was found, or creates where nothing is to be found;
\* either way the object has its finalizer by then.
LEMMA Applying ==
  ASSUME TypeOK, TrackInv, UNCHANGED source, Apply
  PROVE  TypeOK' /\ TrackInv'
<1> DEFINE create == run.live = NoLive
           id     == IF create THEN made + 1 ELSE run.live.id
<1>1. /\ run.step = "apply" /\ run.u \in Object /\ ~run.u.deleting
      /\ run.u.fins = Finalizers /\ ~RequiresNew(run.live, run.u)
      /\ create => Findable(run.u) = {}
      /\ ~create => run.live.id # 0
      /\ source = "name" \/ run.u.id \in {0, run.live.id}
  BY DEF Apply, TrackInv, CopyInv, UpdateInv, TypeOK
<1>2. /\ obj # NoObject /\ Controller \in obj.fins /\ obj.id = run.u.id
  BY <1>1 DEF TrackInv, CopyInv, Finalizers
<1>3. /\ IF create THEN made < MaxMade /\ parent # "gone" ELSE gcp[id] # NoSpec
      /\ made' = IF create THEN made + 1 ELSE made
      /\ gcp' = [i \in 1..MaxMade |->
                   IF i = id THEN run.u.spec
                   ELSE IF create /\ i = run.live.id THEN NoSpec
                   ELSE gcp[i]]
      /\ \/ run' = [run EXCEPT !.step = "record",
                      !.live = [id |-> id, spec |-> run.u.spec]]
         \/ run' = [run EXCEPT !.step = "report"]
      /\ UNCHANGED <<obj, current, parent, paused, waived>>
  BY <1>1 DEF Apply, Goto
<1>4. id \in 1..MaxMade /\ run.u.spec \in Specs
  BY <1>1, <1>3, TerraformAssumption DEF TypeOK, Object
<1> HIDE DEF id
<1>5. TypeOK'
  <2>1. made' \in 0..MaxMade
    BY <1>3, TerraformAssumption DEF TypeOK
  <2>2. gcp' \in [1..MaxMade -> Specs \union {NoSpec}]
    BY <1>3, <1>4 DEF TypeOK
  <2>3. id \in 0..MaxMade
    BY <1>4, TerraformAssumption
  <2>4. run' \in [step: Steps, u: Object \union {NoObject},
                  live: [id: 0..MaxMade, spec: Specs \union {NoSpec}]]
    <3> DEFINE live == [id |-> id, spec |-> run.u.spec]
    <3>1. live \in [id: 0..MaxMade, spec: Specs \union {NoSpec}]
      BY <1>4, <2>3
    <3>2. \/ run' = [run EXCEPT !.step = "record", !.live = live]
          \/ run' = [run EXCEPT !.step = "report"]
      BY <1>3
    <3> HIDE DEF live
    <3> QED BY <3>1, <3>2 DEF TypeOK, Steps
  <2> QED BY <1>3, <2>1, <2>2, <2>4 DEF TypeOK
<1>6. run'.u = run.u /\ run'.step \in {"record", "report"}
  BY <1>3 DEF TypeOK
<1>7. Lives' \subseteq Lives \union {id}
  BY <1>3 DEF Lives
<1>8. ~create => id \in Lives
  BY <1>3, <1>4 DEF Lives
<1>9. create /\ source = "name" => Lives = {}
  BY <1>1 DEF Findable
<1>10. Accounted'
  BY <1>2, <1>3 DEF Accounted, Tracked
<1>11. ObjectInv' /\ CopyInv'
  BY <1>2, <1>3, <1>6, <1>1 DEF TrackInv, ObjectInv, CopyInv
<1>12. WorldInv'
  <2>1. parent' = "gone" => Lives' = {}
    BY <1>3, <1>8 DEF TrackInv, WorldInv
  <2>2. source = "name" => \A i, j \in Lives': i = j
    BY <1>7, <1>8, <1>9 DEF TrackInv, WorldInv
  <2> QED BY <2>1, <2>2 DEF WorldInv
<1>13. DeleteInv'
  BY <1>6 DEF DeleteInv
<1>14. UpdateInv'
  <2>1. run'.step = "record" => run'.live.id = id
    <3> DEFINE live == [id |-> id, spec |-> run.u.spec]
    <3>1. \/ run' = [run EXCEPT !.step = "record", !.live = live]
          \/ run' = [run EXCEPT !.step = "report"]
      BY <1>3
    <3>2. live.id = id
      OBVIOUS
    <3> HIDE DEF live
    <3> QED BY <3>1, <3>2 DEF TypeOK
  <2>2. source = "name" \/ run.u.id \in {0, id}
    BY <1>1, Runs DEF id
  <2> QED BY <1>1, <1>6, <2>1, <2>2 DEF UpdateInv
<1> QED BY <1>5, <1>10, <1>11, <1>12, <1>13, <1>14 DEF TrackInv

\* An error of Apply or Destroy that took no effect.
LEMMA ApplyFailing ==
  ASSUME TypeOK, TrackInv, UNCHANGED source, ApplyFails
  PROVE  TypeOK' /\ TrackInv'
BY Reporting DEF ApplyFails

-----------------------------------------------------------------------------
\* Steps of a deletion that write nothing to the object.
LEMMA Deleting ==
  ASSUME TypeOK, TrackInv, UNCHANGED source,
         \/ FinalizesNothing \/ HandleDeleting \/ Delete \/ FetchForDelete
         \/ Destroy
  PROVE  TypeOK' /\ TrackInv'
<1> USE DEF Steps
<1>1. CASE FinalizesNothing
  BY <1>1, Ends DEF FinalizesNothing
<1>2. CASE HandleDeleting
  <2>1. /\ run' = [run EXCEPT !.step = "deleting", !.live = run.live]
        /\ run.live \in Lived /\ run'.step = "deleting" /\ run'.u = run.u
    BY <1>2 DEF HandleDeleting, Goto, TypeOK, Lived
  <2>2. UpdateInv' /\ DeleteInv'
    BY <1>2, <2>1 DEF HandleDeleting, UpdateInv, DeleteInv
  <2> QED BY <1>2, <2>1, <2>2, Moves DEF HandleDeleting
<1>3. CASE Delete
  <2>1. PICK step \in {"deleted", "report", "deleteFetch"}:
          /\ Goto(step)
          /\ step = "deleted" /\ ~run.u.abandon =>
               parent = "gone" \/ parent = "abandoned"
    BY <1>3 DEF Delete
  <2>2. run'.step = step /\ run'.u = run.u /\ run'.live = run.live
    BY <2>1 DEF Goto, TypeOK
  <2>3. Lives' = Lives /\ waived \subseteq waived'
        /\ (parent = "abandoned" => Lives \subseteq waived')
    BY <1>3 DEF Delete, Lives
  <2>4. TypeOK'
    <3>1. waived' \subseteq 1..MaxMade
      BY <1>3 DEF Delete, TypeOK, Lives
    <3> QED BY <1>3, <2>1, <3>1 DEF Delete, Goto, TypeOK
  <2>5. Accounted' /\ ObjectInv' /\ WorldInv'
    BY <1>3, <2>3
    DEF Delete, TrackInv, Accounted, ObjectInv, WorldInv, Tracked
  <2>6. CopyInv'
    BY <1>3, <2>2 DEF Delete, TrackInv, CopyInv
  <2>7. UpdateInv'
    BY <2>2 DEF UpdateInv
  <2>8. Findable(run.u)' = Findable(run.u) /\ Findable(run.u) \subseteq Lives
    BY <2>2, <2>3 DEF Findable
  <2>9. step = "deleted" /\ ~run.u.abandon => Lives \subseteq waived'
    BY <2>1, <2>3 DEF TrackInv, WorldInv
  <2>10. DeleteInv'
    BY <1>3, <2>2, <2>8, <2>9 DEF Delete, TrackInv, DeleteInv
  <2> QED BY <2>4, <2>5, <2>6, <2>7, <2>10 DEF TrackInv
<1>4. CASE FetchForDelete
  <2>1. /\ run.u \in Object /\ run.u.deleting /\ run.u.fins = {Controller}
        /\ run.step = "deleteFetch" /\ run.live \in Lived
    BY <1>4 DEF FetchForDelete, TrackInv, CopyInv, DeleteInv, TypeOK, Lived
  <2>2. PICK live \in Lived, step \in {"deleted", "destroy"}:
          /\ run' = [run EXCEPT !.step = step, !.live = live]
          /\ step = "deleted" => Findable(run.u) = {}
          /\ step = "destroy" => live.id # 0 /\ live.id \in Findable(run.u)
    <3>1. CASE FetchLiveState(run.u) = {}
      <4>1. run' = [run EXCEPT !.step = "deleted", !.live = run.live]
        BY <1>4, <3>1 DEF FetchForDelete, Goto, TypeOK
      <4> QED BY <2>1, <3>1, <4>1, Fetched
    <3>2. CASE FetchLiveState(run.u) # {}
      BY <1>4, <2>1, <3>2, Fetched DEF FetchForDelete
    <3> QED BY <3>1, <3>2
  <2>3. run'.step = step /\ run'.u = run.u /\ run'.live = live
    BY <2>2 DEF TypeOK
  <2>4. Findable(run.u)' = Findable(run.u)
    BY <1>4, <2>3 DEF FetchForDelete, world, Findable, Lives
  <2>5. step = "destroy" => Findable(run.u) \subseteq {live.id}
    BY <2>2 DEF TrackInv, WorldInv, Findable
  <2>6. UpdateInv' /\ DeleteInv'
    BY <2>1, <2>2, <2>3, <2>4, <2>5 DEF UpdateInv, DeleteInv
  <2> QED BY <1>4, <2>1, <2>2, <2>6, Moves DEF FetchForDelete
<1>5. CASE Destroy
  <2>1. /\ run.u \in Object /\ run.u.deleting /\ run.u.fins = {Controller}
        /\ run.live.id # 0 /\ Findable(run.u) \subseteq {run.live.id}
    BY <1>5 DEF Destroy, TrackInv, CopyInv, DeleteInv, TypeOK
  <2>2. PICK step \in {"deleted", "report"}: Goto(step)
    BY <1>5 DEF Destroy
  <2>3. run'.step = step /\ run'.u = run.u /\ run'.live = run.live
    BY <2>2 DEF Goto, TypeOK
  <2>4. run.live.id \in 1..MaxMade
    BY <2>1 DEF TypeOK
  <2>5. Lives' = Lives \ {run.live.id}
    BY <1>5, <2>4 DEF Destroy, Lives, TypeOK
  <2>6. TypeOK'
    BY <1>5, <2>2, <2>4 DEF Destroy, Goto, TypeOK
  <2>7. Accounted' /\ ObjectInv' /\ WorldInv'
    BY <1>5, <2>5
    DEF Destroy, TrackInv, Accounted, ObjectInv, WorldInv, Tracked
  <2>8. CopyInv'
    BY <1>5, <2>3 DEF Destroy, TrackInv, CopyInv
  <2>9. UpdateInv'
    BY <2>3 DEF UpdateInv
  <2>10. Findable(run.u)' = {}
    BY <2>1, <2>3, <2>5 DEF Findable
  <2>11. DeleteInv'
    BY <2>1, <2>3, <2>10 DEF DeleteInv
  <2> QED BY <2>6, <2>7, <2>8, <2>9, <2>11 DEF TrackInv
<1> QED BY <1>1, <1>2, <1>3, <1>4, <1>5

\* The status writes of a deletion.
LEMMA DeletionWrites ==
  ASSUME TypeOK, TrackInv, UNCHANGED source, WritesDeleting \/ HandleDeleted
  PROVE  TypeOK' /\ TrackInv'
<1> DEFINE new == [obj EXCEPT !.ready = FALSE]
<1>1. PICK step \in {"deleting", "deleted"}, next \in {"delete", "unfinalize"}:
        /\ Writes(step, new, next) /\ UNCHANGED world
        /\ step = "deleting" <=> next = "delete"
  BY DEF WritesDeleting, HandleDeleted
<1>2. obj = run.u /\ run.u \in Object /\ run.step = step
  BY <1>1 DEF Writes, TrackInv, CopyInv, TypeOK
<1>3. /\ new \in Object /\ new.deleting = obj.deleting /\ new.fins = obj.fins
      /\ new.abandon = obj.abandon /\ new.id = obj.id
  BY <1>2 DEF Object
<1> HIDE DEF new
<1>4. ASSUME run' = [run EXCEPT !.step = next, !.u = new]
      PROVE  UpdateInv' /\ DeleteInv'
  <2>1. run'.step = next /\ run'.u = new /\ run'.live = run.live
    BY <1>4 DEF TypeOK
  <2>2. Findable(run.u)' = Findable(run.u) /\ waived' = waived
    BY <1>1, <1>2, <1>3, <2>1 DEF world, Findable, Lives
  <2> QED
    BY <1>1, <1>2, <1>3, <2>1, <2>2 DEF TrackInv, UpdateInv, DeleteInv
<1>5. step \in Steps \ {"idle"} /\ next \in Steps
  BY DEF Steps
<1> QED BY <1>1, <1>3, <1>4, <1>5, WriteStep

\* When the finalizer is removed there is nothing to find, or the user wants
\* to keep it.
LEMMA Unfinalizing ==
  ASSUME TypeOK, TrackInv, UNCHANGED source, Unfinalize
  PROVE  TypeOK' /\ TrackInv'
<1> DEFINE new == [run.u EXCEPT !.fins = @ \ {Controller}]
<1>1. /\ obj = run.u /\ run.u \in Object /\ run.step = "unfinalize"
      /\ run.u.deleting /\ run.u.fins = {Controller}
      /\ ~run.u.abandon => Findable(run.u) \subseteq waived
  BY DEF Unfinalize, Writes, TrackInv, CopyInv, DeleteInv, TypeOK
<1>2. new.deleting /\ new.fins = {}
  BY <1>1 DEF Object
<1>3. obj' = NoObject /\ run' = Idle
  BY <1>2 DEF Unfinalize, Writes
<1>4. Lives' = Lives /\ waived \subseteq waived' /\ waived' \subseteq 1..MaxMade
      /\ (run.u.abandon => Lives \subseteq waived')
  BY DEF Unfinalize, Lives, TypeOK
<1>5. TypeOK'
  BY <1>3, <1>4, Runs DEF Unfinalize, Writes, TypeOK, Lived
<1>6. Accounted'
  BY <1>1, <1>4 DEF Accounted, Findable
<1>7. ObjectInv' /\ CopyInv' /\ UpdateInv' /\ DeleteInv'
  BY <1>3, Runs DEF ObjectInv, CopyInv, UpdateInv, DeleteInv
<1>8. WorldInv'
  BY <1>4 DEF Unfinalize, TrackInv, WorldInv
<1> QED BY <1>5, <1>6, <1>7, <1>8 DEF TrackInv

\* Users and the defender.
LEMMA OthersActing ==
  ASSUME TypeOK, TrackInv, UNCHANGED source,
         \/ \E s \in Specs: UserCreates(s) \/ UserEdits(s)
         \/ UserSetsDeletionPolicy \/ UserDeletes \/ DefenderFinalizes
  PROVE  TypeOK' /\ TrackInv'
<1> USE DEF TrackInv, ObjectInv, Object, Finalizers, Controller, Defender
<1>1. obj # NoObject => obj \in Object
  BY DEF TypeOK
<1>2. ASSUME NEW s \in Specs, UserCreates(s) PROVE TypeOK' /\ TrackInv'
  <2>1. obj' \in Object /\ ObjectInv'
    BY <1>2, TerraformAssumption DEF UserCreates
  <2> QED BY <1>2, <2>1, OthersWrite DEF UserCreates
<1>3. ASSUME NEW s \in Specs, UserEdits(s) PROVE TypeOK' /\ TrackInv'
  <2>1. /\ obj' \in Object /\ obj'.fins = obj.fins /\ obj'.id = obj.id
        /\ obj'.deleting = obj.deleting
    BY <1>1, <1>3 DEF UserEdits
  <2>2. obj' # NoObject /\ ObjectInv'
    BY <1>3, <2>1, ObjectAssumption DEF UserEdits
  <2> QED BY <1>3, <2>1, <2>2, OthersWrite DEF UserEdits
<1>4. CASE UserSetsDeletionPolicy
  <2>1. /\ obj' \in Object /\ obj'.fins = obj.fins /\ obj'.id = obj.id
        /\ obj'.deleting = obj.deleting
    BY <1>1, <1>4 DEF UserSetsDeletionPolicy
  <2>2. obj' # NoObject /\ ObjectInv'
    BY <1>4, <2>1, ObjectAssumption DEF UserSetsDeletionPolicy
  <2> QED BY <1>4, <2>1, <2>2, OthersWrite DEF UserSetsDeletionPolicy
<1>5. CASE UserDeletes
  <2>1. CASE obj.fins = {}
    BY <1>5, <2>1, OthersWrite DEF UserDeletes
  <2>2. CASE obj.fins # {}
    <3>1. /\ obj' \in Object /\ obj'.fins = obj.fins /\ obj'.id = obj.id
          /\ obj'.deleting
      BY <1>1, <1>5, <2>2 DEF UserDeletes
    <3>2. obj' # NoObject /\ ObjectInv'
      BY <1>5, <2>2, <3>1, ObjectAssumption DEF UserDeletes
    <3> QED BY <1>5, <3>1, <3>2, OthersWrite DEF UserDeletes
  <2> QED BY <2>1, <2>2
<1>6. CASE DefenderFinalizes
  <2>1. obj \in Object /\ obj.deleting /\ obj.fins = Finalizers
    BY <1>1, <1>6 DEF DefenderFinalizes
  <2>2. /\ obj' \in Object /\ obj'.fins = {Controller} /\ obj'.id = obj.id
        /\ obj'.deleting
    BY <1>6, <2>1 DEF DefenderFinalizes
  <2>3. obj' # NoObject /\ ObjectInv'
    BY <2>2, ObjectAssumption
  <2> QED BY <1>6, <2>2, <2>3, OthersWrite DEF DefenderFinalizes
<1> QED BY <1>2, <1>3, <1>4, <1>5, <1>6

\* What happens in GCP and to the actuation mode.
LEMMA WorldActing ==
  ASSUME TypeOK, TrackInv, UNCHANGED source,
         \/ TogglesPause
         \/ \E p \in {"ready", "unready", "gone", "abandoned"}: ParentChanges(p)
         \/ \E i \in 1..MaxMade: Drift(i)
  PROVE  TypeOK' /\ TrackInv'
<1>1. CASE TogglesPause
  <2>1. Lives' = Lives
    BY <1>1 DEF TogglesPause, Lives
  <2> QED
    BY <1>1, <2>1, LessLives DEF TogglesPause, TypeOK, TrackInv, WorldInv
<1>2. ASSUME NEW p \in {"ready", "unready", "gone", "abandoned"},
             ParentChanges(p)
      PROVE  TypeOK' /\ TrackInv'
  <2>1. /\ gcp' \in [1..MaxMade -> Specs \union {NoSpec}]
        /\ Lives' \subseteq Lives /\ (p = "gone" => Lives' = {})
    BY <1>2 DEF ParentChanges, Lives, TypeOK
  <2> QED BY <1>2, <2>1, LessLives DEF ParentChanges, TypeOK
<1>3. ASSUME NEW i \in 1..MaxMade, Drift(i) PROVE TypeOK' /\ TrackInv'
  <2>1. /\ gcp' \in [1..MaxMade -> Specs \union {NoSpec}]
        /\ Lives' \subseteq Lives
    BY <1>3 DEF Drift, Lives, TypeOK
  <2> QED
    BY <1>3, <2>1, LessLives DEF Drift, TypeOK, TrackInv, WorldInv
<1> QED BY <1>1, <1>2, <1>3

\* Every step keeps the types and the invariant.
LEMMA TrackStep ==
  ASSUME TypeOK, TrackInv, [Next]_vars
  PROVE  TypeOK' /\ TrackInv'
<1>1. CASE UNCHANGED vars
  BY <1>1
  DEF vars, TypeOK, TrackInv, Accounted, ObjectInv, CopyInv, UpdateInv,
      DeleteInv, WorldInv, Tracked, Lives, Findable, RequiresNew
<1>2. CASE Next
  <2>1. CASE Reconciles
    <3>1. CASE WriteFails
      BY <1>2, <3>1, Ends DEF WriteFails, Next
    <3> QED
      BY <1>2, <2>1, <3>1, Looking, Updating, Applying, ApplyFailing,
         Deleting, DeletionWrites, Unfinalizing
      DEF Next, Reconciles
  <2>2. CASE Restart
    BY <1>2, <2>2, Ends DEF Restart, Next
  <2> QED
    BY <1>2, <2>1, <2>2, OthersActing, WorldActing DEF Next, Acts
<1> QED BY <1>1, <1>2

-----------------------------------------------------------------------------
(***************************************************************************)
(* The types, and what keeps the resources of an object findable in spite  *)
(* of old copies, lost answers, failed writes and restarts.                *)
(***************************************************************************)
THEOREM TrackInvariance == Spec => [](TypeOK /\ TrackInv)
<1>1. Init => TypeOK /\ TrackInv
  <2> SUFFICES ASSUME Init PROVE TypeOK /\ TrackInv
    OBVIOUS
  <2>1. TypeOK
    BY Runs, TerraformAssumption DEF Init, TypeOK, Lived
  <2>2. Lives = {}
    BY DEF Init, Lives
  <2> QED
    BY <2>1, <2>2, Runs DEF Init, TrackInv, Accounted, ObjectInv, CopyInv,
       UpdateInv, DeleteInv, WorldInv
<1>2. TypeOK /\ TrackInv /\ [Next]_vars => (TypeOK /\ TrackInv)'
  BY TrackStep
<1> QED BY <1>1, <1>2, PTL DEF Spec

(***************************************************************************)
(* The object, the copy and the live state that a reconcile works with,    *)
(* the resources and the parent keep their types, whatever fails.          *)
(***************************************************************************)
THEOREM TerraformTypes == Spec => []TypeOK
BY TrackInvariance, PTL

(***************************************************************************)
(* A resource with a name is found from its object and deleted with it, or *)
(* the reconciler has let go of it.                                        *)
(***************************************************************************)
THEOREM NamedAreAccounted == Spec => []Accounted
BY TrackInvariance, PTL DEF TrackInv

-----------------------------------------------------------------------------
\* The actions that touch GCP.
LEMMA GCPSteps ==
  ASSUME Next
  PROVE  \/ Apply \/ Destroy
         \/ UNCHANGED <<gcp, made>>
         \/ UNCHANGED <<run, made>>
BY DEF Next, Acts, Reconciles, world, Get, Gate, PauseFinalizes, Fetch,
   FetchFails, EnsureFinalizers, HandleUpdating, ApplyFails, RecordSpec,
   RecordStatus, Report, FinalizesNothing, HandleDeleting, WritesDeleting,
   Delete, FetchForDelete, HandleDeleted, Unfinalize, WriteFails, UserCreates,
   UserEdits, UserSetsDeletionPolicy, UserDeletes, DefenderFinalizes,
   TogglesPause, ParentChanges, Drift, Restart

\* The actions that touch the object.
LEMMA ObjectSteps ==
  ASSUME Next
  PROVE  \/ UNCHANGED obj
         \/ PauseFinalizes \/ EnsureFinalizers \/ HandleUpdating
         \/ RecordSpec \/ RecordStatus \/ Report
         \/ WritesDeleting \/ HandleDeleted \/ Unfinalize
         \/ \E s \in Specs: UserCreates(s) \/ UserEdits(s)
         \/ UserSetsDeletionPolicy \/ UserDeletes \/ DefenderFinalizes
BY DEF Next, Acts, Reconciles, Get, Gate, Fetch, FetchFails, Apply, ApplyFails,
   FinalizesNothing, HandleDeleting, Delete, FetchForDelete, Destroy,
   WriteFails, TogglesPause, ParentChanges, Drift, Restart

\* A write of the reconcile that keeps the finalizer keeps track of a
\* resource if it keeps its ID.
LEMMA WriteKeepsTrack ==
  ASSUME TypeOK, TrackInv, UNCHANGED source, NEW i \in Lives, Tracked(i),
         NEW step \in Steps \ {"idle"}, NEW next, NEW new \in Object,
         Writes(step, new, next), Controller \in new.fins,
         source = "name" \/ new.id = i
  PROVE  Tracked(i)'
BY ObjectAssumption DEF Writes, Tracked

\* Before the writes: the copy is the object, and the ID that is recorded is
\* the one the object has.
LEMMA BeforeWrite ==
  ASSUME TypeOK, TrackInv, current, run.step # "idle", NEW i \in Lives,
         Tracked(i)
  PROVE  /\ obj = run.u /\ obj \in Object /\ Controller \in obj.fins
         /\ source = "name" \/ obj.id = i
         /\ run.step \in {"record", "status"} => source = "name" \/ ID = i
<1>1. obj = run.u /\ obj \in Object /\ i # 0
  BY DEF TrackInv, CopyInv, TypeOK, Tracked, Lives
<1> QED BY <1>1 DEF Tracked, TrackInv, UpdateInv, ID

LEMMA TrackKept ==
  ASSUME TypeOK, TrackInv, Next, NEW i \in Lives, Tracked(i), gcp'[i] # NoSpec
  PROVE  Tracked(i)' \/ i \in waived'
<1> USE DEF Steps
<1>1. UNCHANGED source
  BY DEF Next
<1>2. CASE UNCHANGED obj
  BY <1>1, <1>2 DEF Tracked
<1>3. CASE PauseFinalizes
  <2> DEFINE new == [run.u EXCEPT !.fins = Finalizers]
  <2>1. /\ Writes("pause", new, "idle") /\ new \in Object
        /\ Controller \in new.fins /\ (source = "name" \/ new.id = i)
    BY <1>3, BeforeWrite DEF PauseFinalizes, Writes, Object, Finalizers
  <2> HIDE DEF new
  <2> QED BY <1>1, <2>1, WriteKeepsTrack
<1>4. CASE EnsureFinalizers
  <2> DEFINE new == [run.u EXCEPT !.fins = Finalizers]
  <2>1. CASE UNCHANGED obj
    BY <1>2, <2>1
  <2>2. CASE Writes("finalize", new, AfterFinalizers)
    <3>1. /\ new \in Object /\ Controller \in new.fins
          /\ source = "name" \/ new.id = i
      BY <2>2, BeforeWrite DEF Writes, Object, Finalizers
    <3> HIDE DEF new
    <3> QED BY <1>1, <2>2, <3>1, WriteKeepsTrack
  <2> QED BY <1>4, <2>1, <2>2 DEF EnsureFinalizers
<1>5. CASE HandleUpdating \/ Report \/ WritesDeleting \/ HandleDeleted
  <2> DEFINE new == [obj EXCEPT !.ready = FALSE]
  <2>1. PICK step \in Steps \ {"idle"}, next \in Steps: Writes(step, new, next)
    BY <1>5 DEF HandleUpdating, Report, WritesDeleting, HandleDeleted
  <2>2. /\ new \in Object /\ Controller \in new.fins
        /\ source = "name" \/ new.id = i
    BY <2>1, BeforeWrite DEF Writes, Object
  <2> HIDE DEF new
  <2> QED BY <1>1, <2>1, <2>2, WriteKeepsTrack
<1>6. CASE RecordSpec
  <2> DEFINE new == IF source = "spec" THEN [run.u EXCEPT !.id = ID] ELSE run.u
  <2>1. ID \in 0..MaxMade
    BY TerraformAssumption DEF ID, TypeOK
  <2>2. /\ Writes("record", new, "status") /\ new \in Object
        /\ Controller \in new.fins /\ (source = "name" \/ new.id = i)
    BY <1>6, <2>1, BeforeWrite DEF RecordSpec, Writes, Object
  <2> HIDE DEF new
  <2> QED BY <1>1, <2>2, WriteKeepsTrack
<1>7. CASE RecordStatus
  <2> DEFINE new == [obj EXCEPT !.ready = TRUE, !.id = ID]
  <2>1. ID \in 0..MaxMade
    BY TerraformAssumption DEF ID, TypeOK
  <2>2. /\ Writes("status", new, "idle") /\ new \in Object
        /\ Controller \in new.fins /\ (source = "name" \/ new.id = i)
    BY <1>7, <2>1, BeforeWrite DEF RecordStatus, Writes, Object
  <2> HIDE DEF new
  <2> QED BY <1>1, <2>2, WriteKeepsTrack
<1>8. CASE Unfinalize
  <2>1. current /\ run.step = "unfinalize"
    BY <1>8 DEF Unfinalize, Writes
  <2>2. obj = run.u /\ (source = "name" \/ obj.id = i)
    BY <2>1, BeforeWrite
  <2>3. i \in Findable(run.u)
    BY <2>2 DEF Findable
  <2> QED BY <1>8, <2>1, <2>3 DEF Unfinalize, TrackInv, DeleteInv
<1>9. ASSUME NEW s \in Specs, UserCreates(s) \/ UserEdits(s)
      PROVE  Tracked(i)'
  BY <1>1, <1>9, ObjectAssumption
  DEF UserCreates, UserEdits, Tracked, TypeOK, Object
<1>10. CASE UserSetsDeletionPolicy \/ UserDeletes
  <2>1. CASE UserSetsDeletionPolicy
    <3>1. obj' \in Object /\ obj'.fins = obj.fins /\ obj'.id = obj.id
      BY <2>1 DEF UserSetsDeletionPolicy, TypeOK, Object
    <3> QED BY <1>1, <3>1, ObjectAssumption DEF Tracked
  <2>2. CASE UserDeletes
    <3>1. obj.fins # {}
      BY DEF Tracked
    <3>2. obj' \in Object /\ obj'.fins = obj.fins /\ obj'.id = obj.id
      BY <2>2, <3>1 DEF UserDeletes, TypeOK, Object
    <3> QED BY <1>1, <3>2, ObjectAssumption DEF Tracked
  <2> QED BY <1>10, <2>1, <2>2
<1>11. CASE DefenderFinalizes
  BY <1>1, <1>11, ObjectAssumption
  DEF DefenderFinalizes, Tracked, TypeOK, Object, Controller, Defender
<1> QED
  BY <1>2, <1>3, <1>4, <1>5, <1>6, <1>7, <1>8, <1>9, <1>10, <1>11, ObjectSteps

(***************************************************************************)
(* What an object has led to once it leads to as long as it is there, or   *)
(* the reconciler has let go of it: by name or by an ID, whatever was lost *)
(* on the way to the object.                                               *)
(***************************************************************************)
THEOREM TrackIsKept == Spec => NeverLosesTrack
<1> DEFINE Kept ==
      \A i \in Lives: Tracked(i) /\ gcp'[i] # NoSpec =>
        Tracked(i)' \/ i \in waived'
<1>1. ASSUME TypeOK, TrackInv, Next PROVE Kept
  BY <1>1, TrackKept
<1>2. UNCHANGED vars => Kept
  BY DEF vars, Tracked
<1>3. TypeOK /\ TrackInv /\ [Next]_vars => [Kept]_vars
  BY <1>1, <1>2
<1> QED BY <1>3, TrackInvariance, PTL DEF Spec, NeverLosesTrack

(***************************************************************************)
(* No resource is created for an object that has the ID of one, even if    *)
(* the reconcile works with an old copy of the object.                     *)
(***************************************************************************)
THEOREM NothingIsRecreated == Spec => NeverRecreated
<1> DEFINE Never == made' # made /\ source # "name" => obj.id = 0
<1>1. ASSUME TypeOK, TrackInv, Next PROVE Never
  <2> SUFFICES ASSUME made' # made, source # "name" PROVE obj.id = 0
    OBVIOUS
  <2>1. Apply
    BY <1>1, GCPSteps DEF Destroy
  <2>2. run.live = NoLive
    BY <1>1, <2>1 DEF Apply, TrackInv, UpdateInv
  <2>3. run.u.id = 0 /\ run.u.fins = Finalizers
    BY <1>1, <2>1, <2>2, Runs DEF Apply, TrackInv, UpdateInv
  <2> QED BY <1>1, <2>1, <2>3 DEF Apply, TrackInv, CopyInv, Finalizers
<1>2. UNCHANGED vars => Never
  BY DEF vars
<1>3. TypeOK /\ TrackInv /\ [Next]_vars => [Never]_vars
  BY <1>1, <1>2
<1> QED BY <1>3, TrackInvariance, PTL DEF Spec, NeverRecreated

(***************************************************************************)
(* What the reconciler destroys belongs to an object that is being         *)
(* deleted: no change of a spec is applied by replacement.                 *)
(***************************************************************************)
THEOREM NothingIsDestroyedUnasked == Spec => DestructionIsRequested
<1> DEFINE Asked ==
      \A i \in 1..MaxMade:
        gcp[i] # NoSpec /\ gcp'[i] = NoSpec /\ run' # run
          => obj # NoObject /\ obj.deleting
<1>1. ASSUME TypeOK, TrackInv, Next PROVE Asked
  <2> SUFFICES ASSUME NEW i \in 1..MaxMade, gcp[i] # NoSpec,
                      gcp'[i] = NoSpec, run' # run
               PROVE  obj # NoObject /\ obj.deleting
    OBVIOUS
  <2>1. CASE Destroy
    BY <1>1, <2>1 DEF Destroy, TrackInv, DeleteInv, CopyInv
  <2>2. CASE Apply
    <3>1. /\ run.step = "apply" /\ ~RequiresNew(run.live, run.u)
          /\ run.u \in Object
      BY <1>1, <2>2 DEF Apply, TrackInv, UpdateInv, CopyInv, TypeOK
    <3>2. run.u.spec # NoSpec
      BY <3>1, TerraformAssumption DEF Object
    <3>3. run.live = NoLive => i # run.live.id
      BY Runs, TerraformAssumption
    <3> QED BY <2>2, <3>1, <3>2, <3>3 DEF Apply
  <2> QED BY <1>1, <2>1, <2>2, GCPSteps
<1>2. UNCHANGED vars => Asked
  BY DEF vars
<1>3. TypeOK /\ TrackInv /\ [Next]_vars => [Asked]_vars
  BY <1>1, <1>2
<1> QED BY <1>3, TrackInvariance, PTL DEF Spec, DestructionIsRequested


-----------------------------------------------------------------------------
(* Named resources and ManagedResource. *)

\* A step of ManagedResource, or none.
Allowed == [Resource!Next]_(Resource!vars)

\* The object keeps what ManagedResource knows of it, ...
Alike ==
  /\ obj # NoObject /\ obj' # NoObject
  /\ obj'.spec = obj.spec /\ obj'.deleting = obj.deleting
  /\ obj'.abandon = obj.abandon

Same ==
  \/ obj' = obj
  \/ Alike /\ (Controller \in obj'.fins <=> Controller \in obj.fins)

\* ... or gets its finalizers.
Holds == Alike /\ Controller \in obj'.fins /\ Controller \notin obj.fins

\* A write of the reconcile, unless it removes the finalizer.
LEMMA WriteShape ==
  ASSUME TypeOK, TrackInv, NEW step \in Steps \ {"idle"}, NEW next,
         NEW new \in Object, Writes(step, new, next),
         new.spec = run.u.spec, new.deleting = run.u.deleting,
         new.abandon = run.u.abandon,
         new.fins = run.u.fins \/ (new.fins = Finalizers /\ ~run.u.deleting)
  PROVE  Same \/ Holds
<1>1. obj = run.u /\ obj # NoObject
  BY DEF Writes, TrackInv, CopyInv
<1>2. new.deleting => new.fins # {}
  BY <1>1 DEF TrackInv, ObjectInv, Finalizers
<1>3. obj' = new /\ new # NoObject
  BY <1>2, ObjectAssumption DEF Writes
<1> QED BY <1>1, <1>3 DEF Same, Holds, Alike, Finalizers

\* What the steps of the reconcile and the defender do to the object.
LEMMA ObjectShape ==
  ASSUME TypeOK, TrackInv, source = "name",
         \/ PauseFinalizes \/ EnsureFinalizers \/ HandleUpdating
         \/ RecordSpec \/ RecordStatus \/ Report
         \/ WritesDeleting \/ HandleDeleted \/ DefenderFinalizes
  PROVE  Same \/ Holds
<1> USE DEF Steps
<1>0. run.step # "idle" => run.u \in Object
  BY DEF TrackInv, CopyInv, TypeOK
<1>1. CASE PauseFinalizes \/ EnsureFinalizers
  <2> DEFINE new == [run.u EXCEPT !.fins = Finalizers]
  <2>1. \/ UNCHANGED obj
        \/ Writes("pause", new, "idle")
        \/ Writes("finalize", new, AfterFinalizers)
    BY <1>1 DEF PauseFinalizes, EnsureFinalizers
  <2>2. ASSUME NEW step \in {"pause", "finalize"}, NEW next,
               Writes(step, new, next)
        PROVE  Same \/ Holds
    <3>1. run.u \in Object /\ ~run.u.deleting
      BY <1>0, <2>2 DEF Writes, TrackInv, UpdateInv
    <3>2. /\ new \in Object /\ new.fins = Finalizers
          /\ new.spec = run.u.spec /\ new.deleting = run.u.deleting
          /\ new.abandon = run.u.abandon
      BY <3>1 DEF Object
    <3> HIDE DEF new
    <3> QED BY <2>2, <3>1, <3>2, WriteShape
  <2> QED BY <2>1, <2>2 DEF Same
<1>2. CASE HandleUpdating \/ Report \/ WritesDeleting \/ HandleDeleted
  <2> DEFINE new == [obj EXCEPT !.ready = FALSE]
  <2>1. PICK step \in Steps \ {"idle"}, next \in Steps: Writes(step, new, next)
    BY <1>2 DEF HandleUpdating, Report, WritesDeleting, HandleDeleted
  <2>2. run.u = obj /\ obj \in Object
    BY <1>0, <2>1 DEF Writes, TrackInv, CopyInv
  <2>3. /\ new \in Object /\ new.fins = run.u.fins
        /\ new.spec = run.u.spec /\ new.deleting = run.u.deleting
        /\ new.abandon = run.u.abandon
    BY <2>2 DEF Object
  <2> HIDE DEF new
  <2> QED BY <2>1, <2>3, WriteShape
<1>3. CASE RecordSpec
  <2>1. Writes("record", run.u, "status") /\ run.u \in Object
    BY <1>0, <1>3 DEF RecordSpec, Writes
  <2> QED BY <2>1, WriteShape
<1>4. CASE RecordStatus
  <2> DEFINE new == [obj EXCEPT !.ready = TRUE, !.id = ID]
  <2>1. Writes("status", new, "idle") /\ run.u = obj /\ obj \in Object
    BY <1>0, <1>4 DEF RecordStatus, Writes, TrackInv, CopyInv
  <2>2. /\ new \in Object /\ new.fins = run.u.fins
        /\ new.spec = run.u.spec /\ new.deleting = run.u.deleting
        /\ new.abandon = run.u.abandon
    <3>1. ID \in 0..MaxMade
      BY TerraformAssumption DEF ID
    <3> QED BY <2>1, <3>1 DEF Object
  <2> HIDE DEF new
  <2> QED BY <2>1, <2>2, WriteShape
<1>5. CASE DefenderFinalizes
  <2>1. obj \in Object /\ obj # NoObject /\ obj.fins = Finalizers
    BY <1>5 DEF DefenderFinalizes, TypeOK, TrackInv, ObjectInv, Controller,
       Defender
  <2> DEFINE new == [obj EXCEPT !.fins = {Controller}]
  <2>2. obj' = new
    BY <1>5, <2>1 DEF DefenderFinalizes, Finalizers, Controller, Defender
  <2>3. /\ new \in Object /\ new.fins = {Controller}
        /\ new.spec = obj.spec /\ new.deleting = obj.deleting
        /\ new.abandon = obj.abandon
    BY <2>1 DEF Object, Finalizers
  <2> HIDE DEF new
  <2> QED BY <2>1, <2>2, <2>3, ObjectAssumption DEF Same, Alike, Finalizers
<1> QED BY <1>1, <1>2, <1>3, <1>4, <1>5

\* The steps that leave the object and GCP alone, and let go of nothing.
LEMMA QuietSteps ==
  ASSUME Next
  PROVE  \/ UNCHANGED <<obj, gcp, waived>>
         \/ /\ \/ PauseFinalizes \/ EnsureFinalizers \/ HandleUpdating
               \/ RecordSpec \/ RecordStatus \/ Report
               \/ WritesDeleting \/ HandleDeleted \/ DefenderFinalizes
            /\ UNCHANGED <<gcp, waived>>
         \/ Apply \/ Destroy \/ Delete \/ Unfinalize
         \/ \E s \in Specs: UserCreates(s) \/ UserEdits(s)
         \/ UserSetsDeletionPolicy \/ UserDeletes
         \/ \E p \in {"ready", "unready", "gone", "abandoned"}: ParentChanges(p)
         \/ \E i \in 1..MaxMade: Drift(i)
BY DEF Next, Acts, Reconciles, world, Get, Gate, PauseFinalizes, Fetch,
   FetchFails, EnsureFinalizers, HandleUpdating, ApplyFails, RecordSpec,
   RecordStatus, Report, FinalizesNothing, HandleDeleting, WritesDeleting,
   FetchForDelete, HandleDeleted, WriteFails, DefenderFinalizes, TogglesPause,
   Restart


-----------------------------------------------------------------------------
\* Nothing to be seen of the object, and nothing let go of.
LEMMA Unseen ==
  ASSUME source = "name", UNCHANGED source, RememberedInv, RemembersNamed,
         Same \/ Holds, UNCHANGED waived
  PROVE  /\ asked' = asked /\ excused' = excused
         /\ Same => life' = life
<1>1. asked' = asked
  BY DEF RememberedInv, RemembersNamed, Same, Holds, Alike
<1>2. excused' = excused
  BY DEF RememberedInv, RemembersNamed, Same, Holds, Alike
<1>3. ASSUME Same PROVE life' = life
  <2>1. CASE obj = NoObject
    BY <1>3, <2>1 DEF Same, Alike, life, LifeOf
  <2>2. CASE obj # NoObject
    <3>1. obj' # NoObject /\ obj'.deleting = obj.deleting
          /\ obj'.abandon = obj.abandon
          /\ (Controller \in obj'.fins <=> Controller \in obj.fins)
      BY <1>3, <2>2 DEF Same, Alike
    <3>2. obj.deleting => doomed' = doomed
      BY <2>2, <3>1 DEF RememberedInv, RemembersNamed
    <3> QED BY <2>2, <3>1, <3>2 DEF life, LifeOf
  <2> QED BY <2>1, <2>2
<1> QED BY <1>1, <1>2, <1>3

\* The one resource there is, if there is one.
LEMMA OneResource ==
  ASSUME NEW g \in [1..MaxMade -> Specs \union {NoSpec}]
  PROVE  /\ (\A i \in 1..MaxMade: g[i] = NoSpec) => ResourceIn(g) = NoSpec
         /\ \A i \in 1..MaxMade:
              g[i] # NoSpec /\ (\A j \in 1..MaxMade: g[j] # NoSpec => j = i)
                => ResourceIn(g) = g[i]
         /\ ResourceIn(g) = NoSpec => \A i \in 1..MaxMade: g[i] = NoSpec
BY DEF ResourceIn

\* Steps that do not change what is seen are stutters; the others that leave
\* GCP alone are the reconcile's first write.
LEMMA QuietRefines ==
  ASSUME TypeOK, TrackInv, source = "name", UNCHANGED source,
         RememberedInv, RemembersNamed, Same \/ Holds,
         UNCHANGED <<gcp, waived>>
  PROVE  Allowed
<1>1. /\ asked' = asked /\ excused' = excused /\ (Same => life' = life)
      /\ resource' = resource /\ managed' = managed
  BY Unseen DEF resource, managed
<1>2. CASE Same
  BY <1>1, <1>2 DEF Allowed, Resource!vars
<1>3. CASE Holds
  <2>1. ~obj.deleting
    BY <1>3 DEF Holds, Alike, TrackInv, ObjectInv, Finalizers
  <2>2. life = "loose" /\ life' = "held"
    BY <1>3, <2>1 DEF Holds, Alike, life, LifeOf
  <2> QED BY <1>1, <2>2 DEF Allowed, Resource!Next, Resource!Hold
<1> QED BY <1>2, <1>3

\* What users do.
LEMMA UsersRefine ==
  ASSUME TypeOK, TrackInv, source = "name", UNCHANGED source,
         RememberedInv, RemembersNamed,
         \/ \E s \in Specs: UserCreates(s) \/ UserEdits(s)
         \/ UserSetsDeletionPolicy \/ UserDeletes
  PROVE  Allowed
<1>0. /\ UNCHANGED <<gcp, waived>> /\ resource' = resource
      /\ managed' = managed /\ (obj # NoObject => obj \in Object)
  BY DEF UserCreates, UserEdits, UserSetsDeletionPolicy, UserDeletes, world,
     resource, managed, TypeOK
<1>1. ASSUME NEW s \in Specs, UserCreates(s) PROVE Allowed
  <2>1. /\ obj = NoObject /\ obj' \in Object /\ obj'.spec = s
        /\ obj'.fins = {} /\ ~obj'.abandon
    BY <1>1, TerraformAssumption DEF UserCreates, Object
  <2>2. /\ life = "absent" /\ life' = "loose" /\ asked' = {s}
    BY <2>1, ObjectAssumption DEF life, LifeOf, RemembersNamed
  <2>3. excused' = excused
    BY <1>0, <2>1 DEF RemembersNamed, RememberedInv
  <2> QED BY <1>0, <2>2, <2>3 DEF Allowed, Resource!Next, Resource!Create
<1>2. ASSUME NEW s \in Specs, UserEdits(s) PROVE Allowed
  <2>1. /\ obj # NoObject /\ obj' \in Object /\ obj'.spec = s
        /\ obj'.fins = obj.fins /\ obj'.abandon = obj.abandon
        /\ obj'.deleting = obj.deleting
    BY <1>0, <1>2 DEF UserEdits, Object
  <2>2. asked' = asked \union {s}
    BY <2>1, ObjectAssumption DEF RemembersNamed
  <2>3. excused' = excused /\ (obj.deleting => doomed' = doomed)
    BY <1>0, <2>1, ObjectAssumption DEF RemembersNamed, RememberedInv
  <2>4. life' = life /\ life # "absent"
    BY <2>1, <2>3, ObjectAssumption DEF life, LifeOf
  <2> QED BY <1>0, <2>2, <2>3, <2>4 DEF Allowed, Resource!Next, Resource!Edit
<1>3. CASE UserSetsDeletionPolicy
  <2>1. /\ obj # NoObject /\ obj' \in Object /\ obj'.spec = obj.spec
        /\ obj'.fins = obj.fins /\ obj'.abandon = ~obj.abandon
        /\ obj'.deleting = obj.deleting
    BY <1>0, <1>3 DEF UserSetsDeletionPolicy, Object
  <2>2. asked' = asked
    BY <2>1, ObjectAssumption DEF RemembersNamed, RememberedInv
  <2>3. CASE ~obj.abandon
    <3>1. excused' = TRUE /\ (obj.deleting => doomed' = doomed)
      BY <1>0, <2>1, <2>3, ObjectAssumption DEF RemembersNamed, RememberedInv
    <3>2. life' = life
      BY <2>1, <3>1, ObjectAssumption DEF life, LifeOf
    <3> QED BY <1>0, <2>2, <3>1, <3>2
            DEF Allowed, Resource!Next, Resource!LetGo
  <2>4. CASE obj.abandon
    <3>1. excused' = excused /\ (obj.deleting => doomed')
      BY <1>0, <2>1, <2>4, ObjectAssumption DEF RemembersNamed, RememberedInv
    <3>2. life' = life \/ (life = "leaving" /\ life' = "deleting")
      BY <2>1, <3>1, ObjectAssumption DEF life, LifeOf
    <3>3. CASE life' = life
      BY <1>0, <2>2, <3>1, <3>3 DEF Allowed, Resource!vars
    <3>4. CASE life = "leaving" /\ life' = "deleting"
      BY <1>0, <2>2, <3>1, <3>4 DEF Allowed, Resource!Next, Resource!Reconsider
    <3> QED BY <3>2, <3>3, <3>4
  <2> QED BY <2>3, <2>4
<1>4. CASE UserDeletes
  <2>0. obj # NoObject /\ ~obj.deleting /\ obj \in Object
    BY <1>0, <1>4 DEF UserDeletes
  <2>1. CASE obj.fins = {}
    <3>1. obj' = NoObject
      BY <1>4, <2>1 DEF UserDeletes
    <3>2. life = "loose" /\ life' = "absent" /\ asked' = asked
      BY <2>0, <2>1, <3>1 DEF life, LifeOf, RemembersNamed
    <3>3. excused' = excused
      BY <1>0, <3>1 DEF RemembersNamed, RememberedInv
    <3> QED BY <1>0, <3>2, <3>3 DEF Allowed, Resource!Next, Resource!Remove
  <2>2. CASE obj.fins # {}
    <3>1. /\ obj' \in Object /\ obj'.fins = obj.fins /\ obj'.spec = obj.spec
          /\ obj'.abandon = obj.abandon /\ obj'.deleting
      BY <1>4, <2>0, <2>2 DEF UserDeletes, Object
    <3>2. Controller \in obj.fins
      BY <2>0, <2>2 DEF TrackInv, ObjectInv, Finalizers
    <3>3. life = "held" /\ life' \in {"deleting", "leaving"}
      BY <2>0, <3>1, <3>2, ObjectAssumption DEF life, LifeOf
    <3>4. asked' = asked
      BY <2>0, <3>1, ObjectAssumption DEF RemembersNamed, RememberedInv
    <3>5. excused' = excused
      BY <1>0, <2>0, <3>1, ObjectAssumption DEF RemembersNamed, RememberedInv
    <3> QED BY <1>0, <3>3, <3>4, <3>5
            DEF Allowed, Resource!Next, Resource!Remove
  <2> QED BY <2>1, <2>2
<1> QED BY <1>1, <1>2, <1>3, <1>4


\* The object that Apply works for is held, and has asked for what it does.
LEMMA ApplyRefines ==
  ASSUME TypeOK, TypeOK', TrackInv, TrackInv', RememberedInv, RemembersNamed,
         source = "name", UNCHANGED source, Apply
  PROVE  Allowed
<1>1. /\ run.step = "apply" /\ UNCHANGED <<obj, waived>>
      /\ run.u \in Object /\ ~run.u.deleting /\ Controller \in run.u.fins
      /\ obj # NoObject /\ Controller \in obj.fins
  BY DEF Apply, TrackInv, UpdateInv, CopyInv, TypeOK, Finalizers
<1>2. run.u.spec \in Specs /\ run.u.spec # NoSpec /\ run.u.spec \in asked
  BY <1>1, TerraformAssumption DEF RememberedInv, Object
<1>3. asked' = asked /\ excused' = excused /\ life' = life
  BY <1>1, Unseen DEF Same
<1>4. life \in {"held", "deleting", "leaving"}
  BY <1>1 DEF life, LifeOf
<1>5. PICK i \in 1..MaxMade: gcp'[i] = run.u.spec
  <2>1. CASE run.live = NoLive
    BY <2>1, TerraformAssumption DEF Apply, TypeOK
  <2>2. CASE run.live # NoLive
    <3>1. run.live.id \in 1..MaxMade
      BY <1>1, <2>2, TerraformAssumption DEF TypeOK, TrackInv, UpdateInv
    <3> QED BY <1>1, <2>2, <3>1 DEF Apply, TrackInv, UpdateInv
  <2> QED BY <2>1, <2>2
<1>6. \A j \in 1..MaxMade: gcp'[j] # NoSpec => j = i
  BY <1>2, <1>5 DEF TrackInv, WorldInv, Lives
<1>7. resource' = run.u.spec
  BY <1>2, <1>5, <1>6, OneResource DEF resource, TypeOK
<1>8. managed' = TRUE
  BY <1>2, <1>7 DEF managed
<1> QED BY <1>2, <1>3, <1>4, <1>7, <1>8
        DEF Allowed, Resource!Next, Resource!Apply, Resource!Kept

\* Destroy is for an object whose user wants the resource deleted.
LEMMA DestroyRefines ==
  ASSUME TypeOK, TypeOK', TrackInv, RememberedInv, RemembersNamed,
         source = "name", UNCHANGED source, Destroy
  PROVE  Allowed
<1>1. /\ run.step = "destroy" /\ UNCHANGED <<obj, waived>>
      /\ run.u.deleting /\ Controller \in run.u.fins /\ ~run.u.abandon
      /\ obj # NoObject /\ Controller \in obj.fins /\ obj.deleting
  BY DEF Destroy, TrackInv, DeleteInv, CopyInv, RememberedInv
<1>2. doomed
  BY <1>1 DEF RememberedInv
<1>3. asked' = asked /\ excused' = excused /\ life' = life
  BY <1>1, Unseen DEF Same
<1>4. life = "deleting"
  BY <1>1, <1>2 DEF life, LifeOf
<1>5. \A j \in 1..MaxMade: gcp'[j] = NoSpec
  <2>1. Lives \subseteq {run.live.id}
    BY <1>1 DEF TrackInv, DeleteInv, Findable
  <2> QED BY <2>1 DEF Destroy, Lives, TypeOK
<1>6. resource' = NoSpec
  BY <1>5, OneResource DEF resource, TypeOK
<1>7. managed' = FALSE
  BY <1>6 DEF managed
<1> QED BY <1>3, <1>4, <1>6, <1>7 DEF Allowed, Resource!Next, Resource!Destroy

\* An orphan is let go of; the object goes with its finalizer.
LEMMA DeletionRefines ==
  ASSUME TypeOK, TrackInv, RememberedInv, RemembersNamed, source = "name",
         UNCHANGED source, Delete \/ Unfinalize
  PROVE  Allowed
<1>1. UNCHANGED gcp /\ resource' = resource /\ managed' = managed
  BY DEF Delete, Unfinalize, resource, managed
<1>2. CASE Delete
  <2>1. UNCHANGED obj
    BY <1>2 DEF Delete
  <2>2. asked' = asked
    BY <2>1 DEF RemembersNamed, RememberedInv
  <2>3. obj # NoObject /\ obj.deleting => doomed' = doomed
    BY <2>1 DEF RemembersNamed, RememberedInv
  <2>4. life' = life
    BY <2>1, <2>3 DEF life, LifeOf
  <2>5. excused' = excused \/ excused' = TRUE
    BY <2>1 DEF RemembersNamed, RememberedInv
  <2>6. CASE excused' = excused
    BY <1>1, <2>2, <2>4, <2>6 DEF Allowed, Resource!vars
  <2>7. CASE excused' = TRUE
    BY <1>1, <2>2, <2>4, <2>7 DEF Allowed, Resource!Next, Resource!LetGo
  <2> QED BY <2>5, <2>6, <2>7
<1>3. CASE Unfinalize
  <2> DEFINE new == [run.u EXCEPT !.fins = @ \ {Controller}]
  <2>1. /\ obj = run.u /\ run.u \in Object /\ run.step = "unfinalize"
        /\ run.u.deleting /\ run.u.fins = {Controller} /\ obj # NoObject
        /\ ~run.u.abandon => Lives \subseteq waived
    BY <1>3
    DEF Unfinalize, Writes, TrackInv, CopyInv, DeleteInv, TypeOK, Findable
  <2>2. new.deleting /\ new.fins = {}
    BY <2>1 DEF Object
  <2>3. obj' = NoObject
    BY <1>3, <2>2 DEF Unfinalize, Writes
  <2>4. life \in {"deleting", "leaving"} /\ life' = "absent" /\ asked' = asked
    BY <2>1, <2>3 DEF life, LifeOf, RemembersNamed
  <2>5. excused \/ Lives = {}
    BY <2>1 DEF RememberedInv
  <2>6. Lives = {} => resource = NoSpec
    BY OneResource DEF Lives, resource, TypeOK
  <2>7. excused \/ ~managed
    BY <2>5, <2>6 DEF managed
  <2>8. excused' = excused
    BY <1>3, <2>1, <2>3, <2>5 DEF RemembersNamed, RememberedInv, Unfinalize
  <2> QED BY <1>1, <2>4, <2>7, <2>8 DEF Allowed, Resource!Next, Resource!Release
<1> QED BY <1>2, <1>3

\* What others do in GCP is drift.
LEMMA WorldRefines ==
  ASSUME TypeOK, TypeOK', TrackInv, TrackInv', RememberedInv, RemembersNamed,
         source = "name", UNCHANGED source,
         \/ \E p \in {"ready", "unready", "gone", "abandoned"}: ParentChanges(p)
         \/ \E i \in 1..MaxMade: Drift(i)
  PROVE  Allowed
<1>1. UNCHANGED <<obj, waived>>
  BY DEF ParentChanges, Drift
<1>2. asked' = asked /\ excused' = excused /\ life' = life
  BY <1>1, Unseen DEF Same
<1>3. CASE UNCHANGED gcp
  BY <1>2, <1>3 DEF Allowed, Resource!vars, resource, managed
<1>4. ASSUME NEW d \in Specs \union {NoSpec}, resource' = d,
             d # NoSpec => resource # NoSpec
      PROVE  Allowed
  <2>1. managed' = (managed /\ resource # NoSpec /\ d # NoSpec)
    BY <1>4 DEF managed
  <2> QED BY <1>2, <1>4, <2>1 DEF Allowed, Resource!Next, Resource!Drift
<1>5. CASE gcp' = [i \in 1..MaxMade |-> NoSpec]
  <2>1. resource' = NoSpec
    BY <1>5, OneResource DEF resource, TypeOK
  <2> QED BY <1>4, <2>1
<1>6. ASSUME NEW i \in 1..MaxMade, Drift(i) PROVE Allowed
  <2>1. /\ gcp[i] # NoSpec /\ \A j \in 1..MaxMade: gcp[j] # NoSpec => j = i
        /\ gcp'[i] \in Specs \union {NoSpec}
        /\ \A j \in 1..MaxMade: j # i => gcp'[j] = gcp[j]
    BY <1>6 DEF Drift, TrackInv, WorldInv, Lives, TypeOK
  <2>2. resource # NoSpec
    BY <2>1, OneResource DEF resource, TypeOK
  <2>3. resource' = gcp'[i]
    <3>1. CASE gcp'[i] = NoSpec
      <4>1. \A j \in 1..MaxMade: gcp'[j] = NoSpec
        BY <2>1, <3>1
      <4> QED BY <3>1, <4>1, OneResource DEF resource, TypeOK
    <3>2. CASE gcp'[i] # NoSpec
      <4>1. \A j \in 1..MaxMade: gcp'[j] # NoSpec => j = i
        BY <2>1
      <4> QED BY <3>2, <4>1, OneResource DEF resource, TypeOK
    <3> QED BY <3>1, <3>2
  <2> QED BY <1>4, <2>1, <2>2, <2>3
<1> QED BY <1>3, <1>5, <1>6 DEF ParentChanges

\* Every step is allowed.
LEMMA StepRefines ==
  ASSUME TypeOK, TypeOK', TrackInv, TrackInv', RememberedInv, Next, Remembers
  PROVE  Allowed
<1>1. UNCHANGED source
  BY DEF Next
<1>2. CASE source # "name"
  BY <1>1, <1>2
  DEF Allowed, Resource!vars, Remembers, history, life, resource, managed
<1>3. CASE source = "name"
  <2>1. RemembersNamed
    BY <1>3 DEF Remembers
  <2>2. CASE UNCHANGED <<obj, gcp, waived>>
    BY <1>1, <1>3, <2>1, <2>2, QuietRefines DEF Same
  <2> QED
    BY <1>1, <1>3, <2>1, <2>2, QuietSteps, ObjectShape, QuietRefines,
       UsersRefine, ApplyRefines, DestroyRefines, DeletionRefines, WorldRefines
<1> QED BY <1>2, <1>3

-----------------------------------------------------------------------------
\* What a step does to the reconcile's copy: drop it, keep it, or get one
\* that is current.
LEMMA CopyStep ==
  ASSUME TypeOK, Next
  PROVE  \/ run'.step = "idle" \/ current'
         \/ run.step # "idle" /\ run'.u = run.u
<1>1. Idle.step = "idle"
  BY Runs
<1> QED
  BY <1>1
  DEF Next, Acts, Reconciles, world, Writes, Goto, TypeOK, Get, Gate,
      PauseFinalizes, Fetch, FetchFails, EnsureFinalizers, HandleUpdating,
      Apply, ApplyFails, RecordSpec, RecordStatus, Report, FinalizesNothing,
      HandleDeleting, WritesDeleting, Delete, FetchForDelete, Destroy,
      HandleDeleted, Unfinalize, WriteFails, UserCreates, UserEdits,
      UserSetsDeletionPolicy, UserDeletes, DefenderFinalizes, TogglesPause,
      ParentChanges, Drift, Restart

\* Nothing is looked up for a deletion that is to leave the resource.
LEMMA NotAbandoned ==
  ASSUME TypeOK, source = "name", RememberedInv, Next,
         run'.step \in {"deleteFetch", "destroy"}
  PROVE  ~run'.u.abandon
<1> DEFINE Last == {"deleteFetch", "destroy"}
<1>1. Idle.step \notin Last
  BY Runs
<1>w. ASSUME NEW step, NEW new, NEW next, next \notin Last,
             Writes(step, new, next)
      PROVE  FALSE
  BY <1>1, <1>w DEF Writes, TypeOK
<1>g. ASSUME NEW step, step \notin Last, Goto(step) PROVE FALSE
  BY <1>g DEF Goto, TypeOK
<1>2. Delete \/ FetchForDelete \/ run' = run
  <2>1. CASE \/ PauseFinalizes \/ HandleUpdating \/ RecordSpec \/ RecordStatus
             \/ Report \/ WritesDeleting \/ HandleDeleted \/ Unfinalize
    BY <1>w, <2>1
    DEF PauseFinalizes, HandleUpdating, RecordSpec, RecordStatus, Report,
        WritesDeleting, HandleDeleted, Unfinalize
  <2>2. CASE EnsureFinalizers
    <3>1. AfterFinalizers \notin Last
      BY DEF AfterFinalizers, UpToDateStep
    <3>2. run' # Idle /\ run' # [run EXCEPT !.step = AfterFinalizers]
      BY <1>1, <3>1 DEF TypeOK
    <3> QED BY <1>w, <2>2, <3>1, <3>2 DEF EnsureFinalizers
  <2>3. CASE Get \/ Fetch \/ Apply
    <3>1. ASSUME NEW step, step \notin Last, NEW live,
                 run' = [run EXCEPT !.step = step, !.live = live]
          PROVE  FALSE
      BY <3>1 DEF TypeOK
    <3>2. CASE Get
      BY <3>2 DEF Get
    <3>3. CASE Fetch
      BY <1>g, <3>1, <3>3 DEF Fetch
    <3>4. CASE Apply
      BY <1>g, <3>1, <3>4 DEF Apply
    <3> QED BY <2>3, <3>2, <3>3, <3>4
  <2>4. CASE \/ Gate \/ FetchFails \/ ApplyFails \/ FinalizesNothing
             \/ HandleDeleting \/ Destroy \/ WriteFails \/ Restart
    BY <1>1, <1>g, <2>4
    DEF Gate, FetchFails, ApplyFails, FinalizesNothing, HandleDeleting,
        Destroy, WriteFails, Restart
  <2> QED
    BY <2>1, <2>2, <2>3, <2>4
    DEF Next, Acts, Reconciles, UserCreates, UserEdits,
        UserSetsDeletionPolicy, UserDeletes, DefenderFinalizes, TogglesPause,
        ParentChanges, Drift
<1>3. CASE Delete
  BY <1>3 DEF Delete, Goto, TypeOK
<1>4. CASE FetchForDelete
  BY <1>4 DEF FetchForDelete, Goto, TypeOK, RememberedInv
<1>5. CASE run' = run
  BY <1>5 DEF RememberedInv
<1> QED BY <1>2, <1>3, <1>4, <1>5

LEMMA RememberedStep ==
  ASSUME TypeOK, TrackInv, TrackInv', RememberedInv, Next, Remembers
  PROVE  RememberedInv'
<1> SUFFICES ASSUME source' = "name" PROVE RememberedInv'
  BY DEF RememberedInv
<1>0. source = "name" /\ RemembersNamed
  BY DEF Next, Remembers
<1>1. /\ doomed' \in BOOLEAN /\ excused' \in BOOLEAN
      /\ waived' # {} => excused'
  BY <1>0 DEF RemembersNamed
<1>2. ASSUME obj' # NoObject
      PROVE  /\ obj'.spec \in asked'
             /\ obj'.abandon => excused'
             /\ obj'.deleting /\ ~obj'.abandon => doomed'
  BY <1>0, <1>2 DEF RemembersNamed
<1>3. ASSUME run'.step # "idle", Controller \in run'.u.fins
      PROVE  /\ run'.u.spec \in asked'
             /\ run'.u.deleting /\ ~run'.u.abandon => doomed'
  <2>1. /\ obj' # NoObject /\ (current' => run'.u = obj')
        /\ run'.u.deleting => obj'.deleting
    BY <1>3 DEF TrackInv, CopyInv
  <2>2. CASE current'
    BY <1>2, <2>1, <2>2
  <2>3. CASE run.step # "idle" /\ run'.u = run.u
    <3>1. /\ obj # NoObject /\ run.u.spec \in asked
          /\ run.u.deleting /\ ~run.u.abandon => doomed
      BY <1>0, <1>3, <2>3 DEF TrackInv, CopyInv, RememberedInv
    <3> QED BY <1>0, <2>1, <2>3, <3>1 DEF RemembersNamed
  <2> QED BY <1>3, <2>2, <2>3, CopyStep
<1> QED BY <1>0, <1>1, <1>2, <1>3, NotAbandoned DEF RememberedInv

(***************************************************************************)
(* For resources with names, the reconciler implements what Config         *)
(* Connector promises about an object and its GCP resource, whatever       *)
(* conflicts, is lost, dies or drifts, and for any specs: it is the same   *)
(* promise that the direct controller keeps.                               *)
(***************************************************************************)
THEOREM NamedResourcesAreManaged == RememberingSpec => NamedIsManaged
<1>1. RememberingInit => Resource!Init /\ RememberedInv
  <2> SUFFICES ASSUME RememberingInit PROVE Resource!Init /\ RememberedInv
    OBVIOUS
  <2>1. life = "absent"
    BY DEF RememberingInit, Init, life, LifeOf
  <2>2. resource = NoSpec /\ managed = FALSE
    BY DEF RememberingInit, Init, resource, managed, ResourceIn
  <2>3. RememberedInv
    BY Runs DEF RememberingInit, Init, RememberedInv
  <2> QED BY <2>1, <2>2, <2>3 DEF RememberingInit, Resource!Init
<1>2. [RememberingNext]_<<vars, history>> => [Next]_vars
  BY DEF RememberingNext
<1>3. /\ TypeOK /\ TrackInv /\ TrackInv' /\ RememberedInv
      /\ [RememberingNext]_<<vars, history>>
      => RememberedInv'
  <2>1. ASSUME RememberedInv, UNCHANGED <<vars, history>>
        PROVE  RememberedInv'
    BY <2>1 DEF vars, history, RememberedInv
  <2> QED BY <2>1, RememberedStep DEF RememberingNext
<1>4. /\ TypeOK /\ TypeOK' /\ TrackInv /\ TrackInv' /\ RememberedInv
      /\ [RememberingNext]_<<vars, history>>
      => [Resource!Next]_(Resource!vars)
  <2>1. ASSUME UNCHANGED <<vars, history>> PROVE UNCHANGED Resource!vars
    BY <2>1 DEF vars, history, Resource!vars, life, resource, managed
  <2> QED BY <2>1, StepRefines DEF Allowed, RememberingNext
<1>5. RememberingSpec => Spec
  BY <1>2, PTL DEF RememberingSpec, RememberingInit, Spec
<1>6. RememberingSpec => [](TypeOK /\ TrackInv)
  BY <1>5, TrackInvariance, PTL
<1>7. RememberingSpec => []RememberedInv
  BY <1>1, <1>3, <1>6, PTL DEF RememberingSpec
<1> QED BY <1>1, <1>4, <1>6, <1>7, PTL
        DEF RememberingSpec, NamedIsManaged, Resource!Spec

=============================================================================
