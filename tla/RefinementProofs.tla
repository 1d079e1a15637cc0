-------------------------- MODULE RefinementProofs --------------------------
(***************************************************************************)
(* DirectReconciler implements ManagedResource, for all values of the      *)
(* constants.                                                              *)
(***************************************************************************)
EXTENDS DirectRefinement, DirectProofs

\* What a step may do to the controller's copy: drop it, keep it, or get one
\* that is current.
CopyStep ==
  \/ ctl'.step = "idle"
  \/ Busy /\ ctl'.u = ctl.u
  \/ "ctl" \in current'

\* A step of ManagedResource, or none.
Allowed == [Resource!Next]_(Resource!vars)

\* Nothing to be seen: the object keeps what ManagedResource knows of it.
LEMMA Unseen ==
  ASSUME AskedInv, Remembers,
         \/ obj' = obj
         \/ /\ obj # NoObject /\ obj' # NoObject
            /\ obj'.want = obj.want /\ obj'.deleting = obj.deleting
            /\ Controller \in obj'.fins <=> Controller \in obj.fins,
         UNCHANGED request
  PROVE  life' = life /\ asked' = asked
<1>1. life' = life
  BY DEF life, LifeOf
<1>2. asked' = asked
  BY DEF AskedInv, Remembers
<1> QED BY <1>1, <1>2

\* Then a step that changes nothing else is a stutter.
LEMMA Stutters ==
  ASSUME life' = life, asked' = asked, UNCHANGED <<gcp, managed, waived>>
  PROVE  Allowed
BY DEF Allowed, Resource!vars

\* What a write of the controller does to the object.
LEMMA WriteShape ==
  ASSUME IndInv, Busy, NEW new, Write("ctl", new) \/ WriteFails("ctl", new)
  PROVE  \/ obj' = obj
         \/ obj # NoObject /\ obj = ctl.u /\ obj' = Stored(new)
BY DEF IndInv, CopyInv, GoodCopy, Write, WriteFails

\* A copy with its finalizers, or with another status, says what it said.
LEMMA WantKept ==
  ASSUME NEW o \in Object, NEW c \in Conditions
  PROVE  WithFinalizers(o).want = o.want /\ Status(o, c).want = o.want
BY DEF WithFinalizers, Status, Object

\* Steps that leave the object alone, and GCP too.
LEMMA QuietRefines ==
  ASSUME IndInv, AskedInv, Remembers,
         \/ Get \/ FetchCC \/ Gate \/ ApplyDefaults \/ Find
         \/ SetLastModifiedCookie \/ TimerFires \/ Restart \/ DefenderGet
         \/ IsUninstalling \/ DefenderFails \/ AdminConfigures
         \/ UNCHANGED vars
  PROVE  CopyStep /\ Allowed
<1>1. UNCHANGED <<obj, gcp, request, managed, waived>>
  BY DEF Get, FetchCC, Gate, ApplyDefaults, Find, SetLastModifiedCookie,
         Touch, TouchFails, TimerFires, Restart, DefenderGet, IsUninstalling,
         DefenderFails, AdminConfigures, vars, ghosts
<1>2. Allowed
  BY <1>1, Unseen, Stutters
<1>3. CopyStep
  <2>1. CASE Get
    BY <2>1 DEF Get, CopyStep, Busy
  <2>2. CASE Gate
    BY <2>2, IdleState
    DEF Gate, CopyStep, Busy, Retry, Report, Finish, Goto, IndInv, TypeOK,
        CtlState
  <2>3. CASE Find
    BY <2>3, IdleState
    DEF Find, CopyStep, Busy, Report, Finish, IndInv, TypeOK, CtlState
  <2>6. CASE FetchCC \/ ApplyDefaults
    BY <2>6, IdleState
    DEF FetchCC, ApplyDefaults, CopyStep, Busy, Retry, Goto, IndInv, TypeOK,
        CtlState
  <2>7. CASE SetLastModifiedCookie
    BY <2>7
    DEF SetLastModifiedCookie, CopyStep, Busy, Goto, ReportsNoID, IndInv,
        TypeOK, CtlState
  <2>4. CASE Restart
    BY <2>4, IdleState DEF Restart, CopyStep
  <2>5. CASE UNCHANGED ctl
    BY <2>5 DEF CopyStep, Busy
  <2> QED BY <2>1, <2>2, <2>3, <2>4, <2>5, <2>6, <2>7
          DEF TimerFires, DefenderGet, IsUninstalling, DefenderFails,
              AdminConfigures, vars
<1> QED BY <1>2, <1>3

\* A write that keeps what ManagedResource knows of the object.
LEMMA SavingShape ==
  ASSUME IndInv, Busy, ctl.u \in Object, NEW new \in Object,
         new.want = ctl.u.want, new.fins = ctl.u.fins,
         new.deleting = ctl.u.deleting,
         Write("ctl", new) \/ WriteFails("ctl", new)
  PROVE  /\ \/ obj' = obj
            \/ /\ obj # NoObject /\ obj' # NoObject /\ obj = ctl.u /\ obj' = new
               /\ obj'.want = obj.want /\ obj'.deleting = obj.deleting
               /\ Controller \in obj'.fins <=> Controller \in obj.fins
         /\ Write("ctl", new) => "ctl" \in current'
<1>1. /\ UNCHANGED obj \/ (obj # NoObject /\ obj = ctl.u /\ obj' = new)
      /\ Write("ctl", new) => obj' = new
  BY Writes
<1>2. new # NoObject BY DirectAssumption
<1>3. Write("ctl", new) => "ctl" \in current'
  BY <1>1, <1>2 DEF Write
<1> QED BY <1>1, <1>2, <1>3

\* Steps that save a status or an identifier: the object stays and says what
\* it said, and may lead to the resource from now on.
LEMMA StatusRefines ==
  ASSUME IndInv, AskedInv, Remembers,
         \/ UpdateStatus \/ UpdateAPIServer \/ HandleUpToDate
         \/ HandleFailed \/ MarkDeleted \/ SetSpecResourceID
  PROVE  CopyStep /\ Allowed
<1> USE IdleState
<1>1. Busy /\ ctl.u \in Object /\ ctl \in CtlState
      /\ ctl.id \in IDs \union {NoID} /\ UNCHANGED <<gcp, waived, request>>
  BY DEF IndInv, CopyInv, Busy, TypeOK, CtlState, UpdateStatus,
         UpdateAPIServer, HandleUpToDate, HandleFailed, MarkDeleted,
         SetSpecResourceID, ghosts
<1> DEFINE Saving(new) ==
             /\ new \in Object
             /\ new.want = ctl.u.want /\ new.fins = ctl.u.fins
             /\ new.deleting = ctl.u.deleting
             /\ new.id # ctl.u.id => ctl.id # NoID
             /\ Write("ctl", new) \/ WriteFails("ctl", new)
             /\ ctl'.step # "idle" /\ ctl'.u # ctl.u => Write("ctl", new)
<1>2. \/ obj' = obj /\ (ctl'.step = "idle" \/ ctl'.u = ctl.u)
      \/ \E new: Saving(new)
  <2>1. ASSUME NEW c \in Conditions
        PROVE  \A new \in {Status(Carrying(ctl.u, ctl.id), c), Status(ctl.u, c)}:
                 /\ new \in Object
                 /\ new.want = ctl.u.want /\ new.fins = ctl.u.fins
                 /\ new.deleting = ctl.u.deleting
                 /\ new.id # ctl.u.id => ctl.id # NoID
    <3>1. PICK new: new = Status(Carrying(ctl.u, ctl.id), c) OBVIOUS
    <3>2. /\ new \in Object
          /\ new.want = ctl.u.want /\ new.fins = ctl.u.fins
          /\ new.deleting = ctl.u.deleting
          /\ new.id = IF ctl.id = NoID THEN ctl.u.id ELSE ctl.id
      BY <1>1, <3>1, Saves
    <3> QED BY <1>1, <3>1, <3>2, Fields
  <2>2. CASE UpdateStatus
    <3>1. ReadyCondition(ctl.u, ctl.cond) \in Conditions
      BY <1>1 DEF ReadyCondition, CtlState, Object
    <3>2. PICK new: /\ new = Status(Carrying(ctl.u, ctl.id),
                                    ReadyCondition(ctl.u, ctl.cond))
                    /\ \/ Write("ctl", new)
                       \/ WriteFails("ctl", new) /\ Report("Failed")
      BY <2>2 DEF UpdateStatus
    <3>3. Saving(new)
      BY <1>1, <2>1, <3>1, <3>2 DEF Report, CtlState
    <3> QED BY <3>3
  <2>3. CASE UpdateAPIServer
    <3>1. Saving(ctl.u)
      BY <1>1, <2>3 DEF UpdateAPIServer, Retry
    <3> QED BY <3>1
  <2>4. CASE HandleUpToDate
    <3>1. "UpToDate" \in Conditions BY DEF Conditions
    <3>2. PICK new: /\ new = Status(Carrying(ctl.u, ctl.id), "UpToDate")
                    /\ Write("ctl", new) \/ (WriteFails("ctl", new) /\ Retry)
      BY <2>4 DEF HandleUpToDate
    <3>3. Saving(new)
      BY <1>1, <2>1, <3>1, <3>2 DEF Retry
    <3> QED BY <3>3
  <2>5. CASE HandleFailed
    <3>1. ctl.cond \in Conditions
      BY <2>5 DEF HandleFailed, IndInv, StepInv, Trouble, Conditions
    <3>2. ctl'.step = "idle" BY <2>5 DEF HandleFailed, Retry
    <3>3. CASE obj' = obj
      BY <3>2, <3>3
    <3>4. CASE obj' # obj
      <4>1. PICK new: /\ new = Status(Carrying(ctl.u, ctl.id), ctl.cond)
                      /\ Write("ctl", new) \/ WriteFails("ctl", new)
        BY <2>5, <3>4 DEF HandleFailed
      <4>2. Saving(new)
        BY <1>1, <2>1, <3>1, <3>2, <4>1
      <4> QED BY <4>2
    <3> QED BY <3>3, <3>4
  <2>6. CASE MarkDeleted
    <3>1. "Deleted" \in Conditions BY DEF Conditions
    <3>2. PICK new: /\ new = Status(ctl.u, "Deleted")
                    /\ Write("ctl", new) \/ (WriteFails("ctl", new) /\ Retry)
      BY <2>6 DEF MarkDeleted
    <3>3. Saving(new)
      BY <1>1, <2>1, <3>1, <3>2 DEF Retry
    <3> QED BY <3>3
  <2>7. CASE SetSpecResourceID
    <3>1. ctl.id \in IDs BY <1>1, <2>7 DEF SetSpecResourceID
    <3>2. PICK new: /\ new = WithResourceID(ctl.u, ctl.id)
                    /\ \/ Write("ctl", new)
                       \/ WriteFails("ctl", new) /\ ReportsNoID
      BY <2>7 DEF SetSpecResourceID
    <3>3. Saving(new)
      <4>1. /\ new \in Object
            /\ new.want = ctl.u.want /\ new.fins = ctl.u.fins
            /\ new.deleting = ctl.u.deleting
        BY <1>1, <3>1, <3>2, SavesInSpec
      <4>2. ctl.id # NoID BY <3>1, DirectAssumption
      <4>3. ReportsNoID => ctl'.u = ctl.u BY <1>1 DEF ReportsNoID, CtlState
      <4> QED BY <3>2, <4>1, <4>2, <4>3
    <3> QED BY <3>3
  <2> QED BY <2>2, <2>3, <2>4, <2>5, <2>6, <2>7
<1>3. /\ \/ obj' = obj
         \/ /\ obj # NoObject /\ obj' # NoObject
            /\ obj'.want = obj.want /\ obj'.deleting = obj.deleting
            /\ Controller \in obj'.fins <=> Controller \in obj.fins
            /\ obj'.id # obj.id => ctl.id # NoID
      /\ CopyStep
  <2>1. CASE \E new: Saving(new)
    <3>1. PICK new: Saving(new) BY <2>1
    <3> QED BY <1>1, <3>1, SavingShape DEF CopyStep
  <2> QED BY <1>1, <1>2, <2>1 DEF CopyStep
<1>4. life' = life /\ asked' = asked
  BY <1>1, <1>3, Unseen
<1>5. \/ UNCHANGED managed
      \/ /\ obj' \notin {obj, NoObject} /\ obj'.id # obj.id
         /\ managed' = (gcp # NoResource)
  BY DEF UpdateStatus, UpdateAPIServer, HandleUpToDate, HandleFailed,
         MarkDeleted, SetSpecResourceID, Recorded, ghosts
<1>6. CASE UNCHANGED managed
  BY <1>1, <1>3, <1>4, <1>6, Stutters
<1>7. CASE /\ obj' \notin {obj, NoObject} /\ obj'.id # obj.id
           /\ managed' = (gcp # NoResource)
  <2>1. Controller \in ctl.u.fins
    BY <1>3, <1>7 DEF IndInv, IdentityInv
  <2>2. waived \/ Resource!Kept
    BY <1>1, <2>1 DEF IndInv, CopyInv, GoodCopy, Held, Resource!Kept, life,
       LifeOf
  <2> QED BY <1>1, <1>3, <1>4, <1>7, <2>2
          DEF Allowed, Resource!Next, Resource!Acquire
<1> QED BY <1>5, <1>6, <1>7

\* Steps that set the finalizers: the object is held from now on.
LEMMA FinalizersRefine ==
  ASSUME IndInv, AskedInv, Remembers, PausedFinalizers \/ EnsureFinalizers
  PROVE  CopyStep /\ Allowed
<1> USE IdleState
<1> DEFINE new == WithFinalizers(ctl.u)
<1>1. Busy /\ ctl.u \in Object /\ ctl \in CtlState /\ ~ctl.u.deleting
      /\ UNCHANGED <<gcp, managed, waived, request>>
  BY DEF IndInv, CopyInv, StepInv, Busy, TypeOK, PausedFinalizers,
         EnsureFinalizers, ghosts
<1>2. new \in Object /\ new.want = ctl.u.want /\ ~new.deleting
      /\ Controller \in new.fins
  <2>1. "None" \in Conditions BY DEF Conditions
  <2> QED BY <1>1, <2>1, WithFinalizersKeeps, WantKept DEF Finalizers
<1>3. obj' = obj \/ Write("ctl", new) \/ WriteFails("ctl", new)
  BY DEF PausedFinalizers, EnsureFinalizers
<1>4. obj' = obj \/ (obj # NoObject /\ obj = ctl.u /\ obj' = Stored(new))
  BY <1>1, <1>3, WriteShape
<1> HIDE DEF new
<1>5. obj' = obj \/ (obj # NoObject /\ obj = ctl.u /\ obj' = new)
  BY <1>2, <1>4 DEF Stored
<1>6. Allowed
  <2>1. CASE obj' = obj
    BY <1>1, <2>1, Unseen, Stutters
  <2>2. CASE obj # NoObject /\ obj = ctl.u /\ obj' = new
    <3>1. asked' = asked
      BY <1>2, <2>2, DirectAssumption DEF AskedInv, Remembers
    <3>2. life' = "held" /\ life \in {"loose", "held"}
      BY <1>1, <1>2, <2>2, DirectAssumption DEF life, LifeOf
    <3> QED BY <1>1, <3>1, <3>2
            DEF Allowed, Resource!Next, Resource!Hold, Resource!vars
  <2> QED BY <1>5, <2>1, <2>2
<1>7. CopyStep
  <2>1. ASSUME ctl'.step # "idle", ctl'.u # ctl.u PROVE Write("ctl", new)
    BY <1>1, <2>1 DEF PausedFinalizers, EnsureFinalizers, Retry, Finish, Goto,
         CtlState, new
  <2>2. ASSUME Write("ctl", new) PROVE "ctl" \in current'
    BY <1>2, <2>2, DirectAssumption DEF Write, Stored
  <2> QED BY <1>1, <2>1, <2>2 DEF CopyStep
<1> QED BY <1>6, <1>7

\* What the controller applies has been asked for and its object is held.
LEMMA MayApply ==
  ASSUME IndInv, AskedInv, ctl.step = "apply"
  PROVE  waived \/ (Resource!Kept /\ ctl.u.want \in asked)
<1>1. Controller \in ctl.u.fins /\ Busy
  BY DEF IndInv, StepInv, Busy
<1>2. ~waived => Held /\ ctl.u.want \in asked
  BY <1>1 DEF IndInv, CopyInv, GoodCopy, AskedInv
<1> QED BY <1>2 DEF Held, Resource!Kept, life, LifeOf

\* Calls to GCP keep the copy, so that nothing but GCP changes.
LEMMA ActuationRefines ==
  ASSUME IndInv, AskedInv, Remembers, Create \/ Update \/ Delete
  PROVE  CopyStep /\ Allowed
<1>1. UNCHANGED <<obj, request>> /\ Busy /\ ctl.u \in Object /\ ctl \in CtlState
  BY DEF Create, Update, Delete, Busy, IndInv, CopyInv, TypeOK
<1>2. life' = life /\ asked' = asked
  BY <1>1, Unseen
<1>3. CopyStep
  <2>1. ctl'.u = ctl.u
    BY <1>1 DEF Create, Update, Delete, Publish, Report, Goto, CtlState
  <2> QED BY <1>1, <2>1 DEF CopyStep
<1>4. CASE Create \/ Update
  <2>1. ctl.step = "apply" /\ UNCHANGED waived
    BY <1>4 DEF Create, Update
  <2>2. waived \/ (Resource!Kept /\ ctl.u.want \in asked)
    BY <2>1, MayApply
  <2>3. ctl.u.want \in Desired
    BY <1>1 DEF Object
  <2>0. managed \in BOOLEAN BY DEF IndInv, TypeOK
  <2>4. \/ UNCHANGED <<gcp, managed>>
        \/ gcp' = ctl.u.want /\ managed' = TRUE
        \/ UNCHANGED gcp /\ managed' = (gcp # NoResource)
        \/ gcp' = ctl.u.want /\ managed' = FALSE /\ (waived \/ ~managed)
    <3>1. CASE Create
      <4>1. waived \/ ~managed
        BY <3>1 DEF Create, IndInv, IdentityInv
      <4>2. \/ UNCHANGED <<gcp, managed>>
            \/ gcp' = ctl.u.want /\ managed' = (naming = "given")
        BY <3>1 DEF Create, Insert
      <4> QED BY <4>1, <4>2
    <3>2. CASE Update
      BY <3>2 DEF Update, Actuate
    <3> QED BY <1>4, <3>1, <3>2
  <2>5. CASE UNCHANGED <<gcp, managed>>
    BY <1>2, <1>3, <2>1, <2>5, Stutters
  <2>6. CASE gcp' = ctl.u.want /\ managed' = TRUE
    BY <1>2, <1>3, <2>1, <2>2, <2>3, <2>6
    DEF Allowed, Resource!Next, Resource!Apply
  <2>7. CASE UNCHANGED gcp /\ managed' = (gcp # NoResource)
    BY <1>2, <1>3, <2>1, <2>2, <2>7 DEF Allowed, Resource!Next, Resource!Acquire
  <2>8. CASE gcp' = ctl.u.want /\ managed' = FALSE /\ (waived \/ ~managed)
    BY <1>2, <1>3, <2>1, <2>2, <2>3, <2>8
    DEF Allowed, Resource!Next, Resource!Attempt
  <2> QED BY <2>4, <2>5, <2>6, <2>7, <2>8
<1>5. CASE Delete
  <2>1. life = "deleting"
    <3>1. ctl.step = "delete" BY <1>5 DEF Delete
    <3>2. /\ obj # NoObject /\ Passed(obj)
          /\ request.abandon => ctl.u.abandon
          /\ ~ctl.u.abandon
      BY <3>1 DEF IndInv, StepInv, CopyInv, GoodCopy, Busy
    <3>3. request.by = "user" /\ ~request.abandon
      BY <3>2 DEF IndInv, ObjectInv
    <3>4. request = [by |-> "user", abandon |-> FALSE]
      BY <3>3 DEF IndInv, TypeOK
    <3> QED BY <3>2, <3>4 DEF life, LifeOf, Passed
  <2>2. \/ UNCHANGED <<gcp, managed, waived>>
        \/ gcp' = NoResource /\ managed' = FALSE /\ UNCHANGED waived
        \/ UNCHANGED <<gcp, managed>> /\ waived' = TRUE
    BY <1>5 DEF Delete
  <2>3. CASE UNCHANGED <<gcp, managed, waived>>
    BY <1>2, <1>3, <2>3, Stutters
  <2>4. CASE gcp' = NoResource /\ managed' = FALSE /\ UNCHANGED waived
    BY <1>2, <1>3, <2>1, <2>4 DEF Allowed, Resource!Next, Resource!Destroy
  <2>5. CASE UNCHANGED <<gcp, managed>> /\ waived' = TRUE
    BY <1>2, <1>3, <2>5 DEF Allowed, Resource!Next, Resource!LetGo
  <2> QED BY <2>2, <2>3, <2>4, <2>5
<1> QED BY <1>3, <1>4, <1>5

\* The finalizer goes only when there is nothing to manage any more.
LEMMA UnfinalizeRefines ==
  ASSUME IndInv, AskedInv, Remembers, Unfinalize
  PROVE  CopyStep /\ Allowed
<1> DEFINE new == [ctl.u EXCEPT !.fins = ctl.u.fins \ {Controller}]
<1>1. Busy /\ ctl.u \in Object /\ Passed(ctl.u) /\ (waived \/ ~managed)
      /\ UNCHANGED <<gcp, managed, waived, request>>
  BY DEF IndInv, CopyInv, StepInv, Busy, Unfinalize, ghosts
<1>2. ctl'.step = "idle"
  BY IdleState DEF Unfinalize, Finish, Retry
<1>3. obj' = obj \/ (obj # NoObject /\ obj = ctl.u /\ obj' = Stored(new))
  BY <1>1, WriteShape DEF Unfinalize
<1>4. new.deleting /\ new.fins = {}
  BY <1>1 DEF Passed, Object, Finalizers
<1> HIDE DEF new
<1>5. CASE obj' = obj
  BY <1>1, <1>2, <1>5, Unseen, Stutters DEF CopyStep
<1>6. CASE obj # NoObject /\ obj = ctl.u /\ obj' = Stored(new)
  <2>1. obj' = NoObject
    BY <1>4, <1>6 DEF Stored
  <2>2. life \in {"deleting", "leaving"} /\ life' = "absent" /\ asked' = asked
    BY <1>1, <1>6, <2>1 DEF life, LifeOf, Passed, Remembers
  <2> QED BY <1>1, <1>2, <2>2
          DEF CopyStep, Allowed, Resource!Next, Resource!Release
<1> QED BY <1>3, <1>5, <1>6

\* The deletion defender lets an object go only for an uninstall.
LEMMA DefenderRefines ==
  ASSUME IndInv, AskedInv, Remembers, DefenderUpdate
  PROVE  CopyStep /\ Allowed
<1> DEFINE new == Defended(dd.u, dd.uninstalling)
<1>1. Defending /\ dd.step = "update" /\ dd.u \in Object /\ dd.u = obj
      /\ obj # NoObject /\ obj.deleting
      /\ obj' = Stored(new) /\ UNCHANGED <<ctl, gcp, managed, waived, request>>
  BY DEF IndInv, DefenderInv, Defending, DefenderUpdate, Write, ghosts
<1>2. CopyStep
  BY <1>1 DEF CopyStep, Busy
<1>3. new.want = obj.want /\ new.deleting
      /\ new.fins = (IF dd.uninstalling THEN {} ELSE obj.fins \ {Defender})
  BY <1>1 DEF Defended, Object, Finalizers
<1> HIDE DEF new
<1>4. CASE ~dd.uninstalling /\ Controller \in obj.fins
  <2>1. Controller \in new.fins
    BY <1>3, <1>4 DEF Controller, Defender
  <2>2. obj' = new BY <1>1, <2>1 DEF Stored
  <2>3. CASE new # NoObject
    BY <1>1, <1>2, <1>3, <1>4, <2>1, <2>2, <2>3, Unseen, Stutters
  <2>4. CASE new = NoObject
    <3>1. new \in Object
      BY <1>1, DefendedKeeps DEF new, IndInv, TypeOK, DefenderState
    <3> QED BY <2>4, <3>1, DirectAssumption
  <2> QED BY <2>3, <2>4
<1>5. CASE dd.uninstalling \/ Controller \notin obj.fins
  <2>1. new.fins = {}
    <3>1. CASE dd.uninstalling
      BY <1>3, <3>1
    <3>2. CASE ~dd.uninstalling
      BY <1>1, <1>3, <1>5, <3>2 DEF Object, Finalizers
    <3> QED BY <3>1, <3>2
  <2>2. obj' = NoObject
    BY <1>1, <1>3, <2>1 DEF Stored
  <2>3. asked' = asked /\ life' = "absent"
    BY <2>2 DEF Remembers, life, LifeOf
  <2>4. CASE Controller \notin obj.fins
    <3>1. life = "loose" BY <1>1, <2>4 DEF life, LifeOf
    <3> QED BY <1>1, <1>2, <2>3, <3>1
            DEF Allowed, Resource!Next, Resource!Remove
  <2>5. CASE dd.uninstalling /\ Controller \in obj.fins
    <3>1. life \in {"deleting", "leaving"}
      BY <1>1, <2>5 DEF life, LifeOf
    <3>2. waived BY <1>1, <2>5 DEF IndInv, DefenderInv
    <3> QED BY <1>1, <1>2, <2>3, <3>1, <3>2
            DEF Allowed, Resource!Next, Resource!Release
  <2> QED BY <1>5, <2>4, <2>5
<1> QED BY <1>4, <1>5

\* Users and others do what users and others may do.
LEMMA UsersRefine ==
  ASSUME IndInv, AskedInv, Remembers, Users, ~AdminConfigures
  PROVE  CopyStep /\ Allowed
<1>1. UNCHANGED ctl
  BY DEF Users, UserCreates, UserEditsSpec, UserEditsLabels, UserSetsAbandon,
         UserUnsetsAbandon, UserSetsActuation, UserDeletes, Removed,
         Uninstall, CRDFinalization, Drift
<1>2. CopyStep
  BY <1>1 DEF CopyStep, Busy
<1>0. obj # NoObject => obj \in Object
  BY DEF IndInv, TypeOK
<1>3. CASE UserCreates
  <2>1. PICK d \in Desired, i \in {NoID, name}:
          obj' = [want |-> d, id |-> i, gen |-> 1, fins |-> {},
                  deleting |-> FALSE, abandon |-> FALSE, actuation |-> "",
                  obsGen |-> 0, cond |-> "None"]
    BY <1>3 DEF UserCreates, Overwrite
  <2>2. obj' \in Object /\ obj' # NoObject
    <3>1. obj' \in Object BY <2>1 DEF Object, Conditions, IndInv, TypeOK
    <3> QED BY <3>1, DirectAssumption
  <2>3. life = "absent" /\ life' = "loose" /\ asked' = {d}
        /\ UNCHANGED <<gcp, managed, waived>>
    BY <1>3, <2>1, <2>2 DEF UserCreates, life, LifeOf, Remembers
  <2> QED BY <1>2, <2>3 DEF Allowed, Resource!Next, Resource!Create
<1>4. CASE UserEditsSpec \/ UserEditsLabels \/ UserSetsActuation
  <2>1. obj # NoObject /\ UNCHANGED <<request, gcp, managed, waived>>
    BY <1>4 DEF UserEditsSpec, UserEditsLabels, UserSetsActuation, ghosts
  <2>2. /\ obj' \in Object /\ obj'.want \in Desired
        /\ obj'.fins = obj.fins /\ obj'.deleting = obj.deleting
    <3>1. CASE UserEditsSpec
      <4>1. PICK d \in Specs \ {obj.want.spec}:
              obj' = [obj EXCEPT !.want.spec = d, !.gen = obj.gen + 1]
        BY <3>1 DEF UserEditsSpec, Edited, Overwrite
      <4> QED BY <1>0, <2>1, <4>1, SpecEdit DEF SameLife, Object
    <3>2. CASE UserEditsLabels
      <4>1. PICK l \in Labels \ {obj.want.labels}:
              obj' = [obj EXCEPT !.want.labels = l]
        BY <3>2 DEF UserEditsLabels, Edited, Overwrite
      <4> QED BY <1>0, <2>1, <4>1, LabelsEdit DEF SameLife, Object
    <3>3. CASE UserSetsActuation
      <4>1. PICK a \in Annotations: obj' = [obj EXCEPT !.actuation = a]
        BY <3>3 DEF UserSetsActuation, Edited, Overwrite
      <4> QED BY <1>0, <2>1, <4>1, DirectAssumption DEF Object
    <3> QED BY <1>4, <3>1, <3>2, <3>3
  <2>3. obj' # NoObject BY <2>2, DirectAssumption
  <2>4. life' = life /\ life # "absent"
        /\ asked' = asked \union {obj'.want}
    BY <2>1, <2>2, <2>3 DEF life, LifeOf, Remembers
  <2> QED BY <1>2, <2>1, <2>2, <2>4
          DEF Allowed, Resource!Next, Resource!Edit
<1>5. CASE UserSetsAbandon \/ UserUnsetsAbandon
  <2>1. obj # NoObject /\ UNCHANGED <<gcp, managed>>
    BY <1>5 DEF UserSetsAbandon, UserUnsetsAbandon
  <2>2. PICK b \in BOOLEAN: obj' = [obj EXCEPT !.abandon = b]
    BY <1>5 DEF UserSetsAbandon, UserUnsetsAbandon, Edited, Overwrite
  <2>3. /\ obj' \in Object /\ obj'.want = obj.want
        /\ obj'.fins = obj.fins /\ obj'.deleting = obj.deleting
    BY <1>0, <2>1, <2>2 DEF Object
  <2>4. obj' # NoObject BY <2>3, DirectAssumption
  <2>5. asked' = asked
    BY <2>1, <2>3, <2>4 DEF AskedInv, Remembers
  <2>6. CASE UserSetsAbandon
    <3>1. life' = life /\ waived' = TRUE
      BY <2>1, <2>3, <2>4, <2>6 DEF UserSetsAbandon, life, LifeOf
    <3> QED BY <1>2, <2>1, <2>5, <3>1
            DEF Allowed, Resource!Next, Resource!LetGo
  <2>7. CASE UserUnsetsAbandon
    <3>1. UNCHANGED waived /\ request' = [request EXCEPT !.abandon = FALSE]
      BY <2>7 DEF UserUnsetsAbandon
    <3>2. request = [by |-> "user", abandon |-> FALSE] => request' = request
      <4> SUFFICES ASSUME request = [by |-> "user", abandon |-> FALSE]
                   PROVE  request' = [by |-> "user", abandon |-> FALSE]
        OBVIOUS
      <4>1. request' \in [by: {"nobody", "user", "uninstall"},
                          abandon: BOOLEAN]
            /\ request'.by = "user" /\ ~request'.abandon
        BY <3>1
      <4> QED BY <4>1
    <3>3. life' = life \/ (life = "leaving" /\ life' = "deleting")
      BY <2>1, <2>3, <2>4, <3>2 DEF life, LifeOf
    <3> QED BY <1>2, <2>1, <2>5, <3>1, <3>3
            DEF Allowed, Resource!Next, Resource!Reconsider, Resource!vars
  <2> QED BY <1>5, <2>6, <2>7
<1>6. CASE UserDeletes \/ CRDFinalization
  <2>1. PICK by: Removed(by)
    BY <1>6 DEF UserDeletes, CRDFinalization
  <2>2. obj # NoObject /\ ~obj.deleting /\ UNCHANGED <<gcp, managed, waived>>
    BY <2>1 DEF Removed
  <2>3. CASE obj.fins = {}
    <3>1. obj' = NoObject BY <2>1, <2>3 DEF Removed, Overwrite
    <3>2. life = "loose" /\ life' = "absent" /\ asked' = asked
      BY <2>2, <2>3, <3>1 DEF life, LifeOf, Remembers
    <3> QED BY <1>2, <2>2, <3>2 DEF Allowed, Resource!Next, Resource!Remove
  <2>4. CASE obj.fins # {}
    <3>1. obj' = [obj EXCEPT !.deleting = TRUE, !.gen = obj.gen + 1]
      BY <2>1, <2>4 DEF Removed, Edited, Overwrite
    <3>2. /\ obj' \in Object /\ obj'.want = obj.want
          /\ obj'.fins = obj.fins /\ obj'.deleting
      <4>1. PICK g \in Nat: g = obj.gen + 1
        <5>1. obj.gen \in Nat BY <1>0, <2>2 DEF Object
        <5> QED BY <5>1
      <4>2. obj' = [obj EXCEPT !.deleting = TRUE, !.gen = g]
        BY <3>1, <4>1
      <4> QED BY <1>0, <2>2, <4>2 DEF Object
    <3>3. obj' # NoObject BY <3>2, DirectAssumption
    <3>4. Controller \in obj.fins
      BY <2>2, <2>4 DEF IndInv, ObjectInv, Finalizers
    <3>5. life = "held" /\ life' \in {"deleting", "leaving"} /\ asked' = asked
      BY <2>2, <3>2, <3>3, <3>4 DEF life, LifeOf, Remembers, AskedInv
    <3> QED BY <1>2, <2>2, <3>5 DEF Allowed, Resource!Next, Resource!Remove
  <2> QED BY <2>3, <2>4
<1>7. CASE Uninstall
  <2>1. life' = life /\ asked' = asked
    BY <1>7, Unseen DEF Uninstall
  <2> QED BY <1>2, <1>7, <2>1
          DEF Uninstall, Allowed, Resource!Next, Resource!LetGo
<1>8. CASE Drift
  <2>1. life' = life /\ asked' = asked
    BY <1>8, Unseen DEF Drift
  <2>2. PICK d \in Desired \union {NoResource}:
          /\ gcp' = d
          /\ managed' = (managed /\ gcp # NoResource /\ d # NoResource)
    BY <1>8, DirectAssumption DEF Drift
  <2> QED BY <1>2, <1>8, <2>1, <2>2
          DEF Drift, Allowed, Resource!Next, Resource!Drift
<1> QED BY <1>3, <1>4, <1>5, <1>6, <1>7, <1>8 DEF Users

-----------------------------------------------------------------------------
\* Every step is allowed.
LEMMA StepRefines ==
  ASSUME IndInv, AskedInv, Next, Remembers
  PROVE  CopyStep /\ Allowed
BY QuietRefines, StatusRefines, FinalizersRefine, ActuationRefines,
   UnfinalizeRefines, DefenderRefines, UsersRefine
DEF Next, Reconcile, Defend, Users

\* And what is written in copies and objects stays asked for.
LEMMA AskedStep ==
  ASSUME IndInv, IndInv', AskedInv, Next, Remembers
  PROVE  AskedInv'
<1>1. obj' # NoObject => obj'.want \in asked'
  BY DEF Remembers
<1>2. ASSUME Busy', Controller \in ctl'.u.fins, ~waived'
      PROVE  ctl'.u.want \in asked'
  <2>1. CASE "ctl" \in current'
    BY <1>1, <1>2, <2>1, DirectAssumption DEF IndInv, CopyInv, GoodCopy
  <2>2. CASE Busy /\ ctl'.u = ctl.u
    <3>1. ~waived
      BY <1>2 DEF Next, Reconcile, Get, FetchCC, Gate, PausedFinalizers,
           ApplyDefaults, Find, EnsureFinalizers, Create, Update,
           SetSpecResourceID, SetLastModifiedCookie, UpdateStatus, UpdateAPIServer,
           HandleUpToDate, HandleFailed, Delete, MarkDeleted, Unfinalize,
           TimerFires, Restart, Defend, DefenderGet, IsUninstalling,
           DefenderUpdate, DefenderFails, Users, UserCreates, UserEditsSpec,
           UserEditsLabels, UserSetsAbandon, UserUnsetsAbandon,
           UserSetsActuation, UserDeletes, Uninstall, CRDFinalization,
           Removed, AdminConfigures, Drift, ghosts
    <3>2. obj # NoObject /\ ctl.u.want \in asked
      BY <1>2, <2>2, <3>1 DEF AskedInv, IndInv, CopyInv, GoodCopy, Held
    <3> QED BY <2>2, <3>2 DEF Remembers
  <2> QED BY <1>2, <2>1, <2>2, StepRefines DEF CopyStep, Busy
<1> QED BY <1>1, <1>2 DEF AskedInv

\* The direct controller and the deletion defender implement what Config
\* Connector promises about an object and its GCP resource: for any specs and
\* labels, any settings, any drift, and every interleaving, crash, conflict
\* and lost answer of DirectReconciler.
THEOREM ManagedResourceIsImplemented == RememberingSpec => ResourceIsManaged
<1>1. Init /\ asked = {} => Resource!Init
  BY DEF Init, Resource!Init, life, LifeOf
<1>2. Init /\ asked = {} => AskedInv
  BY IdleState DEF Init, AskedInv, Busy
<1>3. [RememberingNext]_<<vars, asked>> => [Next]_vars
  BY DEF RememberingNext
<1>4. IndInv /\ IndInv' /\ AskedInv /\ [RememberingNext]_<<vars, asked>>
        => AskedInv'
  <2>1. ASSUME AskedInv, UNCHANGED <<vars, asked>> PROVE AskedInv'
    BY <2>1 DEF vars, AskedInv, Busy
  <2> QED BY <2>1, AskedStep DEF RememberingNext
<1>5. IndInv /\ AskedInv /\ [RememberingNext]_<<vars, asked>>
        => [Resource!Next]_(Resource!vars)
  <2>1. ASSUME UNCHANGED <<vars, asked>> PROVE UNCHANGED Resource!vars
    BY <2>1 DEF vars, Resource!vars, life, LifeOf
  <2> QED BY <2>1, StepRefines DEF RememberingNext, Allowed
<1>6. RememberingSpec => Spec
  BY <1>3, PTL DEF RememberingSpec, RememberingInit, Spec
<1>7. RememberingSpec => []IndInv
  BY <1>6, Invariance, PTL
<1>8. RememberingSpec => []AskedInv
  BY <1>2, <1>4, <1>7, PTL DEF RememberingSpec, RememberingInit
<1> QED BY <1>1, <1>5, <1>7, <1>8, PTL
        DEF RememberingSpec, RememberingInit, ResourceIsManaged, Resource!Spec

=============================================================================
