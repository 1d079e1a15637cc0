---------------------------- MODULE PartialPolicy ----------------------------
(***************************************************************************)
(* IAMPartialPolicy objects that share the IAM policy of one GCP resource  *)
(* with each other and with people who edit it directly:                   *)
(* pkg/controller/iam/partialpolicy.  The controller reads the policy,     *)
(* merges, and writes it back under the etag it read; what it applied is   *)
(* recorded in the object's status afterwards.                             *)
(*                                                                         *)
(* The key of every object is due again after each reconcile: an error is  *)
(* retried, and a success is followed by the next periodic reconcile.      *)
(* Objects whose annotation sets the interval to 0 are left out.           *)
(***************************************************************************)
EXTENDS Bindings

CONSTANTS
  Policies,   \* names of IAMPartialPolicy objects
  Grantable,  \* what may be granted: pairs of a role and a member
  Specs,      \* sets of bindings that users specify
  NoObject,
  Faults      \* what may go wrong: see below

\* edit: users write an object while it is reconciled; write: a write to the
\* API server fails; answer: a call takes effect and its answer is lost;
\* restart: the manager dies.
ASSUME PolicyAssumption ==
  /\ Specs \subseteq SUBSET Grantable
  /\ Faults \subseteq {"edit", "write", "answer", "restart"}

Controller == "cnrm.cloud.google.com/finalizer"
Defender   == "cnrm.cloud.google.com/deletion-defender"
Finalizers == {Controller, Defender}

\* fresh: the Ready condition is UpToDate at the current generation.
Object ==
  [spec: SUBSET Grantable, lastApplied: SUBSET Grantable,
   fins: SUBSET Finalizers, deleting: BOOLEAN, abandon: BOOLEAN,
   fresh: BOOLEAN]

ASSUME ObjectAssumption == NoObject \notin Object

VARIABLES
  obj,      \* the objects in the API server
  current,  \* objects whose reconcile has a copy with the current version
  run,      \* the reconcile of each object
  policy,   \* the IAM policy in GCP
  etag,     \* reconciles that read the policy with its current etag
  paused,   \* the actuation mode
  foreign,  \* history: bindings that people added to the policy directly
  owed,     \* history: bindings in the policy that each object put there
  waived    \* history: objects that were told to let go

vars == <<obj, current, run, policy, etag, paused, foreign, owed, waived>>

ghosts == <<foreign, owed, waived>>

RunSteps == {"idle", "gate", "get", "set", "update", "upToDate", "report",
             "deleteGet", "deleteSet", "markDeleted", "unfinalize"}

Idle == [step |-> "idle", u |-> NoObject, live |-> {}]

TypeOK ==
  /\ obj \in [Policies -> Object \union {NoObject}]
  /\ current \subseteq Policies
  /\ run \in [Policies -> [step: RunSteps, u: Object \union {NoObject},
                           live: SUBSET Grantable]]
  /\ policy \subseteq Grantable
  /\ etag \subseteq Policies
  /\ paused \in BOOLEAN
  /\ foreign \subseteq Grantable
  /\ owed \in [Policies -> SUBSET Grantable]
  /\ waived \subseteq Policies

-----------------------------------------------------------------------------
\* The API server, as in DirectReconciler.
Stored(new) == IF new.deleting /\ new.fins = {} THEN NoObject ELSE new

Write(p, new) ==
  /\ p \in current
  /\ obj' = [obj EXCEPT ![p] = Stored(new)]
  /\ current' = IF Stored(new) = NoObject THEN current \ {p} ELSE current

\* Refused because the copy is stale.
Conflict(p) == p \notin current /\ UNCHANGED <<obj, current>>

\* Refused for another reason, or done without an answer.
WriteFails(p, new) ==
  /\ p \in current
  /\ \/ "write" \in Faults /\ UNCHANGED <<obj, current>>
     \/ /\ "answer" \in Faults
        /\ obj' = [obj EXCEPT ![p] = Stored(new)]
        /\ current' = current \ {p}

Goto(p, step) == run' = [run EXCEPT ![p].step = step]
End(p)        == run' = [run EXCEPT ![p] = Idle]

-----------------------------------------------------------------------------
\* Reconcile: read the object.
Get(p) ==
  /\ run[p].step = "idle" /\ obj[p] # NoObject
  /\ run' = [run EXCEPT ![p] = [Idle EXCEPT !.step = "gate", !.u = obj[p]]]
  /\ current' = current \union {p}
  /\ UNCHANGED <<obj, policy, etag, paused, ghosts>>

\* handleDefaults stores annotations that are missing; this, or the read of
\* the actuation mode, fails.  If it succeeds, the copy stays current.
HandleDefaultsFails(p) ==
  /\ run[p].step = "gate"
  /\ Conflict(p) \/ WriteFails(p, obj[p])
  /\ End(p)
  /\ UNCHANGED <<policy, etag, paused, ghosts>>

\* doReconcile and finalizeDeletion, up to the first call to GCP.
AfterGate(u) ==
  IF ~u.deleting THEN "get"
  ELSE IF Controller \notin u.fins \/ Defender \in u.fins THEN "idle"
  ELSE IF u.abandon THEN "markDeleted"
  ELSE "deleteGet"

Gate(p) ==
  /\ run[p].step = "gate"
  /\ IF paused \/ AfterGate(run[p].u) = "idle"
       THEN End(p)
       ELSE Goto(p, AfterGate(run[p].u))
  /\ UNCHANGED <<obj, current, policy, etag, paused, ghosts>>

\* The slip: no finalizers.
GetPolicyUnprotected(p) ==
  /\ run[p].step \in {"get", "deleteGet"}
  /\ etag' = etag \union {p}
  /\ run' = [run EXCEPT ![p].live = policy,
       ![p].step = IF @ = "get" THEN "set" ELSE "deleteSet"]
  /\ UNCHANGED <<obj, current, policy, paused, ghosts>>

\* The slip: a finalizer that nobody knows, and nobody will remove.
GetPolicyMisspelt(p) ==
  /\ run[p].step \in {"get", "deleteGet"}
  /\ etag' = etag \union {p}
  /\ run' = [run EXCEPT ![p] =
       [step |-> IF run[p].step = "get" THEN "set" ELSE "deleteSet",
        u    |-> [run[p].u EXCEPT !.fins = @ \union {"kcc/finalizer"}],
        live |-> policy]]
  /\ UNCHANGED <<obj, current, policy, paused, ghosts>>

\* GetPolicy; the finalizers are added to the copy only.
GetPolicy(p) ==
  /\ run[p].step \in {"get", "deleteGet"}
  /\ etag' = etag \union {p}
  /\ run' = [run EXCEPT ![p] =
       [step |-> IF run[p].step = "get" THEN "set" ELSE "deleteSet",
        u    |-> IF run[p].step = "get" THEN [@.u EXCEPT !.fins = Finalizers]
                 ELSE @.u,
        live |-> policy]]
  /\ UNCHANGED <<obj, current, policy, paused, ghosts>>

\* GetPolicy, or the resolution of members, fails.
GetPolicyFails(p) ==
  /\ run[p].step \in {"get", "deleteGet"}
  /\ Goto(p, "report")
  /\ UNCHANGED <<obj, current, policy, etag, paused, ghosts>>

\* In a deletion, a resource or reference that is gone counts as success.
ReferenceIsGone(p) ==
  /\ run[p].step = "deleteGet"
  /\ Goto(p, "markDeleted")
  /\ waived' = waived \union {p}
  /\ UNCHANGED <<obj, current, policy, etag, paused, foreign, owed>>

-----------------------------------------------------------------------------
\* The policy that SetPolicy is given.  The slip: nothing is ever withdrawn.
DesiredPolicyOnlyMerging(p) ==
  IF run[p].step = "set"
    THEN run[p].u.spec \union run[p].live
    ELSE Remaining(run[p].live, run[p].u.lastApplied)

\* The slip: all that was applied last is withdrawn, specified or not.
DesiredPolicyWithdrawingAll(p) ==
  IF run[p].step = "set"
    THEN (run[p].u.spec \union run[p].live) \ run[p].u.lastApplied
    ELSE Remaining(run[p].live, run[p].u.lastApplied)

DesiredPolicy(p) ==
  IF run[p].step = "set"
    THEN Merged(run[p].u.spec, run[p].live, run[p].u.lastApplied)
    ELSE Remaining(run[p].live, run[p].u.lastApplied)

\* The policy becomes new.  What it no longer holds nobody owes any more; in
\* a "set", p owes what it specifies.
PolicyBecomes(new, p) ==
  /\ policy' = new
  /\ owed' = [q \in Policies |->
       (IF q = p /\ run[p].step = "set" THEN owed[q] \union run[p].u.spec
        ELSE owed[q]) \intersect new]

\* A plausible slip: the etag is not sent along.
SetsPolicyBlindly(p) ==
  LET desired == DesiredPolicy(p)
  IN  /\ PolicyBecomes(desired, p)
      /\ etag' = IF desired = policy THEN etag ELSE {}

\* SetPolicy: nothing is written if there is no difference; otherwise GCP
\* compares the etag.
SetsPolicy(p) ==
  LET desired == DesiredPolicy(p)
  IN  /\ desired = policy \/ p \in etag
      /\ PolicyBecomes(desired, p)
      /\ etag' = IF desired = policy THEN etag ELSE {}

\* What follows: isAPIServerUpdateRequired, whose comparison of all bindings
\* is left open, or handleDeleted with lastAppliedBindings cleared.
AfterSetPolicy(p) ==
  IF run[p].step = "deleteSet"
    THEN LET u == [run[p].u EXCEPT !.lastApplied = {}]
         IN  run' = [run EXCEPT ![p] =
                       [run[p] EXCEPT !.step = "markDeleted", !.u = u]]
    ELSE \/ Goto(p, "update")
         \/ /\ run[p].u.fresh /\ run[p].u.lastApplied = run[p].u.spec
            /\ End(p)

SetPolicy(p) ==
  /\ run[p].step \in {"set", "deleteSet"}
  /\ SetsPolicy(p)
  /\ AfterSetPolicy(p)
  /\ UNCHANGED <<obj, current, paused, foreign, waived>>

\* The etag is stale.
SetPolicyConflicts(p) ==
  /\ run[p].step \in {"set", "deleteSet"}
  /\ p \notin etag /\ DesiredPolicy(p) # policy
  /\ Goto(p, "report")
  /\ UNCHANGED <<obj, current, policy, etag, paused, ghosts>>

SetPolicyFails(p) ==
  /\ run[p].step \in {"set", "deleteSet"}
  /\ \/ UNCHANGED <<policy, etag, owed>>
     \/ "answer" \in Faults /\ SetsPolicy(p)
  /\ Goto(p, "report")
  /\ UNCHANGED <<obj, current, paused, foreign, waived>>

-----------------------------------------------------------------------------
\* HandleUpToDate, first the metadata, with the finalizers, ...
UpdateAPIServer(p) ==
  /\ run[p].step = "update"
  /\ \/ Write(p, run[p].u) /\ Goto(p, "upToDate")
     \/ Conflict(p) /\ End(p)
     \/ WriteFails(p, run[p].u) /\ End(p)
  /\ UNCHANGED <<policy, etag, paused, ghosts>>

\* ... then the status, with lastAppliedBindings.
HandleUpToDate(p) ==
  /\ run[p].step = "upToDate"
  /\ LET new == [run[p].u EXCEPT !.lastApplied = run[p].u.spec,
                                 !.fresh = TRUE]
     IN  Write(p, new) \/ Conflict(p) \/ WriteFails(p, new)
  /\ End(p)
  /\ UNCHANGED <<policy, etag, paused, ghosts>>

\* handleUpdateFailed, handleDeleteFailed, handleUnresolvableDeps: the status
\* only, so that finalizers that are new are not saved.
HandleFailed(p) ==
  /\ run[p].step = "report"
  /\ LET new == [obj[p] EXCEPT !.fresh = FALSE]
     IN  Write(p, new) \/ Conflict(p) \/ WriteFails(p, new)
  /\ End(p)
  /\ UNCHANGED <<policy, etag, paused, ghosts>>

\* handleDeleted: the status, ...
MarkDeleted(p) ==
  /\ run[p].step = "markDeleted"
  /\ LET new == [run[p].u EXCEPT !.fresh = FALSE]
     IN  \/ Write(p, new) /\ Goto(p, "unfinalize")
         \/ Conflict(p) /\ End(p)
         \/ WriteFails(p, new) /\ End(p)
  /\ UNCHANGED <<policy, etag, paused, ghosts>>

\* ... then the finalizer.
Unfinalize(p) ==
  /\ run[p].step = "unfinalize"
  /\ LET new == [run[p].u EXCEPT !.fins = @ \ {Controller}, !.fresh = FALSE]
     IN  Write(p, new) \/ Conflict(p) \/ WriteFails(p, new)
  /\ End(p)
  /\ UNCHANGED <<policy, etag, paused, ghosts>>

Restart ==
  /\ "restart" \in Faults
  /\ run' = [p \in Policies |-> Idle]
  /\ UNCHANGED <<obj, current, policy, etag, paused, ghosts>>

-----------------------------------------------------------------------------
(***************************************************************************)
(* Everyone else: the deletion defender (see DirectReconciler), users, the *)
(* administrator, and people who edit the policy directly.                 *)
(***************************************************************************)
Overwrite(p, new) ==
  /\ obj' = [obj EXCEPT ![p] = new]
  /\ current' = current \ {p}

DefenderUpdate(p) ==
  /\ obj[p] # NoObject
  /\ obj[p].deleting /\ Defender \in obj[p].fins
  /\ Overwrite(p, Stored([obj[p] EXCEPT !.fins = @ \ {Defender}]))
  /\ UNCHANGED <<run, policy, etag, paused, ghosts>>

MayEdit(p) == run[p].step = "idle" \/ "edit" \in Faults

UserCreates(p) ==
  /\ obj[p] = NoObject /\ MayEdit(p)
  /\ \E s \in Specs:
       Overwrite(p, [spec |-> s, lastApplied |-> {}, fins |-> {},
                     deleting |-> FALSE, abandon |-> FALSE,
                     fresh |-> FALSE])
  /\ owed' = [owed EXCEPT ![p] = {}]
  /\ waived' = waived \ {p}
  /\ UNCHANGED <<run, policy, etag, paused, foreign>>

UserEdits(p) ==
  /\ obj[p] # NoObject /\ MayEdit(p)
  /\ \E s \in Specs \ {obj[p].spec}:
       Overwrite(p, [obj[p] EXCEPT !.spec = s, !.fresh = FALSE])
  /\ UNCHANGED <<run, policy, etag, paused, ghosts>>

UserAbandons(p) ==
  /\ obj[p] # NoObject /\ ~obj[p].abandon /\ MayEdit(p)
  /\ Overwrite(p, [obj[p] EXCEPT !.abandon = TRUE])
  /\ waived' = waived \union {p}
  /\ UNCHANGED <<run, policy, etag, paused, foreign, owed>>

UserDeletes(p) ==
  /\ obj[p] # NoObject /\ ~obj[p].deleting /\ MayEdit(p)
  /\ Overwrite(p, Stored([obj[p] EXCEPT !.deleting = TRUE, !.fresh = FALSE]))
  /\ UNCHANGED <<run, policy, etag, paused, ghosts>>

AdminConfigures ==
  /\ paused' = ~paused
  /\ UNCHANGED <<obj, current, run, policy, etag, ghosts>>

ForeignAdds(b) ==
  /\ b \notin policy
  /\ policy' = policy \union {b} /\ etag' = {}
  /\ foreign' = foreign \union {b}
  /\ UNCHANGED <<obj, current, run, paused, owed, waived>>

ForeignRemoves(b) ==
  /\ b \in policy
  /\ policy' = policy \ {b} /\ etag' = {}
  /\ foreign' = foreign \ {b}
  /\ owed' = [p \in Policies |-> owed[p] \ {b}]
  /\ UNCHANGED <<obj, current, run, paused, waived>>

-----------------------------------------------------------------------------
Init ==
  /\ obj = [p \in Policies |-> NoObject] /\ current = {}
  /\ run = [p \in Policies |-> Idle]
  /\ policy = {} /\ etag = {}
  /\ paused = FALSE
  /\ foreign = {} /\ owed = [p \in Policies |-> {}] /\ waived = {}

Reconcile(p) ==
  \/ Get(p) \/ HandleDefaultsFails(p) \/ Gate(p) \/ GetPolicy(p)
  \/ SetPolicy(p) \/ SetPolicyConflicts(p) \/ UpdateAPIServer(p)
  \/ HandleUpToDate(p) \/ HandleFailed(p) \/ MarkDeleted(p) \/ Unfinalize(p)

Disturbs ==
  \/ \E p \in Policies:
       \/ GetPolicyFails(p) \/ ReferenceIsGone(p) \/ SetPolicyFails(p)
       \/ UserCreates(p) \/ UserEdits(p) \/ UserAbandons(p) \/ UserDeletes(p)
  \/ \E b \in Grantable: ForeignAdds(b) \/ ForeignRemoves(b)
  \/ AdminConfigures \/ Restart

\* What goes on when nothing disturbs it.
Works == \E p \in Policies: Reconcile(p) \/ DefenderUpdate(p)

Next == Works \/ Disturbs

Spec == Init /\ [][Next]_vars

\* The controller gets to every object again and again, and the defender is
\* retried.
FairSpec ==
  Spec /\ \A p \in Policies: WF_vars(Reconcile(p)) /\ WF_vars(DefenderUpdate(p))

-----------------------------------------------------------------------------
(***************************************************************************)
(* What people grant directly, and no object ever specified, is never      *)
(* taken away by the controller, however its reads and writes of the       *)
(* policy interleave with theirs: "SetPolicy will fail if the policy has   *)
(* been modified by other actors since the controller retrieved it".       *)
(***************************************************************************)
ForeignSurvives == foreign \ UNION Specs \subseteq policy

\* The slices of bindings that grant g.
Slicings == [g \in SUBSET Grantable |-> {s \in Slices: Grants(s) = g}]

\* What doReconcile computes when the slices it has read are these.
Computed(p, spec, live, last) ==
  IF run[p].step = "set"
    THEN ComputePartialPolicyWithMergedBindings(spec, live, last)
    ELSE ComputePartialPolicyWithRemainingBindings(live, last)

ComputedSlices(p) ==
  {Computed(p, spec, live, last):
     spec \in Slicings[run[p].u.spec],
     live \in Slicings[run[p].live],
     last \in Slicings[run[p].u.lastApplied]}

Setting == {p \in Policies: run[p].step \in {"set", "deleteSet"}}

(***************************************************************************)
(* The policy that is sent is what is specified and what others granted,   *)
(* less what was applied before and is not specified any more, in whatever *)
(* slices the three are given: with several bindings for a role, with      *)
(* members that appear under two roles, and without members.               *)
(***************************************************************************)
DesiredIsComputed ==
  \A p \in Setting: \A s \in ComputedSlices(p): Grants(s) = DesiredPolicy(p)

(***************************************************************************)
(* SetPolicy is never given two bindings for the same role and condition,  *)
(* nor one without members, which GCP would reject or reorder.             *)
(***************************************************************************)
SentIsCanonical ==
  \A p \in Setting: \A s \in ComputedSlices(p): OneBindingPerKey(s)

(***************************************************************************)
(* What the status records as applied is not forgotten while it is still   *)
(* granted: an object drops a binding from lastAppliedBindings, or goes    *)
(* away, only when the binding that it put into the policy has been taken  *)
(* out, unless it was told to let go.  This holds with all faults; what    *)
(* was granted and never recorded is another matter, see below.            *)
(***************************************************************************)
RecordedIsRevoked ==
  [][\A p \in Policies:
       obj[p] # NoObject /\ p \notin waived' =>
         LET kept == IF obj'[p] = NoObject THEN {} ELSE obj'[p].lastApplied
         IN  (obj[p].lastApplied \ kept) \intersect owed'[p] = {}]_vars

(***************************************************************************)
(* A binding that an object put into the policy is gone when the object no *)
(* longer specifies it and says it is up to date: "remove said bindings    *)
(* from the IAMPartialPolicy configuration and re-apply the configuration".*)
(***************************************************************************)
WithdrawnIsRevoked ==
  \A p \in Policies:
    run[p].step = "idle" /\ obj[p] # NoObject =>
      (obj[p].fresh => owed[p] \subseteq obj[p].spec)

(***************************************************************************)
(* Once the others leave the policy alone and actuation is on, every       *)
(* binding an object specifies is granted, for good: also one that another *)
(* object has just withdrawn, and without the two chasing each other.      *)
(***************************************************************************)
SpecifiedIsGranted ==
  <>[][Works]_vars =>
    <>[](\A p \in Policies:
           obj[p] # NoObject /\ ~paused =>
             ~obj[p].deleting /\ obj[p].spec \subseteq policy)

-----------------------------------------------------------------------------
\* Why.  The finalizers are saved before anything is recorded, and only the
\* controller removes the one that keeps the record.
RecordInv(p) ==
  obj[p] # NoObject =>
    /\ obj[p].fins \in IF obj[p].deleting THEN {Finalizers, {Controller}}
                       ELSE {{}, Finalizers}
    /\ obj[p].fins = {} => obj[p].lastApplied = {}
    /\ obj[p].abandon => p \in waived

\* A current copy has the object's record until a deletion clears it.
CopyInv(p) ==
  p \in current /\ run[p].step # "idle" =>
    /\ obj[p] # NoObject /\ run[p].u.abandon = obj[p].abandon
    /\ run[p].step \notin {"markDeleted", "unfinalize"} =>
         run[p].u.lastApplied = obj[p].lastApplied

\* What a reconcile is about to drop from the record it has revoked, even if
\* others have changed the policy since.
DropInv(p) ==
  LET step == run[p].step
      u    == run[p].u
  IN  /\ step \in {"get", "set", "update", "upToDate"} => ~u.deleting
      /\ step \in {"set", "update", "upToDate"} => u.fins = Finalizers
      /\ step \in {"deleteGet", "deleteSet", "markDeleted", "unfinalize"} =>
           u.deleting /\ u.fins = {Controller}
      /\ step \in {"update", "upToDate"} =>
           (u.lastApplied \ u.spec) \intersect owed[p] = {}
      /\ step \in {"markDeleted", "unfinalize"} /\ p \in current \ waived =>
           u.lastApplied = {} /\ obj[p].lastApplied \intersect owed[p] = {}

(***************************************************************************)
(* The invariant behind RecordedIsRevoked, between the call of SetPolicy   *)
(* and the two writes to the API server that follow it.                    *)
(***************************************************************************)
RevokeInv == \A p \in Policies: RecordInv(p) /\ CopyInv(p) /\ DropInv(p)

=============================================================================
