--------------------------- MODULE DirectLiveness ---------------------------
(***************************************************************************)
(* What must happen in the end to an object of DirectReconciler.  The work *)
(* queue retries without a limit, so progress is only asked for once the   *)
(* world has settled: users, administrators and others in the project act  *)
(* no more, processes stay up, and a remote call that nothing speaks       *)
(* against succeeds.  Until then anything may have happened.               *)
(***************************************************************************)
EXTENDS DirectReconciler

VARIABLE settled   \* has the world settled?

allVars == <<vars, settled>>

\* The call the reconciler makes next goes well.  A stale copy still
\* conflicts, and a stale answer of Find still makes Create or Update fail.
CallGoesWell ==
  CASE ctl.step = "cc" -> ctl'.step = "gate"
    [] ctl.step = "find" -> ctl'.step # "report"
    [] /\ ctl.step = "apply"
       /\ \/ ctl.found = NoResource /\ FreshIDs # {}
          \/ ctl.found # NoResource /\ gcp # NoResource ->
         /\ ctl'.step # "report" /\ ctl'.cond # "Updating"
         /\ confirmed' = ctl.u.want
    [] ctl.step = "delete" -> ctl'.step = "markDeleted"
    [] "ctl" \in current /\ ctl.step \in {"defaults", "fins", "update", "markDeleted"} ->
         ctl'.step # "idle"
    [] "ctl" \in current /\ ctl.step \in {"annotate", "publish"} ->
         ctl'.step # "report"
    [] "ctl" \in current /\ ctl.step = "pausedFins" ->
         obj' = WithFinalizers(ctl.u)
    [] "ctl" \in current /\ ctl.step = "upToDate" ->
         obj' = Status(Carrying(ctl.u, ctl.id), "UpToDate")
    [] "ctl" \in current /\ ctl.step = "unfinalize" -> obj' = NoObject
    [] OTHER -> TRUE

Steps(A) == A /\ UNCHANGED settled

ReconcileOn == Steps(Reconcile /\ (settled => CallGoesWell))
DefendOn    == Steps(Defend \/ (DefenderFails /\ (settled => "dd" \notin current)))
TimerOn     == Steps(TimerFires)
Unsettled   == ~settled /\ Steps(Restart \/ DefenderFails \/ Users)
Settle      == ~settled /\ settled' = TRUE /\ UNCHANGED vars

LiveInit == Init /\ settled = FALSE
LiveNext == ReconcileOn \/ DefendOn \/ TimerOn \/ Unsettled \/ Settle

(***************************************************************************)
(* Weak fairness is all the code needs: a worker that runs goes on, a key  *)
(* that is due is handed out, a timer that is set fires, the deletion      *)
(* defender is run for an object it has work with.  That the world settles *)
(* is not assumed: the properties only speak of the time after it.         *)
(***************************************************************************)
LiveSpec ==
  /\ LiveInit
  /\ [][LiveNext]_allVars
  /\ WF_allVars(ReconcileOn) /\ WF_allVars(DefendOn) /\ WF_allVars(TimerOn)

-----------------------------------------------------------------------------
\* An object that the settings, as documented, allow to be acted on.
Actionable ==
  /\ obj # NoObject
  /\ obj.actuation # "invalid"
  /\ ~PausedPerDocs(kcc, obj.actuation, obj.deleting)

(***************************************************************************)
(* A deletion completes: every wake-up it needs arrives (the deletion      *)
(* timestamp, then the removal of the defender's finalizer, for which the  *)
(* reconciler sets no timer), and conflicts between the controller and the *)
(* defender do not go on for ever.                                         *)
(***************************************************************************)
DeletionCompletes ==
  settled /\ Actionable /\ obj.deleting ~> obj = NoObject

(***************************************************************************)
(* With periodic reconciles the GCP resource ends up as the object says,   *)
(* and stays so, after any edits, conflicts and crashes, and also after a  *)
(* pause: "To eventually resume actuation just set the field back to       *)
(* Reconciling", although that change is no event of the object.           *)
(***************************************************************************)
Converges ==
  settled /\ Actionable /\ ~obj.deleting ~>
    [](Actionable /\ gcp = obj.want /\ obj.cond = "UpToDate")

=============================================================================
