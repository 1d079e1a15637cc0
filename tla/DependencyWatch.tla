--------------------------- MODULE DependencyWatch ---------------------------
(***************************************************************************)
(* How an object waits for the object it refers to: handleUnresolvableDeps *)
(* of the controllers of IAMPolicyMember, IAMPolicy and IAMAuditConfig     *)
(* (pkg/controller/iam) and pkg/controller/resourcewatcher.  A reconcile   *)
(* that meets an unready reference takes a permit, starts a goroutine that *)
(* watches the reference and ends; the goroutine wakes the object up       *)
(* through a channel.                                                      *)
(*                                                                         *)
(* The other reconcilers have the same function, but are registered        *)
(* without a channel, and so poll: their objects are in Requeuing.         *)
(* What a reconcile does to GCP is the subject of other modules; here it   *)
(* is a step that makes the object ready or fails.                         *)
(***************************************************************************)
EXTENDS Naturals, Sequences

CONSTANTS
  Objects,       \* objects that refer or are referred to
  Dep,           \* the object each one refers to, or NoDep
  NoDep,
  Requeuing,     \* objects whose references are polled, never watched
  Permits,       \* one per goroutine of resourceWatcherRoutines
  BufferSize,    \* capacity of immediateReconcileRequests
  IntervalZero   \* is the annotation reconcile-interval-in-seconds "0"?

ASSUME DependencyAssumption ==
  /\ Dep \in [Objects -> Objects \union {NoDep}]
  /\ NoDep \notin Objects
  /\ Requeuing \subseteq Objects
  /\ BufferSize \in Nat \ {0}
  /\ IntervalZero \in BOOLEAN

VARIABLES
  status,   \* the Ready condition of each object, or "absent"
  queue,    \* its key in the work queue: due now, due on a timer
  run,      \* its reconcile in progress, and is its copy current?
  permit,   \* the goroutine that holds each permit
  channel,  \* immediateReconcileRequests
  gaveUp,   \* history: did the last watch for the object end in an error, or
            \* its wake-up meet a paused reconcile?
  paused    \* the actuation mode

vars == <<status, queue, run, permit, channel, gaveUp, paused>>

Statuses == {"absent", "pending", "unresolved", "edited", "upToDate"}
Steps    == {"idle", "gate", "sync", "apply", "requeue", "wait"}

Idle   == [step |-> "idle", current |-> FALSE]
Free   == [phase |-> "free", owner |-> NoDep, hit |-> FALSE]
Leaked == [Free EXCEPT !.phase = "leaked"]

Goroutine ==
  [phase: {"free", "leaked", "start", "watch", "send"},
   owner: Objects \union {NoDep}, hit: BOOLEAN]

TypeOK ==
  /\ status \in [Objects -> Statuses]
  /\ queue \in [Objects -> [now: BOOLEAN, timer: BOOLEAN]]
  /\ run \in [Objects -> [step: Steps, current: BOOLEAN]]
  /\ permit \in [Permits -> Goroutine]
  /\ channel \in Seq(Objects) /\ Len(channel) <= BufferSize
  /\ gaveUp \in [Objects -> BOOLEAN]
  /\ paused \in BOOLEAN

-----------------------------------------------------------------------------
\* IsResourceReady: the Ready condition alone; an edit leaves it as it was.
IsReady(s) == s \in {"edited", "upToDate"}

Resolved(o) == Dep[o] # NoDep => IsReady(status[Dep[o]])

\* The events that end WaitForResourceToBeReadyOrDeletedViaWatch.
EndsWait(s) == IsReady(s) \/ s = "absent"

\* A change of an object, and the event for everyone who watches it.
Changes(o, new) ==
  /\ status' = [status EXCEPT ![o] = new]
  /\ permit' = [p \in Permits |->
       IF /\ permit[p].phase = "watch"
          /\ Dep[permit[p].owner] = o
          /\ EndsWait(new)
         THEN [permit[p] EXCEPT !.hit = TRUE]
         ELSE permit[p]]

\* The reconcile's own write is refused once somebody else has written.
StatusWrite(o, new) == run[o].current /\ Changes(o, new)

Retry(o) ==
  /\ run' = [run EXCEPT ![o] = Idle]
  /\ queue' = [queue EXCEPT ![o].now = TRUE]

\* The slip: no timer, the watch is relied on.
FinishWithoutTimer(o) ==
  /\ run' = [run EXCEPT ![o] = Idle]
  /\ UNCHANGED queue

\* RequeueAfter is the jittered interval and what requeueRateLimiter adds to
\* it, which may be nothing; if the sum is 0 there is no timer.
Finish(o) ==
  /\ run' = [run EXCEPT ![o] = Idle]
  /\ \E delay \in BOOLEAN:
       /\ ~IntervalZero => delay
       /\ queue' = [queue EXCEPT ![o].timer = @ \/ delay]

Goto(o, step) == run' = [run EXCEPT ![o].step = step] /\ UNCHANGED queue

-----------------------------------------------------------------------------
\* Reconcile: read the object.
Get(o) ==
  /\ run[o].step = "idle" /\ queue[o].now
  /\ queue' = [queue EXCEPT ![o].now = FALSE]
  /\ run' = IF status[o] = "absent" THEN run
            ELSE [run EXCEPT ![o] = [step |-> "gate", current |-> TRUE]]
  /\ gaveUp' = [gaveUp EXCEPT ![o] = FALSE]
  /\ UNCHANGED <<status, permit, channel, paused>>

\* doReconcile: actuation is on, ...
Gate(o) ==
  /\ run[o].step = "gate" /\ ~paused
  /\ Goto(o, "sync")
  /\ UNCHANGED <<status, permit, channel, gaveUp, paused>>

\* A goroutine or a message for the object.
Awaited(o) ==
  \/ \E i \in 1..Len(channel): channel[i] = o
  \/ \E p \in Permits: permit[p].owner = o

\* ... or paused: nothing is looked at or written until the next time.
SkipsActuation(o) ==
  /\ run[o].step = "gate" /\ paused
  /\ Finish(o)
  /\ gaveUp' = [gaveUp EXCEPT ![o] = status[o] = "unresolved" /\ ~Awaited(o)]
  /\ UNCHANGED <<status, permit, channel, paused>>

\* doReconcile: the reference is ready.
Resolves(o) ==
  /\ run[o].step = "sync" /\ Resolved(o)
  /\ Goto(o, "apply")
  /\ UNCHANGED <<status, permit, channel, gaveUp, paused>>

\* handleUnresolvableDeps: the reference cannot be watched, or there are too
\* many ongoing watches already.
Requeues(o) ==
  /\ run[o].step = "sync" /\ ~Resolved(o)
  /\ o \in Requeuing \/ \A p \in Permits: permit[p].phase # "free"
  /\ Goto(o, "requeue")
  /\ UNCHANGED <<status, permit, channel, gaveUp, paused>>

\* handleUnresolvableDeps: TryAcquire, then a goroutine of its own.
StartsWatch(o) ==
  /\ run[o].step = "sync" /\ ~Resolved(o) /\ o \notin Requeuing
  /\ \E p \in Permits:
       /\ permit[p].phase = "free"
       /\ permit' = [permit EXCEPT ![p] =
                       [phase |-> "start", owner |-> o, hit |-> FALSE]]
  /\ Goto(o, "wait")
  /\ gaveUp' = [gaveUp EXCEPT ![o] = FALSE]
  /\ UNCHANGED <<status, channel, paused>>

\* handleUnresolvableDeps: resourcewatcher.New fails after TryAcquire, which
\* ends in HandleUpdateFailed, whether its write succeeds or not.
NewFails(o) ==
  /\ run[o].step = "sync" /\ ~Resolved(o) /\ o \notin Requeuing
  /\ \E p \in Permits:
       /\ permit[p].phase = "free"
       /\ \E new \in {"pending", status[o]}:
            /\ new = "pending" => run[o].current \/ status[o] = "pending"
            /\ status' = [status EXCEPT ![o] = new]
            /\ permit' = [permit EXCEPT ![p] = Leaked]
  /\ Retry(o)
  /\ UNCHANGED <<channel, gaveUp, paused>>

\* HandleUnresolvableDeps, and the end of the reconcile.  Nothing is written
\* if the copy says so already; it may have been edited since.
Reports(o) ==
  /\ run[o].step \in {"requeue", "wait"}
  /\ \/ StatusWrite(o, "unresolved")
     \/ /\ run[o].current => status[o] = "unresolved"
        /\ UNCHANGED <<status, permit>>
  /\ IF run[o].step = "requeue" THEN Retry(o) ELSE Finish(o)
  /\ UNCHANGED <<channel, gaveUp, paused>>

\* A write with a stale copy ends the reconcile with an error; the first one,
\* of handleDefaults, before the actuation mode is read.
Conflicts(o) ==
  /\ run[o].step \in {"gate", "requeue", "wait", "apply"} /\ ~run[o].current
  /\ Retry(o)
  /\ UNCHANGED <<status, permit, channel, gaveUp, paused>>

\* So does any other failure of the write, or of FetchLiveKCCState.
ReportFails(o) ==
  /\ run[o].step \in {"gate", "requeue", "wait"} /\ run[o].current
  /\ Retry(o)
  /\ UNCHANGED <<status, permit, channel, gaveUp, paused>>

\* The rest of doReconcile: GCP is brought in line with the object, ...
\* isAPIServerUpdateRequired compares with the copy, as in Reports.
Applies(o) ==
  /\ run[o].step = "apply"
  /\ \/ StatusWrite(o, "upToDate")
     \/ /\ run[o].current => status[o] = "upToDate"
        /\ UNCHANGED <<status, permit>>
  /\ Finish(o)
  /\ UNCHANGED <<channel, gaveUp, paused>>

\* ... or that, or a write of its status, fails.
ApplyFails(o) ==
  /\ run[o].step = "apply" /\ run[o].current
  /\ StatusWrite(o, "pending") \/ UNCHANGED <<status, permit>>
  /\ Retry(o)
  /\ UNCHANGED <<channel, gaveUp, paused>>

TimerFires(o) ==
  /\ queue[o].timer
  /\ queue' = [queue EXCEPT ![o] = [now |-> TRUE, timer |-> FALSE]]
  /\ UNCHANGED <<status, run, permit, channel, gaveUp, paused>>

-----------------------------------------------------------------------------
(***************************************************************************)
(* The goroutine.  A watch without a resource version begins with an event *)
(* for the object as it is.  Events other than the ones in EndsWait are    *)
(* skipped, so it is enough to know whether one of those has been sent.    *)
(***************************************************************************)
\* The slip: the watch is told to start from the next change.
WatchResourceFromNowOn(p) ==
  /\ permit[p].phase = "start"
  /\ permit' = [permit EXCEPT ![p].phase = "watch"]
  /\ UNCHANGED <<status, queue, run, channel, gaveUp, paused>>

WatchResource(p) ==
  /\ permit[p].phase = "start"
  /\ permit' = [permit EXCEPT ![p].phase = "watch",
                  ![p].hit = IsReady(status[Dep[permit[p].owner]])]
  /\ UNCHANGED <<status, queue, run, channel, gaveUp, paused>>

WaitEnds(p) ==
  /\ permit[p].phase = "watch" /\ permit[p].hit
  /\ permit' = [permit EXCEPT ![p].phase = "send"]
  /\ UNCHANGED <<status, queue, run, channel, gaveUp, paused>>

OtherWatch(p) ==
  \E q \in Permits \ {p}: permit[q].owner = permit[p].owner

\* The slip: the permit is released at the end only.
WaitFailsKeepingPermit(p) ==
  /\ permit[p].phase \in {"start", "watch"}
  /\ permit' = [permit EXCEPT ![p] = Leaked]
  /\ gaveUp' = [gaveUp EXCEPT ![permit[p].owner] = @ \/ ~OtherWatch(p)]
  /\ UNCHANGED <<status, queue, run, channel, paused>>

\* The watch cannot be created, its channel is closed, an event is an error,
\* or WatchJitteredTimeout is over: nobody is woken up.
WaitFails(p) ==
  /\ permit[p].phase \in {"start", "watch"}
  /\ permit' = [permit EXCEPT ![p] = Free]
  /\ gaveUp' = [gaveUp EXCEPT ![permit[p].owner] = @ \/ ~OtherWatch(p)]
  /\ UNCHANGED <<status, queue, run, channel, paused>>

\* The slip: a queue of its own in place of the buffered channel.
EnqueueWithoutBound(p) ==
  /\ permit[p].phase = "send"
  /\ channel' = Append(channel, permit[p].owner)
  /\ permit' = [permit EXCEPT ![p] = Free]
  /\ UNCHANGED <<status, queue, run, gaveUp, paused>>

\* enqueueForImmediateReconciliation blocks while the buffer is full; the
\* permit is released after it.
EnqueueForImmediateReconciliation(p) ==
  /\ permit[p].phase = "send" /\ Len(channel) < BufferSize
  /\ channel' = Append(channel, permit[p].owner)
  /\ permit' = [permit EXCEPT ![p] = Free]
  /\ UNCHANGED <<status, queue, run, gaveUp, paused>>

\* The controller's channel source.
Receive ==
  /\ channel # <<>>
  /\ queue' = [queue EXCEPT ![Head(channel)].now = TRUE]
  /\ channel' = Tail(channel)
  /\ UNCHANGED <<status, run, permit, gaveUp, paused>>

-----------------------------------------------------------------------------
Stale(o) == run' = [run EXCEPT ![o].current = FALSE]

UserCreates(o) ==
  /\ status[o] = "absent"
  /\ Changes(o, "pending") /\ Stale(o)
  /\ queue' = [queue EXCEPT ![o].now = TRUE]
  /\ UNCHANGED <<channel, gaveUp, paused>>

UserEdits(o) ==
  /\ status[o] # "absent"
  /\ Changes(o, IF IsReady(status[o]) THEN "edited" ELSE "pending")
  /\ Stale(o)
  /\ queue' = [queue EXCEPT ![o].now = TRUE]
  /\ UNCHANGED <<channel, gaveUp, paused>>

\* The object goes away, as the last step of its own finalization.
UserDeletes(o) ==
  /\ status[o] # "absent"
  /\ Changes(o, "absent") /\ Stale(o)
  /\ UNCHANGED <<queue, channel, gaveUp, paused>>

Restart ==
  /\ queue' = [o \in Objects |-> [now |-> status[o] # "absent",
                                  timer |-> FALSE]]
  /\ run' = [o \in Objects |-> Idle]
  /\ permit' = [p \in Permits |-> Free]
  /\ channel' = <<>>
  /\ gaveUp' = [o \in Objects |-> FALSE]
  /\ UNCHANGED <<status, paused>>

\* The administrator changes the actuation mode; no object is made due.
AdminConfigures ==
  /\ paused' = ~paused
  /\ UNCHANGED <<status, queue, run, permit, channel, gaveUp>>

-----------------------------------------------------------------------------
Init ==
  /\ status = [o \in Objects |-> "absent"]
  /\ queue = [o \in Objects |-> [now |-> FALSE, timer |-> FALSE]]
  /\ run = [o \in Objects |-> Idle]
  /\ permit = [p \in Permits |-> Free]
  /\ channel = <<>>
  /\ gaveUp = [o \in Objects |-> FALSE]
  /\ paused = FALSE

Reconciles(o) ==
  \/ Get(o) \/ Gate(o) \/ SkipsActuation(o) \/ Resolves(o)
  \/ Requeues(o) \/ StartsWatch(o) \/ Reports(o) \/ Conflicts(o) \/ Applies(o)

Watches(p) ==
  \/ WatchResource(p) \/ WaitEnds(p) \/ WaitFails(p)
  \/ EnqueueForImmediateReconciliation(p)

\* What may go on for ever and is not the controller's doing.
Disturbs ==
  \/ \E o \in Objects: UserCreates(o) \/ UserEdits(o) \/ UserDeletes(o)
  \/ \E o \in Objects: NewFails(o) \/ ReportFails(o) \/ ApplyFails(o)
  \/ AdminConfigures \/ Restart

\* What goes on when nothing disturbs it; watches may end at any time.
Works ==
  \/ \E o \in Objects: Reconciles(o)
  \/ \E o \in Objects: TimerFires(o)
  \/ \E p \in Permits: Watches(p)
  \/ Receive

Next == Works \/ Disturbs

Spec == Init /\ [][Next]_vars

\* The work queue hands out what is due, timers run out, goroutines run, and
\* those that wait for room in a channel are served in turn.
Fairness ==
  /\ \A o \in Objects: WF_vars(Reconciles(o)) /\ WF_vars(TimerFires(o))
  /\ \A p \in Permits: /\ WF_vars(Watches(p))
                       /\ SF_vars(EnqueueForImmediateReconciliation(p))
  /\ WF_vars(Receive)

FairSpec == Spec /\ Fairness

-----------------------------------------------------------------------------
WakeUpUnderWay(o) ==
  \/ \E i \in 1..Len(channel): channel[i] = o
  \/ \E p \in Permits:
       /\ permit[p].owner = o
       /\ permit[p].phase \in {"start", "send"} \/ permit[p].hit

(***************************************************************************)
(* No wake-up is lost between the look at the reference and the start of   *)
(* the watch, nor on the way through the channel: when the reference of an *)
(* object that waits is ready, the object is due or about to be, unless    *)
(* its watch ended in an error or a timeout, or the wake-up came while     *)
(* actuation was paused.                                                   *)
(***************************************************************************)
NoLostWakeUp ==
  \A o \in Objects:
    /\ status[o] = "unresolved" /\ Resolved(o)
    /\ run[o].step = "idle" /\ ~queue[o].now
    /\ ~gaveUp[o]
    => WakeUpUnderWay(o)

(***************************************************************************)
(* With an interval above zero, every object that exists is being          *)
(* reconciled, due, or due on a timer, whatever becomes of its watch, and  *)
(* also if it is woken up while actuation is paused.                       *)
(***************************************************************************)
TimerIsTheNet ==
  ~IntervalZero =>
    \A o \in Objects: status[o] # "absent" =>
      run[o].step # "idle" \/ queue[o].now \/ queue[o].timer

(***************************************************************************)
(* Every goroutine ends and gives its permit back, also if the channel it  *)
(* sends to is full: "Decrement the count of active resource watches after *)
(* the watch finishes".  A permit for which none was started stays taken.  *)
(***************************************************************************)
PermitsComeBack ==
  \A p \in Permits: permit[p] \notin {Free, Leaked} ~> permit[p] = Free

(***************************************************************************)
(* Once users and failures leave the system alone and actuation is on,     *)
(* every object whose reference is ready becomes ready itself: "Wait for   *)
(* either the next periodic reconciliation or for the referenced resource  *)
(* to be ready".                                                           *)
(***************************************************************************)
DependentsFollow ==
  <>[][Works]_vars =>
    <>[](\A o \in Objects:
           status[o] # "absent" /\ Resolved(o) /\ ~paused
             => status[o] = "upToDate")

-----------------------------------------------------------------------------
(***************************************************************************)
(* Why NoLostWakeUp holds: the parts of an inductive invariant.            *)
(***************************************************************************)
Live(p) == permit[p].phase \in {"start", "watch", "send"}

\* A goroutine waits for the reference of its object, and knows that it is
\* ready if it is.
PermitInv(p) ==
  IF Live(p)
    THEN /\ permit[p].owner \in Objects /\ Dep[permit[p].owner] \in Objects
         /\ permit[p].phase = "watch" /\ IsReady(status[Dep[permit[p].owner]])
              => permit[p].hit
    ELSE permit[p].owner = NoDep

\* An object that waits has a goroutine or a message under way.
WaitInv(o) ==
  /\ run[o].step = "wait" \/ (run[o].step = "idle" /\ status[o] = "unresolved")
  /\ ~queue[o].now /\ ~gaveUp[o]
  => Awaited(o)

WakeInv ==
  (\A p \in Permits: PermitInv(p)) /\ (\A o \in Objects: WaitInv(o))

\* A copy that is not current was outdated by a user.
StaleInv ==
  \A o \in Objects:
    run[o].step # "idle" /\ ~run[o].current => status[o] # "unresolved"

=============================================================================
