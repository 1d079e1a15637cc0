--------------------------- MODULE DependencyProofs ---------------------------
(***************************************************************************)
(* NoLostWakeUp and TimerIsTheNet, for any objects, references, permits    *)
(* and buffer.                                                             *)
(***************************************************************************)
EXTENDS DependencyWatch, TLAPS

\* An idle reconcile and a permit nobody has.
LEMMA IdleTypes ==
  /\ Idle \in [step: Steps, current: BOOLEAN] /\ Idle.step = "idle"
  /\ Free \in Goroutine /\ Free.phase = "free" /\ Free.owner = NoDep
  /\ Leaked \in Goroutine /\ Leaked.phase = "leaked" /\ Leaked.owner = NoDep
BY DEF Idle, Steps, Free, Leaked, Goroutine

\* A change of an object changes its status, and of the goroutines only
\* what they know.
LEMMA ChangesKeep ==
  ASSUME TypeOK, NEW o \in Objects, NEW new \in Statuses, Changes(o, new)
  PROVE  /\ status' \in [Objects -> Statuses]
         /\ status'[o] = new
         /\ \A q \in Objects: q # o => status'[q] = status[q]
         /\ permit' \in [Permits -> Goroutine]
         /\ \A p \in Permits: /\ permit'[p].phase = permit[p].phase
                              /\ permit'[p].owner = permit[p].owner
                              /\ permit[p].hit => permit'[p].hit
<1>1. status' \in [Objects -> Statuses] /\ status'[o] = new
      /\ \A q \in Objects: q # o => status'[q] = status[q]
  BY DEF Changes, TypeOK
<1>2. ASSUME NEW p \in Permits
      PROVE  /\ permit'[p] \in Goroutine
             /\ permit'[p].phase = permit[p].phase
             /\ permit'[p].owner = permit[p].owner
             /\ permit[p].hit => permit'[p].hit
  BY DEF Changes, TypeOK, Goroutine
<1>3. permit' \in [Permits -> Goroutine]
  BY <1>2 DEF Changes
<1> QED BY <1>1, <1>2, <1>3

\* How a reconcile ends or goes on, for the object itself and the others.
LEMMA RunKeeps ==
  ASSUME TypeOK, NEW o \in Objects, NEW s \in Steps,
         Retry(o) \/ Finish(o) \/ Goto(o, s)
  PROVE  /\ run' \in [Objects -> [step: Steps, current: BOOLEAN]]
         /\ queue' \in [Objects -> [now: BOOLEAN, timer: BOOLEAN]]
         /\ \A q \in Objects: q # o => run'[q] = run[q] /\ queue'[q] = queue[q]
<1>1. CASE Retry(o)
  BY <1>1, IdleTypes DEF TypeOK, Retry
<1>2. CASE Finish(o)
  <2>1. PICK delay \in BOOLEAN:
          queue' = [queue EXCEPT ![o].timer = @ \/ delay]
    BY <1>2 DEF Finish
  <2>2. [queue[o] EXCEPT !.timer = @ \/ delay]
          \in [now: BOOLEAN, timer: BOOLEAN]
    BY DEF TypeOK
  <2> QED BY <1>2, <2>1, <2>2, IdleTypes DEF TypeOK, Finish
<1>3. CASE Goto(o, s)
  BY <1>3 DEF TypeOK, Goto
<1> QED BY <1>1, <1>2, <1>3

\* Type correctness is preserved by every action.
LEMMA TypeStep ==
  ASSUME TypeOK, WakeInv, [Next]_vars
  PROVE  TypeOK'
<1> USE DependencyAssumption, IdleTypes
<1> USE DEF TypeOK
<1>1. ASSUME NEW o \in Objects, Get(o) PROVE TypeOK'
  BY <1>1 DEF Get, Steps
<1>2. ASSUME NEW o \in Objects, Gate(o) \/ Resolves(o) \/ Requeues(o)
      PROVE  TypeOK'
  <2>1. Goto(o, "sync") \/ Goto(o, "apply") \/ Goto(o, "requeue")
    BY <1>2 DEF Gate, Resolves, Requeues
  <2> QED BY <1>2, <2>1, RunKeeps DEF Gate, Resolves, Requeues, Steps
<1>3. ASSUME NEW o \in Objects, StartsWatch(o) PROVE TypeOK'
  <2>1. [phase |-> "start", owner |-> o, hit |-> FALSE] \in Goroutine
    BY DEF Goroutine
  <2>2. Goto(o, "wait") /\ "wait" \in Steps
    BY <1>3 DEF StartsWatch, Steps
  <2> QED BY <1>3, <2>1, <2>2, RunKeeps DEF StartsWatch
<1>4. ASSUME NEW o \in Objects, NewFails(o) PROVE TypeOK'
  <2>1. Retry(o) /\ "idle" \in Steps
    BY <1>4 DEF NewFails, Steps
  <2>2. status' \in [Objects -> Statuses] /\ permit' \in [Permits -> Goroutine]
    BY <1>4 DEF NewFails, Statuses
  <2> QED BY <1>4, <2>1, <2>2, RunKeeps DEF NewFails
<1>5. ASSUME NEW o \in Objects,
             Reports(o) \/ Conflicts(o) \/ ReportFails(o)
               \/ Applies(o) \/ ApplyFails(o)
      PROVE  TypeOK'
  <2>1. (Retry(o) \/ Finish(o)) /\ "idle" \in Steps
    BY <1>5 DEF Reports, Conflicts, ReportFails, Applies, ApplyFails, Steps
  <2>2. UNCHANGED <<channel, gaveUp, paused>>
    BY <1>5 DEF Reports, Conflicts, ReportFails, Applies, ApplyFails
  <2>3. UNCHANGED <<status, permit>> \/ \E new \in Statuses: Changes(o, new)
    BY <1>5 DEF Reports, Conflicts, ReportFails, Applies, ApplyFails,
         StatusWrite, Statuses
  <2> QED BY <2>1, <2>2, <2>3, RunKeeps, ChangesKeep
<1>6. ASSUME NEW o \in Objects, TimerFires(o) PROVE TypeOK'
  BY <1>6 DEF TimerFires
<1>7. ASSUME NEW p \in Permits, WatchResource(p) PROVE TypeOK'
  <2>1. IsReady(status[Dep[permit[p].owner]]) \in BOOLEAN
    BY DEF IsReady
  <2>2. PICK ready \in BOOLEAN: ready = IsReady(status[Dep[permit[p].owner]])
    BY <2>1
  <2>3. [permit[p] EXCEPT !.phase = "watch", !.hit = ready] \in Goroutine
    BY DEF Goroutine
  <2> QED BY <1>7, <2>2, <2>3 DEF WatchResource
<1>8. ASSUME NEW p \in Permits, WaitEnds(p) PROVE TypeOK'
  BY <1>8 DEF WaitEnds, Goroutine
<1>9. ASSUME NEW p \in Permits, WaitFails(p) PROVE TypeOK'
  BY <1>9 DEF WaitFails
<1>10. ASSUME NEW p \in Permits, EnqueueForImmediateReconciliation(p),
              PermitInv(p)
       PROVE  TypeOK'
  <2>1. permit[p].owner \in Objects
    BY <1>10 DEF EnqueueForImmediateReconciliation, PermitInv, Live
  <2> QED BY <1>10, <2>1 DEF EnqueueForImmediateReconciliation
<1>11. ASSUME Receive PROVE TypeOK'
  <2>1. Head(channel) \in Objects /\ Tail(channel) \in Seq(Objects)
        /\ Len(Tail(channel)) <= BufferSize
    BY <1>11 DEF Receive
  <2> QED BY <1>11, <2>1 DEF Receive
<1>12. ASSUME NEW o \in Objects,
              UserCreates(o) \/ UserEdits(o) \/ UserDeletes(o)
       PROVE  TypeOK'
  <2>1. PICK new \in Statuses: Changes(o, new)
    BY <1>12 DEF UserCreates, UserEdits, UserDeletes, Statuses
  <2>2. /\ run' = [run EXCEPT ![o].current = FALSE]
        /\ UNCHANGED <<channel, gaveUp, paused>>
    BY <1>12 DEF UserCreates, UserEdits, UserDeletes, Stale
  <2>3. run' \in [Objects -> [step: Steps, current: BOOLEAN]]
    BY <2>2
  <2>4. queue' = [queue EXCEPT ![o].now = TRUE] \/ UNCHANGED queue
    BY <1>12 DEF UserCreates, UserEdits, UserDeletes
  <2>5. queue' \in [Objects -> [now: BOOLEAN, timer: BOOLEAN]]
    <3>1. [queue[o] EXCEPT !.now = TRUE] \in [now: BOOLEAN, timer: BOOLEAN]
      OBVIOUS
    <3>2. CASE queue' = [queue EXCEPT ![o].now = TRUE]
      BY <3>1, <3>2
    <3> QED BY <2>4, <3>2
  <2> QED BY <2>1, <2>2, <2>3, <2>5, ChangesKeep
<1>13. ASSUME Restart PROVE TypeOK'
  BY <1>13 DEF Restart
<1>14. CASE UNCHANGED vars
  BY <1>14 DEF vars
<1>15. ASSUME NEW o \in Objects, SkipsActuation(o) PROVE TypeOK'
  <2>1. /\ Finish(o) /\ "idle" \in Steps
        /\ UNCHANGED <<status, permit, channel, paused>>
    BY <1>15 DEF SkipsActuation, Steps
  <2>2. gaveUp' \in [Objects -> BOOLEAN]
    BY <1>15 DEF SkipsActuation, Awaited
  <2> QED BY <2>1, <2>2, RunKeeps
<1>16. ASSUME AdminConfigures PROVE TypeOK'
  BY <1>16 DEF AdminConfigures
<1> QED
  BY <1>1, <1>2, <1>3, <1>4, <1>5, <1>6, <1>7, <1>8, <1>9, <1>10, <1>11,
     <1>12, <1>13, <1>14, <1>15, <1>16
  DEF WakeInv, Next, Works, Reconciles, Watches, Disturbs

-----------------------------------------------------------------------------
\* What the goroutines know stays true when an object changes.
LEMMA ChangesKeepPermits ==
  ASSUME TypeOK, WakeInv, NEW o \in Objects, NEW new \in Statuses,
         Changes(o, new)
  PROVE  \A p \in Permits: PermitInv(p)'
<1> SUFFICES ASSUME NEW p \in Permits PROVE PermitInv(p)'
  OBVIOUS
<1>1. PermitInv(p) BY DEF WakeInv
<1>2. permit'[p].phase = permit[p].phase /\ permit'[p].owner = permit[p].owner
      /\ (permit[p].hit => permit'[p].hit) /\ permit'[p] \in Goroutine
  BY ChangesKeep
<1>3. CASE ~Live(p)
  BY <1>1, <1>2, <1>3 DEF PermitInv, Live
<1>4. CASE Live(p)
  <2> DEFINE d == Dep[permit[p].owner]
  <2>1. permit[p].owner \in Objects /\ d \in Objects
    BY <1>1, <1>4 DEF PermitInv
  <2>2. CASE d # o
    <3>1. status'[d] = status[d] BY <2>1, <2>2, ChangesKeep
    <3> QED BY <1>1, <1>2, <1>4, <2>1, <3>1 DEF PermitInv, Live
  <2>3. CASE d = o
    <3>1. status'[d] = new BY <2>3, ChangesKeep
    <3>2. permit[p].phase = "watch" /\ IsReady(new) => permit'[p].hit
      <4> SUFFICES ASSUME permit[p].phase = "watch", IsReady(new)
                   PROVE  permit'[p].hit
        OBVIOUS
      <4>1. permit'[p] = [permit[p] EXCEPT !.hit = TRUE]
        BY <2>3 DEF Changes, EndsWait
      <4> QED BY <4>1 DEF TypeOK, Goroutine
    <3> QED BY <1>2, <1>4, <2>1, <3>1, <3>2 DEF PermitInv, Live
  <2> QED BY <2>2, <2>3
<1> QED BY <1>3, <1>4

\* An object whose reconcile, status and queue stay, and who keeps the
\* goroutines and messages it has, waits as before.
LEMMA WaitKept ==
  ASSUME NEW o \in Objects, WaitInv(o),
         run'[o].step = run[o].step, queue'[o].now = queue[o].now,
         gaveUp'[o] = gaveUp[o],
         status'[o] = "unresolved" => status[o] = "unresolved",
         \A i \in 1..Len(channel): channel[i] = o
            => \E j \in 1..Len(channel'): channel'[j] = o,
         \A p \in Permits: permit[p].owner = o
            => \/ \E q \in Permits: permit'[q].owner = o
               \/ \E j \in 1..Len(channel'): channel'[j] = o
  PROVE  WaitInv(o)'
BY DEF WaitInv, Awaited

\* An object that is being reconciled otherwise, is due, or has been given
\* up, is not one that waits.
LEMMA NotWaiting ==
  ASSUME NEW o \in Objects,
         \/ run'[o].step \in {"gate", "sync", "apply", "requeue"}
         \/ queue'[o].now
         \/ gaveUp'[o]
         \/ run'[o].step = "idle" /\ status'[o] # "unresolved"
  PROVE  WaitInv(o)'
BY DEF WaitInv

\* A step of one object's reconcile that leaves the goroutines and the
\* channel alone.
LEMMA WaitOthers ==
  ASSUME WakeInv, NEW o \in Objects, NEW q \in Objects, q # o,
         run'[q] = run[q], queue'[q] = queue[q], gaveUp'[q] = gaveUp[q],
         status'[q] = status[q], UNCHANGED channel,
         \A p \in Permits: permit[p].owner = q => permit'[p].owner = q
  PROVE  WaitInv(q)'
<1>1. WaitInv(q) BY DEF WakeInv
<1> QED BY <1>1, WaitKept

\* The end of a reconcile: an object that stays unready has been waiting,
\* and then it goes on waiting.
LEMMA EndKeeps ==
  ASSUME TypeOK, WakeInv, StaleInv, NEW o \in Objects,
         Reports(o) \/ Conflicts(o) \/ ReportFails(o) \/ Applies(o)
           \/ ApplyFails(o)
  PROVE  WakeInv'
<1>1. /\ Retry(o) \/ Finish(o)
      /\ "idle" \in Steps /\ UNCHANGED <<channel, gaveUp, paused>>
  BY DEF Reports, Conflicts, ReportFails, Applies, ApplyFails, Steps
<1>2. UNCHANGED <<status, permit>> \/ \E new \in Statuses: Changes(o, new)
  BY DEF Reports, Conflicts, ReportFails, Applies, ApplyFails, StatusWrite,
         Statuses
<1>3. /\ \A p \in Permits: PermitInv(p)'
      /\ \A p \in Permits: permit'[p].owner = permit[p].owner
      /\ \A q \in Objects: q # o => status'[q] = status[q]
  <2>1. CASE UNCHANGED <<status, permit>>
    BY <2>1 DEF WakeInv, PermitInv, Live
  <2>2. CASE \E new \in Statuses: Changes(o, new)
    BY <2>2, ChangesKeep, ChangesKeepPermits
  <2> QED BY <1>2, <2>1, <2>2
<1>4. /\ run'[o] = Idle
      /\ \A q \in Objects: q # o => run'[q] = run[q] /\ queue'[q] = queue[q]
  <2>1. run'[o] = Idle BY <1>1 DEF Retry, Finish, TypeOK
  <2> QED BY <1>1, <2>1, RunKeeps
<1>5. ASSUME NEW q \in Objects, q # o PROVE WaitInv(q)'
  BY <1>1, <1>3, <1>4, <1>5, WaitOthers
<1>6. WaitInv(o)'
  <2>1. CASE Retry(o)
    <3>1. queue'[o].now BY <2>1 DEF Retry, TypeOK
    <3> QED BY <3>1, NotWaiting
  <2>2. CASE Finish(o) /\ Reports(o) /\ run[o].step = "wait"
    <3>1. queue'[o].now = queue[o].now BY <2>2 DEF Finish, TypeOK
    <3>2. WaitInv(o) BY DEF WakeInv
    <3> QED BY <1>1, <1>3, <1>4, <2>2, <3>1, <3>2, IdleTypes
            DEF WaitInv, Awaited
  <2>3. CASE Applies(o)
    <3>1. status'[o] # "unresolved"
      <4>1. CASE StatusWrite(o, "upToDate")
        BY <4>1 DEF StatusWrite, Changes, TypeOK
      <4>2. CASE /\ run[o].current => status[o] = "upToDate"
                 /\ UNCHANGED <<status, permit>>
        BY <2>3, <4>2 DEF Applies, StaleInv
      <4> QED BY <2>3, <4>1, <4>2 DEF Applies
    <3> QED BY <1>4, <3>1, NotWaiting, IdleTypes
  <2>4. Retry(o) \/ (Finish(o) /\ Reports(o) /\ run[o].step = "wait")
          \/ Applies(o)
    BY DEF Reports, Conflicts, ReportFails, ApplyFails
  <2> QED BY <2>1, <2>2, <2>3, <2>4
<1> QED BY <1>3, <1>5, <1>6 DEF WakeInv

\* A user's change of an object wakes it up, unless the object is gone.
LEMMA UserKeeps ==
  ASSUME TypeOK, WakeInv, NEW o \in Objects,
         UserCreates(o) \/ UserEdits(o) \/ UserDeletes(o)
  PROVE  WakeInv'
<1>1. PICK new \in Statuses: Changes(o, new) /\ new # "unresolved"
  BY DEF UserCreates, UserEdits, UserDeletes, Statuses
<1>2. /\ \A q \in Objects: run'[q].step = run[q].step
      /\ UNCHANGED <<channel, gaveUp, paused>>
      /\ \A q \in Objects: queue'[q] = queue[q] \/ queue'[q].now
  <2>1. /\ run' = [run EXCEPT ![o].current = FALSE]
        /\ UNCHANGED <<channel, gaveUp, paused>>
    BY DEF UserCreates, UserEdits, UserDeletes, Stale
  <2>2. queue' = [queue EXCEPT ![o].now = TRUE] \/ UNCHANGED queue
    BY DEF UserCreates, UserEdits, UserDeletes
  <2>3. \A q \in Objects: run'[q].step = run[q].step
    BY <2>1 DEF TypeOK
  <2>4. CASE queue' = [queue EXCEPT ![o].now = TRUE]
    BY <2>1, <2>3, <2>4 DEF TypeOK
  <2> QED BY <2>1, <2>2, <2>3, <2>4
<1>3. ASSUME NEW q \in Objects PROVE WaitInv(q)'
  <2>1. status'[q] = "unresolved" => status[q] = "unresolved"
    BY <1>1, ChangesKeep
  <2>2. \A p \in Permits: permit'[p].owner = permit[p].owner
    BY <1>1, ChangesKeep
  <2>3. CASE queue'[q] = queue[q]
    <3>1. WaitInv(q) BY DEF WakeInv
    <3> QED BY <1>2, <2>1, <2>2, <2>3, <3>1, WaitKept
  <2>4. CASE queue'[q].now
    BY <2>4, NotWaiting
  <2> QED BY <1>2, <2>3, <2>4
<1> QED BY <1>1, <1>3, ChangesKeepPermits DEF WakeInv

\* The invariant is preserved by every action.
LEMMA WakeStep ==
  ASSUME TypeOK, WakeInv, StaleInv, [Next]_vars
  PROVE  WakeInv'
<1> USE DependencyAssumption, IdleTypes
<1>1. ASSUME NEW o \in Objects, Get(o) PROVE WakeInv'
  <2>1. \A p \in Permits: PermitInv(p)'
    BY <1>1 DEF Get, WakeInv, PermitInv, Live
  <2>2. ASSUME NEW q \in Objects, q # o PROVE WaitInv(q)'
    <3>1. run'[q] = run[q] /\ queue'[q] = queue[q] /\ gaveUp'[q] = gaveUp[q]
      BY <1>1, <2>2 DEF Get, TypeOK
    <3> QED BY <1>1, <2>2, <3>1, WaitOthers DEF Get
  <2>3. WaitInv(o)'
    <3>1. CASE status[o] = "absent"
      BY <1>1, <3>1, NotWaiting DEF Get
    <3>2. CASE status[o] # "absent"
      <4>1. run'[o].step = "gate" BY <1>1, <3>2 DEF Get, TypeOK
      <4> QED BY <4>1, NotWaiting
    <3> QED BY <3>1, <3>2
  <2> QED BY <2>1, <2>2, <2>3 DEF WakeInv
<1>2. ASSUME NEW o \in Objects, Gate(o) \/ Resolves(o) \/ Requeues(o)
      PROVE  WakeInv'
  <2>1. /\ Goto(o, "sync") \/ Goto(o, "apply") \/ Goto(o, "requeue")
        /\ UNCHANGED <<status, permit, channel, gaveUp, paused>>
    BY <1>2 DEF Gate, Resolves, Requeues
  <2>2. \A p \in Permits: PermitInv(p)'
    BY <2>1 DEF WakeInv, PermitInv, Live
  <2>3. ASSUME NEW q \in Objects, q # o PROVE WaitInv(q)'
    <3>1. run'[q] = run[q] /\ queue'[q] = queue[q]
      BY <2>1, <2>3, RunKeeps DEF Steps
    <3> QED BY <2>1, <2>3, <3>1, WaitOthers
  <2>4. WaitInv(o)'
    <3>1. run'[o].step \in {"sync", "apply", "requeue"}
      BY <2>1 DEF Goto, TypeOK
    <3> QED BY <3>1, NotWaiting
  <2> QED BY <2>2, <2>3, <2>4 DEF WakeInv
<1>3. ASSUME NEW o \in Objects, StartsWatch(o) PROVE WakeInv'
  <2> DEFINE g == [phase |-> "start", owner |-> o, hit |-> FALSE]
  <2>1. PICK p \in Permits: permit[p].phase = "free"
                            /\ permit' = [permit EXCEPT ![p] = g]
    BY <1>3 DEF StartsWatch
  <2>2. permit'[p] = g /\ \A r \in Permits: r # p => permit'[r] = permit[r]
    BY <2>1 DEF TypeOK
  <2>3. Dep[o] \in Objects /\ permit[p].owner = NoDep /\ UNCHANGED status
    <3>1. PermitInv(p) BY DEF WakeInv
    <3> QED BY <1>3, <2>1, <3>1
          DEF StartsWatch, Resolved, PermitInv, Live
  <2>4. ASSUME NEW r \in Permits PROVE PermitInv(r)'
    <3>1. CASE r = p
      BY <2>2, <2>3, <3>1 DEF PermitInv, Live
    <3>2. CASE r # p
      <4>1. PermitInv(r) BY DEF WakeInv
      <4> QED BY <2>2, <2>3, <3>2, <4>1 DEF PermitInv, Live
    <3> QED BY <3>1, <3>2
  <2>5. ASSUME NEW q \in Objects, q # o PROVE WaitInv(q)'
    <3>1. run'[q] = run[q] /\ queue'[q] = queue[q]
      BY <1>3, <2>5, RunKeeps DEF StartsWatch, Steps
    <3>2. gaveUp'[q] = gaveUp[q] /\ UNCHANGED channel
      BY <1>3, <2>5 DEF StartsWatch, TypeOK
    <3>3. \A r \in Permits: permit[r].owner = q => permit'[r].owner = q
      BY <2>2, <2>3
    <3> QED BY <2>3, <2>5, <3>1, <3>2, <3>3, WaitOthers
  <2>6. WaitInv(o)'
    BY <2>2 DEF WaitInv, Awaited
  <2> QED BY <2>4, <2>5, <2>6 DEF WakeInv
<1>4. ASSUME NEW o \in Objects, NewFails(o) PROVE WakeInv'
  <2>1. PICK p \in Permits: permit[p].phase = "free"
                            /\ permit' = [permit EXCEPT ![p] = Leaked]
    BY <1>4 DEF NewFails
  <2>2. permit'[p] = Leaked /\ \A r \in Permits: r # p => permit'[r] = permit[r]
    BY <2>1 DEF TypeOK
  <2>3. PICK new \in {"pending", status[o]}:
          status' = [status EXCEPT ![o] = new]
    BY <1>4 DEF NewFails
  <2>4. \A q \in Objects: IsReady(status'[q]) => IsReady(status[q])
    BY <2>3 DEF IsReady, TypeOK
  <2>5. permit[p].owner = NoDep
    <3>1. PermitInv(p) BY DEF WakeInv
    <3> QED BY <2>1, <3>1 DEF PermitInv, Live
  <2>6. ASSUME NEW r \in Permits PROVE PermitInv(r)'
    <3>1. CASE r = p
      BY <2>2, <3>1 DEF PermitInv, Live
    <3>2. CASE r # p
      <4>1. PermitInv(r) BY DEF WakeInv
      <4> QED BY <2>2, <2>4, <3>2, <4>1 DEF PermitInv, Live
    <3> QED BY <3>1, <3>2
  <2>7. ASSUME NEW q \in Objects, q # o PROVE WaitInv(q)'
    <3>1. run'[q] = run[q] /\ queue'[q] = queue[q]
      BY <1>4, <2>7, RunKeeps DEF NewFails, Steps
    <3>2. status'[q] = status[q] /\ UNCHANGED <<gaveUp, channel>>
      BY <1>4, <2>3, <2>7 DEF NewFails, TypeOK
    <3>3. \A r \in Permits: permit[r].owner = q => permit'[r].owner = q
      BY <2>2, <2>5
    <3> QED BY <2>7, <3>1, <3>2, <3>3, WaitOthers
  <2>8. WaitInv(o)'
    <3>1. queue'[o].now BY <1>4 DEF NewFails, Retry, TypeOK
    <3> QED BY <3>1, NotWaiting
  <2> QED BY <2>6, <2>7, <2>8 DEF WakeInv
<1>5. ASSUME NEW o \in Objects, TimerFires(o) PROVE WakeInv'
  <2>1. \A p \in Permits: PermitInv(p)'
    BY <1>5 DEF TimerFires, WakeInv, PermitInv, Live
  <2>2. ASSUME NEW q \in Objects, q # o PROVE WaitInv(q)'
    BY <1>5, <2>2, WaitOthers DEF TimerFires, TypeOK
  <2>3. WaitInv(o)'
    <3>1. queue'[o].now BY <1>5 DEF TimerFires, TypeOK
    <3> QED BY <3>1, NotWaiting
  <2> QED BY <2>1, <2>2, <2>3 DEF WakeInv
<1>6. ASSUME NEW p \in Permits, WatchResource(p) \/ WaitEnds(p) PROVE WakeInv'
  <2>1. /\ \A r \in Permits: permit'[r].owner = permit[r].owner
        /\ \A r \in Permits: r # p => permit'[r] = permit[r]
        /\ UNCHANGED <<status, queue, run, channel, gaveUp, paused>>
    <3>1. CASE WatchResource(p)
      BY <3>1 DEF WatchResource, TypeOK
    <3>2. CASE WaitEnds(p)
      BY <3>2 DEF WaitEnds, TypeOK
    <3> QED BY <1>6, <3>1, <3>2
  <2>2. Live(p) /\ PermitInv(p)
    BY <1>6 DEF WatchResource, WaitEnds, Live, WakeInv
  <2>3. PermitInv(p)'
    <3>1. CASE WatchResource(p)
      <4>1. permit'[p].phase = "watch"
            /\ permit'[p].hit = IsReady(status[Dep[permit[p].owner]])
        BY <3>1 DEF WatchResource, TypeOK, Goroutine
      <4> QED BY <2>1, <2>2, <4>1 DEF PermitInv, Live
    <3>2. CASE WaitEnds(p)
      <4>1. permit'[p].phase = "send"
        BY <3>2 DEF WaitEnds, TypeOK, Goroutine
      <4> QED BY <2>1, <2>2, <4>1 DEF PermitInv, Live
    <3> QED BY <1>6, <3>1, <3>2
  <2>4. ASSUME NEW r \in Permits, r # p PROVE PermitInv(r)'
    <3>1. PermitInv(r) BY DEF WakeInv
    <3> QED BY <2>1, <2>4, <3>1 DEF PermitInv, Live
  <2>5. ASSUME NEW q \in Objects PROVE WaitInv(q)'
    <3>1. WaitInv(q) BY DEF WakeInv
    <3> QED BY <2>1, <3>1, WaitKept
  <2> QED BY <2>3, <2>4, <2>5 DEF WakeInv
<1>7. ASSUME NEW p \in Permits, WaitFails(p) PROVE WakeInv'
  <2>1. permit'[p] = Free /\ \A r \in Permits: r # p => permit'[r] = permit[r]
    BY <1>7 DEF WaitFails, TypeOK
  <2>2. UNCHANGED <<status, queue, run, channel>>
    BY <1>7 DEF WaitFails
  <2>3. ASSUME NEW r \in Permits PROVE PermitInv(r)'
    <3>1. PermitInv(r) BY DEF WakeInv
    <3> QED BY <2>1, <2>2, <3>1 DEF PermitInv, Live
  <2>4. permit[p].owner \in Objects
    <3>1. PermitInv(p) BY DEF WakeInv
    <3> QED BY <1>7, <3>1 DEF WaitFails, PermitInv, Live
  <2>5. ASSUME NEW q \in Objects PROVE WaitInv(q)'
    <3>1. WaitInv(q) BY DEF WakeInv
    <3>2. CASE permit[p].owner # q
      <4>1. gaveUp'[q] = gaveUp[q] BY <1>7, <3>2 DEF WaitFails, TypeOK
      <4>2. \A r \in Permits: permit[r].owner = q => permit'[r].owner = q
        BY <2>1, <3>2
      <4> QED BY <2>2, <3>1, <4>1, <4>2, WaitKept
    <3>3. CASE permit[p].owner = q /\ OtherWatch(p)
      <4>1. PICK r \in Permits \ {p}: permit[r].owner = q
        BY <3>3 DEF OtherWatch
      <4>2. permit'[r].owner = q BY <2>1, <4>1
      <4> QED BY <4>1, <4>2 DEF WaitInv, Awaited
    <3>4. CASE permit[p].owner = q /\ ~OtherWatch(p)
      <4>1. gaveUp'[q] BY <1>7, <3>4 DEF WaitFails, TypeOK
      <4> QED BY <4>1, NotWaiting
    <3> QED BY <3>2, <3>3, <3>4
  <2> QED BY <2>3, <2>5 DEF WakeInv
<1>8. ASSUME NEW p \in Permits, EnqueueForImmediateReconciliation(p)
      PROVE  WakeInv'
  <2>1. permit'[p] = Free /\ \A r \in Permits: r # p => permit'[r] = permit[r]
    BY <1>8 DEF EnqueueForImmediateReconciliation, TypeOK
  <2>2. UNCHANGED <<status, queue, run, gaveUp, paused>>
    BY <1>8 DEF EnqueueForImmediateReconciliation
  <2>3. ASSUME NEW r \in Permits PROVE PermitInv(r)'
    <3>1. PermitInv(r) BY DEF WakeInv
    <3> QED BY <2>1, <2>2, <3>1 DEF PermitInv, Live
  <2>4. permit[p].owner \in Objects
    <3>1. PermitInv(p) BY DEF WakeInv
    <3> QED BY <1>8, <3>1
          DEF EnqueueForImmediateReconciliation, PermitInv, Live
  <2>5. /\ Len(channel') = Len(channel) + 1 /\ Len(channel) \in Nat
        /\ channel'[Len(channel) + 1] = permit[p].owner
        /\ \A i \in 1..Len(channel): channel'[i] = channel[i]
    BY <1>8, <2>4 DEF EnqueueForImmediateReconciliation, TypeOK
  <2>6. ASSUME NEW q \in Objects PROVE WaitInv(q)'
    <3>1. WaitInv(q) BY DEF WakeInv
    <3>2. CASE permit[p].owner = q
      <4>1. Len(channel) + 1 \in 1..Len(channel') BY <2>5
      <4> QED BY <2>5, <3>2, <4>1 DEF WaitInv, Awaited
    <3>3. CASE permit[p].owner # q
      <4>1. \A i \in 1..Len(channel): channel[i] = q
              => i \in 1..Len(channel') /\ channel'[i] = q
        BY <2>5
      <4>2. \A r \in Permits: permit[r].owner = q => permit'[r].owner = q
        BY <2>1, <3>3
      <4> QED BY <2>2, <3>1, <4>1, <4>2, WaitKept
    <3> QED BY <3>2, <3>3
  <2> QED BY <2>3, <2>6 DEF WakeInv
<1>9. ASSUME Receive PROVE WakeInv'
  <2>1. \A p \in Permits: PermitInv(p)'
    BY <1>9 DEF Receive, WakeInv, PermitInv, Live
  <2>2. ASSUME NEW q \in Objects PROVE WaitInv(q)'
    <3>1. WaitInv(q) BY DEF WakeInv
    <3>2. CASE q = Head(channel)
      <4>1. queue'[q].now BY <1>9, <3>2 DEF Receive, TypeOK
      <4> QED BY <4>1, NotWaiting
    <3>3. CASE q # Head(channel)
      <4>1. queue'[q] = queue[q] BY <1>9, <3>3 DEF Receive, TypeOK
      <4>2. ASSUME NEW i \in 1..Len(channel), channel[i] = q
            PROVE  \E j \in 1..Len(channel'): channel'[j] = q
        <5>1. i # 1 /\ channel \in Seq(Objects) /\ channel # <<>>
          BY <1>9, <3>3, <4>2 DEF Receive, TypeOK
        <5>2. i - 1 \in 1..Len(Tail(channel)) /\ Tail(channel)[i - 1] = q
          BY <4>2, <5>1
        <5> QED BY <1>9, <5>2 DEF Receive
      <4> QED BY <1>9, <3>1, <4>1, <4>2, WaitKept DEF Receive
    <3> QED BY <3>2, <3>3
  <2> QED BY <2>1, <2>2 DEF WakeInv
<1>10. ASSUME Restart PROVE WakeInv'
  <2>1. ASSUME NEW p \in Permits PROVE PermitInv(p)'
    BY <1>10 DEF Restart, PermitInv, Live
  <2>2. ASSUME NEW q \in Objects PROVE WaitInv(q)'
    <3>1. run'[q].step = "idle" /\ (queue'[q].now \/ status'[q] = "absent")
      BY <1>10 DEF Restart
    <3> QED BY <3>1, NotWaiting
  <2> QED BY <2>1, <2>2 DEF WakeInv
<1>11. CASE UNCHANGED vars
  BY <1>11 DEF vars, WakeInv, PermitInv, WaitInv, Awaited, Live
<1>12. ASSUME NEW o \in Objects, SkipsActuation(o) PROVE WakeInv'
  <2>1. /\ Finish(o) /\ "idle" \in Steps
        /\ UNCHANGED <<status, permit, channel, paused>>
        /\ \A q \in Objects: q # o => gaveUp'[q] = gaveUp[q]
        /\ gaveUp'[o] = (status[o] = "unresolved" /\ ~Awaited(o))
    BY <1>12 DEF SkipsActuation, Steps, TypeOK
  <2>2. \A p \in Permits: PermitInv(p)'
    BY <2>1 DEF WakeInv, PermitInv, Live
  <2>3. ASSUME NEW q \in Objects, q # o PROVE WaitInv(q)'
    <3>1. run'[q] = run[q] /\ queue'[q] = queue[q]
      BY <2>1, <2>3, RunKeeps
    <3> QED BY <2>1, <2>3, <3>1, WaitOthers
  <2>4. WaitInv(o)'
    <3>1. run'[o].step = "idle" BY <2>1 DEF Finish, TypeOK
    <3>2. Awaited(o)' <=> Awaited(o) BY <2>1 DEF Awaited
    <3> QED BY <2>1, <3>1, <3>2 DEF WaitInv
  <2> QED BY <2>2, <2>3, <2>4 DEF WakeInv
<1>13. ASSUME AdminConfigures PROVE WakeInv'
  BY <1>13 DEF AdminConfigures, WakeInv, PermitInv, WaitInv, Awaited, Live
<1> QED
  BY <1>1, <1>2, <1>3, <1>4, <1>5, <1>6, <1>7, <1>8, <1>9, <1>10, <1>11,
     <1>12, <1>13, EndKeeps, UserKeeps
  DEF Next, Works, Reconciles, Watches, Disturbs

\* A user's write outdates the copy and takes the object out of its wait.
LEMMA StaleStep ==
  ASSUME TypeOK, StaleInv, [Next]_vars
  PROVE  StaleInv'
<1> USE IdleTypes
<1> SUFFICES ASSUME NEW q \in Objects,
                    run'[q].step # "idle" /\ ~run'[q].current
             PROVE  status'[q] # "unresolved"
  BY DEF StaleInv
<1>0. run[q].step # "idle" /\ ~run[q].current => status[q] # "unresolved"
  BY DEF StaleInv
<1>1. ASSUME NEW o \in Objects, Get(o) PROVE status'[q] # "unresolved"
  <2>1. run'[q] = run[q] \/ run'[q].current
    BY <1>1 DEF Get, TypeOK
  <2> QED BY <1>0, <1>1, <2>1 DEF Get
<1>2. ASSUME NEW o \in Objects,
             Gate(o) \/ Resolves(o) \/ Requeues(o) \/ StartsWatch(o)
      PROVE  status'[q] # "unresolved"
  <2>1. PICK s \in {"sync", "apply", "requeue", "wait"}: Goto(o, s)
    BY <1>2 DEF Gate, Resolves, Requeues, StartsWatch
  <2>2. /\ run'[q].current = run[q].current
        /\ run'[q].step # run[q].step => q = o
    BY <2>1 DEF Goto, TypeOK
  <2>3. UNCHANGED status /\ run[o].step # "idle"
    BY <1>2 DEF Gate, Resolves, Requeues, StartsWatch
  <2> QED BY <1>0, <2>2, <2>3
<1>3. ASSUME NEW o \in Objects,
             Reports(o) \/ Conflicts(o) \/ ReportFails(o) \/ Applies(o)
               \/ ApplyFails(o) \/ NewFails(o) \/ SkipsActuation(o)
      PROVE  status'[q] # "unresolved"
  <2>1. Retry(o) \/ Finish(o)
    BY <1>3 DEF Reports, Conflicts, ReportFails, Applies, ApplyFails, NewFails,
         SkipsActuation
  <2>2. q # o /\ run'[q] = run[q]
    BY <2>1 DEF Retry, Finish, TypeOK
  <2>3. status'[q] = status[q]
    BY <1>3, <2>2 DEF Reports, Conflicts, ReportFails, Applies, ApplyFails,
         NewFails, SkipsActuation, StatusWrite, Changes, TypeOK
  <2> QED BY <1>0, <2>2, <2>3
<1>4. ASSUME NEW o \in Objects, TimerFires(o) PROVE status'[q] # "unresolved"
  BY <1>0, <1>4 DEF TimerFires
<1>5. ASSUME NEW p \in Permits, Watches(p) PROVE status'[q] # "unresolved"
  <2>1. UNCHANGED <<status, run>>
    BY <1>5 DEF Watches, WatchResource, WaitEnds, WaitFails,
         EnqueueForImmediateReconciliation
  <2> QED BY <1>0, <2>1
<1>6. ASSUME Receive PROVE status'[q] # "unresolved"
  BY <1>0, <1>6 DEF Receive
<1>7. ASSUME NEW o \in Objects,
             UserCreates(o) \/ UserEdits(o) \/ UserDeletes(o)
      PROVE  status'[q] # "unresolved"
  <2>1. PICK new \in Statuses: Changes(o, new) /\ new # "unresolved"
    BY <1>7 DEF UserCreates, UserEdits, UserDeletes, Statuses
  <2>2. run' = [run EXCEPT ![o].current = FALSE]
    BY <1>7 DEF UserCreates, UserEdits, UserDeletes, Stale
  <2>3. CASE q = o
    BY <2>1, <2>3, ChangesKeep
  <2>4. CASE q # o
    <3>1. status'[q] = status[q] BY <2>1, <2>4, ChangesKeep
    <3>2. run'[q] = run[q] BY <2>2, <2>4 DEF TypeOK
    <3> QED BY <1>0, <3>1, <3>2
  <2> QED BY <2>3, <2>4
<1>8. ASSUME Restart PROVE status'[q] # "unresolved"
  BY <1>8 DEF Restart
<1>9. CASE UNCHANGED vars
  BY <1>0, <1>9 DEF vars
<1>10. ASSUME AdminConfigures PROVE status'[q] # "unresolved"
  BY <1>0, <1>10 DEF AdminConfigures
<1> QED
  BY <1>1, <1>2, <1>3, <1>4, <1>5, <1>6, <1>7, <1>8, <1>9, <1>10
  DEF Next, Works, Reconciles, Disturbs

-----------------------------------------------------------------------------
Caught(o) ==
  status[o] # "absent" => run[o].step # "idle" \/ queue[o].now \/ queue[o].timer

\* With an interval above zero no step lets an object fall through.
LEMMA NetStep ==
  ASSUME TypeOK, WakeInv, TimerIsTheNet, [Next]_vars
  PROVE  TimerIsTheNet'
<1> USE IdleTypes
<1> SUFFICES ASSUME ~IntervalZero, NEW o \in Objects PROVE Caught(o)'
  BY DEF TimerIsTheNet, Caught
<1>0. Caught(o)
  BY DEF TimerIsTheNet, Caught
<1>1. ASSUME NEW x \in Objects, Get(x) PROVE Caught(o)'
  <2>1. CASE x # o
    <3>1. run'[o] = run[o] /\ queue'[o] = queue[o] /\ UNCHANGED status
      BY <1>1, <2>1 DEF Get, TypeOK
    <3> QED BY <1>0, <3>1 DEF Caught
  <2>2. CASE x = o /\ status[o] # "absent"
    <3>1. run'[o].step = "gate"
      BY <1>1, <2>2 DEF Get, TypeOK
    <3> QED BY <3>1 DEF Caught
  <2>3. CASE x = o /\ status[o] = "absent"
    BY <1>1, <2>3 DEF Get, Caught
  <2> QED BY <2>1, <2>2, <2>3
<1>2. ASSUME NEW x \in Objects,
             Gate(x) \/ Resolves(x) \/ Requeues(x) \/ StartsWatch(x)
      PROVE  Caught(o)'
  <2>1. PICK s \in {"sync", "apply", "requeue", "wait"}: Goto(x, s)
    BY <1>2 DEF Gate, Resolves, Requeues, StartsWatch
  <2>2. (run'[o] = run[o] \/ run'[o].step = s) /\ queue'[o] = queue[o]
    BY <2>1 DEF Goto, TypeOK
  <2>3. UNCHANGED status
    BY <1>2 DEF Gate, Resolves, Requeues, StartsWatch
  <2> QED BY <1>0, <2>1, <2>2, <2>3 DEF Caught
<1>3. ASSUME NEW x \in Objects,
             Reports(x) \/ Conflicts(x) \/ ReportFails(x) \/ Applies(x)
               \/ ApplyFails(x) \/ NewFails(x) \/ SkipsActuation(x)
      PROVE  Caught(o)'
  <2>1. Retry(x) \/ Finish(x)
    BY <1>3 DEF Reports, Conflicts, ReportFails, Applies, ApplyFails, NewFails,
         SkipsActuation
  <2>2. CASE x = o
    <3>1. CASE Retry(x)
      <4>1. queue'[o].now BY <2>2, <3>1 DEF Retry, TypeOK
      <4> QED BY <4>1 DEF Caught
    <3>2. CASE Finish(x)
      <4>1. queue'[o].timer BY <2>2, <3>2 DEF Finish, TypeOK
      <4> QED BY <4>1 DEF Caught
    <3> QED BY <2>1, <3>1, <3>2
  <2>3. CASE x # o
    <3>1. run'[o] = run[o] /\ queue'[o] = queue[o]
      BY <2>1, <2>3 DEF Retry, Finish, TypeOK
    <3>2. status'[o] = status[o]
      BY <1>3, <2>3 DEF Reports, Conflicts, ReportFails, Applies, ApplyFails,
           NewFails, SkipsActuation, StatusWrite, Changes, TypeOK
    <3> QED BY <1>0, <3>1, <3>2 DEF Caught
  <2> QED BY <2>2, <2>3
<1>4. ASSUME NEW x \in Objects, TimerFires(x) PROVE Caught(o)'
  <2>1. queue'[o].now \/ (queue'[o] = queue[o] /\ UNCHANGED <<run, status>>)
    BY <1>4 DEF TimerFires, TypeOK
  <2> QED BY <1>0, <2>1 DEF Caught
<1>5. ASSUME NEW p \in Permits, Watches(p) PROVE Caught(o)'
  <2>1. UNCHANGED <<status, queue, run>>
    BY <1>5 DEF Watches, WatchResource, WaitEnds, WaitFails,
         EnqueueForImmediateReconciliation
  <2> QED BY <1>0, <2>1 DEF Caught
<1>6. ASSUME Receive PROVE Caught(o)'
  <2>1. queue'[o].now \/ queue'[o] = queue[o]
    BY <1>6 DEF Receive, TypeOK
  <2> QED BY <1>0, <1>6, <2>1 DEF Receive, Caught
<1>7. ASSUME NEW x \in Objects,
             UserCreates(x) \/ UserEdits(x) \/ UserDeletes(x)
      PROVE  Caught(o)'
  <2>1. run'[o].step = run[o].step
    <3>1. run' = [run EXCEPT ![x].current = FALSE]
      BY <1>7 DEF UserCreates, UserEdits, UserDeletes, Stale
    <3> QED BY <3>1 DEF TypeOK
  <2>2. CASE x # o
    <3>1. status'[o] = status[o] /\ queue'[o] = queue[o]
      BY <1>7, <2>2 DEF UserCreates, UserEdits, UserDeletes, Changes, TypeOK
    <3> QED BY <1>0, <2>1, <3>1 DEF Caught
  <2>3. CASE x = o
    <3>1. CASE UserCreates(x) \/ UserEdits(x)
      <4>1. queue'[o].now
        BY <2>3, <3>1 DEF UserCreates, UserEdits, TypeOK
      <4> QED BY <4>1 DEF Caught
    <3>2. CASE UserDeletes(x)
      <4>1. status'[o] = "absent"
        BY <2>3, <3>2 DEF UserDeletes, Changes, TypeOK
      <4> QED BY <4>1 DEF Caught
    <3> QED BY <1>7, <3>1, <3>2
  <2> QED BY <2>2, <2>3
<1>8. ASSUME Restart PROVE Caught(o)'
  BY <1>8 DEF Restart, Caught
<1>9. CASE UNCHANGED vars
  BY <1>0, <1>9 DEF vars, Caught
<1>10. ASSUME AdminConfigures PROVE Caught(o)'
  BY <1>0, <1>10 DEF AdminConfigures, Caught
<1> QED
  BY <1>1, <1>2, <1>3, <1>4, <1>5, <1>6, <1>7, <1>8, <1>9, <1>10
  DEF Next, Works, Reconciles, Disturbs

-----------------------------------------------------------------------------
\* The variables keep their types and the goroutines know what they should,
\* whatever the order in which reconciles, watches and users take steps.
THEOREM WakeInvariance == Spec => [](TypeOK /\ WakeInv)
<1>1. Init => TypeOK /\ WakeInv /\ StaleInv
  <2> SUFFICES ASSUME Init PROVE TypeOK /\ WakeInv /\ StaleInv
    OBVIOUS
  <2> USE DependencyAssumption, IdleTypes DEF Init
  <2>1. TypeOK
    <3>1. channel \in Seq(Objects) /\ Len(channel) <= BufferSize
      OBVIOUS
    <3>2. paused \in BOOLEAN /\ gaveUp \in [Objects -> BOOLEAN]
      OBVIOUS
    <3>3. permit \in [Permits -> Goroutine]
      OBVIOUS
    <3>4. /\ status \in [Objects -> Statuses]
          /\ queue \in [Objects -> [now: BOOLEAN, timer: BOOLEAN]]
          /\ run \in [Objects -> [step: Steps, current: BOOLEAN]]
      BY DEF Statuses
    <3> QED BY <3>1, <3>2, <3>3, <3>4 DEF TypeOK
  <2>2. WakeInv BY DEF WakeInv, PermitInv, WaitInv, Live
  <2>3. StaleInv BY DEF StaleInv
  <2> QED BY <2>1, <2>2, <2>3
<1>2. TypeOK /\ WakeInv /\ StaleInv /\ [Next]_vars
        => (TypeOK /\ WakeInv /\ StaleInv)'
  BY TypeStep, WakeStep, StaleStep
<1> QED BY <1>1, <1>2, PTL DEF Spec

\* Every goroutine and every object keeps its type, and the channel of
\* immediate reconciles never holds more than its buffer has room for.
THEOREM WatchTypes == Spec => []TypeOK
BY WakeInvariance, PTL

\* handleUnresolvableDeps and the resource watcher lose no wake-up, whatever
\* the number of objects, their references, the permits and the buffer.
THEOREM NoWakeUpIsLost == Spec => []NoLostWakeUp
<1>1. TypeOK /\ WakeInv => NoLostWakeUp
  <2> SUFFICES ASSUME TypeOK, WakeInv, NEW o \in Objects,
                      status[o] = "unresolved", Resolved(o),
                      run[o].step = "idle", ~queue[o].now, ~gaveUp[o]
               PROVE  WakeUpUnderWay(o)
    BY DEF NoLostWakeUp
  <2>1. WaitInv(o) BY DEF WakeInv
  <2>2. CASE \E i \in 1..Len(channel): channel[i] = o
    BY <2>2 DEF WakeUpUnderWay
  <2>3. ASSUME NEW p \in Permits, permit[p].owner = o PROVE WakeUpUnderWay(o)
    <3>1. PermitInv(p) /\ o # NoDep
      BY DependencyAssumption DEF WakeInv
    <3>2. permit[p].phase \in {"start", "send"} \/ permit[p].hit
      BY <2>3, <3>1, DependencyAssumption DEF PermitInv, Live, Resolved
    <3> QED BY <2>3, <3>2 DEF WakeUpUnderWay
  <2> QED BY <2>1, <2>2, <2>3 DEF WaitInv, Awaited
<1> QED BY <1>1, WakeInvariance, PTL

\* With a reconcile interval above zero every object is due some day, even
\* when its watch was refused, failed or timed out.
THEOREM TimerNet == Spec => []TimerIsTheNet
<1>1. Init => TimerIsTheNet
  BY DEF Init, TimerIsTheNet
<1>2. TypeOK /\ WakeInv /\ TimerIsTheNet /\ [Next]_vars => TimerIsTheNet'
  BY NetStep
<1> QED BY <1>1, <1>2, WakeInvariance, PTL DEF Spec

=============================================================================
