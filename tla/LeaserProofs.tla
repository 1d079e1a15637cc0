----------------------------- MODULE LeaserProofs -----------------------------
(***************************************************************************)
(* Proofs about Leaser, for any clusters and any times that satisfy        *)
(* LeaserAssumption and TimingAssumption.                                  *)
(***************************************************************************)
EXTENDS Leaser, TLAPS

\* Bounds of the times, in the form the provers use them.
LEMMA Times ==
  /\ NoOne \notin Clusters /\ Drifted # NoOne
  /\ Duration \in Int /\ Renewal \in Int /\ Period \in Int /\ Latency \in Int
  /\ 0 <= Period /\ 0 <= Latency
  /\ Period \in Nat /\ Latency \in Nat
  /\ Renewal <= Duration
  /\ Period + 3 * Latency <= Renewal
  /\ -1 \in Left /\ Duration \in Left
BY LeaserAssumption, TimingAssumption DEF Left

\* The lease of a copy that has got older is a lease.
LEMMA LaterType ==
  ASSUME NEW l \in Lease
  PROVE  /\ Later(l) \in Lease
         /\ Later(l).holder = l.holder
         /\ Later(l).left = IF l.left = -1 THEN -1 ELSE l.left - 1
BY Times DEF Lease, Left, Later, Expired

\* A cluster that lapses is not on time with the lease.
LEMMA LapsesType ==
  ASSUME NEW c \in Clusters, Lapses(c)
  PROVE  /\ lapsed' \in BOOLEAN
         /\ UNCHANGED lease => \A h \in Clusters: Good(h)' => Good(h) /\ h # c
<1>1. lapsed' \in BOOLEAN
  BY Zenon DEF Lapses
<1>2. ASSUME UNCHANGED lease, NEW h \in Clusters, Good(h)'
      PROVE  Good(h) /\ h # c
  BY <1>2, Zenon DEF Lapses, Good
<1> QED BY <1>1, <1>2

-----------------------------------------------------------------------------
\* Type correctness is preserved by every action.
LEMMA TypeStep ==
  ASSUME TypeOK, [Next]_vars
  PROVE  TypeOK'
<1> USE Times
<1>1. ASSUME NEW c \in Clusters, Fetch(c) PROVE TypeOK'
  <2>1. [step |-> "obtain", lease |-> lease, data |-> LiveState(c),
         leaving |-> mode[c] = "leaving", renew |-> FALSE, late |-> FALSE]
          \in Run
    BY DEF TypeOK, Run, LiveState, Data
  <2> QED BY <1>1, <2>1 DEF Fetch, TypeOK
<1>2. Idle \in Run /\ NoLease \in Lease /\ NoOne \in Data
  BY DEF Idle, Run, NoLease, Lease, Expired, Data
<1>3. ASSUME NEW c \in Clusters, Finish(c) \/ Retry(c) \/ Vanish(c)
      PROVE  /\ run' \in [Clusters -> Run]
             /\ timer' \in [Clusters -> Nat]
             /\ due' \subseteq Clusters
  BY <1>2, <1>3 DEF Finish, Retry, Vanish, End, TypeOK
<1>4. ASSUME NEW c \in Clusters, FindsNothing(c) PROVE TypeOK'
  BY <1>3, <1>4 DEF FindsNothing, Vanish, TypeOK
<1>5. ASSUME NEW c \in Clusters, SoftObtain(c) PROVE TypeOK'
  <2>1. [holder |-> c, left |-> Duration] \in Lease
    BY DEF Lease
  <2>2. run[c] \in Run
    BY DEF TypeOK
  <2>3. run'[c] \in Run
    BY <1>5, <2>1, <2>2 DEF SoftObtain, TypeOK, Run
  <2> QED BY <1>5, <2>3 DEF SoftObtain, TypeOK
<1>6. ASSUME NEW c \in Clusters, ObtainLeaseFailed(c) \/ UpToDate(c)
      PROVE  TypeOK'
  BY <1>3, <1>6 DEF ObtainLeaseFailed, UpToDate, TypeOK
<1>7. ASSUME NEW c \in Clusters, Apply(c) PROVE TypeOK'
  <2>1. run[c].lease \in Lease /\ run[c].late \in BOOLEAN
    BY DEF TypeOK, Run
  <2> QED BY <1>3, <1>7, <2>1 DEF Apply, WritesLease, TypeOK, Data
<1>8. ASSUME NEW c \in Clusters, Destroy(c) PROVE TypeOK'
  BY <1>2, <1>3, <1>8 DEF Destroy, Vanish, TypeOK, Data
<1>9. ASSUME NEW c \in Clusters, SyncFails(c) \/ ApplyRefused(c) PROVE TypeOK'
  BY <1>3, <1>9, LapsesType DEF SyncFails, ApplyRefused, TypeOK
<1>10. ASSUME Tick PROVE TypeOK'
  <2>1. \A c \in Clusters: [run[c] EXCEPT !.lease = Later(@)] \in Run
    BY LaterType DEF TypeOK, Run
  <2>2. \A c \in Clusters:
          (IF OnTheClock(c) THEN timer[c] - 1 ELSE timer[c]) \in Nat
    BY <1>10 DEF Tick, TypeOK
  <2> QED BY <1>10, <2>1, <2>2, LaterType DEF Tick, TypeOK
<1>11. ASSUME NEW c \in Clusters,
              UserCreates(c) \/ UserDeletes(c) \/ Event(c) \/ Recover(c)
       PROVE  TypeOK'
  BY <1>11, LapsesType DEF UserCreates, UserDeletes, Event, Recover, TypeOK
<1>12. ASSUME NEW c \in Clusters, Crash(c) PROVE TypeOK'
  BY <1>2, <1>12, LapsesType DEF Crash, End, TypeOK
<1>15. ASSUME NEW c \in Clusters, Overruns(c) PROVE TypeOK'
  <2>1. [run[c] EXCEPT !.late = TRUE] \in Run
    BY DEF TypeOK, Run
  <2> QED BY <1>15, <2>1, LapsesType DEF Overruns, TypeOK
<1>13. ASSUME Drift PROVE TypeOK'
  BY <1>2, <1>13 DEF Drift, TypeOK, Data
<1>14. CASE UNCHANGED vars
  BY <1>14 DEF vars, TypeOK
<1> QED
  BY <1>1, <1>4, <1>5, <1>6, <1>7, <1>8, <1>9, <1>10, <1>11, <1>12, <1>13,
     <1>14, <1>15 DEF Next, Works, Reconcile, Disturbs

-----------------------------------------------------------------------------
\* LeaseInv is preserved by every action.
LEMMA LeaseStep ==
  ASSUME TypeOK, LeaseInv, [Next]_vars
  PROVE  LeaseInv'
<1> USE Times DEF TypeOK, LeaseInv, Running, LabelsInv, RenewalInv, OnTime,
     RivalWaits, Good
<1>1. ASSUME NEW c \in Clusters, Fetch(c) PROVE LeaseInv'
  <2>1. /\ run'[c] = [step |-> "obtain", lease |-> lease,
                      data |-> LiveState(c), leaving |-> mode[c] = "leaving",
                      renew |-> FALSE, late |-> FALSE]
        /\ timer'[c] = Latency
        /\ UNCHANGED <<lease, data, mode, down, lapsed, raced>>
    BY <1>1 DEF Fetch
  <2>0. data # NoOne => LiveState(c) # NoOne
    BY DEF LiveState
  <2>2. \A d \in Clusters: d # c => run'[d] = run[d] /\ timer'[d] = timer[d]
    BY <1>1 DEF Fetch
  <2>4. c \notin down /\ mode[c] # "out" /\ run[c].step = "idle"
    BY <1>1 DEF Fetch
  <2>5. lease.left \in Int /\ \A d \in Clusters: timer[d] \in Nat
    BY DEF Lease, Left
  <2>6. ASSUME NEW d \in Clusters
        PROVE  (Running(d) /\ LabelsInv(d) /\ RenewalInv(d) /\ OnTime(d))'
    BY <2>0, <2>1, <2>2, <2>4, <2>5
  <2>7. ASSUME NEW h \in Clusters, Good(h) PROVE lease.left >= Latency
    BY <2>5, <2>7
  <2>8. ASSUME NEW h \in Clusters, NEW d \in Clusters PROVE RivalWaits(h, d)'
    BY <2>1, <2>2, <2>4, <2>7
  <2> QED BY <2>6, <2>8
<1>2. ASSUME NEW c \in Clusters, FindsNothing(c) PROVE LeaseInv'
  BY <1>2 DEF FindsNothing, GoneAlready, Vanish, End, Idle, NoLease, Run,
       Lease, Left, Expired
<1>3. ASSUME NEW c \in Clusters, SoftObtain(c) PROVE LeaseInv'
  BY <1>3 DEF SoftObtain, GoneAlready, canObtainLease,
       shouldRenewOrObtainLease, Run, Lease, Left, Expired
<1>4. ASSUME NEW c \in Clusters, ObtainLeaseFailed(c) PROVE LeaseInv'
  BY <1>4 DEF ObtainLeaseFailed, canObtainLease, Retry, End, Idle, NoLease,
       Run, Lease, Left, Expired
<1>5. ASSUME NEW c \in Clusters, UpToDate(c) PROVE LeaseInv'
  BY <1>5 DEF UpToDate, NothingToDo, Finish, End, Idle, NoLease, Run, Lease,
       Left, Expired
<1>6. ASSUME NEW c \in Clusters, Apply(c) PROVE LeaseInv'
  BY <1>6 DEF Apply, WritesLease, NothingToDo, Finish, End, Idle, NoLease,
       Run, Lease, Left, Expired
<1>7. ASSUME NEW c \in Clusters, Destroy(c) PROVE LeaseInv'
  BY <1>7 DEF Destroy, Vanish, End, Idle, NoLease, Run, Lease, Left, Expired
<1>8. ASSUME NEW c \in Clusters, SyncFails(c) \/ ApplyRefused(c)
       PROVE LeaseInv'
  <2>1. /\ run' = [run EXCEPT ![c] = Idle]
        /\ timer' = [timer EXCEPT ![c] = Period]
        /\ Lapses(c) /\ raced' = raced \ {c}
        /\ UNCHANGED <<lease, data, mode, down>>
    BY <1>8 DEF SyncFails, ApplyRefused, Retry, End
  <2>2. \A h \in Clusters: Good(h)' => Good(h) /\ h # c
    BY <2>1, LapsesType
  <2> HIDE DEF Good
  <2> QED BY <2>1, <2>2 DEF Idle, NoLease
<1>9. ASSUME Tick PROVE LeaseInv'
  <2>1. /\ lease \in Lease /\ lease' = Later(lease)
        /\ UNCHANGED <<data, mode, down, lapsed, raced>>
    BY <1>9 DEF Tick
  <2>2. ASSUME NEW d \in Clusters
        PROVE  /\ run[d].lease \in Lease /\ run'[d].lease = Later(run[d].lease)
               /\ run'[d].step = run[d].step /\ run'[d].data = run[d].data
               /\ run'[d].renew = run[d].renew /\ run'[d].late = run[d].late
               /\ timer[d] \in Nat
               /\ OnTheClock(d) => timer[d] > 0 /\ timer'[d] = timer[d] - 1
               /\ ~OnTheClock(d) => timer'[d] = timer[d]
    BY <1>9 DEF Tick, Run
  <2>3. lease.left \in Int /\ \A d \in Clusters: run[d].lease.left \in Int
    BY <2>1, <2>2 DEF Lease, Left
  <2>4. /\ lease'.holder = lease.holder
        /\ lease'.left = IF lease.left = -1 THEN -1 ELSE lease.left - 1
        /\ \A d \in Clusters:
             /\ run'[d].lease.holder = run[d].lease.holder
             /\ run'[d].lease.left = IF run[d].lease.left = -1 THEN -1
                                     ELSE run[d].lease.left - 1
    BY <2>1, <2>2, LaterType
  <2>5. ASSUME NEW d \in Clusters
        PROVE  Running(d)' /\ LabelsInv(d)' /\ RenewalInv(d)'
    BY <2>1, <2>2, <2>3, <2>4 DEF Busy, OnTheClock, Expired
  <2>6. ASSUME NEW d \in Clusters PROVE OnTime(d)'
    BY <2>1, <2>2, <2>3, <2>4 DEF Busy, OnTheClock
  <2>7. ASSUME NEW h \in Clusters, NEW d \in Clusters PROVE RivalWaits(h, d)'
    BY <2>1, <2>2, <2>3, <2>4 DEF Busy, OnTheClock
  <2> QED BY <2>5, <2>6, <2>7
<1>10. ASSUME NEW c \in Clusters, UserCreates(c) \/ UserDeletes(c) \/ Event(c)
       PROVE LeaseInv'
  <2>1. \A h \in Clusters: Good(h)' => Good(h)
    BY <1>10, LapsesType DEF UserCreates, UserDeletes, Event
  <2> HIDE DEF Good
  <2> QED BY <1>10, <2>1, LapsesType DEF UserCreates, UserDeletes, Event
<1>11. ASSUME NEW c \in Clusters, Crash(c) PROVE LeaseInv'
  <2>1. \A h \in Clusters: Good(h)' => Good(h) /\ h # c
    BY <1>11, LapsesType DEF Crash
  <2> HIDE DEF Good
  <2> QED BY <1>11, <2>1 DEF Crash, End, Idle, NoLease
<1>12. ASSUME NEW c \in Clusters, Recover(c) PROVE LeaseInv'
  BY <1>12 DEF Recover
<1>13. ASSUME Drift PROVE LeaseInv'
  <2>1. CASE data' = Drifted /\ UNCHANGED lease
    BY <1>13, <2>1 DEF Drift
  <2>2. CASE data' = NoOne /\ lease' = NoLease
    BY <1>13, <2>2 DEF Drift, NoLease
  <2> QED BY <1>13, <2>1, <2>2 DEF Drift
<1>14. CASE UNCHANGED vars
  BY <1>14 DEF vars
<1>15. ASSUME NEW c \in Clusters, Overruns(c) PROVE LeaseInv'
  <2>1. /\ run' = [run EXCEPT ![c] = [run[c] EXCEPT !.late = TRUE]]
        /\ run[c].step # "idle"
        /\ Lapses(c) /\ raced' = raced \union {c}
        /\ UNCHANGED <<lease, data, mode, down, timer>>
    BY <1>15 DEF Overruns
  <2>2. ASSUME NEW d \in Clusters
        PROVE  /\ run'[d].step = run[d].step /\ run'[d].lease = run[d].lease
               /\ run'[d].data = run[d].data /\ run'[d].renew = run[d].renew
               /\ d # c => run'[d].late = run[d].late
    <3>1. run[d] \in Run BY DEF TypeOK
    <3>2. CASE d = c BY <2>1, <3>1, <3>2 DEF Run
    <3>3. CASE d # c BY <2>1, <3>3
    <3> QED BY <3>2, <3>3
  <2>3. \A h \in Clusters: Good(h)' => Good(h) /\ h # c
    BY <2>1, LapsesType
  <2> HIDE DEF Good
  <2>4. ASSUME NEW d \in Clusters
        PROVE  (Running(d) /\ LabelsInv(d) /\ RenewalInv(d) /\ OnTime(d))'
    BY <2>1, <2>2, <2>3
  <2>5. ASSUME NEW h \in Clusters, NEW d \in Clusters PROVE RivalWaits(h, d)'
    BY <2>1, <2>2, <2>3
  <2> QED BY <2>4, <2>5
<1> QED
  BY <1>1, <1>2, <1>3, <1>4, <1>5, <1>6, <1>7, <1>8, <1>9, <1>10, <1>11,
     <1>12, <1>13, <1>14, <1>15 DEF Next, Works, Reconcile, Disturbs

-----------------------------------------------------------------------------
(***************************************************************************)
(* The labels, the copies of them and the timers are always of their       *)
(* types: no lease has more left than Duration, no timer runs below zero.  *)
(***************************************************************************)
THEOREM LeaseTypes == Spec => []TypeOK
<1>1. Init => TypeOK
  <2>1. Init => lapsed \in BOOLEAN
    BY Zenon DEF Init
  <2> QED BY <2>1, Times
          DEF Init, TypeOK, Idle, NoLease, Lease, Expired, Data, Run
<1>2. TypeOK /\ [Next]_vars => TypeOK'
  BY TypeStep
<1> QED BY <1>1, <1>2, PTL DEF Spec

(***************************************************************************)
(* The invariant behind LeaseIsKept: the lease of a cluster that is on     *)
(* time outlasts its next renewal, and whoever read it meanwhile finds it  *)
(* valid when it looks at the clock.                                       *)
(***************************************************************************)
THEOREM LeaseInvariance == Spec => []LeaseInv
<1>1. Init => LeaseInv
  BY Times DEF Init, LeaseInv, Running, LabelsInv, RenewalInv, OnTime,
       RivalWaits, Good, Idle, NoLease
<1>2. TypeOK /\ LeaseInv /\ [Next]_vars => LeaseInv'
  BY LeaseStep
<1> QED BY <1>1, <1>2, LeaseTypes, PTL DEF Spec

(***************************************************************************)
(* A cluster that reconciles on time loses its lease only to one that read *)
(* the labels before the lease was acquired or that is late, or with the   *)
(* resource: for any number of clusters, any of them slow, and any times   *)
(* with Period + 3 * Latency <= Renewal <= Duration.                       *)
(***************************************************************************)
THEOREM LeaseKept == Spec => LeaseIsKept
<1> DEFINE Kept ==
      \A h \in Clusters: LosesLease(h) =>
        Drift \/ \E c \in raced \union {h}: Apply(c) \/ Destroy(c)
<1>1. ASSUME TypeOK, LeaseInv, Next PROVE Kept
  <2> SUFFICES ASSUME NEW h \in Clusters, LosesLease(h), ~Drift
               PROVE  \E c \in raced \union {h}: Apply(c) \/ Destroy(c)
    OBVIOUS
  <2>1. Good(h) /\ lease'.holder # lease.holder
    BY DEF LosesLease, Good
  <2>2. ASSUME Tick PROVE FALSE
    BY <1>1, <2>1, <2>2, LaterType DEF Tick, TypeOK
  <2>3. PICK c \in Clusters: Apply(c) \/ Destroy(c)
    BY <1>1, <2>1, <2>2 DEF Next, Works, Reconcile, Disturbs, Fetch, FindsNothing,
         SoftObtain, ObtainLeaseFailed, UpToDate, ApplyRefused, SyncFails,
         Overruns, UserCreates, UserDeletes, Event, Crash, Recover
  <2>4. run[c].step = "apply"
    BY <2>3 DEF Apply, Destroy
  <2>5. c = h \/ c \in raced
    BY <1>1, <2>1, <2>4 DEF LeaseInv, RivalWaits
  <2> QED BY <2>3, <2>5
<1>2. ASSUME TypeOK, LeaseInv, [Next]_vars PROVE [Kept]_vars
  BY <1>1, <1>2
<1> QED BY <1>2, LeaseTypes, LeaseInvariance, PTL DEF Spec, LeaseIsKept

=============================================================================
