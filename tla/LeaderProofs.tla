---------------------------- MODULE LeaderProofs ----------------------------
(***************************************************************************)
(* LeaderIsSuspended, for any number of clusters, terms and attempts.      *)
(***************************************************************************)
EXTENDS MultiClusterLeader, TLAPS

\* What reconcileSyncer is asked for in a term that somebody has won.
LEMMA DesiredType ==
  ASSUME NEW c, NEW t, winner[t] \in Clusters
  PROVE  Desired(c, t) \in {Suspended} \union {Pulling(d): d \in Clusters}
BY DEF Desired

\* The phase of a callback may be replaced, and its attempts may be.
LEMMA TaskType ==
  ASSUME TypeOK, NEW c \in Clusters, NEW t \in Terms, NEW phase \in Phases,
         NEW n \in 0..Attempts
  PROVE  /\ [task EXCEPT ![c][t].phase = phase]
              \in [Clusters -> [Terms -> [phase: Phases, left: 0..Attempts]]]
         /\ [task EXCEPT ![c][t] = [phase |-> phase, left |-> n]]
              \in [Clusters -> [Terms -> [phase: Phases, left: 0..Attempts]]]
<1> DEFINE Task  == [phase: Phases, left: 0..Attempts]
           Tasks == [Terms -> Task]
           new   == [task[c][t] EXCEPT !.phase = phase]
           fresh == [phase |-> phase, left |-> n]
<1>1. task \in [Clusters -> Tasks] /\ task[c] \in Tasks /\ task[c][t] \in Task
  BY DEF TypeOK
<1>2. new \in Task /\ fresh \in Task
  BY <1>1
<1>3. [task EXCEPT ![c][t].phase = phase] = [task EXCEPT ![c][t] = new]
  OBVIOUS
<1>4. ASSUME NEW g \in Task
      PROVE  [task EXCEPT ![c][t] = g] \in [Clusters -> Tasks]
  <2> HIDE DEF Task
  <2>1. [task[c] EXCEPT ![t] = g] \in Tasks
    BY <1>1
  <2> HIDE DEF Tasks
  <2>2. [task EXCEPT ![c] = [task[c] EXCEPT ![t] = g]] \in [Clusters -> Tasks]
    BY <1>1, <2>1
  <2> QED BY <2>2
<1> QED
  <2> HIDE DEF new, fresh
  <2>1. [task EXCEPT ![c][t] = new] \in [Clusters -> Tasks]
    BY <1>2, <1>4
  <2>2. [task EXCEPT ![c][t] = fresh] \in [Clusters -> Tasks]
    BY <1>2, <1>4
  <2> QED BY <1>3, <2>1, <2>2 DEF fresh

\* A new phase is a new state of the callback, with the attempts it has left.
LEMMA PhaseAlone ==
  ASSUME TypeOK, NEW c \in Clusters, NEW t \in Terms, NEW phase \in Phases
  PROVE  /\ [phase |-> phase, left |-> task[c][t].left]
              \in [phase: Phases, left: 0..Attempts]
         /\ [task EXCEPT ![c][t].phase = phase]
              = [task EXCEPT ![c][t] =
                   [phase |-> phase, left |-> task[c][t].left]]
<1>1. task[c][t] \in [phase: Phases, left: 0..Attempts]
  BY DEF TypeOK
<1>2. [task[c][t] EXCEPT !.phase = phase]
        = [phase |-> phase, left |-> task[c][t].left]
  BY <1>1
<1> QED BY <1>1, <1>2

\* What a step of cluster c may do to the syncers: change its own.
OwnSyncer(c) ==
  /\ syncer' \in [Clusters -> {NoSyncer, Suspended}
                                \union {Pulling(d): d \in Clusters}]
  /\ \A d \in Clusters \ {c}: syncer'[d] = syncer[d]

LEMMA SyncerType ==
  ASSUME TypeOK, SyncerInv, NEW c \in Clusters, NEW t \in Terms, AtWork(c, t),
         UNCHANGED syncer \/ TakesEffect(c, t)
  PROVE  OwnSyncer(c)
<1>1. winner[t] \in Clusters
  BY DEF AtWork, SyncerInv, TermInv, Terms
<1>2. Desired(c, t) \in {NoSyncer, Suspended}
                          \union {Pulling(d): d \in Clusters}
  BY <1>1, DesiredType
<1> QED BY <1>2 DEF OwnSyncer, TakesEffect, TypeOK

\* A process that ends forgets its callbacks, and the lease if it held it.
LEMMA ExitKeeps ==
  ASSUME TypeOK, SyncerInv, NEW c \in Clusters, Ends(c), OwnSyncer(c)
  PROVE  TypeOK' /\ SyncerInv'
<1>1. TypeOK'
  <2>1. NoTask \in [phase: Phases, left: 0..Attempts]
    BY LeaderAssumption DEF NoTask, Phases
  <2> QED BY <2>1 DEF Ends, OwnSyncer, TypeOK
<1>2. TermInv'
  BY DEF Ends, TypeOK, SyncerInv, TermInv, NoTask
<1>3. AloneInv'
  BY DEF Ends, OwnSyncer, TypeOK, SyncerInv, TermInv, AloneInv, NoTask, AtWork
<1> QED BY <1>1, <1>2, <1>3 DEF SyncerInv

\* Steps of a callback at work: it may come to its end only if it leaves the
\* syncer as it should be.
LEMMA TaskMoves ==
  ASSUME TypeOK, SyncerInv, NEW c \in Clusters, NEW t \in Terms, AtWork(c, t),
         NEW g \in [phase: Phases, left: 0..Attempts],
         g.phase \notin {"none", "verify", "running"},
         g.phase = "done" => syncer'[c] = Desired(c, t),
         task' = [task EXCEPT ![c][t] = g], OwnSyncer(c),
         UNCHANGED <<term, winner, held, reported, overlaps>>
  PROVE  TypeOK' /\ SyncerInv'
<1>1. TypeOK'
  BY DEF TypeOK, OwnSyncer
<1>2. TermInv'
  BY DEF TypeOK, SyncerInv, TermInv, AtWork
<1>3. AloneInv'
  BY DEF TypeOK, SyncerInv, TermInv, AloneInv, AtWork, Desired, OwnSyncer
<1> QED BY <1>1, <1>2, <1>3 DEF SyncerInv

\* A call that fails is repeated, given up, or the end of the process.
LEMMA TryAgainKeeps ==
  ASSUME TypeOK, SyncerInv, NEW c \in Clusters, NEW t \in Terms,
         task[c][t].phase \in {"check", "create", "update"}, TryAgain(c, t),
         OwnSyncer(c)
  PROVE  TypeOK' /\ SyncerInv'
<1>1. task[c][t] \in [phase: Phases, left: 0..Attempts] /\ AtWork(c, t)
  BY DEF TypeOK, AtWork
<1>2. CASE task[c][t].left > 1
  <2> DEFINE g == [phase |-> "check", left |-> task[c][t].left - 1]
  <2>1. g \in [phase: Phases, left: 0..Attempts]
    BY <1>1, <1>2, LeaderAssumption DEF Phases
  <2> QED BY <1>1, <1>2, <2>1, TaskMoves DEF TryAgain
<1>3. CASE ~(task[c][t].left > 1) /\ winner[t] = c
  BY <1>3, ExitKeeps DEF TryAgain
<1>4. CASE ~(task[c][t].left > 1) /\ winner[t] # c
  <2> DEFINE g == [phase |-> "gaveUp", left |-> 0]
  <2>1. g \in [phase: Phases, left: 0..Attempts]
    BY LeaderAssumption DEF Phases
  <2> QED BY <1>1, <1>4, <2>1, TaskMoves DEF TryAgain
<1> QED BY <1>2, <1>3, <1>4

\* Every step keeps the types and the invariant.
LEMMA LeaderStep ==
  ASSUME TypeOK, SyncerInv, [Next]_vars
  PROVE  TypeOK' /\ SyncerInv'
<1>1. ASSUME NEW c \in Clusters, StartedLeading(c) PROVE TypeOK' /\ SyncerInv'
  <2>1. term + 1 \in Terms /\ term + 1 \in Nat /\ term \in Nat
    BY <1>1, LeaderAssumption DEF StartedLeading, TypeOK, Terms
  <2>2. TypeOK'
    <3>1. "verify" \in Phases /\ Attempts \in 0..Attempts
      BY LeaderAssumption DEF Phases
    <3>2. task' \in [Clusters -> [Terms -> [phase: Phases, left: 0..Attempts]]]
      BY <1>1, <2>1, <3>1, TaskType DEF StartedLeading, Begins
    <3>3. term' \in 0..MaxTerms
      BY <1>1, <2>1, LeaderAssumption DEF StartedLeading
    <3> QED BY <1>1, <2>1, <3>2, <3>3 DEF StartedLeading, Begins, TypeOK
  <2>3. TermInv'
    BY <1>1, <2>1, LeaderAssumption
    DEF StartedLeading, Begins, TypeOK, SyncerInv, TermInv, Terms
  <2>4. AloneInv'
    <3>1. winner'[term'] = c /\ term' \in Terms
      BY <1>1, <2>1 DEF StartedLeading, TypeOK
    <3>2. ASSUME c \notin overlaps', NEW t \in Terms \ {term'}
          PROVE  ~AtWork(c, t)'
      BY <1>1, <3>2 DEF StartedLeading, Begins, Busy, AtWork, TypeOK
    <3>3. task'[c][term'].phase = "verify"
      BY <1>1, <2>1 DEF StartedLeading, Begins, TypeOK
    <3> QED BY <3>1, <3>2, <3>3 DEF AloneInv
  <2> QED BY <2>2, <2>3, <2>4 DEF SyncerInv
<1>2. ASSUME NEW c \in Clusters, NewLeader(c) PROVE TypeOK' /\ SyncerInv'
  <2>1. term \in Terms /\ winner[term] \in Clusters
    BY <1>2, LeaderAssumption DEF NewLeader, TypeOK, Terms, SyncerInv, TermInv
  <2>2. TypeOK'
    <3>1. "check" \in Phases /\ Attempts \in 0..Attempts
      BY LeaderAssumption DEF Phases
    <3>2. task' \in [Clusters -> [Terms -> [phase: Phases, left: 0..Attempts]]]
      <4>1. CASE winner[term] = c
        BY <1>2, <4>1 DEF NewLeader, TypeOK
      <4>2. CASE winner[term] # c
        <5>1. task' = [task EXCEPT ![c][term] =
                         [phase |-> "check", left |-> Attempts]]
          BY <1>2, <4>2 DEF NewLeader, Begins
        <5> QED BY <2>1, <3>1, <5>1, TaskType
      <4> QED BY <4>1, <4>2
    <3> QED BY <1>2, <2>1, <3>2 DEF NewLeader, Begins, TypeOK
  <2>3. TermInv'
    <3>1. term \in Nat
      BY LeaderAssumption DEF TypeOK
    <3>2. \A d \in Clusters, t \in Terms:
            task'[d][t].phase \in {task[d][t].phase, "check"}
            /\ (task'[d][t].phase # task[d][t].phase => t = term)
      BY <1>2, <2>1 DEF NewLeader, Begins, TypeOK
    <3> QED
      BY <1>2, <2>1, <3>1, <3>2 DEF NewLeader, SyncerInv, TermInv, Terms
  <2>4. AloneInv'
    BY <1>2, <2>1 DEF NewLeader, Begins, TypeOK, SyncerInv, AloneInv, AtWork
  <2> QED BY <2>2, <2>3, <2>4 DEF SyncerInv
<1>3. ASSUME NEW c \in Clusters, NEW t \in Terms, Verify(c, t)
      PROVE  TypeOK' /\ SyncerInv'
  <2> DEFINE g == [phase |-> "check", left |-> task[c][t].left]
  <2>1. /\ g \in [phase: Phases, left: 0..Attempts]
        /\ task' = [task EXCEPT ![c][t] = g]
    <3>1. "check" \in Phases
      BY DEF Phases
    <3> QED BY <1>3, <3>1, PhaseAlone DEF Verify
  <2>2. g.phase = "check"
    OBVIOUS
  <2> HIDE DEF g
  <2>3. OwnSyncer(c) BY <1>3 DEF Verify, OwnSyncer, TypeOK
  <2> QED BY <1>3, <2>1, <2>2, <2>3, TaskMoves DEF Verify, AtWork
<1>4. ASSUME NEW c \in Clusters, NEW t \in Terms, Check(c, t)
      PROVE  TypeOK' /\ SyncerInv'
  <2> DEFINE phase == IF syncer[c] = NoSyncer THEN "create"
                      ELSE IF syncer[c] = Desired(c, t) THEN "done"
                      ELSE "update"
             g == [phase |-> phase, left |-> task[c][t].left]
  <2>1. /\ g \in [phase: Phases, left: 0..Attempts]
        /\ task' = [task EXCEPT ![c][t] = g]
    <3>1. phase \in Phases
      BY DEF Phases
    <3>2. task' = [task EXCEPT ![c][t].phase = phase]
      BY <1>4 DEF Check
    <3> HIDE DEF phase
    <3> QED BY <3>1, <3>2, PhaseAlone
  <2>2. /\ g.phase \notin {"none", "verify", "running"}
        /\ g.phase = "done" => syncer'[c] = Desired(c, t)
    BY <1>4 DEF Check
  <2> HIDE DEF g
  <2>3. OwnSyncer(c) BY <1>4 DEF Check, OwnSyncer, TypeOK
  <2> QED BY <1>4, <2>1, <2>2, <2>3, TaskMoves DEF Check, AtWork
<1>5. ASSUME NEW c \in Clusters, NEW t \in Terms, Write(c, t)
      PROVE  TypeOK' /\ SyncerInv'
  <2> DEFINE g == [phase |-> "done", left |-> task[c][t].left]
  <2>1. /\ g \in [phase: Phases, left: 0..Attempts]
        /\ task' = [task EXCEPT ![c][t] = g]
    <3>1. "done" \in Phases
      BY DEF Phases
    <3> QED BY <1>5, <3>1, PhaseAlone DEF Write
  <2>2. g.phase = "done"
    OBVIOUS
  <2> HIDE DEF g
  <2>3. AtWork(c, t) /\ syncer'[c] = Desired(c, t)
    BY <1>5 DEF Write, TakesEffect, AtWork, TypeOK
  <2>4. OwnSyncer(c)
    BY <1>5, <2>3, SyncerType DEF Write
  <2> QED BY <1>5, <2>1, <2>2, <2>3, <2>4, TaskMoves DEF Write
<1>6. ASSUME NEW c \in Clusters, NEW t \in Terms,
             CreateConflicts(c, t) \/ CallFails(c, t)
      PROVE  TypeOK' /\ SyncerInv'
  <2>1. AtWork(c, t) BY <1>6 DEF CreateConflicts, CallFails, AtWork
  <2>2. OwnSyncer(c)
    BY <1>6, <2>1, SyncerType DEF CreateConflicts, CallFails
  <2> QED BY <1>6, <2>2, TryAgainKeeps DEF CreateConflicts, CallFails
<1>7. ASSUME NEW c \in Clusters, Exits(c) PROVE TypeOK' /\ SyncerInv'
  <2>1. OwnSyncer(c) BY <1>7 DEF Exits, OwnSyncer, TypeOK
  <2> QED BY <1>7, <2>1, ExitKeeps DEF Exits
<1>9. ASSUME NEW c \in Clusters, NEW t \in Terms, Start(c, t)
      PROVE  TypeOK' /\ SyncerInv'
  <2> DEFINE g == [phase |-> "running", left |-> task[c][t].left]
  <2>1. /\ g \in [phase: Phases, left: 0..Attempts]
        /\ task' = [task EXCEPT ![c][t] = g]
    <3>1. "running" \in Phases
      BY DEF Phases
    <3>2. task' = [task EXCEPT ![c][t].phase = "running"]
      BY <1>9 DEF Start
    <3> QED BY <3>1, <3>2, PhaseAlone
  <2>2. g.phase = "running"
    OBVIOUS
  <2> HIDE DEF g
  <2>3. TypeOK'
    <3>1. UNCHANGED <<term, winner, held, reported, syncer, overlaps>>
      BY <1>9 DEF Start
    <3> QED BY <2>1, <3>1 DEF TypeOK
  <2>4. TermInv'
    BY <1>9, <2>1, <2>2 DEF Start, TypeOK, SyncerInv, TermInv
  <2>5. AloneInv'
    BY <1>9, <2>1, <2>2 DEF Start, TypeOK, SyncerInv, TermInv, AloneInv, AtWork
  <2> QED BY <2>3, <2>4, <2>5 DEF SyncerInv
<1>8. CASE UNCHANGED vars
  BY <1>8
  DEF vars, TypeOK, SyncerInv, TermInv, AloneInv, AtWork
<1> QED
  BY <1>1, <1>2, <1>3, <1>4, <1>5, <1>6, <1>7, <1>8, <1>9
  DEF Next, Works, Disturbs, Callback

-----------------------------------------------------------------------------
(***************************************************************************)
(* The types of the election and the invariant behind the properties       *)
(* below, whatever callbacks fail, overlap or end with their process.      *)
(***************************************************************************)
THEOREM LeaderInvariance == Spec => []LeaderInv
<1>1. Init => TypeOK /\ SyncerInv
  <2> SUFFICES ASSUME Init PROVE TypeOK /\ SyncerInv
    OBVIOUS
  <2>1. NoTask \in [phase: Phases, left: 0..Attempts]
    BY LeaderAssumption DEF NoTask, Phases
  <2>2. TypeOK
    <3>1. 0 \in 0..MaxTerms
      BY LeaderAssumption
    <3>2. task \in [Clusters -> [Terms -> [phase: Phases, left: 0..Attempts]]]
      BY <2>1 DEF Init
    <3> QED BY <3>1, <3>2 DEF Init, TypeOK
  <2>3. TermInv /\ AloneInv
    BY DEF Init, TermInv, AloneInv, NoTask
  <2> QED BY <2>2, <2>3 DEF SyncerInv
<1>2. TypeOK /\ SyncerInv /\ [Next]_vars => (TypeOK /\ SyncerInv)'
  BY LeaderStep
<1>3. TypeOK /\ SyncerInv => LeaderInv
  BY DEF LeaderInv
<1> QED BY <1>1, <1>2, <1>3, PTL DEF Spec

(***************************************************************************)
(* The lock, the managers, the syncers and the callbacks keep their types, *)
(* and no callback tries more often than its backoff allows.               *)
(***************************************************************************)
THEOREM LeaderTypes == Spec => []TypeOK
BY LeaderInvariance, PTL DEF LeaderInv

(***************************************************************************)
(* While the manager of a cluster runs its syncer is suspended, unless a   *)
(* callback for an earlier leader was at work when the cluster won.        *)
(***************************************************************************)
THEOREM LeaderSuspended == Spec => []LeaderIsSuspended
<1>1. TypeOK /\ SyncerInv => LeaderIsSuspended
  BY DEF SyncerInv, AloneInv, LeaderIsSuspended, Runs
<1> QED BY <1>1, LeaderInvariance, PTL DEF LeaderInv

=============================================================================
