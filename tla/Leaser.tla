-------------------------------- MODULE Leaser --------------------------------
(***************************************************************************)
(* Clusters that manage the same GCP resource and keep out of each other's *)
(* way by a lease in its labels: pkg/lease/leaser, as the Terraform and DCL *)
(* reconcilers use it (SoftObtain, and the labels written by their Apply). *)
(* Reading the labels and writing them are two calls: "No protections are  *)
(* made for race conditions: the last writer will win".                    *)
(*                                                                         *)
(* Time is counted down: a lease has so many units left, and one with less *)
(* than none has expired.  The clocks of the clusters agree.               *)
(***************************************************************************)
EXTENDS Integers

CONSTANTS
  Clusters,  \* clusters, each with a namespace ID of its own
  NoOne,
  Duration,  \* TimeToLeaseExpiration
  Renewal,   \* TimeToLeaseRenewal
  Period,    \* longest time from a reconcile to the next one of its object
  Rest,      \* shortest, if nothing happens in between
  Latency,   \* time from the read of the labels to the end of a reconcile
             \* that is not late
  Slow       \* bound: clusters whose reconciles may be late

Drifted == "drifted"

ASSUME LeaserAssumption ==
  /\ NoOne \notin Clusters /\ Drifted \notin Clusters \union {NoOne}
  /\ Duration \in Nat /\ Renewal \in Nat /\ Period \in Nat /\ Latency \in Nat
  /\ Renewal <= Duration
  /\ Rest \in Nat /\ Rest <= Period
  /\ Slow \subseteq Clusters

\* What it takes for a lease never to lapse: an unhurried reconcile that
\* just did not renew, the longest wait, one that does, and a rival that has
\* read the labels just before.
ASSUME TimingAssumption == Period + 3 * Latency <= Renewal

VARIABLES
  lease,   \* the labels cnrm-lease-holder-id and cnrm-lease-expiration
  data,    \* whose spec the resource follows; NoOne if there is no resource
  mode,    \* the object in each cluster
  run,     \* its reconcile
  timer,   \* time left until the next reconcile starts or this one ends
  due,     \* clusters where the object is to be reconciled at once
  down,    \* clusters that do not run
  lapsed,  \* history: has the holder of the lease been late, or failed, since
           \* it last wrote it?
  raced    \* history: whose reconcile read the labels before the lease was
           \* last acquired, or is late

vars == <<lease, data, mode, run, timer, due, down, lapsed, raced>>

Left    == -1..Duration
Expired == -1
Lease   == [holder: Clusters \union {NoOne}, left: Left]
NoLease == [holder |-> NoOne, left |-> Expired]
Data    == Clusters \union {NoOne, Drifted}

Run  == [step: {"idle", "obtain", "apply"}, lease: Lease, data: Data,
         leaving: BOOLEAN, renew: BOOLEAN, late: BOOLEAN]
Idle == [step |-> "idle", lease |-> NoLease, data |-> NoOne,
         leaving |-> FALSE, renew |-> FALSE, late |-> FALSE]

TypeOK ==
  /\ lease \in Lease
  /\ data \in Data
  /\ mode \in [Clusters -> {"out", "in", "leaving"}]
  /\ run \in [Clusters -> Run]
  /\ timer \in [Clusters -> Nat]
  /\ due \subseteq Clusters
  /\ down \subseteq Clusters
  /\ lapsed \in BOOLEAN
  /\ raced \subseteq Clusters

-----------------------------------------------------------------------------
\* A plausible slip: a lease is renewed when it has run out.
RenewsWhenExpired(l) == l.left < 0

shouldRenewOrObtainLease(l) == l.left < Renewal

\* The slip: a lease that has no holder never expired, so nobody takes it.
ObtainsExpiredOnly(c, l) == l.holder = c \/ (l.holder # NoOne /\ l.left < 0)

canObtainLease(c, l) == l.holder \in {NoOne, c} \/ l.left < 0

End(c) ==
  /\ run' = [run EXCEPT ![c] = Idle]
  /\ timer' = [timer EXCEPT ![c] = Period]

\* The cluster is not on time, which matters if it holds the lease.
Lapses(c) == lapsed' = (lapsed \/ lease.holder = c)

\* A reconcile ends without an error and is repeated after a while, ...
Finish(c) == End(c) /\ UNCHANGED due

\* ... or with one, and is retried.
Retry(c) == End(c) /\ due' = due \union {c}

\* The object is gone.
Vanish(c) == End(c) /\ due' = due \ {c} /\ mode' = [mode EXCEPT ![c] = "out"]

-----------------------------------------------------------------------------
\* What FetchLiveState says of the resource: is it there, and as c wants it?
LiveState(c) == IF data \in {NoOne, c} THEN data ELSE Drifted

Fetch(c) ==
  /\ run[c].step = "idle" /\ mode[c] # "out" /\ c \notin down
  /\ c \in due \/ timer[c] <= Period - Rest
  /\ run' = [run EXCEPT ![c] = [step |-> "obtain", lease |-> lease,
                                data |-> LiveState(c),
                                leaving |-> mode[c] = "leaving",
                                renew |-> FALSE, late |-> FALSE]]
  /\ timer' = [timer EXCEPT ![c] = Latency]
  /\ due' = due \ {c}
  /\ UNCHANGED <<lease, data, mode, down, lapsed, raced>>

\* A deletion of what is not there.
GoneAlready(c) == run[c].leaving /\ run[c].data = NoOne

FindsNothing(c) ==
  /\ run[c].step = "obtain" /\ GoneAlready(c)
  /\ Vanish(c)
  /\ raced' = raced \ {c}
  /\ UNCHANGED <<lease, data, down, lapsed>>

\* The slip: a renewal is added to the time that is left.
SoftObtainExtending(c) ==
  /\ run[c].step = "obtain" /\ ~GoneAlready(c)
  /\ canObtainLease(c, run[c].lease)
  /\ run' = [run EXCEPT ![c] =
       IF shouldRenewOrObtainLease(run[c].lease)
         THEN [@ EXCEPT !.step = "apply", !.renew = TRUE,
                        !.lease = [holder |-> c,
                                   left |-> run[c].lease.left + Duration]]
         ELSE [@ EXCEPT !.step = "apply"]]
  /\ UNCHANGED <<lease, data, mode, timer, due, down, lapsed, raced>>

\* obtainResourceLeaseIfNecessary, softObtain
SoftObtain(c) ==
  /\ run[c].step = "obtain" /\ ~GoneAlready(c)
  /\ canObtainLease(c, run[c].lease)
  /\ run' = [run EXCEPT ![c] =
       IF shouldRenewOrObtainLease(run[c].lease)
         THEN [@ EXCEPT !.step = "apply", !.renew = TRUE,
                        !.lease = [holder |-> c, left |-> Duration]]
         ELSE [@ EXCEPT !.step = "apply"]]
  /\ UNCHANGED <<lease, data, mode, timer, due, down, lapsed, raced>>

\* HandleObtainLeaseFailed: a management conflict, to be retried.
ObtainLeaseFailed(c) ==
  /\ run[c].step = "obtain" /\ ~GoneAlready(c)
  /\ ~canObtainLease(c, run[c].lease)
  /\ Retry(c)
  /\ raced' = raced \ {c}
  /\ UNCHANGED <<lease, data, mode, down, lapsed>>

NothingToDo(c) == ~run[c].renew /\ run[c].data = c

UpToDate(c) ==
  /\ run[c].step = "apply" /\ ~run[c].leaving /\ NothingToDo(c)
  /\ Finish(c)
  /\ raced' = raced \ {c}
  /\ UNCHANGED <<lease, data, mode, down, lapsed>>

\* The lease in the labels becomes c's for the time c computed.
WritesLease(c) ==
  /\ lease' = run[c].lease
  /\ lapsed' = run[c].late
  /\ raced' = IF lease.holder = c /\ ~lapsed THEN raced \ {c}
              ELSE {d \in Clusters \ {c}: run[d].step # "idle"}

\* Apply: the labels are written if they are in the diff.  A creation fails
\* if the resource is there, an update if it is not.
Apply(c) ==
  /\ run[c].step = "apply" /\ ~run[c].leaving /\ ~NothingToDo(c)
  /\ (data = NoOne) = (run[c].data = NoOne)
  /\ data' = c
  /\ IF run[c].renew
       THEN WritesLease(c)
       ELSE raced' = raced \ {c} /\ UNCHANGED <<lease, lapsed>>
  /\ Finish(c)
  /\ UNCHANGED <<mode, down>>

\* Apply with Destroy; it does not matter if the resource is gone already.
Destroy(c) ==
  /\ run[c].step = "apply" /\ run[c].leaving
  /\ data' = NoOne /\ lease' = NoLease /\ lapsed' = FALSE
  /\ Vanish(c)
  /\ raced' = raced \ {c}
  /\ UNCHANGED down

\* A call fails, for its own reasons or because the resource came or went.
SyncFails(c) ==
  /\ run[c].step # "idle"
  /\ Retry(c) /\ Lapses(c)
  /\ raced' = raced \ {c}
  /\ UNCHANGED <<lease, data, mode, down>>

ApplyRefused(c) ==
  /\ run[c].step = "apply" /\ ~run[c].leaving /\ ~NothingToDo(c)
  /\ (data = NoOne) # (run[c].data = NoOne)
  /\ Retry(c) /\ Lapses(c)
  /\ raced' = raced \ {c}
  /\ UNCHANGED <<lease, data, mode, down>>

-----------------------------------------------------------------------------
\* Time passes, but not past the next step of a cluster that is on time; one
\* whose reconcile has taken too long for that is late until it is over.
Later(l) == [l EXCEPT !.left = IF @ = Expired THEN @ ELSE @ - 1]

Busy(c) == mode[c] # "out" /\ c \notin down

Overruns(c) ==
  /\ c \in Slow
  /\ run[c].step # "idle" /\ ~run[c].late /\ timer[c] = 0
  /\ run' = [run EXCEPT ![c].late = TRUE]
  /\ Lapses(c) /\ raced' = raced \union {c}
  /\ UNCHANGED <<lease, data, mode, timer, due, down>>

OnTheClock(c) == Busy(c) /\ ~run[c].late

Tick ==
  /\ \A c \in Clusters: OnTheClock(c) => timer[c] > 0
  /\ lease' = Later(lease)
  /\ run' = [c \in Clusters |-> [run[c] EXCEPT !.lease = Later(@)]]
  /\ timer' = [c \in Clusters |->
                IF OnTheClock(c) THEN timer[c] - 1 ELSE timer[c]]
  /\ UNCHANGED <<data, mode, due, down, lapsed, raced>>

UserCreates(c) ==
  /\ mode[c] = "out"
  /\ mode' = [mode EXCEPT ![c] = "in"]
  /\ timer' = [timer EXCEPT ![c] = Period]
  /\ Lapses(c)
  /\ due' = due \union {c}
  /\ UNCHANGED <<lease, data, run, down, raced>>

UserDeletes(c) ==
  /\ mode[c] = "in"
  /\ mode' = [mode EXCEPT ![c] = "leaving"]
  /\ Lapses(c)
  /\ due' = due \union {c}
  /\ UNCHANGED <<lease, data, run, timer, down, raced>>

\* An event for the object: a change of its annotations, say.
Event(c) ==
  /\ Busy(c) /\ c \notin due
  /\ due' = due \union {c}
  /\ UNCHANGED <<lease, data, mode, run, timer, down, lapsed, raced>>

Crash(c) ==
  /\ c \notin down
  /\ down' = down \union {c}
  /\ End(c)
  /\ Lapses(c)
  /\ raced' = raced \ {c} /\ due' = due \ {c}
  /\ UNCHANGED <<lease, data, mode>>

Recover(c) ==
  /\ c \in down
  /\ down' = down \ {c}
  /\ due' = due \union {c}
  /\ UNCHANGED <<lease, data, mode, run, timer, lapsed, raced>>

\* Somebody edits the resource, or deletes it.
Drift ==
  /\ data # NoOne
  /\ \/ data' = Drifted /\ UNCHANGED <<lease, lapsed>>
     \/ data' = NoOne /\ lease' = NoLease /\ lapsed' = FALSE
  /\ UNCHANGED <<mode, run, timer, due, down, raced>>

-----------------------------------------------------------------------------
Init ==
  /\ lease = NoLease /\ data = NoOne
  /\ mode = [c \in Clusters |-> "out"]
  /\ run = [c \in Clusters |-> Idle]
  /\ timer = [c \in Clusters |-> 0] /\ due = {}
  /\ down = {} /\ lapsed = FALSE /\ raced = {}

Reconcile(c) ==
  \/ Fetch(c) \/ FindsNothing(c) \/ SoftObtain(c) \/ ObtainLeaseFailed(c)
  \/ UpToDate(c) \/ Apply(c) \/ Destroy(c) \/ ApplyRefused(c)

Disturbs ==
  \/ \E c \in Clusters: SyncFails(c) \/ Overruns(c) \/ Event(c)
                          \/ UserCreates(c) \/ UserDeletes(c)
                          \/ Crash(c) \/ Recover(c)
  \/ Drift

\* What goes on when they are left alone.
Works == (\E c \in Clusters: Reconcile(c)) \/ Tick

Next == Works \/ Disturbs

Spec == Init /\ [][Next]_vars

\* Time does not stop, and what is due is reconciled.
FairSpec == Spec /\ WF_vars(Tick) /\ \A c \in Clusters: WF_vars(Reconcile(c))

-----------------------------------------------------------------------------
(***************************************************************************)
(* Why LeaseIsKept holds: the parts of an inductive invariant.             *)
(***************************************************************************)
Good(h) == lease.holder = h /\ ~lapsed

Running(c) ==
  IF run[c].step = "idle" THEN ~run[c].renew /\ ~run[c].late /\ c \notin raced
  ELSE /\ c \notin down /\ mode[c] # "out" /\ timer[c] <= Latency
       /\ run[c].late => c \in raced /\ ~Good(c)

\* A lease has a holder, and is on a resource.
LabelsInv(c) ==
  /\ lease.holder = NoOne => lease.left = Expired
  /\ lease.holder # NoOne => data # NoOne
  /\ run[c].lease.holder = NoOne => run[c].lease.left = Expired
  /\ run[c].step = "obtain" /\ run[c].lease.holder # NoOne =>
       run[c].data # NoOne

\* What c is about to write has been computed in this reconcile.
RenewalInv(c) ==
  /\ run[c].step = "obtain" => ~run[c].renew
  /\ run[c].renew => run[c].lease.holder = c
  /\ run[c].renew /\ ~run[c].late =>
       run[c].lease.left + Latency >= Duration + timer[c]

\* The lease outlasts the reconcile that renews it and any that reads it.
OnTime(h) ==
  Good(h) =>
    /\ h \notin down /\ mode[h] # "out"
    /\ run[h].step = "idle" => lease.left >= timer[h] + 2 * Latency
    /\ run[h].step = "obtain" => run[h].lease = lease
    /\ run[h].step # "idle" => lease.left >= timer[h] + Latency
    /\ run[h].step = "apply" /\ ~run[h].renew =>
         lease.left + Latency >= Renewal + timer[h]

\* Who read the labels since then will not get the lease.
RivalWaits(h, c) ==
  Good(h) /\ c # h /\ c \notin raced /\ run[c].step # "idle" =>
    /\ run[c].step = "obtain"
    /\ run[c].lease.holder = h
    /\ run[c].lease.left >= timer[c]

LeaseInv ==
  /\ \A c \in Clusters:
       Running(c) /\ LabelsInv(c) /\ RenewalInv(c) /\ OnTime(c)
  /\ \A h, c \in Clusters: RivalWaits(h, c)

-----------------------------------------------------------------------------
LosesLease(h) == Good(h) /\ lease'.holder # h

(***************************************************************************)
(* A cluster that runs and reconciles on time keeps its lease: it loses it *)
(* only to one that read the labels before the lease was acquired, or that *)
(* takes longer than Latency over them, which is the race the code         *)
(* concedes, or with the resource.                                         *)
(***************************************************************************)
LeaseIsKept ==
  [][\A h \in Clusters: LosesLease(h) =>
       Drift \/ \E c \in raced \union {h}: Apply(c) \/ Destroy(c)]_vars

(***************************************************************************)
(* Once users, failures and crashes leave the clusters alone, one of those *)
(* that still want the resource holds the lease for good and the resource  *)
(* follows its spec: the others neither take turns with it nor wait for a  *)
(* holder that is gone.                                                    *)
(***************************************************************************)
Wanted == \E c \in Clusters: mode[c] = "in" /\ c \notin down

Settles ==
  <>[][Works]_vars =>
    \/ <>[](~Wanted)
    \/ \E h \in Clusters: <>[](h \notin down /\ lease.holder = h /\ data = h)

=============================================================================
