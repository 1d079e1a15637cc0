-------------------------- MODULE MultiClusterLeader --------------------------
(***************************************************************************)
(* Clusters that elect the one whose manager runs, and the KRMSyncer of    *)
(* each, which copies objects from the leader: leaderElectionManager and   *)
(* SyncerIntegration of pkg/controller/kccmanager.  The leader suspends    *)
(* its syncer before it starts the manager; the others pull.               *)
(*                                                                         *)
(* The election is a library's: a term begins when a cluster takes the     *)
(* lease, and each cluster learns of it in its own time.  The library runs *)
(* every callback in a goroutine of its own.  One syncer per cluster       *)
(* stands for the ones that are brought in line one after the other.       *)
(***************************************************************************)
EXTENDS Naturals

CONSTANTS
  Clusters,
  Nobody,
  NoSyncer,
  MaxTerms,  \* bound on the terms
  Attempts   \* tries of a callback, 5 in the code

ASSUME LeaderAssumption ==
  /\ Nobody \notin Clusters
  /\ MaxTerms \in Nat /\ Attempts \in Nat \ {0}

VARIABLES
  term,      \* the latest term
  winner,    \* who won each term
  held,      \* is the lease held, by the winner of the latest term?
  reported,  \* the leader each cluster's process knows of
  task,      \* the callback of each cluster for each term
  syncer,    \* the KRMSyncer of each cluster
  overlaps   \* history: clusters whose latest callback began during another

vars == <<term, winner, held, reported, task, syncer, overlaps>>

Terms  == 1..MaxTerms
Phases == {"none", "verify", "check", "create", "update", "done", "running",
           "gaveUp"}

Suspended  == [from |-> Nobody, suspend |-> TRUE]
Pulling(c)  == [from |-> c, suspend |-> FALSE]

NoTask == [phase |-> "none", left |-> 0]

TypeOK ==
  /\ term \in 0..MaxTerms
  /\ winner \in [Terms -> Clusters \union {Nobody}]
  /\ held \in BOOLEAN
  /\ reported \in [Clusters -> Clusters \union {Nobody}]
  /\ task \in [Clusters -> [Terms -> [phase: Phases, left: 0..Attempts]]]
  /\ syncer \in [Clusters -> {NoSyncer, Suspended}
                               \union {Pulling(c): c \in Clusters}]
  /\ overlaps \subseteq Clusters

-----------------------------------------------------------------------------
\* What reconcileSyncer is asked for.  The slip: EnsureSuspended leaves
\* spec.suspend as EnsurePullingFromLeader does.
DesiredNeverSuspended(c, t) == Pulling(winner[t])

Desired(c, t) == IF winner[t] = c THEN Suspended ELSE Pulling(winner[t])

AtWork(c, t) == task[c][t].phase \in {"verify", "check", "create", "update"}

Busy(c) == \E t \in Terms: AtWork(c, t)

\* A callback for term t begins, whether or not an earlier one goes on.
Begins(c, t, phase) ==
  /\ task' = [task EXCEPT ![c][t] = [phase |-> phase, left |-> Attempts]]
  /\ overlaps' = IF Busy(c) THEN overlaps \union {c} ELSE overlaps \ {c}

\* OnStartedLeading has started the manager, and the lease is held.
Runs(c) ==
  term > 0 /\ winner[term] = c /\ held /\ task[c][term].phase = "running"

\* The process ends, by a fatal error, a crash or a lost lease, and starts
\* again.
Ends(c) ==
  /\ task' = [task EXCEPT ![c] = [t \in Terms |-> NoTask]]
  /\ reported' = [reported EXCEPT ![c] = Nobody]
  /\ held' = (held /\ winner[term] # c)
  /\ overlaps' = overlaps \ {c}
  /\ UNCHANGED <<term, winner>>

Exits(c) == Ends(c) /\ UNCHANGED syncer

-----------------------------------------------------------------------------
\* The lease is free, or it ran out: OnNewLeader has nothing to do for
\* oneself, OnStartedLeading begins.
StartedLeading(c) ==
  /\ ~held /\ term < MaxTerms
  /\ term' = term + 1
  /\ winner' = [winner EXCEPT ![term + 1] = c]
  /\ held' = TRUE
  /\ reported' = [reported EXCEPT ![c] = c]
  /\ Begins(c, term + 1, "verify")
  /\ UNCHANGED syncer

\* OnNewLeader.
NewLeader(c) ==
  /\ term > 0 /\ reported[c] # winner[term]
  /\ reported' = [reported EXCEPT ![c] = winner[term]]
  /\ IF winner[term] = c THEN UNCHANGED <<task, overlaps>>
     ELSE Begins(c, term, "check")
  /\ UNCHANGED <<term, winner, held, syncer>>

\* OnStartedLeading: the status of the MultiClusterLease names this cluster.
\* The slip: the manager is started first.
VerifyAndRun(c, t) ==
  /\ task[c][t].phase = "verify"
  /\ task' = [task EXCEPT ![c][t].phase = "running"]
  /\ UNCHANGED <<term, winner, held, reported, syncer, overlaps>>

Verify(c, t) ==
  /\ task[c][t].phase = "verify"
  /\ task' = [task EXCEPT ![c][t].phase = "check"]
  /\ UNCHANGED <<term, winner, held, reported, syncer, overlaps>>

\* reconcileSyncer: look at the syncer.  The slip: one that exists will do.
CheckExistence(c, t) ==
  /\ task[c][t].phase = "check"
  /\ task' = [task EXCEPT ![c][t].phase =
                IF syncer[c] = NoSyncer THEN "create" ELSE "done"]
  /\ UNCHANGED <<term, winner, held, reported, syncer, overlaps>>

Check(c, t) ==
  /\ task[c][t].phase = "check"
  /\ task' = [task EXCEPT ![c][t].phase =
                IF syncer[c] = NoSyncer THEN "create"
                ELSE IF syncer[c] = Desired(c, t) THEN "done" ELSE "update"]
  /\ UNCHANGED <<term, winner, held, reported, syncer, overlaps>>

\* Create fails if there is one by now; RetryOnConflict reads the syncer
\* again before each Update.
TakesEffect(c, t) ==
  /\ task[c][t].phase \in {"create", "update"}
  /\ task[c][t].phase = "create" => syncer[c] = NoSyncer
  /\ syncer' = [syncer EXCEPT ![c] = Desired(c, t)]

Write(c, t) ==
  /\ TakesEffect(c, t)
  /\ task' = [task EXCEPT ![c][t].phase = "done"]
  /\ UNCHANGED <<term, winner, held, reported, overlaps>>

\* OnStartedLeading goes on to start the manager.  By now a callback for an
\* earlier leader may have changed the syncer again.
Start(c, t) ==
  /\ task[c][t].phase = "done" /\ winner[t] = c
  /\ task' = [task EXCEPT ![c][t].phase = "running"]
  /\ UNCHANGED <<term, winner, held, reported, syncer, overlaps>>

TryAgain(c, t) ==
  LET g == task[c][t]
  IN  IF g.left > 1
        THEN /\ task' = [task EXCEPT ![c][t] =
                           [phase |-> "check", left |-> g.left - 1]]
             /\ UNCHANGED <<term, winner, held, reported, overlaps>>
      ELSE IF winner[t] = c THEN Ends(c)
      ELSE /\ task' = [task EXCEPT ![c][t] = [phase |-> "gaveUp", left |-> 0]]
           /\ UNCHANGED <<term, winner, held, reported, overlaps>>

CreateConflicts(c, t) ==
  /\ task[c][t].phase = "create" /\ syncer[c] # NoSyncer
  /\ TryAgain(c, t)
  /\ UNCHANGED syncer

\* A call to the API server fails, or the 30 seconds are over; a write may
\* have taken effect all the same.
CallFails(c, t) ==
  /\ task[c][t].phase \in {"check", "create", "update"}
  /\ TryAgain(c, t)
  /\ UNCHANGED syncer \/ TakesEffect(c, t)

-----------------------------------------------------------------------------
Init ==
  /\ term = 0 /\ winner = [t \in Terms |-> Nobody] /\ held = FALSE
  /\ reported = [c \in Clusters |-> Nobody]
  /\ task = [c \in Clusters |-> [t \in Terms |-> NoTask]]
  /\ syncer = [c \in Clusters |-> NoSyncer] /\ overlaps = {}

Callback(c) ==
  \E t \in Terms: \/ Verify(c, t) \/ Check(c, t) \/ Write(c, t)
                  \/ CreateConflicts(c, t) \/ Start(c, t)

Disturbs ==
  \E c \in Clusters:
    \/ StartedLeading(c) \/ Exits(c) \/ \E t \in Terms: CallFails(c, t)

\* What goes on when the leader stays and calls succeed.
Works == \E c \in Clusters: NewLeader(c) \/ Callback(c)

Next == Works \/ Disturbs

Spec == Init /\ [][Next]_vars

\* The election notices a new record, and goroutines run.
Fairness ==
  \A c \in Clusters:
    /\ WF_vars(NewLeader(c))
    /\ \A t \in Terms: WF_vars(\/ Verify(c, t) \/ Check(c, t)
                               \/ Write(c, t) \/ CreateConflicts(c, t)
                               \/ Start(c, t))

FairSpec == Spec /\ Fairness

-----------------------------------------------------------------------------
(***************************************************************************)
(* While the manager of a cluster runs its syncer is suspended, so that    *)
(* nobody else's state is copied over what the manager writes: "expected   *)
(* syncer to be suspended after manager became leader".  OnNewLeader       *)
(* decides that it is about another cluster when it begins, and may write  *)
(* half a minute later: the promise is kept unless it was still at work    *)
(* when the cluster became the leader.                                     *)
(***************************************************************************)
LeaderIsSuspended ==
  \A c \in Clusters: Runs(c) /\ c \notin overlaps => syncer[c] = Suspended

(***************************************************************************)
(* Once the leader stays and calls succeed, the syncers of the others end  *)
(* up pulling from it, unless a callback has used up its attempts or has   *)
(* begun while another was under way.                                      *)
(***************************************************************************)
FollowersFollow ==
  /\ <>[][Works]_vars
  /\ [](\A c \in Clusters, t \in Terms: task[c][t].phase # "gaveUp")
  => <>[](\A c \in Clusters:
            term > 0 /\ winner[term] # c /\ c \notin overlaps =>
              syncer[c] = Pulling(winner[term]))

-----------------------------------------------------------------------------
\* Why: terms are won in turn, OnStartedLeading is called for the winner, ...
TermInv ==
  /\ held => term > 0
  /\ \A t \in 1..term: winner[t] \in Clusters
  /\ \A c \in Clusters, t \in Terms:
       /\ task[c][t].phase # "none" => t <= term
       /\ task[c][t].phase = "verify" => winner[t] = c

\* ... and, if it began alone, it remains the only callback at work in the
\* cluster that leads, and has suspended the syncer when it is through.
AloneInv ==
  \A c \in Clusters:
    held /\ winner[term] = c /\ c \notin overlaps =>
      /\ \A t \in Terms \ {term}: ~AtWork(c, t)
      /\ task[c][term].phase \in {"done", "running"} => syncer[c] = Suspended

SyncerInv == TermInv /\ AloneInv

(***************************************************************************)
(* The invariant behind LeaderIsSuspended.  A callback that is through     *)
(* tells nothing of the syncer by itself: what counts is that no other     *)
(* callback of the cluster is left that could write to it.                 *)
(***************************************************************************)
LeaderInv == TypeOK /\ SyncerInv

=============================================================================
