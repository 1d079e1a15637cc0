----------------------------- MODULE NamespaceID -----------------------------
(***************************************************************************)
(* pkg/cluster/installation_identifier.go: the identifiers of namespaces,  *)
(* kept in one ConfigMap that many managers and the operator create, read  *)
(* and update at the same time.  Leases and the names of the managers'     *)
(* workloads are made of these identifiers.                                *)
(***************************************************************************)
EXTENDS Naturals

CONSTANTS
  Callers,     \* goroutines, of any process
  Namespaces,
  Ids,         \* what generateID may return
  NoId, NoMap

ASSUME IdAssumption ==
  NoId \notin Ids /\ NoMap \notin [Namespaces -> Ids \union {NoId}]

VARIABLES
  configMap,  \* the data of the ConfigMap in the API server
  current,    \* callers whose copy has the current resource version
  call,       \* the call of each caller
  used,       \* identifiers that have been generated
  told        \* history: identifiers returned for namespaces that exist

vars == <<configMap, current, call, used, told>>

Data  == [Namespaces -> Ids \union {NoId}]
Empty == [n \in Namespaces |-> NoId]
Idle  == [step |-> "idle", op |-> "get", namespace |-> NoId, copy |-> Empty]
Call  == [step: {"idle", "create", "get", "use"}, op: {"get", "delete"},
          namespace: Namespaces \union {NoId}, copy: Data]

TypeOK ==
  /\ configMap \in Data \union {NoMap}
  /\ current \subseteq Callers
  /\ call \in [Callers -> Call]
  /\ \A p \in Callers: call[p].step # "idle" => call[p].namespace \in Namespaces
  /\ used \subseteq Ids
  /\ told \subseteq Namespaces \X Ids

-----------------------------------------------------------------------------
Return(p) == call' = [call EXCEPT ![p] = Idle]

\* The copy of p becomes data, for use.
Copies(p, data) ==
  call' = [call EXCEPT ![p].step = "use", ![p].copy = data]

\* The copy is up to date with what p has just written.
Writes(p, data) == configMap' = data /\ current' = {p}

Calls(n) == {p \in Callers : call[p].step # "idle" /\ call[p].namespace = n}

\* GetNamespaceID; see DeleteNamespaceID for the second guard.
GetNamespaceID(p, n) ==
  /\ call[p].step = "idle"
  /\ \A q \in Calls(n): call[q].op = "get"
  /\ call' = [call EXCEPT ![p] = [step |-> "create", op |-> "get",
                                  namespace |-> n, copy |-> Empty]]
  /\ UNCHANGED <<configMap, current, used, told>>

\* DeleteNamespaceID, which is called when the namespace is no longer used,
\* and by the same reconcile that would ask for its identifier.
DeleteNamespaceID(p, n) ==
  /\ call[p].step = "idle"
  /\ Calls(n) = {}
  /\ call' = [call EXCEPT ![p] = [step |-> "create", op |-> "delete",
                                  namespace |-> n, copy |-> Empty]]
  /\ told' = {t \in told : t[1] # n}
  /\ UNCHANGED <<configMap, current, used>>

\* createOrGetNamespaceIDConfigMap: create it, ...
Create(p) ==
  /\ call[p].step = "create"
  /\ IF configMap = NoMap
       THEN Writes(p, Empty) /\ Copies(p, Empty)
       ELSE /\ call' = [call EXCEPT ![p].step = "get"]
            /\ UNCHANGED <<configMap, current>>
  /\ UNCHANGED <<used, told>>

\* ... or get it, if it exists already.
Get(p) ==
  /\ call[p].step = "get" /\ configMap # NoMap
  /\ Copies(p, configMap)
  /\ current' = current \union {p}
  /\ UNCHANGED <<configMap, used, told>>

\* Is there nothing to write?
NothingToWrite(p) ==
  IF call[p].op = "get" THEN call[p].copy[call[p].namespace] # NoId
                        ELSE call[p].copy = Empty

\* There is nothing to write: the entry of the copy is returned.
Finds(p) ==
  /\ call[p].step = "use" /\ NothingToWrite(p)
  /\ Return(p)
  /\ told' = IF call[p].op = "delete" THEN told
             ELSE told \union {<<call[p].namespace,
                                 call[p].copy[call[p].namespace]>>}
  /\ UNCHANGED <<configMap, current, used>>

\* What p writes: a new identifier, or none.
NewEntry(p) == IF call[p].op = "get" THEN Ids \ used ELSE {NoId}

\* The entry of p's namespace becomes id in the copy and in the ConfigMap.
WritesEntry(p, id) ==
  /\ Writes(p, [call[p].copy EXCEPT ![call[p].namespace] = id])
  /\ used' = used \union ({id} \intersect Ids)
  /\ Return(p)

\* The slip: the update is forced, as with a patch.
UpdateForced(p) ==
  /\ call[p].step = "use" /\ ~NothingToWrite(p)
  /\ \E id \in NewEntry(p):
       /\ WritesEntry(p, id)
       /\ told' = told \union ({call[p].namespace} \X ({id} \intersect Ids))

\* Update
Update(p) ==
  /\ call[p].step = "use" /\ ~NothingToWrite(p) /\ p \in current
  /\ \E id \in NewEntry(p):
       /\ WritesEntry(p, id)
       /\ told' = told \union ({call[p].namespace} \X ({id} \intersect Ids))

\* The slip: after a conflict the same data are sent again, with the version
\* the ConfigMap has now.
ConflictSendsAgain(p) ==
  /\ call[p].step = "use" /\ ~NothingToWrite(p)
  /\ p \notin current
  /\ current' = current \union {p}
  /\ UNCHANGED <<configMap, call, used, told>>

\* A conflict is retried from the start.
Conflict(p) ==
  /\ call[p].step = "use" /\ ~NothingToWrite(p)
  /\ p \notin current
  /\ call' = [call EXCEPT ![p].step = "create"]
  /\ UNCHANGED <<configMap, current, used, told>>

\* Any other error is permanent; the update may have been done.
CallFails(p) ==
  /\ call[p].step # "idle"
  /\ Return(p)
  /\ UNCHANGED <<configMap, current, used, told>>

AnswerIsLost(p) ==
  /\ call[p].step = "use" /\ ~NothingToWrite(p) /\ p \in current
  /\ \E id \in NewEntry(p): WritesEntry(p, id)
  /\ UNCHANGED told

-----------------------------------------------------------------------------
Init ==
  /\ configMap = NoMap /\ current = {}
  /\ call = [p \in Callers |-> Idle]
  /\ used = {} /\ told = {}

Next ==
  \E p \in Callers:
    \/ \E n \in Namespaces: GetNamespaceID(p, n) \/ DeleteNamespaceID(p, n)
    \/ Create(p) \/ Get(p) \/ Finds(p) \/ Update(p) \/ Conflict(p)
    \/ CallFails(p) \/ AnswerIsLost(p)

Spec == Init /\ [][Next]_vars

-----------------------------------------------------------------------------
(***************************************************************************)
(* Whatever identifier a call has returned for a namespace is the one all  *)
(* later calls return, until the namespace is given up: no update for one  *)
(* namespace or another, however the calls interleave, loses or replaces   *)
(* it.  A manager that took another identifier would wait for its own      *)
(* leases to expire.                                                       *)
(***************************************************************************)
AgreedID == \A t \in told: configMap # NoMap /\ configMap[t[1]] = t[2]

-----------------------------------------------------------------------------
(***************************************************************************)
(* Why AgreedID holds: the parts of an inductive invariant.                *)
(***************************************************************************)
\* A copy that is current is the ConfigMap.
CopyInv(p) ==
  call[p].step = "use" /\ p \in current => configMap = call[p].copy

\* An entry that a call has found stays, even if the copy is not current.
FoundInv(p) ==
  call[p].step = "use" /\ call[p].op = "get" =>
    /\ configMap # NoMap
    /\ call[p].copy[call[p].namespace] # NoId =>
         configMap[call[p].namespace] = call[p].copy[call[p].namespace]

\* A deletion has its namespace to itself.
DeleteInv(p) ==
  call[p].step # "idle" /\ call[p].op = "delete" =>
    /\ Calls(call[p].namespace) = {p}
    /\ \A t \in told: t[1] # call[p].namespace

EntryInv ==
  AgreedID /\ \A p \in Callers: CopyInv(p) /\ FoundInv(p) /\ DeleteInv(p)

(***************************************************************************)
(* The invariant behind AgreedID: what calls know of the ConfigMap between *)
(* their read and their update, which others may come before.              *)
(***************************************************************************)
IdInv == TypeOK /\ EntryInv

=============================================================================
