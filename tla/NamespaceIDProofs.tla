-------------------------- MODULE NamespaceIDProofs --------------------------
(***************************************************************************)
(* AgreedID, for any number of callers, namespaces and identifiers.        *)
(***************************************************************************)
EXTENDS NamespaceID, TLAPS

\* A new call, and the ConfigMap without entries, have their types.
LEMMA Fresh == Empty \in Data /\ Idle \in Call
BY DEF Empty, Data, Idle, Call

\* Type correctness is preserved by every action.
LEMMA TypeStep ==
  ASSUME TypeOK, [Next]_vars
  PROVE  TypeOK'
<1> USE Fresh
<1>1. ASSUME NEW p \in Callers, NEW n \in Namespaces, GetNamespaceID(p, n)
      PROVE  TypeOK'
  BY <1>1 DEF GetNamespaceID, TypeOK, Call
<1>2. ASSUME NEW p \in Callers, NEW n \in Namespaces, DeleteNamespaceID(p, n)
      PROVE  TypeOK'
  BY <1>2 DEF DeleteNamespaceID, TypeOK, Call
<1>3. ASSUME NEW p \in Callers, Create(p) PROVE TypeOK'
  BY <1>3 DEF Create, Writes, Copies, TypeOK, Call
<1>4. ASSUME NEW p \in Callers, Get(p) PROVE TypeOK'
  BY <1>4 DEF Get, Copies, TypeOK, Call
<1>5. ASSUME NEW p \in Callers, Finds(p) PROVE TypeOK'
  <2>1. call[p].op = "get" =>
          <<call[p].namespace, call[p].copy[call[p].namespace]>>
            \in Namespaces \X Ids
    BY <1>5 DEF Finds, NothingToWrite, TypeOK, Call, Data
  <2> QED BY <1>5, <2>1 DEF Finds, Return, Idle, TypeOK, Call
<1>6. ASSUME NEW p \in Callers, NEW id \in NewEntry(p),
             call[p].step = "use", WritesEntry(p, id)
      PROVE  /\ configMap' \in Data /\ current' \subseteq Callers
             /\ call' \in [Callers -> Call] /\ used' \subseteq Ids
             /\ \A q \in Callers: call'[q].step # "idle" =>
                                    call'[q].namespace \in Namespaces
  <2>1. id \in Ids \union {NoId}
    BY DEF NewEntry
  <2>2. call[p].copy \in Data /\ call[p].namespace \in Namespaces
    BY <1>6 DEF TypeOK, Call
  <2>3. [call[p].copy EXCEPT ![call[p].namespace] = id] \in Data
    BY <2>1, <2>2 DEF Data
  <2> QED BY <1>6, <2>3 DEF WritesEntry, Writes, Return, Idle, TypeOK
<1>7. ASSUME NEW p \in Callers, Update(p) PROVE TypeOK'
  <2>1. PICK id \in NewEntry(p):
          /\ WritesEntry(p, id)
          /\ told' = told \union ({call[p].namespace} \X ({id} \intersect Ids))
    BY <1>7 DEF Update
  <2>2. call[p].namespace \in Namespaces /\ call[p].step = "use"
    BY <1>7 DEF Update, TypeOK
  <2>3. told' \subseteq Namespaces \X Ids
    BY <2>1, <2>2 DEF TypeOK
  <2> QED BY <1>6, <2>1, <2>2, <2>3 DEF TypeOK
<1>8. ASSUME NEW p \in Callers, Conflict(p) PROVE TypeOK'
  BY <1>8 DEF Conflict, TypeOK, Call
<1>9. ASSUME NEW p \in Callers, CallFails(p) PROVE TypeOK'
  BY <1>9 DEF CallFails, Return, Idle, TypeOK
<1>10. ASSUME NEW p \in Callers, AnswerIsLost(p) PROVE TypeOK'
  BY <1>6, <1>10 DEF AnswerIsLost, TypeOK
<1>11. CASE UNCHANGED vars
  BY <1>11 DEF vars, TypeOK
<1> QED
  BY <1>1, <1>2, <1>3, <1>4, <1>5, <1>7, <1>8, <1>9, <1>10, <1>11 DEF Next

-----------------------------------------------------------------------------
\* EntryInv is preserved by every action.
LEMMA EntryStep ==
  ASSUME TypeOK, EntryInv, [Next]_vars
  PROVE  EntryInv'
<1> USE IdAssumption
     DEF TypeOK, EntryInv, AgreedID, CopyInv, FoundInv, DeleteInv, Calls
<1>1. ASSUME NEW p \in Callers, NEW n \in Namespaces, GetNamespaceID(p, n)
      PROVE  EntryInv'
  BY <1>1 DEF GetNamespaceID
<1>2. ASSUME NEW p \in Callers, NEW n \in Namespaces, DeleteNamespaceID(p, n)
      PROVE  EntryInv'
  BY <1>2 DEF DeleteNamespaceID
<1>3. ASSUME NEW p \in Callers, Create(p) PROVE EntryInv'
  <2>1. CASE configMap = NoMap
    <3>1. /\ told = {}
          /\ \A q \in Callers: call[q].step = "use" => call[q].op = "delete"
      BY <2>1 DEF Call
    <3>2. /\ configMap' = Empty /\ current' = {p} /\ UNCHANGED told
          /\ call' = [call EXCEPT ![p].step = "use", ![p].copy = Empty]
      BY <1>3, <2>1 DEF Create, Writes, Copies
    <3>3. /\ call'[p].step = "use" /\ call'[p].op = call[p].op
          /\ call'[p].namespace = call[p].namespace /\ call'[p].copy = Empty
          /\ \A q \in Callers: q # p => call'[q] = call[q]
      BY <3>2 DEF Call
    <3>4. Empty # NoMap /\ \A n \in Namespaces: Empty[n] = NoId
      BY DEF Empty
    <3>5. call[p].step # "idle" /\ call[p].namespace \in Namespaces
      BY <1>3 DEF Create
    <3>6. \A n \in Namespaces: Calls(n)' = Calls(n)
      BY <3>3, <3>5
    <3> QED BY <3>1, <3>2, <3>3, <3>4, <3>5, <3>6
  <2>2. CASE configMap # NoMap
    <3>1. /\ call' = [call EXCEPT ![p].step = "get"]
          /\ UNCHANGED <<configMap, current, told>>
      BY <1>3, <2>2 DEF Create
    <3>2. /\ call[p].step = "create" /\ call'[p].step = "get"
          /\ call'[p].op = call[p].op /\ call'[p].namespace = call[p].namespace
          /\ \A q \in Callers: q # p => call'[q] = call[q]
      BY <1>3, <3>1 DEF Create, Call
    <3> QED BY <3>1, <3>2
  <2> QED BY <2>1, <2>2
<1>4. ASSUME NEW p \in Callers, Get(p) PROVE EntryInv'
  BY <1>4 DEF Get, Copies
<1>5. ASSUME NEW p \in Callers, Finds(p) PROVE EntryInv'
  <2>1. call'[p] = Idle /\ \A q \in Callers: q # p => call'[q] = call[q]
    BY <1>5 DEF Finds, Return
  <2>2. UNCHANGED <<configMap, current>>
    BY <1>5 DEF Finds
  <2>3. call[p].step = "use" /\ call[p].namespace \in Namespaces
    BY <1>5 DEF Finds
  <2>4. CASE call[p].op = "delete"
    BY <1>5, <2>1, <2>2, <2>4 DEF Finds, Idle
  <2>5. CASE call[p].op = "get"
    <3>1. /\ configMap # NoMap
          /\ configMap[call[p].namespace] = call[p].copy[call[p].namespace]
      BY <1>5, <2>3, <2>5 DEF Finds, NothingToWrite
    <3>2. told' = told \union {<<call[p].namespace,
                                 call[p].copy[call[p].namespace]>>}
      BY <1>5, <2>5 DEF Finds
    <3>3. AgreedID'
      BY <2>2, <3>1, <3>2
    <3>4. ASSUME NEW q \in Callers PROVE (CopyInv(q) /\ FoundInv(q))'
      BY <2>1, <2>2 DEF Idle
    <3>5. ASSUME NEW q \in Callers PROVE DeleteInv(q)'
      BY <2>1, <2>3, <3>2 DEF Idle
    <3> QED BY <3>3, <3>4, <3>5
  <2> QED BY <2>4, <2>5 DEF Call
<1>6. ASSUME NEW p \in Callers, NEW id \in NewEntry(p),
             call[p].step = "use", ~NothingToWrite(p), p \in current,
             WritesEntry(p, id),
             told' \subseteq told \union
               ({call[p].namespace} \X ({id} \intersect Ids))
      PROVE  EntryInv'
  <2> DEFINE n == call[p].namespace
  <2>1. n \in Namespaces /\ call[p].copy = configMap /\ configMap \in Data
    BY <1>6 DEF Call
  <2>2. /\ configMap' \in Data /\ configMap' # NoMap /\ configMap'[n] = id
        /\ \A m \in Namespaces: m # n => configMap'[m] = configMap[m]
    <3>1. configMap' = [configMap EXCEPT ![n] = id]
      BY <1>6, <2>1 DEF WritesEntry, Writes
    <3>2. id \in Ids \union {NoId}
      BY <1>6 DEF NewEntry
    <3> QED BY <2>1, <3>1, <3>2 DEF Data
  <2>3. call'[p] = Idle /\ \A q \in Callers: q # p => call'[q] = call[q]
    BY <1>6 DEF WritesEntry, Return
  <2>4. \A t \in told: t[1] # n
    BY <1>6, <2>1 DEF NothingToWrite, Call
  <2>5. AgreedID'
    BY <1>6, <2>2, <2>4
  <2>6. ASSUME NEW q \in Callers PROVE CopyInv(q)'
    BY <1>6, <2>3 DEF WritesEntry, Writes, Idle
  <2>7. ASSUME NEW q \in Callers PROVE FoundInv(q)'
    <3>1. CASE q = p
      BY <2>3, <3>1 DEF Idle
    <3>2. CASE call[p].op = "get"
      <4>1. configMap[n] = NoId
        BY <1>6, <2>1, <3>2 DEF NothingToWrite
      <4> QED BY <2>1, <2>2, <2>3, <4>1 DEF Idle
    <3>3. CASE q # p /\ call[p].op = "delete"
      <4>1. call[q].step # "idle" => call[q].namespace # n
        BY <1>6, <2>1, <3>3
      <4> QED BY <2>1, <2>2, <2>3, <3>3, <4>1
    <3> QED BY <3>1, <3>2, <3>3 DEF Call
  <2>8. ASSUME NEW q \in Callers PROVE DeleteInv(q)'
    <3>1. CASE q = p
      BY <2>3, <3>1 DEF Idle
    <3>2. CASE q # p
      <4> SUFFICES ASSUME call[q].step # "idle", call[q].op = "delete"
                   PROVE  DeleteInv(q)'
        BY <2>3, <3>2
      <4>1. call[q].namespace # n
        BY <1>6, <2>1, <3>2
      <4>2. Calls(call[q].namespace)' = {q}
        BY <2>3, <3>2 DEF Idle
      <4>3. \A t \in told': t[1] # call[q].namespace
        BY <1>6, <4>1
      <4> QED BY <2>3, <3>2, <4>2, <4>3
    <3> QED BY <3>1, <3>2
  <2> QED BY <2>5, <2>6, <2>7, <2>8
<1>7. ASSUME NEW p \in Callers, Update(p) PROVE EntryInv'
  BY <1>6, <1>7 DEF Update
<1>8. ASSUME NEW p \in Callers, Conflict(p) PROVE EntryInv'
  BY <1>8 DEF Conflict
<1>9. ASSUME NEW p \in Callers, CallFails(p) PROVE EntryInv'
  BY <1>9 DEF CallFails, Return, Idle
<1>10. ASSUME NEW p \in Callers, AnswerIsLost(p) PROVE EntryInv'
  BY <1>6, <1>10 DEF AnswerIsLost
<1>11. CASE UNCHANGED vars
  BY <1>11 DEF vars
<1> QED
  BY <1>1, <1>2, <1>3, <1>4, <1>5, <1>7, <1>8, <1>9, <1>10, <1>11 DEF Next

-----------------------------------------------------------------------------
(***************************************************************************)
(* The ConfigMap holds identifiers or nothing, and every call that has     *)
(* returned one has returned an identifier.                                *)
(***************************************************************************)
THEOREM IdTypes == Spec => []TypeOK
<1>1. Init => TypeOK
  BY Fresh DEF Init, TypeOK, Idle
<1>2. TypeOK /\ [Next]_vars => TypeOK'
  BY TypeStep
<1> QED BY <1>1, <1>2, PTL DEF Spec

(***************************************************************************)
(* The ConfigMap, the copies that calls hold of it and the answers they    *)
(* have given name one identifier per namespace, however many processes    *)
(* create, read and update the ConfigMap.                                  *)
(***************************************************************************)
THEOREM IdInvariance == Spec => []IdInv
<1>1. Init => EntryInv
  BY DEF Init, EntryInv, AgreedID, CopyInv, FoundInv, DeleteInv, Calls, Idle
<1>2. TypeOK /\ EntryInv /\ [Next]_vars => EntryInv'
  BY EntryStep
<1>3. TypeOK /\ EntryInv => IdInv
  BY DEF IdInv
<1> QED BY <1>1, <1>2, <1>3, IdTypes, PTL DEF Spec

(***************************************************************************)
(* All calls agree on the identifier of a namespace until it is given up.  *)
(***************************************************************************)
THEOREM IdAgreement == Spec => []AgreedID
BY IdInvariance, PTL DEF IdInv, EntryInv

=============================================================================
