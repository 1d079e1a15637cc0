------------------------- MODULE PartialPolicyProofs -------------------------
(***************************************************************************)
(* What is computed with slices of bindings is what the model says in      *)
(* terms of grants; bindings that nobody specified survive, and what is no *)
(* longer recorded has been revoked: for any objects, bindings,            *)
(* specifications and faults.                                              *)
(***************************************************************************)
EXTENDS PartialPolicy, TLAPS

\* The computations of bindings.go, for any bindings.

\* A slice grants k to m if one of its bindings does.
LEMMA GrantsMember ==
  ASSUME NEW slice, NEW k, NEW m
  PROVE  <<k, m>> \in Grants(slice)
           <=> \E b \in slice: b.key = k /\ m \in b.members
BY DEF Grants

\* Merging the bindings with the same key keeps the grants.
LEMMA MapMember ==
  ASSUME NEW slice, NEW k, NEW m
  PROVE  k \in DOMAIN mergeBindings(slice) /\ m \in mergeBindings(slice)[k]
           <=> <<k, m>> \in Grants(slice)
<1>1. DOMAIN mergeBindings(slice) = KeysOf(slice)
  BY DEF mergeBindings
<1>2. ASSUME k \in KeysOf(slice)
      PROVE  mergeBindings(slice)[k]
               = UNION {b.members : b \in {c \in slice : c.key = k}}
  BY <1>2 DEF mergeBindings
<1> QED BY <1>1, <1>2, GrantsMember DEF KeysOf

\* Leaving out the bindings without members does, too.
LEMMA NonEmptyMember ==
  ASSUME NEW map, NEW k, NEW m
  PROVE  <<k, m>> \in Grants(NonEmpty(map)) <=> k \in DOMAIN map /\ m \in map[k]
<1>1. ASSUME k \in DOMAIN map, m \in map[k]
      PROVE  <<k, m>> \in Grants(NonEmpty(map))
  <2> DEFINE b == [key |-> k, members |-> map[k]]
  <2>1. b \in NonEmpty(map) /\ b.key = k /\ b.members = map[k]
    BY <1>1 DEF NonEmpty
  <2> QED BY <1>1, <2>1, GrantsMember
<1>2. ASSUME <<k, m>> \in Grants(NonEmpty(map))
      PROVE  k \in DOMAIN map /\ m \in map[k]
  <2>1. PICK b \in NonEmpty(map): b.key = k /\ m \in b.members
    BY <1>2, GrantsMember
  <2> QED BY <2>1 DEF NonEmpty
<1> QED BY <1>1, <1>2

\* Two slices with the same members per key grant the same.
LEMMA GrantsEqual ==
  ASSUME NEW slice, NEW S,
         \A x \in S: \E k, m: x = <<k, m>>,
         \A k, m: <<k, m>> \in Grants(slice) <=> <<k, m>> \in S
  PROVE  Grants(slice) = S
<1>1. \A x \in Grants(slice): \E k, m: x = <<k, m>>
  BY DEF Grants
<1> QED BY <1>1

\* The deleted members of a slice, as grants.
LEMMA RemoveMember ==
  ASSUME NEW bindings, NEW deleted, NEW k, NEW m
  PROVE  <<k, m>> \in Grants(removeMembersPerBinding(bindings, deleted))
           <=> <<k, m>> \in Grants(bindings) /\ <<k, m>> \notin Grants(deleted)
<1> DEFINE
  bindingMap == mergeBindings(bindings)
  gone(j) == UNION {b.members : b \in {c \in deleted : c.key = j}}
  left == [j \in DOMAIN bindingMap |-> bindingMap[j] \ gone(j)]
<1>1. removeMembersPerBinding(bindings, deleted) = NonEmpty(left)
  BY DEF removeMembersPerBinding
<1>2. m \in gone(k) <=> <<k, m>> \in Grants(deleted)
  BY GrantsMember
<1>3. k \in DOMAIN left /\ m \in left[k]
        <=> k \in DOMAIN bindingMap /\ m \in bindingMap[k] /\ m \notin gone(k)
  OBVIOUS
<1> HIDE DEF left, gone, bindingMap
<1>4. k \in DOMAIN bindingMap /\ m \in bindingMap[k] <=> <<k, m>> \in Grants(bindings)
  BY MapMember DEF bindingMap
<1> QED BY <1>1, <1>2, <1>3, <1>4, NonEmptyMember

\* What was applied last and is not specified any more, as grants.
LEMMA DeletedMember ==
  ASSUME NEW bindings, NEW last, NEW k, NEW m
  PROVE  <<k, m>> \in Grants(computeDeletedMembersPerBinding(bindings, last))
           <=> <<k, m>> \in Grants(last) /\ <<k, m>> \notin Grants(bindings)
<1> DEFINE
  bindingMap == mergeBindings(bindings)
  lastMap == mergeBindings(last)
  removed(j) == IF j \in DOMAIN bindingMap THEN lastMap[j] \ bindingMap[j]
                ELSE lastMap[j]
  kept == {j \in DOMAIN lastMap : j \in DOMAIN bindingMap => removed(j) # {}}
  slice == {[key |-> j, members |-> removed(j)] : j \in kept}
<1>1. computeDeletedMembersPerBinding(bindings, last) = slice
  BY DEF computeDeletedMembersPerBinding
<1>2. <<k, m>> \in Grants(slice) <=> k \in kept /\ m \in removed(k)
  <2> HIDE DEF removed, kept
  <2>1. ASSUME k \in kept, m \in removed(k) PROVE <<k, m>> \in Grants(slice)
    <3> DEFINE b == [key |-> k, members |-> removed(k)]
    <3>1. b \in slice /\ b.key = k /\ b.members = removed(k)
      BY <2>1
    <3> QED BY <2>1, <3>1, GrantsMember
  <2>2. ASSUME <<k, m>> \in Grants(slice) PROVE k \in kept /\ m \in removed(k)
    <3>1. PICK b \in slice: b.key = k /\ m \in b.members
      BY <2>2, GrantsMember
    <3> QED BY <3>1
  <2> QED BY <2>1, <2>2
<1>3. k \in kept /\ m \in removed(k)
        <=> /\ k \in DOMAIN lastMap /\ m \in lastMap[k]
            /\ ~(k \in DOMAIN bindingMap /\ m \in bindingMap[k])
  <2> HIDE DEF lastMap, bindingMap
  <2> QED OBVIOUS
<1> HIDE DEF slice, kept, removed, lastMap, bindingMap
<1>4. k \in DOMAIN lastMap /\ m \in lastMap[k] <=> <<k, m>> \in Grants(last)
  BY MapMember DEF lastMap
<1>5. k \in DOMAIN bindingMap /\ m \in bindingMap[k] <=> <<k, m>> \in Grants(bindings)
  BY MapMember DEF bindingMap
<1> QED BY <1>1, <1>2, <1>3, <1>4, <1>5

\* Converting, and merging two slices, as grants.
LEMMA UnionMember ==
  ASSUME NEW s, NEW t, NEW k, NEW m
  PROVE  /\ <<k, m>> \in Grants(Specified(s)) <=> <<k, m>> \in Grants(s)
         /\ <<k, m>> \in Grants(mergeBindingSlices(s, t))
              <=> <<k, m>> \in Grants(s) \/ <<k, m>> \in Grants(t)
<1>1. <<k, m>> \in Grants(s \union t)
        <=> <<k, m>> \in Grants(s) \/ <<k, m>> \in Grants(t)
  BY GrantsMember
<1> QED BY <1>1, NonEmptyMember, MapMember DEF Specified, mergeBindingSlices

-----------------------------------------------------------------------------
\* ComputePartialPolicyWithMergedBindings is exact for any slices at all, so
\* that PartialPolicy may compute with sets of grants.
THEOREM MergeExact == MergeIsExact
<1> SUFFICES
  ASSUME NEW spec \in Slices, NEW live \in Slices, NEW last \in Slices
  PROVE  Grants(ComputePartialPolicyWithMergedBindings(spec, live, last))
           = Merged(Grants(spec), Grants(live), Grants(last))
  BY DEF MergeIsExact
<1> DEFINE
  new == ComputePartialPolicyWithMergedBindings(spec, live, last)
  S == Merged(Grants(spec), Grants(live), Grants(last))
<1>1. ASSUME NEW k, NEW m
      PROVE  <<k, m>> \in Grants(new) <=> <<k, m>> \in S
  <2>1. <<k, m>> \in Grants(new)
          <=> /\ <<k, m>> \in Grants(spec) \/ <<k, m>> \in Grants(live)
              /\ ~(<<k, m>> \in Grants(last) /\ <<k, m>> \notin Grants(spec))
    BY RemoveMember, DeletedMember, UnionMember
    DEF ComputePartialPolicyWithMergedBindings
  <2> QED BY <2>1 DEF Merged
<1>2. \A x \in S: \E k, m: x = <<k, m>>
  BY DEF Merged, Grants
<1> HIDE DEF new, S
<1>3. Grants(new) = S
  BY <1>1, <1>2, GrantsEqual
<1> QED BY <1>3 DEF new, S

\* ComputePartialPolicyWithRemainingBindings is exact for any slices at all.
THEOREM RemainderExact == RemainderIsExact
<1> SUFFICES
  ASSUME NEW live \in Slices, NEW last \in Slices
  PROVE  Grants(ComputePartialPolicyWithRemainingBindings(live, last))
           = Remaining(Grants(live), Grants(last))
  BY DEF RemainderIsExact
<1> DEFINE
  new == ComputePartialPolicyWithRemainingBindings(live, last)
  S == Remaining(Grants(live), Grants(last))
<1>1. ASSUME NEW k, NEW m
      PROVE  <<k, m>> \in Grants(new) <=> <<k, m>> \in S
  BY RemoveMember DEF ComputePartialPolicyWithRemainingBindings, Remaining
<1>2. \A x \in S: \E k, m: x = <<k, m>>
  BY DEF Remaining, Grants
<1> HIDE DEF new, S
<1>3. Grants(new) = S
  BY <1>1, <1>2, GrantsEqual
<1> QED BY <1>3 DEF new, S

\* What SetPolicy is given has one binding per role and condition, each with
\* members, whatever was specified, live and applied.
THEOREM Canonical == PolicyIsCanonical
<1>1. ASSUME NEW map PROVE OneBindingPerKey(NonEmpty(map))
  BY DEF OneBindingPerKey, NonEmpty
<1> QED BY <1>1 DEF PolicyIsCanonical, removeMembersPerBinding,
  ComputePartialPolicyWithMergedBindings,
  ComputePartialPolicyWithRemainingBindings

-----------------------------------------------------------------------------
\* The reconciles that share a policy.

\* What a copy or a stored object says was applied, somebody specified.
Bounded(o) ==
  o # NoObject => o.spec \subseteq UNION Specs /\ o.lastApplied \subseteq UNION Specs

\* What a reconcile that is about to write has read is the policy, as long
\* as its etag is current.
ReadInv(p) ==
  /\ Bounded(obj[p]) /\ Bounded(run[p].u)
  /\ run[p].step # "idle" => run[p].u # NoObject
  /\ p \in current => obj[p] # NoObject
  /\ p \in etag /\ run[p].step \in {"set", "deleteSet"} => run[p].live = policy

PolicyInv == (\A p \in Policies: ReadInv(p)) /\ ForeignSurvives

Run == [step: RunSteps, u: Object \union {NoObject}, live: SUBSET Grantable]

\* An idle reconcile.
LEMMA IdleType == Idle \in Run /\ Idle.step = "idle" /\ Idle.u = NoObject
BY DEF Idle, Run, RunSteps

\* A write stores the object or lets it go.
LEMMA StoredType ==
  ASSUME NEW new \in Object, Bounded(new)
  PROVE  Stored(new) \in Object \union {NoObject} /\ Bounded(Stored(new))
BY DEF Stored, Bounded

\* What becomes of the objects in a write of a copy, whatever its outcome.
LEMMA WriteKeeps ==
  ASSUME TypeOK, NEW p \in Policies, ReadInv(p), NEW new,
         p \in current => new \in Object /\ Bounded(new),
         Write(p, new) \/ Conflict(p) \/ WriteFails(p, new)
  PROVE  /\ obj' \in [Policies -> Object \union {NoObject}]
         /\ current' \subseteq current
         /\ \A q \in Policies: q # p => obj'[q] = obj[q]
         /\ Bounded(obj'[p])
         /\ p \in current' => obj'[p] # NoObject
<1>1. CASE UNCHANGED <<obj, current>>
  BY <1>1 DEF TypeOK, ReadInv
<1>2. CASE /\ p \in current /\ obj' = [obj EXCEPT ![p] = Stored(new)]
           /\ current' = current \ {p}
             \/ (current' = current /\ Stored(new) # NoObject)
  BY <1>2, StoredType DEF TypeOK
<1> QED BY <1>1, <1>2 DEF Write, Conflict, WriteFails

\* The others are not disturbed by a step that keeps the policy, or takes
\* away their etag.
LEMMA OtherKeeps ==
  ASSUME NEW q \in Policies, ReadInv(q), run'[q] = run[q], obj'[q] = obj[q],
         q \in current' => q \in current,
         q \in etag' => q \in etag /\ policy' = policy
  PROVE  ReadInv(q)'
BY DEF ReadInv, Bounded

\* Steps within a reconcile that change neither its copy nor the policy.
LEMMA InnerStep ==
  ASSUME TypeOK, PolicyInv, NEW p \in Policies, NEW s \in RunSteps,
         s \notin {"set", "deleteSet"}, s # "idle" => run[p].step # "idle",
         Goto(p, s) \/ End(p),
         obj' \in [Policies -> Object \union {NoObject}],
         current' \subseteq current,
         \A q \in Policies: q # p => obj'[q] = obj[q],
         Bounded(obj'[p]),
         p \in current' => obj'[p] # NoObject,
         UNCHANGED <<policy, etag, paused, foreign, owed>>,
         waived' \subseteq Policies
  PROVE  TypeOK' /\ PolicyInv'
<1>1. run' \in [Policies -> Run] /\ (\A q \in Policies: q # p => run'[q] = run[q])
      /\ run'[p].step \notin {"set", "deleteSet"}
      /\ run'[p].u \in {run[p].u, NoObject}
      /\ (run'[p].step # "idle" => run'[p].u = run[p].u /\ run[p].step # "idle")
  <2>1. CASE Goto(p, s)
    BY <2>1 DEF Goto, TypeOK, Run
  <2>2. CASE End(p)
    BY <2>2, IdleType DEF End, TypeOK, Run
  <2> QED BY <2>1, <2>2
<1>2. TypeOK' BY <1>1 DEF TypeOK, Run
<1>3. ASSUME NEW q \in Policies PROVE ReadInv(q)'
  <2>1. ReadInv(q) BY DEF PolicyInv
  <2>2. CASE q # p
    BY <1>1, <2>1, <2>2, OtherKeeps
  <2>3. CASE q = p
    BY <1>1, <2>1, <2>3 DEF ReadInv, Bounded
  <2> QED BY <2>2, <2>3
<1> QED BY <1>2, <1>3 DEF PolicyInv, ForeignSurvives

\* A write of the copy, and on with the reconcile or its end.
LEMMA WritingStep ==
  ASSUME TypeOK, PolicyInv, NEW p \in Policies, NEW new,
         NEW s \in RunSteps \ {"set", "deleteSet"},
         run[p].step # "idle",
         p \in current => new \in Object /\ Bounded(new),
         Write(p, new) \/ Conflict(p) \/ WriteFails(p, new),
         Goto(p, s) \/ End(p),
         UNCHANGED <<policy, etag, paused, ghosts>>
  PROVE  TypeOK' /\ PolicyInv'
<1>1. ReadInv(p) BY DEF PolicyInv
<1>2. /\ obj' \in [Policies -> Object \union {NoObject}]
      /\ current' \subseteq current
      /\ \A q \in Policies: q # p => obj'[q] = obj[q]
      /\ Bounded(obj'[p])
      /\ p \in current' => obj'[p] # NoObject
  BY <1>1, WriteKeeps
<1>3. UNCHANGED <<policy, etag, paused, foreign, owed>> /\ waived' \subseteq Policies
  BY DEF ghosts, TypeOK
<1> QED BY <1>2, <1>3, InnerStep

\* Steps of others, which take no etag and read nothing.
LEMMA OuterStep ==
  ASSUME TypeOK, PolicyInv, NEW p \in Policies,
         NEW new \in Object \union {NoObject}, Bounded(new),
         Overwrite(p, new),
         UNCHANGED <<run, policy, etag, paused, foreign>>,
         owed' \in [Policies -> SUBSET Grantable],
         waived' \subseteq Policies
  PROVE  TypeOK' /\ PolicyInv'
<1>1. /\ obj' \in [Policies -> Object \union {NoObject}]
      /\ obj'[p] = new /\ \A q \in Policies: q # p => obj'[q] = obj[q]
      /\ current' = current \ {p}
  BY DEF Overwrite, TypeOK
<1>2. TypeOK' BY <1>1 DEF TypeOK
<1>3. ASSUME NEW q \in Policies PROVE ReadInv(q)'
  <2>1. ReadInv(q) BY DEF PolicyInv
  <2>2. CASE q # p
    BY <1>1, <2>1, <2>2, OtherKeeps
  <2>3. CASE q = p
    BY <1>1, <2>1, <2>3 DEF ReadInv, Bounded
  <2> QED BY <2>2, <2>3
<1> QED BY <1>2, <1>3 DEF PolicyInv, ForeignSurvives

-----------------------------------------------------------------------------
\* The object is read.
LEMMA GetStep ==
  ASSUME TypeOK, PolicyInv, NEW p \in Policies, Get(p)
  PROVE  TypeOK' /\ PolicyInv'
<1> DEFINE r == [Idle EXCEPT !.step = "gate", !.u = obj[p]]
<1>1. r \in Run /\ r.step = "gate" /\ r.u = obj[p]
  BY IdleType DEF Run, RunSteps, TypeOK, Idle
<1>2. run' = [run EXCEPT ![p] = r] /\ current' = current \union {p}
      /\ UNCHANGED <<obj, policy, etag, paused, ghosts>> /\ obj[p] # NoObject
  BY DEF Get
<1> HIDE DEF r
<1>3. run'[p] = r /\ \A q \in Policies: q # p => run'[q] = run[q]
  BY <1>2 DEF TypeOK
<1>4. TypeOK' BY <1>1, <1>2 DEF TypeOK, Run, ghosts
<1>5. ASSUME NEW q \in Policies PROVE ReadInv(q)'
  <2>1. ReadInv(q) BY DEF PolicyInv
  <2>2. CASE q # p
    BY <1>2, <1>3, <2>1, <2>2, OtherKeeps
  <2>3. CASE q = p
    BY <1>1, <1>2, <1>3, <2>1, <2>3 DEF ReadInv, Bounded
  <2> QED BY <2>2, <2>3
<1> QED BY <1>2, <1>4, <1>5 DEF PolicyInv, ForeignSurvives, ghosts

\* The policy is read, with its etag.
LEMMA GetPolicyStep ==
  ASSUME TypeOK, PolicyInv, NEW p \in Policies, GetPolicy(p)
  PROVE  TypeOK' /\ PolicyInv'
<1>1. run[p] \in Run /\ run[p].u # NoObject /\ run[p].u \in Object
  BY DEF GetPolicy, PolicyInv, ReadInv, TypeOK, Run
<1>2. ReadInv(p) BY DEF PolicyInv
<1> DEFINE
  u == IF run[p].step = "get" THEN [run[p].u EXCEPT !.fins = Finalizers]
       ELSE run[p].u
  r == [step |-> IF run[p].step = "get" THEN "set" ELSE "deleteSet",
        u |-> u, live |-> policy]
<1>3. u \in Object /\ Bounded(u) /\ u # NoObject
  BY <1>1, <1>2, ObjectAssumption DEF Object, Bounded, ReadInv
<1>4. run' = [run EXCEPT ![p] = r] /\ etag' = etag \union {p}
      /\ UNCHANGED <<obj, current, policy, paused, ghosts>>
  BY DEF GetPolicy
<1>5. r \in Run /\ r.u = u /\ r.live = policy /\ r.step # "idle"
  BY <1>3 DEF Run, RunSteps, TypeOK
<1> HIDE DEF u, r
<1>6. run'[p] = r /\ \A q \in Policies: q # p => run'[q] = run[q]
  BY <1>4 DEF TypeOK
<1>7. TypeOK' BY <1>4, <1>5 DEF TypeOK, Run, ghosts
<1>8. ASSUME NEW q \in Policies PROVE ReadInv(q)'
  <2>1. ReadInv(q) BY DEF PolicyInv
  <2>2. CASE q # p
    BY <1>4, <1>6, <2>1, <2>2, OtherKeeps
  <2>3. CASE q = p
    BY <1>3, <1>4, <1>5, <1>6, <2>1, <2>3 DEF ReadInv, Bounded
  <2> QED BY <2>2, <2>3
<1> QED BY <1>4, <1>7, <1>8 DEF PolicyInv, ForeignSurvives, ghosts

\* What SetPolicy writes keeps what nobody specified.
LEMMA DesiredKeeps ==
  ASSUME TypeOK, PolicyInv, NEW p \in Policies,
         run[p].step \in {"set", "deleteSet"}
  PROVE  /\ DesiredPolicy(p) \subseteq Grantable
         /\ run[p].live \ UNION Specs \subseteq DesiredPolicy(p)
         /\ run[p].u \in Object
<1>1. ReadInv(p) BY DEF PolicyInv
<1>2. run[p].u \in Object /\ run[p].live \subseteq Grantable
  BY <1>1 DEF ReadInv, TypeOK
<1>3. run[p].u.spec \subseteq Grantable
      /\ run[p].u.lastApplied \subseteq UNION Specs
  BY <1>1, <1>2, ObjectAssumption DEF ReadInv, Bounded, Object
<1> QED BY <1>2, <1>3 DEF DesiredPolicy, Merged, Remaining

\* A write of the policy, whatever becomes of the reconcile.
LEMMA SetsStep ==
  ASSUME TypeOK, PolicyInv, NEW p \in Policies,
         run[p].step \in {"set", "deleteSet"},
         SetsPolicy(p),
         NEW r \in Run, run' = [run EXCEPT ![p] = r],
         Bounded(r.u), r.step \notin {"set", "deleteSet"},
         r.step # "idle" => r.u # NoObject,
         UNCHANGED <<obj, current, paused, foreign, waived>>
  PROVE  TypeOK' /\ PolicyInv'
<1> DEFINE d == DesiredPolicy(p)
<1>1. d \subseteq Grantable /\ run[p].live \ UNION Specs \subseteq d
      /\ run[p].u \in Object
  BY DesiredKeeps
<1>2. policy' = d /\ (d = policy \/ p \in etag)
      /\ etag' = (IF d = policy THEN etag ELSE {})
      /\ owed' \in [Policies -> SUBSET Grantable]
  BY <1>1 DEF SetsPolicy, PolicyBecomes
<1> HIDE DEF d
<1>3. foreign \ UNION Specs \subseteq d
  <2>1. CASE d = policy
    BY <2>1 DEF PolicyInv, ForeignSurvives
  <2>2. CASE p \in etag
    <3>1. run[p].live = policy BY <2>2 DEF PolicyInv, ReadInv
    <3> QED BY <1>1, <3>1 DEF PolicyInv, ForeignSurvives
  <2> QED BY <1>2, <2>1, <2>2
<1>4. run'[p] = r /\ \A q \in Policies: q # p => run'[q] = run[q]
  BY DEF TypeOK
<1>5. TypeOK' BY <1>1, <1>2 DEF TypeOK, Run
<1>6. ASSUME NEW q \in Policies PROVE ReadInv(q)'
  <2>1. ReadInv(q) BY DEF PolicyInv
  <2>2. CASE q # p
    BY <1>2, <1>4, <2>1, <2>2, OtherKeeps
  <2>3. CASE q = p
    BY <1>4, <2>1, <2>3 DEF ReadInv, Bounded
  <2> QED BY <2>2, <2>3
<1> QED BY <1>2, <1>3, <1>5, <1>6 DEF PolicyInv, ForeignSurvives

\* SetPolicy, and the end of its reconcile or its next step.
LEMMA SetPolicyStep ==
  ASSUME TypeOK, PolicyInv, NEW p \in Policies, SetPolicy(p)
  PROVE  TypeOK' /\ PolicyInv'
<1>1. run[p].step \in {"set", "deleteSet"} /\ SetsPolicy(p) /\ AfterSetPolicy(p)
      /\ UNCHANGED <<obj, current, paused, foreign, waived>>
  BY DEF SetPolicy
<1>2. run[p] \in Run /\ run[p].u \in Object /\ Bounded(run[p].u)
  BY <1>1, DesiredKeeps DEF TypeOK, Run, PolicyInv, ReadInv
<1>3. CASE run[p].step = "deleteSet"
  <2> DEFINE u == [run[p].u EXCEPT !.lastApplied = {}]
             r == [run[p] EXCEPT !.step = "markDeleted", !.u = u]
  <2>1. u \in Object /\ Bounded(u) /\ u # NoObject
    BY <1>2, ObjectAssumption DEF Object, Bounded
  <2>2. run' = [run EXCEPT ![p] = r]
    BY <1>1, <1>2, <1>3 DEF AfterSetPolicy, TypeOK
  <2> HIDE DEF u
  <2>3. r \in Run /\ r.u = u /\ r.step = "markDeleted"
    BY <1>2, <2>1 DEF Run, RunSteps
  <2> HIDE DEF r
  <2> QED BY <1>1, <2>1, <2>2, <2>3, SetsStep
<1>4. CASE run[p].step # "deleteSet" /\ Goto(p, "update")
  <2> DEFINE r == [run[p] EXCEPT !.step = "update"]
  <2>1. r \in Run /\ r.u = run[p].u /\ r.step = "update"
    BY <1>2 DEF Run, RunSteps
  <2>2. run' = [run EXCEPT ![p] = r]
    BY <1>4 DEF Goto, TypeOK
  <2> HIDE DEF r
  <2> QED BY <1>1, <1>2, <2>1, <2>2, SetsStep, ObjectAssumption
<1>5. CASE End(p)
  <2>1. Bounded(NoObject) BY DEF Bounded
  <2> QED BY <1>1, <1>5, <2>1, SetsStep, IdleType DEF End
<1> QED BY <1>1, <1>3, <1>4, <1>5 DEF AfterSetPolicy

-----------------------------------------------------------------------------
\* Every step of a reconcile preserves the invariant.
LEMMA ReconcileStep ==
  ASSUME TypeOK, PolicyInv, NEW p \in Policies,
         Reconcile(p) \/ GetPolicyFails(p) \/ ReferenceIsGone(p)
           \/ SetPolicyFails(p)
  PROVE  TypeOK' /\ PolicyInv'
<1>0. ReadInv(p) /\ run[p] \in Run
  BY DEF PolicyInv, TypeOK, Run
<1>1. run[p].step # "idle" =>
        run[p].u \in Object /\ run[p].u # NoObject /\ Bounded(run[p].u)
  BY <1>0 DEF ReadInv, Run
<1>2. CASE Gate(p)
  <2>1. UNCHANGED <<obj, current, policy, etag, paused, ghosts>>
        /\ run[p].step = "gate"
    BY <1>2 DEF Gate
  <2>2. PICK s \in RunSteps \ {"set", "deleteSet"}: Goto(p, s) \/ End(p)
    BY <1>2 DEF Gate, AfterGate, RunSteps
  <2> QED BY <1>0, <2>1, <2>2, InnerStep DEF ghosts, TypeOK, ReadInv
<1>3. CASE GetPolicyFails(p) \/ SetPolicyConflicts(p) \/ ReferenceIsGone(p)
  <2>1. /\ UNCHANGED <<obj, current, policy, etag, paused, foreign, owed>>
        /\ run[p].step # "idle" /\ waived' \subseteq Policies
    BY <1>3 DEF GetPolicyFails, SetPolicyConflicts, ReferenceIsGone, ghosts,
         TypeOK
  <2>2. PICK s \in RunSteps \ {"set", "deleteSet"}: Goto(p, s)
    BY <1>3 DEF GetPolicyFails, SetPolicyConflicts, ReferenceIsGone, RunSteps
  <2> QED BY <1>0, <2>1, <2>2, InnerStep DEF TypeOK, ReadInv
<1>4. CASE SetPolicyFails(p)
  <2>1. /\ UNCHANGED <<obj, current, paused, foreign, waived>>
        /\ run[p].step \in {"set", "deleteSet"} /\ Goto(p, "report")
    BY <1>4 DEF SetPolicyFails
  <2>2. CASE UNCHANGED <<policy, etag, owed>>
    BY <1>0, <2>1, <2>2, InnerStep DEF TypeOK, ReadInv, RunSteps
  <2>3. CASE SetsPolicy(p)
    <3> DEFINE r == [run[p] EXCEPT !.step = "report"]
    <3>1. r \in Run /\ r.u = run[p].u /\ r.step = "report"
      BY <1>0 DEF Run, RunSteps
    <3>2. run' = [run EXCEPT ![p] = r]
      BY <2>1 DEF Goto, TypeOK
    <3> HIDE DEF r
    <3> QED BY <1>1, <2>1, <2>3, <3>1, <3>2, SetsStep
  <2> QED BY <1>4, <2>2, <2>3 DEF SetPolicyFails
<1>5. CASE UpdateAPIServer(p)
  <2>1. run[p].step = "update" /\ UNCHANGED <<policy, etag, paused, ghosts>>
    BY <1>5 DEF UpdateAPIServer
  <2>2. /\ Write(p, run[p].u) \/ Conflict(p) \/ WriteFails(p, run[p].u)
        /\ Goto(p, "upToDate") \/ End(p)
    BY <1>5 DEF UpdateAPIServer
  <2> QED BY <1>1, <2>1, <2>2, WritingStep DEF RunSteps
<1>6. CASE HandleUpToDate(p)
  <2> DEFINE new == [run[p].u EXCEPT !.lastApplied = run[p].u.spec,
                                     !.fresh = TRUE]
  <2>1. run[p].step = "upToDate" /\ UNCHANGED <<policy, etag, paused, ghosts>>
        /\ (Write(p, new) \/ Conflict(p) \/ WriteFails(p, new)) /\ End(p)
    BY <1>6 DEF HandleUpToDate
  <2>2. new \in Object /\ Bounded(new)
    BY <1>1, <2>1, ObjectAssumption DEF Object, Bounded
  <2> HIDE DEF new
  <2> QED BY <2>1, <2>2, WritingStep DEF RunSteps
<1>7. CASE HandleFailed(p)
  <2> DEFINE new == [obj[p] EXCEPT !.fresh = FALSE]
  <2>1. run[p].step = "report" /\ UNCHANGED <<policy, etag, paused, ghosts>>
        /\ (Write(p, new) \/ Conflict(p) \/ WriteFails(p, new)) /\ End(p)
    BY <1>7 DEF HandleFailed
  <2>2. p \in current => new \in Object /\ Bounded(new)
    <3> SUFFICES ASSUME p \in current PROVE new \in Object /\ Bounded(new)
      OBVIOUS
    <3>1. obj[p] \in Object /\ Bounded(obj[p])
      BY <1>0 DEF ReadInv, TypeOK
    <3> QED BY <3>1, ObjectAssumption DEF Object, Bounded
  <2> HIDE DEF new
  <2> QED BY <2>1, <2>2, WritingStep DEF RunSteps
<1>8. CASE MarkDeleted(p)
  <2> DEFINE new == [run[p].u EXCEPT !.fresh = FALSE]
  <2>1. run[p].step = "markDeleted" /\ UNCHANGED <<policy, etag, paused, ghosts>>
        /\ (Write(p, new) \/ Conflict(p) \/ WriteFails(p, new))
        /\ (Goto(p, "unfinalize") \/ End(p))
    BY <1>8 DEF MarkDeleted
  <2>2. new \in Object /\ Bounded(new)
    BY <1>1, <2>1, ObjectAssumption DEF Object, Bounded
  <2> HIDE DEF new
  <2> QED BY <2>1, <2>2, WritingStep DEF RunSteps
<1>9. CASE Unfinalize(p)
  <2> DEFINE new == [run[p].u EXCEPT !.fins = run[p].u.fins \ {Controller},
                                     !.fresh = FALSE]
  <2>1. run[p].step = "unfinalize" /\ UNCHANGED <<policy, etag, paused, ghosts>>
        /\ (Write(p, new) \/ Conflict(p) \/ WriteFails(p, new)) /\ End(p)
    BY <1>9 DEF Unfinalize
  <2>2. new \in Object /\ Bounded(new)
    BY <1>1, <2>1, ObjectAssumption DEF Object, Bounded
  <2> HIDE DEF new
  <2> QED BY <2>1, <2>2, WritingStep DEF RunSteps
<1>10. CASE HandleDefaultsFails(p)
  <2>1. /\ run[p].step = "gate" /\ UNCHANGED <<policy, etag, paused, ghosts>>
        /\ Conflict(p) \/ WriteFails(p, obj[p])
        /\ End(p)
    BY <1>10 DEF HandleDefaultsFails
  <2>2. p \in current => obj[p] \in Object /\ Bounded(obj[p])
    BY <1>0, <2>1 DEF ReadInv, TypeOK
  <2> QED BY <2>1, <2>2, WritingStep DEF RunSteps
<1> QED
  BY <1>2, <1>3, <1>4, <1>5, <1>6, <1>7, <1>8, <1>9, <1>10, GetStep,
     GetPolicyStep, SetPolicyStep
  DEF Reconcile

\* So does every step of the defender and of users.
LEMMA ObjectStep ==
  ASSUME TypeOK, PolicyInv, NEW p \in Policies,
         DefenderUpdate(p) \/ UserCreates(p) \/ UserEdits(p)
           \/ UserAbandons(p) \/ UserDeletes(p)
  PROVE  TypeOK' /\ PolicyInv'
<1>0. obj[p] # NoObject => obj[p] \in Object /\ Bounded(obj[p])
  BY DEF PolicyInv, ReadInv, TypeOK
<1>1. UNCHANGED <<run, policy, etag, paused, foreign>>
      /\ owed' \in [Policies -> SUBSET Grantable] /\ waived' \subseteq Policies
  <2>1. CASE UserCreates(p)
    BY <2>1 DEF UserCreates, TypeOK
  <2> QED BY <2>1 DEF DefenderUpdate, UserEdits, UserAbandons, UserDeletes,
             ghosts, TypeOK
<1>2. PICK new \in Object \union {NoObject}: Overwrite(p, new) /\ Bounded(new)
  <2>1. CASE DefenderUpdate(p)
    <3> DEFINE n == [obj[p] EXCEPT !.fins = obj[p].fins \ {Defender}]
    <3>1. n \in Object /\ Bounded(n)
      BY <1>0, <2>1, ObjectAssumption DEF DefenderUpdate, Object, Bounded
    <3>2. Overwrite(p, Stored(n)) BY <2>1 DEF DefenderUpdate
    <3> QED BY <3>1, <3>2, StoredType
  <2>2. CASE UserCreates(p)
    <3>1. PICK s \in Specs:
            Overwrite(p, [spec |-> s, lastApplied |-> {}, fins |-> {},
                          deleting |-> FALSE, abandon |-> FALSE,
                          fresh |-> FALSE])
      BY <2>2 DEF UserCreates
    <3> DEFINE n == [spec |-> s, lastApplied |-> {}, fins |-> {},
                     deleting |-> FALSE, abandon |-> FALSE, fresh |-> FALSE]
    <3>2. n \in Object /\ Bounded(n)
      BY PolicyAssumption DEF Object, Bounded
    <3> QED BY <3>1, <3>2
  <2>3. CASE UserEdits(p)
    <3>1. PICK s \in Specs \ {obj[p].spec}:
            Overwrite(p, [obj[p] EXCEPT !.spec = s, !.fresh = FALSE])
      BY <2>3 DEF UserEdits
    <3> DEFINE n == [obj[p] EXCEPT !.spec = s, !.fresh = FALSE]
    <3>2. n \in Object /\ Bounded(n)
      BY <1>0, <2>3, PolicyAssumption, ObjectAssumption
      DEF UserEdits, Object, Bounded
    <3> QED BY <3>1, <3>2
  <2>4. CASE UserAbandons(p)
    <3> DEFINE n == [obj[p] EXCEPT !.abandon = TRUE]
    <3>1. n \in Object /\ Bounded(n)
      BY <1>0, <2>4, ObjectAssumption DEF UserAbandons, Object, Bounded
    <3>2. Overwrite(p, n) BY <2>4 DEF UserAbandons
    <3> QED BY <3>1, <3>2
  <2>5. CASE UserDeletes(p)
    <3> DEFINE n == [obj[p] EXCEPT !.deleting = TRUE, !.fresh = FALSE]
    <3>1. n \in Object /\ Bounded(n)
      BY <1>0, <2>5, ObjectAssumption DEF UserDeletes, Object, Bounded
    <3>2. Overwrite(p, Stored(n)) BY <2>5 DEF UserDeletes
    <3> QED BY <3>1, <3>2, StoredType
  <2> QED BY <2>1, <2>2, <2>3, <2>4, <2>5
<1> QED BY <1>1, <1>2, OuterStep

\* People who edit the policy make every etag stale.
LEMMA ForeignStep ==
  ASSUME TypeOK, PolicyInv, NEW b \in Grantable,
         ForeignAdds(b) \/ ForeignRemoves(b)
  PROVE  TypeOK' /\ PolicyInv'
<1>1. UNCHANGED <<obj, current, run, paused, waived>> /\ etag' = {}
  BY DEF ForeignAdds, ForeignRemoves
<1>2. policy' \subseteq Grantable /\ foreign' \subseteq Grantable
      /\ owed' \in [Policies -> SUBSET Grantable] /\ ForeignSurvives'
  <2>1. CASE ForeignAdds(b)
    BY <2>1 DEF ForeignAdds, TypeOK, PolicyInv, ForeignSurvives
  <2>2. CASE ForeignRemoves(b)
    BY <2>2 DEF ForeignRemoves, TypeOK, PolicyInv, ForeignSurvives
  <2> QED BY <2>1, <2>2
<1>3. TypeOK' BY <1>1, <1>2 DEF TypeOK
<1>4. \A q \in Policies: ReadInv(q)'
  BY <1>1, OtherKeeps DEF PolicyInv
<1> QED BY <1>2, <1>3, <1>4 DEF PolicyInv

\* Every step preserves the invariant.
LEMMA PolicyStep ==
  ASSUME TypeOK, PolicyInv, [Next]_vars
  PROVE  TypeOK' /\ PolicyInv'
<1>1. CASE Restart
  <2>1. \A q \in Policies: run'[q] = Idle
    BY <1>1 DEF Restart
  <2>2. TypeOK' BY <1>1, IdleType DEF Restart, TypeOK, ghosts, Run
  <2>3. ASSUME NEW q \in Policies PROVE ReadInv(q)'
    BY <1>1, <2>1, <2>3, IdleType
    DEF Restart, PolicyInv, ReadInv, Bounded
  <2> QED BY <1>1, <2>2, <2>3 DEF Restart, PolicyInv, ForeignSurvives, ghosts
<1>2. CASE AdminConfigures \/ UNCHANGED vars
  <2>1. UNCHANGED <<obj, current, run, policy, etag, ghosts>>
    BY <1>2 DEF AdminConfigures, vars, ghosts
  <2>2. paused' \in BOOLEAN
    BY <1>2 DEF AdminConfigures, vars, TypeOK
  <2>3. TypeOK' BY <2>1, <2>2 DEF TypeOK, ghosts
  <2>4. \A q \in Policies: ReadInv(q)'
    BY <2>1, OtherKeeps DEF PolicyInv
  <2> QED BY <2>1, <2>3, <2>4 DEF PolicyInv, ForeignSurvives, ghosts
<1> QED BY <1>1, <1>2, ReconcileStep, ObjectStep, ForeignStep DEF Next, Works, Disturbs

\* Objects, copies, the policy and the history keep their types.
THEOREM PolicyInvariance == Spec => [](TypeOK /\ PolicyInv)
<1>1. Init => TypeOK /\ PolicyInv
  BY IdleType DEF Init, TypeOK, PolicyInv, ReadInv, Bounded, ForeignSurvives,
     Run
<1>2. TypeOK /\ PolicyInv /\ [Next]_vars => (TypeOK /\ PolicyInv)'
  BY PolicyStep
<1> QED BY <1>1, <1>2, PTL DEF Spec

\* Whatever fails, an object and the policy hold grantable bindings only, and
\* so does every copy of them that a reconcile works with.
THEOREM PolicyTypes == Spec => []TypeOK
BY PolicyInvariance, PTL

\* However many objects share a policy with people who edit it directly, and
\* whatever fails, the controller takes nothing away that no object specified.
THEOREM ForeignGrantsSurvive == Spec => []ForeignSurvives
BY PolicyInvariance, PTL DEF PolicyInv

\* A slice that doReconcile computes comes from three slices that grant
\* what the reconcile has read.
LEMMA ComputedFrom ==
  ASSUME TypeOK, PolicyInv, NEW p \in Setting, NEW s \in ComputedSlices(p)
  PROVE  \E spec, live, last \in Slices:
           /\ s = Computed(p, spec, live, last)
           /\ Grants(spec) = run[p].u.spec
           /\ Grants(live) = run[p].live
           /\ Grants(last) = run[p].u.lastApplied
<1>1. run[p].u \in Object /\ run[p].live \in SUBSET Grantable
  BY DEF TypeOK, PolicyInv, ReadInv, Setting
<1>2. run[p].u.spec \in SUBSET Grantable
      /\ run[p].u.lastApplied \in SUBSET Grantable
  BY <1>1 DEF Object
<1>3. \A g \in SUBSET Grantable: \A t \in Slicings[g]:
        t \in Slices /\ Grants(t) = g
  BY DEF Slicings
<1> QED BY <1>1, <1>2, <1>3 DEF ComputedSlices

\* Whatever slices the controller is given, what it sends grants what the
\* model takes for the desired policy: sets of grants lose nothing.
THEOREM ComputationIsExact == Spec => []DesiredIsComputed
<1>1. TypeOK /\ PolicyInv => DesiredIsComputed
  <2> SUFFICES ASSUME TypeOK, PolicyInv, NEW p \in Setting,
                      NEW s \in ComputedSlices(p)
               PROVE  Grants(s) = DesiredPolicy(p)
    BY DEF DesiredIsComputed
  <2>1. PICK spec \in Slices, live \in Slices, last \in Slices:
          /\ s = Computed(p, spec, live, last)
          /\ Grants(spec) = run[p].u.spec
          /\ Grants(live) = run[p].live
          /\ Grants(last) = run[p].u.lastApplied
    BY ComputedFrom
  <2>2. Grants(ComputePartialPolicyWithMergedBindings(spec, live, last))
          = Merged(Grants(spec), Grants(live), Grants(last))
    BY MergeExact DEF MergeIsExact
  <2>3. Grants(ComputePartialPolicyWithRemainingBindings(live, last))
          = Remaining(Grants(live), Grants(last))
    BY RemainderExact DEF RemainderIsExact
  <2> QED BY <2>1, <2>2, <2>3 DEF Computed, DesiredPolicy
<1> QED BY <1>1, PolicyInvariance, PTL

\* Whatever slices the controller is given, it sends one binding per role
\* and condition, and none without members.
THEOREM SentCanonically == Spec => []SentIsCanonical
<1>1. TypeOK /\ PolicyInv => SentIsCanonical
  BY ComputedFrom, Canonical DEF SentIsCanonical, PolicyIsCanonical, Computed
<1> QED BY <1>1, PolicyInvariance, PTL

-----------------------------------------------------------------------------
\* What is recorded is revoked before it is forgotten.

RInv(p) == RecordInv(p) /\ CopyInv(p) /\ DropInv(p)

\* RecordedIsRevoked, for one object and one step.
Revoked(p) ==
  obj[p] # NoObject /\ p \notin waived' =>
    LET kept == IF obj'[p] = NoObject THEN {} ELSE obj'[p].lastApplied
    IN  (obj[p].lastApplied \ kept) \intersect owed'[p] = {}

\* An object whose record stays as it is.
LEMMA RecordStays ==
  ASSUME NEW p \in Policies, RecordInv(p), obj'[p] = obj[p],
         p \in waived => p \in waived'
  PROVE  RecordInv(p)' /\ Revoked(p)
BY DEF RecordInv, Revoked

\* A reconcile that has ended.
LEMMA IdleInv ==
  ASSUME NEW p \in Policies, run'[p] = Idle
  PROVE  CopyInv(p)' /\ DropInv(p)'
BY IdleType DEF CopyInv, DropInv

\* Objects that a step is not about; what they owe may shrink.
LEMMA OtherRevokes ==
  ASSUME NEW q \in Policies, RInv(q), run'[q] = run[q], obj'[q] = obj[q],
         q \in current' => q \in current, owed'[q] \subseteq owed[q],
         q \in waived <=> q \in waived'
  PROVE  RInv(q)' /\ Revoked(q)
<1>1. RecordInv(q)' /\ Revoked(q)
  BY RecordStays DEF RInv
<1>2. CopyInv(q)'
  BY DEF RInv, CopyInv
<1>3. DropInv(q)'
  BY DEF RInv, DropInv
<1> QED BY <1>1, <1>2, <1>3 DEF RInv

\* A write by the controller: what it drops from the record it has revoked.
LEMMA RecordWritten ==
  ASSUME NEW p \in Policies, NEW new \in Object, obj'[p] = Stored(new),
         UNCHANGED <<owed, waived>>,
         new.fins \in IF new.deleting THEN {Finalizers, {Controller}, {}}
                      ELSE {{}, Finalizers},
         new.fins = {} /\ ~new.deleting => new.lastApplied = {},
         new.abandon => p \in waived,
         p \notin waived =>
           /\ (obj[p].lastApplied \ new.lastApplied) \intersect owed[p] = {}
           /\ new.fins = {} /\ new.deleting =>
                obj[p].lastApplied \intersect owed[p] = {}
  PROVE  RecordInv(p)' /\ Revoked(p)
<1>1. CASE new.fins = {} /\ new.deleting
  <2>1. obj'[p] = NoObject
    BY <1>1 DEF Stored
  <2> QED BY <1>1, <2>1 DEF RecordInv, Revoked
<1>2. CASE ~(new.fins = {} /\ new.deleting)
  <2>1. obj'[p] = new /\ new # NoObject
    BY <1>2, ObjectAssumption DEF Stored
  <2> QED BY <1>2, <2>1 DEF RecordInv, Revoked
<1> QED BY <1>1, <1>2

\* What a write comes to.
LEMMA Outcomes ==
  ASSUME TypeOK, NEW p \in Policies, NEW new,
         Write(p, new) \/ Conflict(p) \/ WriteFails(p, new)
  PROVE  /\ \A q \in Policies \ {p}:
              obj'[q] = obj[q] /\ (q \in current' => q \in current)
         /\ \/ obj'[p] = obj[p] /\ (p \in current' => p \in current)
            \/ p \in current /\ obj'[p] = Stored(new)
BY DEF Write, Conflict, WriteFails, TypeOK

\* The last write of a reconcile, whatever becomes of it.
LEMMA LastWrite ==
  ASSUME TypeOK, NEW p \in Policies, \A q \in Policies: RInv(q), NEW new,
         Write(p, new) \/ Conflict(p) \/ WriteFails(p, new), End(p),
         UNCHANGED <<policy, etag, paused, ghosts>>,
         p \in current /\ obj'[p] = Stored(new) => RecordInv(p)' /\ Revoked(p)
  PROVE  \A q \in Policies: RInv(q)' /\ Revoked(q)
<1>1. /\ \A q \in Policies \ {p}:
           obj'[q] = obj[q] /\ (q \in current' => q \in current)
      /\ \/ obj'[p] = obj[p] /\ (p \in current' => p \in current)
         \/ p \in current /\ obj'[p] = Stored(new)
  BY Outcomes
<1>2. run'[p] = Idle /\ \A q \in Policies \ {p}: run'[q] = run[q]
  BY DEF End, TypeOK
<1>3. UNCHANGED <<owed, waived>>
  BY DEF ghosts
<1>4. ASSUME NEW q \in Policies \ {p} PROVE RInv(q)' /\ Revoked(q)
  BY <1>1, <1>2, <1>3, <1>4, OtherRevokes
<1>5. RecordInv(p)' /\ Revoked(p)
  BY <1>1, <1>3, RecordStays DEF RInv
<1>6. CopyInv(p)' /\ DropInv(p)'
  BY <1>2, IdleInv
<1> QED BY <1>4, <1>5, <1>6 DEF RInv

\* A step that writes nothing: the others do not notice, or owe less.
LEMMA OneMoves ==
  ASSUME TypeOK, NEW p \in Policies, \A q \in Policies: RInv(q),
         \A q \in Policies \ {p}:
           /\ run'[q] = run[q] /\ (q \in current' => q \in current)
           /\ owed'[q] \subseteq owed[q] /\ (q \in waived <=> q \in waived'),
         UNCHANGED obj, p \in waived => p \in waived',
         CopyInv(p)', DropInv(p)'
  PROVE  \A q \in Policies: RInv(q)' /\ Revoked(q)
<1>1. ASSUME NEW q \in Policies \ {p} PROVE RInv(q)' /\ Revoked(q)
  BY <1>1, OtherRevokes
<1>2. RecordInv(p)' /\ Revoked(p)
  BY RecordStays DEF RInv
<1> QED BY <1>1, <1>2 DEF RInv

-----------------------------------------------------------------------------
\* Reading the object and the policy, and failing to.
LEMMA ReadRevokes ==
  ASSUME TypeOK, PolicyInv, \A q \in Policies: RInv(q), NEW p \in Policies,
         \/ Get(p) \/ Gate(p) \/ GetPolicy(p) \/ SetPolicyConflicts(p)
         \/ GetPolicyFails(p) \/ ReferenceIsGone(p)
  PROVE  \A q \in Policies: RInv(q)' /\ Revoked(q)
<1>0. /\ ReadInv(p) /\ RInv(p) /\ run[p] \in Run
      /\ run[p].step # "idle" => run[p].u \in Object
  BY DEF PolicyInv, ReadInv, TypeOK, Run
<1>1. CASE Get(p)
  <2> DEFINE r == [Idle EXCEPT !.step = "gate", !.u = obj[p]]
  <2>1. r.step = "gate" /\ r.u = obj[p]
    BY DEF Idle
  <2>2. run' = [run EXCEPT ![p] = r]
    BY <1>1 DEF Get
  <2> HIDE DEF r
  <2>3. run'[p] = r /\ \A q \in Policies \ {p}: run'[q] = run[q]
    BY <2>2 DEF TypeOK
  <2>4. CopyInv(p)' /\ DropInv(p)'
    BY <1>1, <2>1, <2>3 DEF Get, CopyInv, DropInv
  <2> QED BY <1>1, <2>3, <2>4, OneMoves DEF Get, ghosts
<1>2. CASE Gate(p)
  <2>1. CASE End(p)
    <3>1. run'[p] = Idle /\ \A q \in Policies \ {p}: run'[q] = run[q]
      BY <2>1 DEF End, TypeOK
    <3>2. CopyInv(p)' /\ DropInv(p)'
      BY <3>1, IdleInv
    <3> QED BY <1>2, <3>1, <3>2, OneMoves DEF Gate, ghosts
  <2>2. CASE ~End(p)
    <3>1. PICK step \in {"get", "markDeleted", "deleteGet"}:
            /\ Goto(p, step)
            /\ step = "get" => ~run[p].u.deleting
            /\ step # "get" => /\ run[p].u.deleting
                               /\ Controller \in run[p].u.fins
                               /\ Defender \notin run[p].u.fins
            /\ step = "markDeleted" => run[p].u.abandon
      BY <1>2, <2>2 DEF Gate, AfterGate
    <3>2. /\ run'[p].step = step /\ run'[p].u = run[p].u
          /\ \A q \in Policies \ {p}: run'[q] = run[q]
      BY <3>1 DEF Goto, TypeOK
    <3>3. step # "get" => run[p].u.fins = {Controller}
      BY <1>0, <1>2, <3>1 DEF Gate, Object, Finalizers
    <3>4. CopyInv(p)'
      BY <1>0, <1>2, <3>2 DEF Gate, RInv, CopyInv
    <3>5. step = "markDeleted" /\ p \in current => p \in waived
      BY <1>0, <1>2, <3>1 DEF Gate, RInv, CopyInv, RecordInv
    <3>6. DropInv(p)'
      BY <1>2, <3>1, <3>2, <3>3, <3>5 DEF Gate, DropInv, ghosts
    <3> QED BY <1>2, <3>2, <3>4, <3>6, OneMoves DEF Gate, ghosts
  <2> QED BY <2>1, <2>2
<1>3. CASE GetPolicy(p)
  <2>1. run[p].step \in {"get", "deleteGet"} /\ run[p].u \in Object
    BY <1>0, <1>3 DEF GetPolicy
  <2> DEFINE
    u == IF run[p].step = "get" THEN [run[p].u EXCEPT !.fins = Finalizers]
         ELSE run[p].u
    r == [step |-> IF run[p].step = "get" THEN "set" ELSE "deleteSet",
          u |-> u, live |-> policy]
  <2>2. run' = [run EXCEPT ![p] = r]
    BY <1>3 DEF GetPolicy
  <2>3. /\ r.step = IF run[p].step = "get" THEN "set" ELSE "deleteSet"
        /\ r.u = u
    OBVIOUS
  <2>4. /\ u.lastApplied = run[p].u.lastApplied /\ u.spec = run[p].u.spec
        /\ u.deleting = run[p].u.deleting /\ u.abandon = run[p].u.abandon
        /\ u.fins = IF run[p].step = "get" THEN Finalizers ELSE run[p].u.fins
    BY <2>1 DEF Object
  <2> HIDE DEF u, r
  <2>5. run'[p] = r /\ \A q \in Policies \ {p}: run'[q] = run[q]
    BY <2>2 DEF TypeOK
  <2>6. CopyInv(p)'
    BY <1>0, <1>3, <2>1, <2>3, <2>4, <2>5 DEF GetPolicy, RInv, CopyInv
  <2>7. DropInv(p)'
    BY <1>0, <2>1, <2>3, <2>4, <2>5 DEF RInv, DropInv
  <2> QED BY <1>3, <2>5, <2>6, <2>7, OneMoves DEF GetPolicy, ghosts
<1>4. CASE SetPolicyConflicts(p) \/ GetPolicyFails(p)
  <2>1. /\ run[p].step \in {"set", "deleteSet", "get", "deleteGet"}
        /\ Goto(p, "report")
        /\ UNCHANGED <<obj, current, owed, waived>>
    BY <1>4 DEF SetPolicyConflicts, GetPolicyFails, ghosts
  <2>2. /\ run'[p].step = "report" /\ run'[p].u = run[p].u
        /\ \A q \in Policies \ {p}: run'[q] = run[q]
    BY <2>1 DEF Goto, TypeOK
  <2>3. CopyInv(p)' /\ DropInv(p)'
    BY <1>0, <2>1, <2>2 DEF RInv, CopyInv, DropInv
  <2> QED BY <2>1, <2>2, <2>3, OneMoves
<1>5. CASE ReferenceIsGone(p)
  <2>1. /\ run[p].step = "deleteGet" /\ Goto(p, "markDeleted")
        /\ UNCHANGED <<obj, current, owed>> /\ waived' = waived \union {p}
    BY <1>5 DEF ReferenceIsGone
  <2>2. /\ run'[p].step = "markDeleted" /\ run'[p].u = run[p].u
        /\ \A q \in Policies \ {p}: run'[q] = run[q]
    BY <2>1 DEF Goto, TypeOK
  <2>3. CopyInv(p)' /\ DropInv(p)'
    BY <1>0, <2>1, <2>2 DEF RInv, CopyInv, DropInv
  <2> QED BY <2>1, <2>2, <2>3, OneMoves
<1> QED BY <1>1, <1>2, <1>3, <1>4, <1>5

\* SetPolicy takes out what was applied and is not specified any more, for
\* everyone who put it there.
LEMMA SetRevokes ==
  ASSUME TypeOK, PolicyInv, \A q \in Policies: RInv(q), NEW p \in Policies,
         SetPolicy(p) \/ SetPolicyFails(p)
  PROVE  \A q \in Policies: RInv(q)' /\ Revoked(q)
<1>0. /\ ReadInv(p) /\ RInv(p) /\ run[p] \in Run /\ run[p].u \in Object
      /\ run[p].step \in {"set", "deleteSet"}
      /\ UNCHANGED <<obj, current, waived>>
  BY DEF SetPolicy, SetPolicyFails, PolicyInv, ReadInv, TypeOK, Run
<1>1. \A q \in Policies \ {p}: owed'[q] \subseteq owed[q]
  BY DEF SetPolicy, SetPolicyFails, SetsPolicy, PolicyBecomes
<1>2. CASE Goto(p, "report")
  <2>1. /\ run'[p].step = "report" /\ run'[p].u = run[p].u
        /\ \A q \in Policies \ {p}: run'[q] = run[q]
    BY <1>2 DEF Goto, TypeOK
  <2>2. CopyInv(p)' /\ DropInv(p)'
    BY <1>0, <2>1 DEF RInv, CopyInv, DropInv
  <2> QED BY <1>0, <1>1, <2>1, <2>2, OneMoves
<1>3. CASE SetPolicy(p) /\ End(p)
  <2>1. run'[p] = Idle /\ \A q \in Policies \ {p}: run'[q] = run[q]
    BY <1>3 DEF End, TypeOK
  <2>2. CopyInv(p)' /\ DropInv(p)'
    BY <2>1, IdleInv
  <2> QED BY <1>0, <1>1, <2>1, <2>2, OneMoves
<1>4. CASE SetPolicy(p) /\ run[p].step = "set" /\ Goto(p, "update")
  <2>1. /\ run'[p].step = "update" /\ run'[p].u = run[p].u
        /\ \A q \in Policies \ {p}: run'[q] = run[q]
    BY <1>4 DEF Goto, TypeOK
  <2>2. (run[p].u.lastApplied \ run[p].u.spec) \intersect owed'[p] = {}
    BY <1>4 DEF SetPolicy, SetsPolicy, PolicyBecomes, DesiredPolicy, Merged
  <2>3. CopyInv(p)' /\ DropInv(p)'
    BY <1>0, <1>4, <2>1, <2>2 DEF RInv, CopyInv, DropInv
  <2> QED BY <1>0, <1>1, <2>1, <2>3, OneMoves
<1>5. CASE SetPolicy(p) /\ run[p].step = "deleteSet"
  <2> DEFINE u == [run[p].u EXCEPT !.lastApplied = {}]
             r == [run[p] EXCEPT !.step = "markDeleted", !.u = u]
  <2>1. /\ u.lastApplied = {} /\ u.deleting = run[p].u.deleting
        /\ u.fins = run[p].u.fins /\ u.abandon = run[p].u.abandon
    BY <1>0 DEF Object
  <2>2. run' = [run EXCEPT ![p] = r]
    BY <1>5 DEF SetPolicy, AfterSetPolicy
  <2> HIDE DEF u
  <2>3. r.step = "markDeleted" /\ r.u = u
    BY <1>0 DEF Run
  <2> HIDE DEF r
  <2>4. run'[p] = r /\ \A q \in Policies \ {p}: run'[q] = run[q]
    BY <2>2 DEF TypeOK
  <2>5. run[p].u.lastApplied \intersect owed'[p] = {}
    BY <1>5 DEF SetPolicy, SetsPolicy, PolicyBecomes, DesiredPolicy, Remaining
  <2>6. CopyInv(p)' /\ DropInv(p)'
    BY <1>0, <1>5, <2>1, <2>3, <2>4, <2>5 DEF RInv, CopyInv, DropInv
  <2> QED BY <1>0, <1>1, <2>4, <2>6, OneMoves
<1> QED
  BY <1>0, <1>2, <1>3, <1>4, <1>5 DEF SetPolicy, SetPolicyFails, AfterSetPolicy

\* A write that is not the last one.
LEMMA FirstWrite ==
  ASSUME TypeOK, NEW p \in Policies, \A q \in Policies: RInv(q), NEW new,
         NEW step, Write(p, new), Goto(p, step),
         UNCHANGED <<policy, etag, paused, ghosts>>,
         RecordInv(p)' /\ Revoked(p), CopyInv(p)', DropInv(p)'
  PROVE  \A q \in Policies: RInv(q)' /\ Revoked(q)
<1>1. \A q \in Policies \ {p}:
        obj'[q] = obj[q] /\ (q \in current' => q \in current)
  BY Outcomes
<1>2. \A q \in Policies \ {p}: run'[q] = run[q]
  BY DEF Goto, TypeOK
<1>3. ASSUME NEW q \in Policies \ {p} PROVE RInv(q)' /\ Revoked(q)
  BY <1>1, <1>2, <1>3, OtherRevokes DEF ghosts
<1> QED BY <1>3 DEF RInv

\* The writes of a reconcile.
LEMMA WriteRevokes ==
  ASSUME TypeOK, PolicyInv, \A q \in Policies: RInv(q), NEW p \in Policies,
         \/ UpdateAPIServer(p) \/ HandleUpToDate(p) \/ HandleFailed(p)
         \/ MarkDeleted(p) \/ Unfinalize(p) \/ HandleDefaultsFails(p)
  PROVE  \A q \in Policies: RInv(q)' /\ Revoked(q)
<1> USE DEF ghosts
<1>0. /\ ReadInv(p) /\ RInv(p) /\ run[p] \in Run
      /\ run[p].step # "idle" => run[p].u \in Object
      /\ p \in current => obj[p] \in Object
  BY DEF PolicyInv, ReadInv, TypeOK, Run
<1>1. CASE UpdateAPIServer(p)
  <2> DEFINE new == run[p].u
  <2>1. /\ run[p].step = "update" /\ new \in Object
        /\ ~new.deleting /\ new.fins = Finalizers
        /\ UNCHANGED <<policy, etag, paused, ghosts>>
    BY <1>0, <1>1 DEF UpdateAPIServer, RInv, DropInv
  <2>2. ASSUME p \in current, obj'[p] = Stored(new)
        PROVE  RecordInv(p)' /\ Revoked(p)
    <3>1. /\ new.lastApplied = obj[p].lastApplied
          /\ new.abandon => p \in waived
      BY <1>0, <2>1, <2>2 DEF RInv, CopyInv, RecordInv
    <3> QED BY <2>1, <2>2, <3>1, RecordWritten DEF Finalizers
  <2>3. CASE End(p)
    <3>1. Conflict(p) \/ WriteFails(p, new) \/ Write(p, new)
      BY <1>1 DEF UpdateAPIServer
    <3> QED BY <2>1, <2>2, <2>3, <3>1, LastWrite
  <2>4. CASE Write(p, new) /\ Goto(p, "upToDate")
    <3>1. p \in current /\ obj'[p] = Stored(new) /\ Stored(new) = new
      BY <2>1, <2>4 DEF Write, TypeOK, Stored
    <3>2. run'[p].step = "upToDate" /\ run'[p].u = run[p].u
      BY <2>4 DEF Goto, TypeOK
    <3>3. CopyInv(p)' /\ DropInv(p)'
      BY <1>0, <2>1, <3>1, <3>2, ObjectAssumption DEF RInv, CopyInv, DropInv
    <3> QED BY <2>1, <2>2, <2>4, <3>1, <3>3, FirstWrite
  <2> QED BY <1>1, <2>3, <2>4 DEF UpdateAPIServer
<1>2. CASE HandleUpToDate(p)
  <2> DEFINE new == [run[p].u EXCEPT !.lastApplied = run[p].u.spec,
                                     !.fresh = TRUE]
  <2>1. /\ run[p].step = "upToDate" /\ run[p].u \in Object
        /\ Write(p, new) \/ Conflict(p) \/ WriteFails(p, new)
        /\ UNCHANGED <<policy, etag, paused, ghosts>> /\ End(p)
    BY <1>0, <1>2 DEF HandleUpToDate
  <2>2. /\ new \in Object /\ new.deleting = run[p].u.deleting
        /\ new.fins = run[p].u.fins /\ new.abandon = run[p].u.abandon
        /\ new.lastApplied = run[p].u.spec
    BY <2>1 DEF Object
  <2> HIDE DEF new
  <2>3. ASSUME p \in current, obj'[p] = Stored(new)
        PROVE  RecordInv(p)' /\ Revoked(p)
    <3>1. /\ ~new.deleting /\ new.fins = Finalizers
          /\ run[p].u.lastApplied = obj[p].lastApplied
          /\ new.abandon => p \in waived
          /\ (obj[p].lastApplied \ new.lastApplied) \intersect owed[p] = {}
      BY <1>0, <2>1, <2>2, <2>3 DEF RInv, CopyInv, DropInv, RecordInv
    <3> QED BY <2>1, <2>2, <2>3, <3>1, RecordWritten DEF Finalizers
  <2> QED BY <2>1, <2>3, LastWrite
<1>3. CASE HandleFailed(p)
  <2> DEFINE new == [obj[p] EXCEPT !.fresh = FALSE]
  <2>1. /\ Write(p, new) \/ Conflict(p) \/ WriteFails(p, new)
        /\ UNCHANGED <<policy, etag, paused, ghosts>> /\ End(p)
    BY <1>3 DEF HandleFailed
  <2>2. ASSUME p \in current, obj'[p] = Stored(new)
        PROVE  RecordInv(p)' /\ Revoked(p)
    <3>1. /\ new \in Object /\ new.deleting = obj[p].deleting
          /\ new.fins = obj[p].fins /\ new.abandon = obj[p].abandon
          /\ new.lastApplied = obj[p].lastApplied
      BY <1>0, <2>2 DEF Object
    <3> HIDE DEF new
    <3>2. /\ new.fins \in IF new.deleting THEN {Finalizers, {Controller}}
                          ELSE {{}, Finalizers}
          /\ new.fins = {} => ~new.deleting /\ new.lastApplied = {}
          /\ new.abandon => p \in waived
      BY <1>0, <2>2, <3>1, ObjectAssumption DEF RInv, RecordInv, Finalizers
    <3> QED BY <2>1, <2>2, <3>1, <3>2, RecordWritten
  <2> HIDE DEF new
  <2> QED BY <2>1, <2>2, LastWrite
<1>6. CASE HandleDefaultsFails(p)
  <2>1. /\ Conflict(p) \/ WriteFails(p, obj[p])
        /\ UNCHANGED <<policy, etag, paused, ghosts>> /\ End(p)
    BY <1>6 DEF HandleDefaultsFails
  <2>2. ASSUME p \in current, obj'[p] = Stored(obj[p])
        PROVE  RecordInv(p)' /\ Revoked(p)
    <3>1. /\ obj[p].fins \in IF obj[p].deleting
                               THEN {Finalizers, {Controller}}
                             ELSE {{}, Finalizers}
          /\ obj[p].fins = {} => ~obj[p].deleting /\ obj[p].lastApplied = {}
          /\ obj[p].abandon => p \in waived
      BY <1>0, <2>2, ObjectAssumption DEF RInv, RecordInv, Finalizers
    <3> QED BY <1>0, <2>1, <2>2, <3>1, RecordWritten
  <2> QED BY <2>1, <2>2, LastWrite
<1>4. CASE MarkDeleted(p)
  <2> DEFINE new == [run[p].u EXCEPT !.fresh = FALSE]
  <2>1. /\ run[p].step = "markDeleted" /\ run[p].u \in Object
        /\ run[p].u.deleting /\ run[p].u.fins = {Controller}
        /\ UNCHANGED <<policy, etag, paused, ghosts>>
    BY <1>0, <1>4 DEF MarkDeleted, RInv, DropInv
  <2>2. /\ new \in Object /\ new.deleting /\ new.fins = {Controller}
        /\ new.abandon = run[p].u.abandon
        /\ new.lastApplied = run[p].u.lastApplied
    BY <2>1 DEF Object
  <2>3. \/ Write(p, new) /\ Goto(p, "unfinalize")
        \/ Conflict(p) /\ End(p)
        \/ WriteFails(p, new) /\ End(p)
    BY <1>4 DEF MarkDeleted
  <2> HIDE DEF new
  <2>4. ASSUME p \in current, obj'[p] = Stored(new)
        PROVE  RecordInv(p)' /\ Revoked(p)
    <3>1. /\ new.abandon => p \in waived
          /\ p \notin waived =>
               (obj[p].lastApplied \ new.lastApplied) \intersect owed[p] = {}
      BY <1>0, <2>1, <2>2, <2>4 DEF RInv, CopyInv, DropInv, RecordInv
    <3> QED BY <2>1, <2>2, <2>4, <3>1, RecordWritten
  <2>5. CASE End(p)
    BY <2>1, <2>3, <2>4, <2>5, LastWrite
  <2>6. CASE Write(p, new) /\ Goto(p, "unfinalize")
    <3>1. p \in current /\ obj'[p] = Stored(new) /\ Stored(new) = new
      BY <2>2, <2>6 DEF Write, TypeOK, Stored
    <3>2. run'[p].step = "unfinalize" /\ run'[p].u = run[p].u
      BY <2>6 DEF Goto, TypeOK
    <3>3. CopyInv(p)'
      BY <1>0, <2>1, <2>2, <3>1, <3>2, ObjectAssumption DEF RInv, CopyInv
    <3>4. DropInv(p)'
      BY <1>0, <2>1, <2>2, <3>1, <3>2 DEF RInv, DropInv
    <3> QED BY <2>1, <2>4, <2>6, <3>1, <3>3, <3>4, FirstWrite
  <2> QED BY <2>3, <2>5, <2>6
<1>5. CASE Unfinalize(p)
  <2> DEFINE new == [run[p].u EXCEPT !.fins = run[p].u.fins \ {Controller},
                                     !.fresh = FALSE]
  <2>1. /\ run[p].step = "unfinalize" /\ run[p].u \in Object
        /\ run[p].u.deleting /\ run[p].u.fins = {Controller}
        /\ Write(p, new) \/ Conflict(p) \/ WriteFails(p, new)
        /\ UNCHANGED <<policy, etag, paused, ghosts>> /\ End(p)
    BY <1>0, <1>5 DEF Unfinalize, RInv, DropInv
  <2>2. /\ new \in Object /\ new.deleting /\ new.fins = {}
        /\ new.abandon = run[p].u.abandon
        /\ new.lastApplied = run[p].u.lastApplied
    BY <2>1 DEF Object
  <2> HIDE DEF new
  <2>3. ASSUME p \in current, obj'[p] = Stored(new)
        PROVE  RecordInv(p)' /\ Revoked(p)
    <3>1. /\ new.abandon => p \in waived
          /\ p \notin waived => obj[p].lastApplied \intersect owed[p] = {}
      BY <1>0, <2>1, <2>2, <2>3 DEF RInv, CopyInv, DropInv, RecordInv
    <3> QED BY <2>1, <2>2, <2>3, <3>1, RecordWritten
  <2> QED BY <2>1, <2>3, LastWrite
<1> QED BY <1>1, <1>2, <1>3, <1>4, <1>5, <1>6

\* The defender and users make the copy stale; an object goes by their hand
\* only if nothing was recorded in it.
LEMMA OthersRevoke ==
  ASSUME TypeOK, PolicyInv, \A q \in Policies: RInv(q), NEW p \in Policies,
         \/ DefenderUpdate(p) \/ UserCreates(p) \/ UserEdits(p)
         \/ UserAbandons(p) \/ UserDeletes(p)
  PROVE  \A q \in Policies: RInv(q)' /\ Revoked(q)
<1> USE DEF ghosts
<1>0. RInv(p) /\ (obj[p] # NoObject => obj[p] \in Object)
  BY DEF TypeOK
<1>1. /\ UNCHANGED run /\ p \notin current' /\ current' \subseteq current
      /\ \A q \in Policies \ {p}:
           /\ obj'[q] = obj[q] /\ owed'[q] = owed[q]
           /\ q \in waived <=> q \in waived'
      /\ owed'[p] \subseteq owed[p]
  BY DEF DefenderUpdate, UserCreates, UserEdits, UserAbandons, UserDeletes,
         Overwrite, TypeOK
<1>2. ASSUME NEW q \in Policies \ {p} PROVE RInv(q)' /\ Revoked(q)
  BY <1>1, <1>2, OtherRevokes
<1>3. CopyInv(p)'
  BY <1>1 DEF CopyInv
<1>4. DropInv(p)'
  BY <1>0, <1>1 DEF RInv, DropInv
<1>5. RecordInv(p)' /\ Revoked(p)
  <2>1. CASE UserCreates(p)
    BY <2>1, ObjectAssumption
    DEF UserCreates, Overwrite, TypeOK, RecordInv, Revoked, Finalizers
  <2>2. CASE UserEdits(p)
    <3>1. PICK s \in Specs \ {obj[p].spec}:
            Overwrite(p, [obj[p] EXCEPT !.spec = s, !.fresh = FALSE])
      BY <2>2 DEF UserEdits
    <3> DEFINE n == [obj[p] EXCEPT !.spec = s, !.fresh = FALSE]
    <3>2. /\ obj[p] # NoObject /\ obj[p] \in Object /\ s \in SUBSET Grantable
          /\ UNCHANGED <<owed, waived>>
      BY <1>0, <2>2, PolicyAssumption DEF UserEdits
    <3>3. /\ n \in Object /\ n.fins = obj[p].fins
          /\ n.deleting = obj[p].deleting /\ n.abandon = obj[p].abandon
          /\ n.lastApplied = obj[p].lastApplied
      BY <3>2 DEF Object
    <3>4. obj'[p] = n
      BY <3>1 DEF Overwrite, TypeOK
    <3> HIDE DEF n
    <3> QED BY <1>0, <3>2, <3>3, <3>4, ObjectAssumption
            DEF RInv, RecordInv, Revoked
  <2>3. CASE UserAbandons(p)
    <3>1. /\ obj'[p].fins = obj[p].fins /\ obj'[p].deleting = obj[p].deleting
          /\ obj'[p].lastApplied = obj[p].lastApplied
          /\ obj[p] # NoObject /\ obj'[p] \in Object /\ p \in waived'
      BY <1>0, <2>3 DEF UserAbandons, Overwrite, TypeOK, Object
    <3> QED BY <1>0, <3>1, ObjectAssumption DEF RInv, RecordInv, Revoked
  <2>4. CASE UserDeletes(p)
    <3> DEFINE new == [obj[p] EXCEPT !.deleting = TRUE, !.fresh = FALSE]
    <3>1. /\ obj[p] # NoObject /\ ~obj[p].deleting /\ obj'[p] = Stored(new)
          /\ UNCHANGED <<owed, waived>>
      BY <2>4 DEF UserDeletes, Overwrite, TypeOK
    <3>2. /\ new \in Object /\ new.deleting /\ new.fins = obj[p].fins
          /\ new.abandon = obj[p].abandon
          /\ new.lastApplied = obj[p].lastApplied
      BY <1>0, <3>1 DEF Object
    <3> HIDE DEF new
    <3>3. /\ new.fins \in {Finalizers, {}}
          /\ new.fins = {} => obj[p].lastApplied = {}
          /\ new.abandon => p \in waived
      BY <1>0, <3>1, <3>2 DEF RInv, RecordInv
    <3> QED BY <3>1, <3>2, <3>3, RecordWritten
  <2>5. CASE DefenderUpdate(p)
    <3> DEFINE new == [obj[p] EXCEPT !.fins = obj[p].fins \ {Defender}]
    <3>1. /\ obj[p] # NoObject /\ obj[p].deleting /\ Defender \in obj[p].fins
          /\ obj'[p] = Stored(new) /\ UNCHANGED <<owed, waived>>
      BY <2>5 DEF DefenderUpdate, Overwrite, TypeOK
    <3>2. obj[p].fins = Finalizers
      BY <1>0, <3>1 DEF RInv, RecordInv, Controller, Defender
    <3>3. /\ new \in Object /\ new.deleting /\ new.fins = {Controller}
          /\ new.abandon = obj[p].abandon
          /\ new.lastApplied = obj[p].lastApplied
      BY <1>0, <3>1, <3>2 DEF Object, Finalizers, Controller, Defender
    <3> HIDE DEF new
    <3>4. new.abandon => p \in waived
      BY <1>0, <3>1, <3>3 DEF RInv, RecordInv
    <3> QED BY <3>1, <3>3, <3>4, RecordWritten
  <2> QED BY <2>1, <2>2, <2>3, <2>4, <2>5
<1> QED BY <1>2, <1>3, <1>4, <1>5 DEF RInv

\* Every step keeps RevokeInv, and drops nothing that is still granted.
LEMMA RevokeStep ==
  ASSUME TypeOK, PolicyInv, RevokeInv, [Next]_vars
  PROVE  \A q \in Policies: RInv(q)' /\ Revoked(q)
<1> USE DEF ghosts
<1>0. \A q \in Policies: RInv(q)
  BY DEF RevokeInv, RInv
<1>1. CASE Restart
  <2>1. \A q \in Policies: run'[q] = Idle
    BY <1>1 DEF Restart
  <2>2. ASSUME NEW q \in Policies PROVE RInv(q)' /\ Revoked(q)
    BY <1>0, <1>1, <2>1, <2>2, IdleInv, RecordStays DEF Restart, RInv
  <2> QED BY <2>2
<1>2. CASE AdminConfigures \/ UNCHANGED vars
  BY <1>0, <1>2, OtherRevokes DEF AdminConfigures, vars
<1>3. ASSUME NEW b \in Grantable, ForeignAdds(b) \/ ForeignRemoves(b)
      PROVE  \A q \in Policies: RInv(q)' /\ Revoked(q)
  BY <1>0, <1>3, OtherRevokes DEF ForeignAdds, ForeignRemoves, TypeOK
<1> QED
  BY <1>0, <1>1, <1>2, <1>3, ReadRevokes, SetRevokes, WriteRevokes, OthersRevoke
  DEF Next, Works, Disturbs, Reconcile

(***************************************************************************)
(* Between SetPolicy and the writes that follow it, whatever a reconcile   *)
(* is about to drop from lastAppliedBindings is out of the policy.         *)
(***************************************************************************)
THEOREM RevokeInvariance == Spec => []RevokeInv
<1>1. Init => RevokeInv
  BY IdleType DEF Init, RevokeInv, RecordInv, CopyInv, DropInv
<1>2. TypeOK /\ PolicyInv /\ RevokeInv /\ [Next]_vars => RevokeInv'
  BY RevokeStep DEF RevokeInv, RInv
<1> QED BY <1>1, <1>2, PolicyInvariance, PTL DEF Spec

(***************************************************************************)
(* No binding leaves lastAppliedBindings, alone or with its object, while  *)
(* the object's grant of it is in the policy, unless the object was told   *)
(* to let go: with any number of objects, edits at any moment, conflicts,  *)
(* lost answers and restarts.                                              *)
(***************************************************************************)
THEOREM RecordedRevoked == Spec => RecordedIsRevoked
<1> DEFINE AllRevoked ==
      \A p \in Policies:
        obj[p] # NoObject /\ p \notin waived' =>
          LET kept == IF obj'[p] = NoObject THEN {} ELSE obj'[p].lastApplied
          IN  (obj[p].lastApplied \ kept) \intersect owed'[p] = {}
<1>1. TypeOK /\ PolicyInv /\ RevokeInv /\ [Next]_vars => AllRevoked
  BY RevokeStep DEF Revoked
<1>2. TypeOK /\ PolicyInv /\ RevokeInv /\ [Next]_vars => [AllRevoked]_vars
  BY <1>1
<1> QED
  BY <1>2, PolicyInvariance, RevokeInvariance, PTL DEF Spec, RecordedIsRevoked

=============================================================================
