------------------------------ MODULE Bindings ------------------------------
(***************************************************************************)
(* pkg/controller/iam/partialpolicy/bindings.go: how the bindings a user   *)
(* specifies are merged into, and taken out of, a live IAM policy.         *)
(*                                                                         *)
(* A slice of bindings is a set here: the code sorts what it returns, and  *)
(* the order of maps it iterates over is arbitrary.  A key stands for role *)
(* and condition; several bindings of a slice may have the same key.       *)
(***************************************************************************)
CONSTANT Slices   \* the slices that are computed with

Binding(Keys, Members) == [key: Keys, members: SUBSET Members]

\* What a slice means: who is granted what.
Grants(slice) == UNION {{<<b.key, m>> : m \in b.members} : b \in slice}

-----------------------------------------------------------------------------
KeysOf(slice) == {b.key : b \in slice}

\* The bindings of a slice by key, with mergeMembers for equal keys.
mergeBindings(slice) ==
  [k \in KeysOf(slice) |-> UNION {b.members : b \in {c \in slice : c.key = k}}]

\* The slip: bindings without members are sent along.
NonEmptyOrNot(map) == {[key |-> k, members |-> map[k]] : k \in DOMAIN map}

\* The bindings of such a map that have members.
NonEmpty(map) ==
  {[key |-> k, members |-> map[k]] : k \in {j \in DOMAIN map : map[j] # {}}}

mergeBindingSlices(slice1, slice2) ==
  NonEmpty(mergeBindings(slice1 \union slice2))

\* What was applied last and is not specified any more.
computeDeletedMembersPerBinding(bindings, lastApplied) ==
  LET bindingMap == mergeBindings(bindings)
      lastMap    == mergeBindings(lastApplied)
      removed(k) == IF k \in DOMAIN bindingMap
                      THEN lastMap[k] \ bindingMap[k]
                      ELSE lastMap[k]
  IN  {[key |-> k, members |-> removed(k)] :
         k \in {j \in DOMAIN lastMap :
                  j \in DOMAIN bindingMap => removed(j) # {}}}

\* The slip: a member is removed from every role.
removeMembersOfAnyBinding(bindings, deleted) ==
  LET bindingMap == mergeBindings(bindings)
  IN  NonEmpty([k \in DOMAIN bindingMap |->
        bindingMap[k] \ UNION {b.members : b \in deleted}])

removeMembersPerBinding(bindings, deleted) ==
  LET bindingMap == mergeBindings(bindings)
  IN  NonEmpty([k \in DOMAIN bindingMap |->
        bindingMap[k] \ UNION {b.members : b \in {c \in deleted : c.key = k}}])

\* ConvertIAMPartialBindingsToIAMPolicyBindings, members being resolved.
Specified(slice) == NonEmpty(mergeBindings(slice))

\* The slip: what is removed is computed from the live policy, so that what
\* others granted goes too.
ComputePartialPolicyFromLive(spec, live, lastApplied) ==
  removeMembersPerBinding(
    mergeBindingSlices(Specified(spec), live),
    computeDeletedMembersPerBinding(Specified(spec), live))

\* ComputePartialPolicyWithMergedBindings: status.allBindings
ComputePartialPolicyWithMergedBindings(spec, live, lastApplied) ==
  removeMembersPerBinding(
    mergeBindingSlices(Specified(spec), live),
    computeDeletedMembersPerBinding(Specified(spec), lastApplied))

\* ComputePartialPolicyWithRemainingBindings: status.allBindings
ComputePartialPolicyWithRemainingBindings(live, lastApplied) ==
  removeMembersPerBinding(live, lastApplied)

-----------------------------------------------------------------------------
(***************************************************************************)
(* The reference: what the two computations mean in terms of grants.       *)
(***************************************************************************)
Merged(spec, live, lastApplied) ==
  (spec \union live) \ (lastApplied \ spec)

Remaining(live, lastApplied) == live \ lastApplied

(***************************************************************************)
(* The merge grants what is specified and what others granted, and takes   *)
(* back exactly what was applied before and is not specified any more.     *)
(***************************************************************************)
MergeIsExact ==
  \A spec, live, last \in Slices:
    Grants(ComputePartialPolicyWithMergedBindings(spec, live, last))
      = Merged(Grants(spec), Grants(live), Grants(last))

(***************************************************************************)
(* A deletion takes back exactly what was applied last.                    *)
(***************************************************************************)
RemainderIsExact ==
  \A live, last \in Slices:
    Grants(ComputePartialPolicyWithRemainingBindings(live, last))
      = Remaining(Grants(live), Grants(last))

\* What is sent to GCP has one binding per role and condition, with members.
OneBindingPerKey(slice) ==
  \A b, c \in slice: b.members # {} /\ (b.key = c.key => b = c)

(***************************************************************************)
(* SetPolicy is never given two bindings for the same role and condition,  *)
(* nor one without members, which GCP would reject or reorder.             *)
(***************************************************************************)
PolicyIsCanonical ==
  \A spec, live, last \in Slices:
    /\ OneBindingPerKey(
         ComputePartialPolicyWithMergedBindings(spec, live, last))
    /\ OneBindingPerKey(
         ComputePartialPolicyWithRemainingBindings(live, last))

=============================================================================
