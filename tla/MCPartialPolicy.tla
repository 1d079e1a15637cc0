--------------------------- MODULE MCPartialPolicy ---------------------------
(***************************************************************************)
(* Instances of PartialPolicy and Bindings.                                *)
(***************************************************************************)
EXTENDS PartialPolicy, Naturals, FiniteSets, TLC

\* What objects specify, the same role for another member, and another role
\* for the same member.
mine == <<"k1", "m1">>
Pairs == {mine, <<"k1", "m2">>, <<"k2", "m1">>}

\* Objects specify one binding or none; the others are only granted directly.
OneOrNone == {{}, {mine}}

\* Objects all specify the same binding, which is all there is.
One  == {{mine}}
Mine == {mine}

\* Up to two bindings over two keys and two members: repeated keys, equal
\* members of different keys, and bindings without members.
SmallSlices ==
  {s \in SUBSET Binding({"k1", "k2"}, {"m1", "m2"}) : Cardinality(s) <= 2}

PolicySymmetry == Permutations(Policies)

=============================================================================
