---------------------------- MODULE MCModelStore ----------------------------
(* Instances of the model store for TLC: two published models, and the model *)
(* a create derives from either, which keeps its blobs but one.              *)
EXTENDS StoreRefines, Naturals, FiniteSets, TLC

CONSTANTS na, nb, nd,          \* names
          ma, mb, md,       \* manifests
          w, x, c           \* blobs: weights, other weights, a new config

\* Three models that share weights, two of them with a blob of their own.
SharedBlobs == (ma :> {w}) @@ (mb :> {w, x}) @@ (md :> {w, c})
\* The registry's author republishes the tag of na, or never does.
Republished == (na :> {ma, md}) @@ (nb :> {mb})
Published   == (na :> {ma}) @@ (nb :> {mb})
Derive  == [m \in {ma, mb, md} |-> md]
BInstalled == (na :> None) @@ (nb :> mb)
Nothing == [n \in {na, nb} |-> None]
BFromA  == {<<nb, na>>}
AToB    == {<<na, nb>>}
NoPairs == {}
PinnedA == {<<na, ma>>}

\* Partial files nobody works on, other files nobody works on, calls left to come.
LeftPartial ==
    {b \in Blob : partial[b] # "absent" /\ \A o \in Op : ops[o].at \in Fetching => ops[o].blob # b}
Left ==
    {b \in Blob : made[b] # "absent" /\ \A o \in Op : ops[o].at \in Making => ops[o].blob # b}
    \cup {n \in Name : temp[n] # None /\ \A o \in Op : ops[o].at \in Installing => ops[o].name # n}
    \cup stale \cup late

\* What the store asks of its users, and a bound: one of each at most.
Bounded == Cardinality(Left) <= 1 /\ Cardinality(LeftPartial) <= 1 /\ Apart

Symmetry == Permutations(Op)
=============================================================================
