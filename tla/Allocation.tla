----------------------------- MODULE Allocation -----------------------------
(***************************************************************************)
(* allocate_counts of corpus/build_corpus.py: `total` documents over the   *)
(* scenarios, by the largest-remainder method.                             *)
(*                                                                         *)
(* The code computes with floats.  An exact quota is weight * total / W, W *)
(* the sum of the weights; here quotas are integers counted in fractions   *)
(* 1/(W * Ulp), and the product the code gets is the exact one or the one  *)
(* next to it.  Equal weights give equal products.  Only a quota next to a *)
(* whole number can have the wrong floor, which is the case that matters.  *)
(***************************************************************************)
EXTENDS Integers, Sequences, FiniteSets, Functions

\* Steps of rounding between two neighbouring quotas of the same W.
Ulp == 8

Total(f) == FoldFunction(+, 0, f)

Rounding == {-1, 0, 1}

\* w * total, for weights already divided by their sum.  Zero is exact.
RawQuotas(total, weights, rounding) ==
    [i \in DOMAIN weights |->
        IF weights[i] * total = 0 THEN 0
        ELSE weights[i] * total * Ulp + rounding[weights[i]]]

\* Mutant: sorted without reverse.
SmallestFirst(fracs, i) ==
    {k \in DOMAIN fracs : \/ fracs[k] < fracs[i]
                          \/ fracs[k] = fracs[i] /\ k < i}

\* The scenarios before i in `fracs`: sorted() is stable, in reverse too.
Ahead(fracs, i) ==
    {k \in DOMAIN fracs : \/ fracs[k] > fracs[i]
                          \/ fracs[k] = fracs[i] /\ k < i}

\* `unit` is one document, counted like the quotas.
AllocateCounts(total, raw, unit) ==
    LET floors == [i \in DOMAIN raw |-> raw[i] \div unit]
        fracs == [i \in DOMAIN raw |-> raw[i] % unit]
        remainder == total - Total(floors)
    IN [i \in DOMAIN raw |->
           floors[i] + IF Cardinality(Ahead(fracs, i)) < remainder THEN 1 ELSE 0]

\* The allocations that rounding may lead to.
Allocations(total, weights) ==
    {AllocateCounts(total, RawQuotas(total, weights, rounding), Total(weights) * Ulp) :
        rounding \in [{weights[i] : i \in DOMAIN weights} -> Rounding]}

-----------------------------------------------------------------------------
(* The reference: a share is fair when it is the exact quota, rounded down *)
(* or up, and the shares add up.                                           *)

Ceiling(a, b) == -((-a) \div b)

IsFairShare(counts, total, weights) ==
    LET sum == Total(weights) IN
    /\ Total(counts) = total
    /\ \A i \in DOMAIN counts :
          /\ counts[i] >= (weights[i] * total) \div sum
          /\ counts[i] <= Ceiling(weights[i] * total, sum)
=============================================================================
