------------------------------- MODULE OrderFacts ------------------------------
(* Facts about the order of a queue, which enqueued_at, eligible_since and      *)
(* ticket give the rows of `jobs` (scheduler.py): what moving rows to the tail  *)
(* does to it, and that a queue which is not empty has a first row.             *)
EXTENDS FiniteSetTheorems, TLAPS

StrictOrder(R, S) ==
    /\ R \in SUBSET (S \X S)
    /\ \A x \in S : <<x, x>> \notin R
    /\ \A x, y, z \in S : <<x, y>> \in R /\ <<y, z>> \in R => <<x, z>> \in R

(* Some element of a non-empty part of a finite set has nothing of that part in *)
(* front of it.  The sets of predecessors are finite, so one of them is the     *)
(* least; a predecessor within the part would have a lesser one.                *)
LEMMA OrderHasFirst ==
    ASSUME NEW S, IsFiniteSet(S), NEW R, StrictOrder(R, S),
           NEW T, T \subseteq S, T # {}
    PROVE  \E x \in T : \A y \in T : <<y, x>> \notin R
<1> DEFINE before(x) == {y \in S : <<y, x>> \in R}
           family == {before(x) : x \in T}
<1>1. IsWellFoundedOn(StrictSubsetOrdering(S), SUBSET S)
  BY FS_StrictSubsetOrderingWellFounded, FS_FiniteSubsetsOfFinite
<1>2. family \subseteq SUBSET S /\ family # {}
  OBVIOUS
<1> HIDE DEF family
<1>3. PICK least \in family : \A other \in family : <<other, least>> \notin StrictSubsetOrdering(S)
  BY <1>1, <1>2, WFMin
<1>4. PICK x \in T : least = before(x)
  BY <1>3 DEF family
<1>5. ASSUME NEW y \in T, <<y, x>> \in R PROVE FALSE
  <2>1. before(y) \subseteq before(x)
    BY <1>5 DEF StrictOrder
  <2>2. y \in before(x) /\ y \notin before(y)
    BY <1>5 DEF StrictOrder
  <2>3. before(y) \in family /\ before(x) \in SUBSET S /\ before(y) \in SUBSET S
    BY DEF family
  <2> HIDE DEF before
  <2>4. <<before(y), before(x)>> \in StrictSubsetOrdering(S)
    BY <2>1, <2>2, <2>3 DEF StrictSubsetOrdering
  <2> QED
    BY <1>3, <1>4, <2>3, <2>4
<1> QED
  BY <1>5

(* Moving rows behind all others, in their own order, leaves a queue in order.  *)
LEMMA TailKeepsOrder ==
    ASSUME NEW S, NEW R, StrictOrder(R, S), NEW M, M \subseteq S
    PROVE  StrictOrder({p \in R : p[1] \in M => p[2] \in M} \cup ((S \ M) \X M), S)
<1> DEFINE new == {p \in R : p[1] \in M => p[2] \in M} \cup ((S \ M) \X M)
<1>1. \A x, y \in S : (<<x, y>> \in new) <=>
          \/ <<x, y>> \in R /\ (x \in M => y \in M)
          \/ x \notin M /\ y \in M
  OBVIOUS
<1>2. new \in SUBSET (S \X S)
  BY DEF StrictOrder
<1> HIDE DEF new
<1>3. \A x \in S : <<x, x>> \notin new
  BY <1>1 DEF StrictOrder
<1>4. \A x, y, z \in S : <<x, y>> \in new /\ <<y, z>> \in new => <<x, z>> \in new
  BY <1>1 DEF StrictOrder
<1>5. StrictOrder(new, S)
  BY <1>2, <1>3, <1>4 DEF StrictOrder
<1> QED
  BY <1>5 DEF new

(* Moving one row behind all others does.                                       *)
LEMMA LastKeepsOrder ==
    ASSUME NEW S, NEW R, StrictOrder(R, S), NEW s \in S
    PROVE  StrictOrder({p \in R : p[1] # s} \cup {<<k, s>> : k \in S \ {s}}, S)
<1> DEFINE new == {p \in R : p[1] # s} \cup {<<k, s>> : k \in S \ {s}}
<1>1. \A x, y \in S : <<x, y>> \in new <=> x # s /\ (<<x, y>> \in R \/ y = s)
  OBVIOUS
<1>2. new \in SUBSET (S \X S)
  BY DEF StrictOrder
<1> HIDE DEF new
<1>3. StrictOrder(new, S)
  BY <1>1, <1>2 DEF StrictOrder
<1> QED
  BY <1>3 DEF new

(* Any two elements are in order.                                               *)
TotalOrder(R, S) ==
    /\ StrictOrder(R, S)
    /\ \A x, y \in S : x # y => <<x, y>> \in R \/ <<y, x>> \in R

(* Moving rows behind all others leaves any two in order.                       *)
LEMMA TailKeepsTotal ==
    ASSUME NEW S, NEW R, TotalOrder(R, S), NEW M, M \subseteq S
    PROVE  TotalOrder({p \in R : p[1] \in M => p[2] \in M} \cup ((S \ M) \X M), S)
<1> DEFINE new == {p \in R : p[1] \in M => p[2] \in M} \cup ((S \ M) \X M)
<1>1. StrictOrder(new, S)
  BY TailKeepsOrder DEF TotalOrder
<1>2. \A x, y \in S : (<<x, y>> \in new) <=>
          \/ <<x, y>> \in R /\ (x \in M => y \in M)
          \/ x \notin M /\ y \in M
  OBVIOUS
<1> HIDE DEF new
<1>3. TotalOrder(new, S)
  BY <1>1, <1>2 DEF TotalOrder
<1> QED
  BY <1>3 DEF new

(* The number of elements in front of one grows along the order.                *)
LEMMA RankFollowsOrder ==
    ASSUME NEW S, IsFiniteSet(S), NEW R, TotalOrder(R, S), NEW x \in S, NEW y \in S
    PROVE  /\ Cardinality({z \in S : <<z, x>> \in R}) \in Nat
           /\ (<<x, y>> \in R <=>
                 Cardinality({z \in S : <<z, x>> \in R}) < Cardinality({z \in S : <<z, y>> \in R}))
<1> DEFINE before(e) == {z \in S : <<z, e>> \in R}
<1>1. ASSUME NEW e \in S
      PROVE  before(e) \in SUBSET S /\ IsFiniteSet(before(e)) /\ Cardinality(before(e)) \in Nat
  BY FS_Subset, FS_CardinalityType
<1>2. ASSUME NEW e \in S, NEW f \in S, <<e, f>> \in R
      PROVE  Cardinality(before(e)) < Cardinality(before(f))
  <2>1. before(e) \in SUBSET before(f)
    BY <1>2 DEF TotalOrder, StrictOrder
  <2>2. e \in before(f) /\ e \notin before(e)
    BY <1>2 DEF TotalOrder, StrictOrder
  <2> HIDE DEF before
  <2>3. /\ Cardinality(before(e)) <= Cardinality(before(f))
        /\ Cardinality(before(e)) # Cardinality(before(f))
    BY <1>1, <2>1, <2>2, FS_Subset
  <2> QED
    BY <1>1, <2>3
<1> HIDE DEF before
<1>3. <<x, y>> \in R <=> Cardinality(before(x)) < Cardinality(before(y))
  <2>1. CASE x = y
    BY <1>1, <2>1 DEF TotalOrder, StrictOrder
  <2>2. CASE x # y
    <3>1. <<x, y>> \in R \/ <<y, x>> \in R
      BY <2>2 DEF TotalOrder
    <3>2. Cardinality(before(x)) \in Nat /\ Cardinality(before(y)) \in Nat
      BY <1>1
    <3>3. <<x, y>> \in R => Cardinality(before(x)) < Cardinality(before(y))
      BY <1>2
    <3>4. <<y, x>> \in R => Cardinality(before(y)) < Cardinality(before(x))
      BY <1>2
    <3> QED
      BY <3>1, <3>2, <3>3, <3>4
  <2> QED
    BY <2>1, <2>2
<1> QED
  BY <1>1, <1>3 DEF before
================================================================================
