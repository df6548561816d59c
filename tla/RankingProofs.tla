---------------------------- MODULE RankingProofs ----------------------------
(***************************************************************************)
(* A ranked set is a sequence of its elements, each once and in the order  *)
(* asked for, whenever that order puts any two of them one after the       *)
(* other.  Ranks are told apart by the order and are as many as the        *)
(* elements, so each is somebody's.                                        *)
(***************************************************************************)
EXTENDS Ranking, FiniteSetTheorems, SequenceTheorems, WellFoundedInduction, TLAPS

-----------------------------------------------------------------------------
(* Least counterexamples, of numbers and of finite sets.                   *)

LEMMA LeastNumber ==
  ASSUME NEW S \in SUBSET Nat, S # {}
  PROVE  \E x \in S : \A y \in S : x <= y
<1>1. PICK x \in S : \A y \in S : ~ (<<y, x>> \in OpToRel(<, Nat))
  BY WFMin, NatLessThanWellFounded
<1>2. \A y \in S : ~ (y < x)
  BY <1>1 DEF OpToRel
<1>3. QED
  BY <1>2

\* Among sets that are wrong, one of which no proper part is.
LEMMA MinimalSubset ==
  ASSUME NEW S, IsFiniteSet(S), NEW Bad \in SUBSET SUBSET S, Bad # {}
  PROVE  \E T \in Bad : \A x \in T : T \ {x} \notin Bad
<1>1. \A T \in Bad : IsFiniteSet(T) /\ Cardinality(T) \in Nat
  BY FS_Subset, FS_CardinalityType
<1>2. {Cardinality(T) : T \in Bad} \in SUBSET Nat /\ {Cardinality(T) : T \in Bad} # {}
  BY <1>1
<1>3. PICK n \in {Cardinality(T) : T \in Bad} : \A k \in {Cardinality(T) : T \in Bad} : n <= k
  BY <1>2, LeastNumber
<1>4. PICK T \in Bad : n = Cardinality(T)
  BY <1>3
<1>5. ASSUME NEW x \in T, T \ {x} \in Bad PROVE FALSE
  <2>1. Cardinality(T \ {x}) = Cardinality(T) - 1
    BY <1>1, <1>5, FS_RemoveElement
  <2>2. n <= Cardinality(T \ {x})
    BY <1>3, <1>5
  <2>3. n \in Nat
    BY <1>1, <1>4
  <2>4. QED
    BY <1>4, <2>1, <2>2, <2>3
<1>6. QED
  BY <1>5

-----------------------------------------------------------------------------
(* Ranks.                                                                  *)

IsOrder(order, S) ==
  /\ \A x \in S : <<x, x>> \notin order
  /\ \A x, y \in S : x = y \/ <<x, y>> \in order \/ <<y, x>> \in order
  /\ \A x, y, z \in S : <<x, y>> \in order /\ <<y, z>> \in order => <<x, z>> \in order

LEMMA RanksAreNumbers ==
  ASSUME NEW S, NEW order, IsFiniteSet(S), IsOrder(order, S), NEW x \in S
  PROVE  /\ IsFiniteSet(Preceding(order, S, x))
         /\ Cardinality(Preceding(order, S, x)) \in 0 .. Cardinality(S) - 1
<1>1. Preceding(order, S, x) \subseteq S \ {x}
  BY DEF Preceding, IsOrder
<1>2. /\ IsFiniteSet(S \ {x}) /\ Cardinality(S \ {x}) = Cardinality(S) - 1
      /\ Cardinality(S) \in Nat
  BY FS_RemoveElement, FS_CardinalityType
<1>3. /\ IsFiniteSet(Preceding(order, S, x))
      /\ Cardinality(Preceding(order, S, x)) <= Cardinality(S \ {x})
  BY <1>1, <1>2, FS_Subset
<1>4. Cardinality(Preceding(order, S, x)) \in Nat
  BY <1>3, FS_CardinalityType
<1>5. QED
  BY <1>2, <1>3, <1>4

LEMMA RanksFollowTheOrder ==
  ASSUME NEW S, NEW order, IsFiniteSet(S), IsOrder(order, S),
         NEW x \in S, NEW y \in S, <<x, y>> \in order
  PROVE  Cardinality(Preceding(order, S, x)) < Cardinality(Preceding(order, S, y))
<1> DEFINE X == Preceding(order, S, x)
           Y == Preceding(order, S, y)
<1>1. X \cup {x} \subseteq Y /\ x \notin X
  BY DEF Preceding, IsOrder
<1>2. IsFiniteSet(X) /\ IsFiniteSet(Y) /\ Cardinality(X) \in Nat /\ Cardinality(Y) \in Nat
  BY RanksAreNumbers
<1> HIDE DEF X, Y
<1>3. Cardinality(X \cup {x}) = Cardinality(X) + 1
  BY <1>1, <1>2, FS_AddElement
<1>4. Cardinality(X \cup {x}) <= Cardinality(Y)
  BY <1>1, <1>2, FS_Subset
<1>5. QED
  BY <1>2, <1>3, <1>4 DEF X, Y

LEMMA EveryRankIsTaken ==
  ASSUME NEW S, NEW order, IsFiniteSet(S), IsOrder(order, S),
         NEW k \in 0 .. Cardinality(S) - 1
  PROVE  \E x \in S : Cardinality(Preceding(order, S, x)) = k
<1> DEFINE n == Cardinality(S)
           T == 0 .. n - 1
<1>1. PICK rank : rank = [x \in S |-> Cardinality(Preceding(order, S, x))]
  OBVIOUS
<1>2. \A x \in S : rank[x] = Cardinality(Preceding(order, S, x)) /\ rank[x] \in T
  BY <1>1, RanksAreNumbers
<1>3. \A x, y \in S : <<x, y>> \in order => rank[x] < rank[y]
  BY <1>2, RanksFollowTheOrder
<1>4. n \in Nat
  BY FS_CardinalityType
<1>5. rank \in [S -> T]
  BY <1>1, <1>2
<1>6. ASSUME NEW x \in S, NEW y \in S, x # y
      PROVE  rank[x] # rank[y]
  <2>1. rank[x] < rank[y] \/ rank[y] < rank[x]
    BY <1>3, <1>6 DEF IsOrder
  <2>2. rank[x] \in Int /\ rank[y] \in Int
    BY <1>2, <1>4
  <2>3. QED
    BY <2>1, <2>2
<1>7. rank \in Injection(S, T)
  BY <1>5, <1>6 DEF Injection, IsInjective
<1>8. IsFiniteSet(T) /\ Cardinality(T) = n
  BY <1>4, FS_Interval
<1>9. rank \in Surjection(S, T)
  BY <1>7, <1>8, FS_Injection
<1>10. PICK x \in S : rank[x] = k
  BY <1>9 DEF Surjection
<1>11. QED
  BY <1>2, <1>10

\* What the queries that sort rely on: all rows, each once, in the order.
THEOREM RankedIsSorted ==
  ASSUME NEW S, NEW order, IsFiniteSet(S), IsOrder(order, S)
  PROVE  /\ Ranked(S, order) \in Seq(S)
         /\ Len(Ranked(S, order)) = Cardinality(S)
         /\ \A x \in S : \E i \in DOMAIN Ranked(S, order) : Ranked(S, order)[i] = x
         /\ \A i, j \in DOMAIN Ranked(S, order) :
              i < j => <<Ranked(S, order)[i], Ranked(S, order)[j]>> \in order
<1>1. PICK n \in Nat : n = Cardinality(S)
  BY FS_CardinalityType
<1>2. PICK s : s = Ranked(S, order)
  OBVIOUS
<1>3. DOMAIN s = 1 .. n
  BY <1>1, <1>2 DEF Ranked
<1>4. ASSUME NEW i \in 1 .. n
      PROVE  s[i] \in S /\ Cardinality(Preceding(order, S, s[i])) = i - 1
  <2>1. \E x \in S : Cardinality(Preceding(order, S, x)) = i - 1
    BY <1>1, EveryRankIsTaken
  <2>2. s[i] = CHOOSE x \in S : Cardinality(Preceding(order, S, x)) = i - 1
    BY <1>1, <1>2 DEF Ranked
  <2>3. QED
    BY <2>1, <2>2
<1>5. s \in [1 .. n -> S]
  <2>1. s = [i \in 1 .. n |-> s[i]]
    BY <1>1, <1>2 DEF Ranked
  <2>2. QED
    BY <2>1, <1>4
<1>6. s \in Seq(S) /\ Len(s) = n
  BY <1>5
<1>7. ASSUME NEW x \in S, NEW y \in S, ~ (<<x, y>> \in order)
      PROVE  Cardinality(Preceding(order, S, y)) <= Cardinality(Preceding(order, S, x))
  <2>1. /\ Cardinality(Preceding(order, S, x)) \in Nat
        /\ Cardinality(Preceding(order, S, y)) \in Nat
    BY RanksAreNumbers
  <2>2. CASE x = y
    BY <2>1, <2>2
  <2>3. CASE <<y, x>> \in order
    BY <2>1, <2>3, RanksFollowTheOrder
  <2>4. QED
    BY <1>7, <2>2, <2>3 DEF IsOrder
<1>8. \A i, j \in 1 .. n : i < j => <<s[i], s[j]>> \in order
  BY <1>4, <1>7
<1>9. ASSUME NEW x \in S
      PROVE  \E i \in 1 .. n : s[i] = x
  <2>1. PICK k \in 0 .. n - 1 : k = Cardinality(Preceding(order, S, x))
    BY <1>1, RanksAreNumbers
  <2>2. k + 1 \in 1 .. n /\ s[k + 1] \in S /\ Cardinality(Preceding(order, S, s[k + 1])) = k
    BY <2>1, <1>4
  <2>3. s[k + 1] = x
    <3>1. SUFFICES ASSUME s[k + 1] # x PROVE FALSE
      OBVIOUS
    <3>2. CASE <<s[k + 1], x>> \in order
      BY <2>1, <2>2, <3>2, RanksFollowTheOrder
    <3>3. CASE <<x, s[k + 1]>> \in order
      BY <2>1, <2>2, <3>3, RanksFollowTheOrder
    <3>4. QED
      BY <2>2, <3>1, <3>2, <3>3 DEF IsOrder
  <2>4. QED
    BY <2>2, <2>3
<1>10. QED
  BY <1>1, <1>2, <1>3, <1>6, <1>8, <1>9

\* The same for ids, which are numbers.
THEOREM AscendingIsSorted ==
  ASSUME NEW ids \in SUBSET Nat, IsFiniteSet(ids)
  PROVE  /\ Ascending(ids) \in Seq(ids)
         /\ Len(Ascending(ids)) = Cardinality(ids)
         /\ \A x \in ids : \E i \in DOMAIN Ascending(ids) : Ascending(ids)[i] = x
         /\ \A i, j \in DOMAIN Ascending(ids) :
              i < j => Ascending(ids)[i] < Ascending(ids)[j]
<1>1. PICK order : order = {pair \in ids \X ids : pair[1] < pair[2]}
  OBVIOUS
<1>2. \A x, y \in ids : <<x, y>> \in order <=> x < y
  BY <1>1
<1>3. IsOrder(order, ids)
  BY <1>2 DEF IsOrder
<1>4. PICK s : s = Ascending(ids)
  OBVIOUS
<1>5. s = Ranked(ids, order)
  BY <1>1, <1>4 DEF Ascending
<1>6. /\ s \in Seq(ids) /\ Len(s) = Cardinality(ids)
      /\ \A x \in ids : \E i \in DOMAIN s : s[i] = x
      /\ \A i, j \in DOMAIN s : i < j => <<s[i], s[j]>> \in order
  BY <1>3, <1>5, RankedIsSorted
<1>7. \A i \in DOMAIN s : s[i] \in ids
  BY <1>6
<1>8. QED
  BY <1>2, <1>4, <1>6, <1>7

=============================================================================
