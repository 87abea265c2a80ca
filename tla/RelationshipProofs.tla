------------------------- MODULE RelationshipProofs -------------------------
(***************************************************************************)
(* What the relationships of any workspace promise, and the types that     *)
(* their columns are compared by.                                          *)
(***************************************************************************)
EXTENDS RelationshipOffers, FiniteSetTheorems, WellFoundedInduction, TLAPS

(* Every set of numbers that is not empty has a least one: induction over  *)
(* a list is by the least length at which what is claimed fails.           *)
LEMMA LeastExists ==
  ASSUME NEW S \in SUBSET Nat, S # {}
  PROVE  \E n \in S : \A m \in S : n <= m
<1> DEFINE R == OpToRel(<, Nat)
<1>1. IsWellFoundedOn(R, Nat)
  BY NatLessThanWellFounded
<1>2. \E x \in S : \A y \in S : ~(<<y, x>> \in R)
  <2> HIDE DEF R
  <2> QED BY <1>1, WFMin, Zenon
<1>3. \A x \in S, y \in S : <<y, x>> \in R <=> y < x
  BY DEF OpToRel
<1>4. \A n \in S, m \in S : ~(m < n) => n <= m
  OBVIOUS
<1> HIDE DEF R
<1> QED BY <1>2, <1>3, <1>4, Zenon

(* What holds of zero, and of the next number if it holds of one, holds of *)
(* every number up to a bound.                                             *)
LEMMA Counting ==
  ASSUME NEW bound \in Nat, NEW holds, 0 \in holds,
         \A n \in 0..(bound - 1) : n \in holds => n + 1 \in holds
  PROVE  \A n \in 0..bound : n \in holds
<1> DEFINE fails == {n \in 0..bound : n \notin holds}
<1>1. SUFFICES ASSUME fails # {} PROVE FALSE
  OBVIOUS
<1>2. fails \in SUBSET Nat
  OBVIOUS
<1>3. PICK n \in fails : \A m \in fails : n <= m
  BY <1>1, <1>2, LeastExists
<1>4. n \in 1..bound
  BY <1>3
<1>5. n - 1 \in 0..(bound - 1) /\ n - 1 \notin fails
  BY <1>3, <1>4
<1>6. n - 1 \in holds
  BY <1>5
<1>7. (n - 1) + 1 \in holds
  BY <1>5, <1>6
<1> QED BY <1>3, <1>4, <1>7

(* f is what a state is after each number of steps.                        *)
Steps(f, bound, S, start, step) ==
  /\ f \in [0..bound -> S]
  /\ \A i \in 0..bound : f[i] = IF i = 0 THEN start ELSE step[i][f[i - 1]]

(* A state that is taken on by one step after another has a value after    *)
(* each number of steps: how a loop over a list is defined.                *)
LEMMA Iterated ==
  ASSUME NEW bound \in Nat, NEW S, NEW start \in S, NEW step \in [1..bound -> [S -> S]]
  PROVE  \E f : Steps(f, bound, S, start, step)
<1> DEFINE Up(f, n) == \A i \in 0..n : f[i] = IF i = 0 THEN start ELSE step[i][f[i - 1]]
           holds == {n \in 0..bound : \E f \in [0..n -> S] : Up(f, n)}
<1>1. 0 \in holds
  <2> DEFINE g == [i \in 0..0 |-> start]
  <2>1. g \in [0..0 -> S] /\ Up(g, 0)
    OBVIOUS
  <2>2. \E f \in [0..0 -> S] : Up(f, 0)
    <3> HIDE DEF g
    <3> QED BY <2>1
  <2> QED BY <2>2
<1>2. ASSUME NEW n \in 0..(bound - 1), n \in holds
      PROVE  n + 1 \in holds
  <2>1. PICK f \in [0..n -> S] : Up(f, n)
    BY <1>2
  <2> DEFINE g == [i \in 0..(n + 1) |-> IF i <= n THEN f[i] ELSE step[n + 1][f[n]]]
  <2>2. step[n + 1] \in [S -> S] /\ f[n] \in S
    BY <1>2
  <2>3. g \in [0..(n + 1) -> S]
    BY <2>1, <2>2
  <2>4. \A i \in 0..(n + 1) : g[i] = IF i = 0 THEN start ELSE step[i][g[i - 1]]
    <3>1. \A i \in 0..n : g[i] = f[i]
      OBVIOUS
    <3>2. ASSUME NEW i \in 1..n PROVE g[i] = step[i][g[i - 1]]
      BY <2>1, <3>1
    <3>3. g[0] = start
      BY <2>1, <3>1
    <3>4. g[n + 1] = step[n + 1][g[(n + 1) - 1]]
      BY <3>1
    <3>5. \A i \in 0..(n + 1) : i = 0 \/ i \in 1..n \/ i = n + 1
      OBVIOUS
    <3> HIDE DEF g
    <3> QED BY <3>2, <3>3, <3>4, <3>5
  <2>5. \E h \in [0..(n + 1) -> S] : Up(h, n + 1)
    <3> HIDE DEF g
    <3> QED BY <2>3, <2>4
  <2>6. n + 1 \in 0..bound
    OBVIOUS
  <2> QED BY <2>5, <2>6
<1>3. \A n \in 0..bound : n \in holds
  <2> HIDE DEF holds
  <2> QED BY <1>1, <1>2, Counting
<1>4. PICK f \in [0..bound -> S] : Up(f, bound)
  BY <1>3
<1> QED BY <1>4 DEF Steps

LEMMA MinIsLeast ==
  ASSUME NEW S \in SUBSET Nat, S # {}
  PROVE  Min(S) \in S /\ \A n \in S : Min(S) <= n
BY LeastExists DEF Min

-----------------------------------------------------------------------------
(* The elements of a list at some places are those at these places.        *)
LEMMA KeptElements ==
  ASSUME NEW S, NEW list \in Seq(S), NEW places
  PROVE  /\ Kept(list, places) \in Seq(S)
         /\ Range(Kept(list, places)) = {list[i] : i \in places \cap DOMAIN list}
<1> DEFINE n == Len(list)
           step == [i \in 1..n |-> [s \in Seq(S) |-> IF i \in places THEN Append(s, list[i]) ELSE s]]
           Is(f) == f = [i \in 0..n |-> IF i = 0 THEN <<>>
                                        ELSE IF i \in places THEN Append(f[i - 1], list[i]) ELSE f[i - 1]]
           kept == CHOOSE f : Is(f)
           chosen(i) == {list[j] : j \in places \cap 1..i}
           holds == {i \in 0..n : kept[i] \in Seq(S) /\ Range(kept[i]) = chosen(i)}
<1>1. n \in Nat /\ DOMAIN list = 1..n /\ \A i \in 1..n : list[i] \in S
  OBVIOUS
<1>2. \E f : Is(f)
  <2> DEFINE states == Seq(S)
             start == <<>>
  <2>1. step \in [1..n -> [states -> states]]
    BY <1>1
  <2>2. start \in states
    OBVIOUS
  <2>3. PICK f \in [0..n -> Seq(S)] : \A i \in 0..n : f[i] = IF i = 0 THEN <<>> ELSE step[i][f[i - 1]]
    <3>1. n \in Nat
      BY <1>1
    <3>2. \E f : Steps(f, n, states, start, step)
      <4> HIDE DEF step, n, states, start
      <4> QED BY <2>1, <2>2, <3>1, Iterated
    <3> QED BY <3>2 DEF Steps
  <2>4. ASSUME NEW i \in 0..n, i # 0
        PROVE  f[i] = IF i \in places THEN Append(f[i - 1], list[i]) ELSE f[i - 1]
    <3>1. i \in 1..n /\ f[i - 1] \in Seq(S)
      BY <1>1, <2>4
    <3> QED BY <2>3, <2>4, <3>1
  <2>5. Is(f)
    BY <2>3, <2>4
  <2> QED BY <2>5
<1>3. kept[0] = <<>> /\ \A i \in 1..n : kept[i] = IF i \in places THEN Append(kept[i - 1], list[i]) ELSE kept[i - 1]
  <2>1. Is(kept)
    BY <1>2
  <2>2. \A i \in 0..n : kept[i] = IF i = 0 THEN <<>>
                                 ELSE IF i \in places THEN Append(kept[i - 1], list[i]) ELSE kept[i - 1]
    <3> HIDE DEF kept, n
    <3> QED BY <2>1
  <2> HIDE DEF kept
  <2> QED BY <1>1, <2>2
<1>4. Kept(list, places) = kept[n]
  BY DEF Kept
<1> HIDE DEF kept
<1>5. 0 \in holds
  <2>1. <<>> \in Seq(S) /\ Range(<<>>) = {} /\ chosen(0) = {}
    BY DEF Range
  <2>2. 0 \in 0..n
    BY <1>1
  <2> HIDE DEF chosen, n
  <2> QED BY <1>3, <2>1, <2>2
<1>6. ASSUME NEW i \in 0..(n - 1), i \in holds
      PROVE  i + 1 \in holds
  <2>1. /\ i + 1 \in 1..n /\ kept[i] \in Seq(S) /\ Range(kept[i]) = chosen(i) /\ list[i + 1] \in S
    BY <1>1, <1>6
  <2>2. kept[i + 1] = IF i + 1 \in places THEN Append(kept[i], list[i + 1]) ELSE kept[i]
    BY <1>1, <1>3, <2>1
  <2>3. 1..(i + 1) = (1..i) \cup {i + 1}
    BY <1>1
  <2>4. \A s \in Seq(S), x \in S : Append(s, x) \in Seq(S) /\ Range(Append(s, x)) = Range(s) \cup {x}
    BY DEF Range
  <2>5. chosen(i + 1) = IF i + 1 \in places THEN chosen(i) \cup {list[i + 1]} ELSE chosen(i)
    BY <2>3
  <2>6. kept[i + 1] \in Seq(S) /\ Range(kept[i + 1]) = chosen(i + 1)
    <3> DEFINE next == kept[i + 1]
               now == kept[i]
    <3> HIDE DEF chosen, next, now
    <3>1. now \in Seq(S) /\ Range(now) = chosen(i)
      BY <2>1 DEF now
    <3>2. next = IF i + 1 \in places THEN Append(now, list[i + 1]) ELSE now
      BY <2>2 DEF next, now
    <3>3. next \in Seq(S) /\ Range(next) = chosen(i + 1)
      BY <2>1, <2>4, <2>5, <3>1, <3>2
    <3> QED BY <3>3 DEF next
  <2> QED BY <2>1, <2>6
<1>7. n \in holds
  <2> HIDE DEF holds, n
  <2>1. \A i \in 0..n : i \in holds
    BY <1>1, <1>5, <1>6, Counting
  <2> QED BY <1>1, <2>1
<1> QED BY <1>1, <1>4, <1>7

-----------------------------------------------------------------------------
LEMMA RankFacts ==
  ASSUME NEW r
  PROVE  /\ TrustRank(r) \in 0..4
         /\ TrustRank(r) = 0 <=> IsDeclared(r)
         /\ ~IsDeclared(r) => IsProduction(r)
         /\ IsDeclared(r) \in BOOLEAN
BY DEF TrustRank, IsDeclared, IsProduction

Same(r, s) == RelationshipSemanticIdentity(r) = RelationshipSemanticIdentity(s)

(* What has become of some relationships: nothing else is offered, each of *)
(* them is said by one that is trusted at least as much, once or by        *)
(* foreign keys only, and every foreign key is there.                      *)
Gathered(result, taken) ==
  /\ Range(result) \subseteq taken
  /\ \A r \in taken : \E s \in Range(result) : Same(s, r) /\ TrustRank(s) <= TrustRank(r)
  /\ \A i, j \in DOMAIN result :
       (i # j /\ Same(result[i], result[j])) => IsDeclared(result[i]) /\ IsDeclared(result[j])
  /\ \A r \in taken : IsDeclared(r) => r \in Range(result)

LEMMA AddIsGathered ==
  ASSUME NEW S, NEW result \in Seq(S), NEW r \in S, NEW taken, Gathered(result, taken)
  PROVE  /\ AddRelationship(result, r) \in Seq(S)
         /\ Gathered(AddRelationship(result, r), taken \cup {r})
<1> DEFINE same == {i \in DOMAIN result : RelationshipSemanticIdentity(result[i]) = RelationshipSemanticIdentity(r)}
           first == Min(same)
           existing == result[first]
           added == AddRelationship(result, r)
<1>1. /\ Range(result) \subseteq taken
      /\ \A q \in taken : \E s \in Range(result) : Same(s, q) /\ TrustRank(s) <= TrustRank(q)
      /\ \A i, j \in DOMAIN result :
           (i # j /\ Same(result[i], result[j])) => IsDeclared(result[i]) /\ IsDeclared(result[j])
      /\ \A q \in taken : IsDeclared(q) => q \in Range(result)
  BY DEF Gathered
<1>2. /\ DOMAIN result = 1..Len(result) /\ Len(result) \in Nat
      /\ \A i \in DOMAIN result : result[i] \in S
  OBVIOUS
<1>3. same \in SUBSET Nat
  BY <1>2
<1>4. same # {} => first \in same
  <2> HIDE DEF same
  <2> QED BY <1>3, MinIsLeast
<1>5. \A i \in DOMAIN result : i \in same <=> Same(result[i], r)
  BY DEF Same
<1>6. \A q : TrustRank(q) \in 0..4 /\ (TrustRank(q) = 0 <=> IsDeclared(q)) /\ (~IsDeclared(q) => IsProduction(q))
  BY RankFacts
<1>7. \A q, s, t : Same(q, q) /\ (Same(q, s) => Same(s, q)) /\ (Same(q, s) /\ Same(s, t) => Same(q, t))
  BY DEF Same
<1>8. \A q : q \in Range(result) <=> \E i \in DOMAIN result : q = result[i]
  BY DEF Range
<1>9. CASE same = {} \/ (same # {} /\ IsDeclared(existing) /\ IsDeclared(r))
  <2>1. added = Append(result, r)
    BY <1>9 DEF AddRelationship
  <2>2. /\ added \in Seq(S) /\ DOMAIN added = DOMAIN result \cup {Len(result) + 1}
        /\ Len(result) + 1 \notin DOMAIN result
        /\ \A i \in DOMAIN result : added[i] = result[i]
        /\ added[Len(result) + 1] = r
    BY <2>1, <1>2
  <2>3. Range(added) = Range(result) \cup {r}
    BY <2>2 DEF Range
  <2>4. ASSUME NEW i \in DOMAIN result, Same(result[i], r)
        PROVE  IsDeclared(result[i]) /\ IsDeclared(r)
    <3>1. i \in same /\ first \in same /\ first \in DOMAIN result
      BY <1>4, <1>5, <2>4
    <3>2. Same(result[i], result[first])
      BY <1>5, <1>7, <2>4, <3>1
    <3>3. IsDeclared(existing) /\ IsDeclared(r)
      BY <1>9, <3>1
    <3> HIDE DEF same, first
    <3> QED BY <1>1, <3>1, <3>2, <3>3
  <2>5. ASSUME NEW i \in DOMAIN added, NEW j \in DOMAIN added, i # j, Same(added[i], added[j])
        PROVE  IsDeclared(added[i]) /\ IsDeclared(added[j])
    <3> HIDE DEF added
    <3>1. CASE i \in DOMAIN result /\ j \in DOMAIN result
      BY <1>1, <2>2, <2>5, <3>1
    <3>2. CASE i \in DOMAIN result /\ j \notin DOMAIN result
      BY <2>2, <2>4, <2>5, <3>2
    <3>3. CASE i \notin DOMAIN result /\ j \in DOMAIN result
      BY <1>7, <2>2, <2>4, <2>5, <3>3
    <3>4. CASE i \notin DOMAIN result /\ j \notin DOMAIN result
      BY <2>2, <2>5, <3>4
    <3> QED BY <3>1, <3>2, <3>3, <3>4
  <2>6. \A q \in taken \cup {r} : \E s \in Range(added) : Same(s, q) /\ TrustRank(s) <= TrustRank(q)
    <3>1. TrustRank(r) <= TrustRank(r)
      BY <1>6
    <3> HIDE DEF added
    <3> QED BY <1>1, <1>7, <2>3, <3>1
  <2>7. Range(added) \subseteq taken \cup {r} /\ \A q \in taken \cup {r} : IsDeclared(q) => q \in Range(added)
    <3> HIDE DEF added
    <3> QED BY <1>1, <2>3
  <2> HIDE DEF added
  <2>8. Gathered(added, taken \cup {r})
    BY <2>5, <2>6, <2>7 DEF Gathered
  <2> QED BY <2>2, <2>8 DEF added
<1>10. CASE /\ same # {} /\ ~IsDeclared(existing)
            /\ IsDeclared(r) \/ TrustRank(r) < TrustRank(existing)
  <2>1. added = [result EXCEPT ![first] = r]
    BY <1>6, <1>10 DEF AddRelationship
  <2>2. first \in same /\ first \in DOMAIN result /\ Same(existing, r)
    BY <1>4, <1>5, <1>10
  <2>3. /\ added \in Seq(S) /\ DOMAIN added = DOMAIN result
        /\ \A i \in DOMAIN result : added[i] = IF i = first THEN r ELSE result[i]
    <3> HIDE DEF first, same
    <3> QED BY <1>2, <2>1, <2>2
  <2>4. \A q : q \in Range(added) <=> \E i \in DOMAIN result : q = added[i]
    BY <2>3 DEF Range
  <2> HIDE DEF added, first, same
  <2>5. ASSUME NEW i \in DOMAIN result, i # first
        PROVE  ~Same(result[i], r)
    BY <1>1, <1>7, <1>10, <2>2, <2>5
  <2>6. ASSUME NEW i \in DOMAIN added, NEW j \in DOMAIN added, i # j, Same(added[i], added[j])
        PROVE  IsDeclared(added[i]) /\ IsDeclared(added[j])
    BY <1>1, <1>7, <2>3, <2>5, <2>6
  <2>7. ASSUME NEW q \in taken \cup {r}
        PROVE  \E s \in Range(added) : Same(s, q) /\ TrustRank(s) <= TrustRank(q)
    <3>1. r \in Range(added) /\ Same(r, r) /\ TrustRank(r) <= TrustRank(r) /\ TrustRank(r) <= TrustRank(existing)
      <4>1. r \in Range(added)
        BY <2>2, <2>3, <2>4
      <4>2. TrustRank(r) <= TrustRank(r) /\ TrustRank(r) <= TrustRank(existing)
        BY <1>6, <1>10
      <4> QED BY <1>7, <4>1, <4>2
    <3>2. CASE q = r
      BY <3>1, <3>2
    <3>3. CASE q \in taken
      <4>1. PICK i \in DOMAIN result : Same(result[i], q) /\ TrustRank(result[i]) <= TrustRank(q)
        BY <1>1, <1>8, <3>3
      <4>2. CASE i = first
        <5>1. Same(r, q)
          BY <1>7, <2>2, <4>1, <4>2
        <5>2. TrustRank(r) <= TrustRank(q)
          BY <1>6, <3>1, <4>1, <4>2
        <5> QED BY <3>1, <5>1, <5>2
      <4>3. CASE i # first
        BY <2>3, <2>4, <4>1, <4>3
      <4> QED BY <4>2, <4>3
    <3> QED BY <3>2, <3>3
  <2>8. Range(added) \subseteq taken \cup {r}
    BY <1>1, <1>8, <2>3, <2>4
  <2>9. ASSUME NEW q \in taken \cup {r}, IsDeclared(q) PROVE q \in Range(added)
    BY <1>1, <1>8, <1>10, <2>2, <2>3, <2>4, <2>9
  <2>10. Gathered(added, taken \cup {r})
    BY <2>6, <2>7, <2>8, <2>9 DEF Gathered
  <2> QED BY <2>3, <2>10 DEF added
<1>11. CASE /\ same # {} /\ ~IsDeclared(r)
            /\ ~IsDeclared(existing) => TrustRank(existing) <= TrustRank(r)
  <2>1. added = result
    BY <1>6, <1>11 DEF AddRelationship
  <2>2. existing \in Range(result) /\ Same(existing, r) /\ TrustRank(existing) <= TrustRank(r)
    <3>1. existing \in Range(result) /\ Same(existing, r)
      BY <1>4, <1>5, <1>8, <1>11
    <3>2. TrustRank(existing) <= TrustRank(r)
      BY <1>6, <1>11
    <3> QED BY <3>1, <3>2
  <2> HIDE DEF added, first, same
  <2>3. Gathered(result, taken \cup {r})
    BY <1>1, <1>11, <2>2 DEF Gathered
  <2> QED BY <2>1, <2>3 DEF added
<1>12. \/ same = {} \/ (same # {} /\ IsDeclared(existing) /\ IsDeclared(r))
       \/ /\ same # {} /\ ~IsDeclared(existing)
          /\ IsDeclared(r) \/ TrustRank(r) < TrustRank(existing)
       \/ /\ same # {} /\ ~IsDeclared(r)
          /\ ~IsDeclared(existing) => TrustRank(existing) <= TrustRank(r)
  <2>1. TrustRank(r) < TrustRank(existing) \/ TrustRank(existing) <= TrustRank(r)
    BY <1>6
  <2> HIDE DEF same, first
  <2> QED BY <2>1
<1> QED BY <1>9, <1>10, <1>11, <1>12

(* What deduplicateRelationships makes of any list.                        *)
LEMMA DeduplicationGathers ==
  ASSUME NEW S, NEW rs \in Seq(S)
  PROVE  /\ DeduplicateRelationships(rs) \in Seq(S)
         /\ Gathered(DeduplicateRelationships(rs), Range(rs))
<1> DEFINE n == Len(rs)
           step == [i \in 1..n |-> [s \in Seq(S) |-> AddRelationship(s, rs[i])]]
           Is(f) == f = [i \in 0..n |-> IF i = 0 THEN <<>> ELSE AddRelationship(f[i - 1], rs[i])]
           result == CHOOSE f : Is(f)
           taken(i) == {rs[j] : j \in 1..i}
           holds == {i \in 0..n : result[i] \in Seq(S) /\ Gathered(result[i], taken(i))}
<1>1. n \in Nat /\ DOMAIN rs = 1..n /\ \A i \in 1..n : rs[i] \in S
  OBVIOUS
<1>2. Gathered(<<>>, {})
  BY DEF Gathered, Range
<1>3. ASSUME NEW s \in Seq(S), NEW r \in S
      PROVE  AddRelationship(s, r) \in Seq(S)
  <2>1. AddRelationship(s, r) = s \/ AddRelationship(s, r) = Append(s, r)
        \/ \E i : AddRelationship(s, r) = [s EXCEPT ![i] = r]
    BY DEF AddRelationship
  <2> HIDE DEF n
  <2> QED BY <2>1
<1>4. \E f : Is(f)
  <2> DEFINE states == Seq(S)
             start == <<>>
  <2>1. step \in [1..n -> [states -> states]]
    BY <1>1, <1>3
  <2>2. start \in states
    OBVIOUS
  <2>3. PICK f \in [0..n -> Seq(S)] : \A i \in 0..n : f[i] = IF i = 0 THEN <<>> ELSE step[i][f[i - 1]]
    <3>1. n \in Nat
      BY <1>1
    <3>2. \E f : Steps(f, n, states, start, step)
      <4> HIDE DEF step, n, states, start
      <4> QED BY <2>1, <2>2, <3>1, Iterated
    <3> QED BY <3>2 DEF Steps
  <2>4. ASSUME NEW i \in 0..n, i # 0
        PROVE  f[i] = AddRelationship(f[i - 1], rs[i])
    <3>1. i \in 1..n /\ f[i - 1] \in Seq(S)
      BY <1>1, <2>4
    <3> QED BY <2>3, <2>4, <3>1
  <2>5. Is(f)
    BY <2>3, <2>4
  <2> QED BY <2>5
<1>5. result[0] = <<>> /\ \A i \in 1..n : result[i] = AddRelationship(result[i - 1], rs[i])
  <2>1. Is(result)
    BY <1>4
  <2>2. \A i \in 0..n : result[i] = IF i = 0 THEN <<>> ELSE AddRelationship(result[i - 1], rs[i])
    <3> HIDE DEF result, n
    <3> QED BY <2>1
  <2> HIDE DEF result
  <2> QED BY <1>1, <2>2
<1>6. DeduplicateRelationships(rs) = result[n]
  BY DEF DeduplicateRelationships
<1> HIDE DEF result
<1>7. 0 \in holds
  <2>1. <<>> \in Seq(S) /\ taken(0) = {} /\ 0 \in 0..n
    BY <1>1
  <2> HIDE DEF taken, n
  <2> QED BY <1>2, <1>5, <2>1
<1>8. ASSUME NEW i \in 0..(n - 1), i \in holds
      PROVE  i + 1 \in holds
  <2>1. i + 1 \in 1..n /\ i + 1 \in 0..n /\ (i + 1) - 1 = i /\ rs[i + 1] \in S
    BY <1>1
  <2>2. taken(i + 1) = taken(i) \cup {rs[i + 1]}
    <3>1. 1..(i + 1) = (1..i) \cup {i + 1}
      BY <1>1
    <3> QED BY <3>1
  <2>3. result[i] \in Seq(S) /\ Gathered(result[i], taken(i))
    BY <1>8
  <2>4. result[i + 1] = AddRelationship(result[i], rs[i + 1])
    BY <1>5, <2>1
  <2>5. result[i + 1] \in Seq(S) /\ Gathered(result[i + 1], taken(i + 1))
    <3> HIDE DEF taken, n
    <3> QED BY <2>1, <2>2, <2>3, <2>4, AddIsGathered
  <2> QED BY <2>1, <2>5
<1>9. n \in holds
  <2> HIDE DEF holds, n
  <2>1. \A i \in 0..n : i \in holds
    BY <1>1, <1>7, <1>8, Counting
  <2> QED BY <1>1, <2>1
<1>10. taken(n) = Range(rs)
  BY <1>1 DEF Range
<1> HIDE DEF taken, n
<1> QED BY <1>6, <1>9, <1>10

-----------------------------------------------------------------------------
(* What a definition resolves to is a relationship of the file.            *)
LEMMA ResolvedFields ==
  ASSUME NEW definition, NEW index, NEW r \in ResolveDefinition(definition, index)
  PROVE  /\ r.provenance = ProvenanceOf(definition)
         /\ TrustRank(r) \in {1, 2}
         /\ \A count : LET candidate == [r EXCEPT !.provenance = "learnedFromQuery", !.count = count]
                       IN  /\ candidate.provenance = "learnedFromQuery" /\ candidate.count = count
                           /\ Same(candidate, r)
<1>1. PICK s, t, m : r = Relationship(ProvenanceOf(definition), s, t, m)
  BY DEF ResolveDefinition
<1>2. ProvenanceOf(definition) \in {"userConfirmed", "projectDefined"}
  BY DEF ProvenanceOf
<1>3. r.provenance = ProvenanceOf(definition)
  BY <1>1 DEF Relationship
<1>4. TrustRank(r) \in {1, 2}
  BY <1>2, <1>3 DEF TrustRank
<1>5. ASSUME NEW count
      PROVE  LET candidate == [r EXCEPT !.provenance = "learnedFromQuery", !.count = count]
             IN  /\ candidate.provenance = "learnedFromQuery" /\ candidate.count = count
                 /\ candidate.source = r.source /\ candidate.target = r.target
                 /\ candidate.mappings = r.mappings
  BY <1>1 DEF Relationship
<1> QED BY <1>3, <1>4, <1>5 DEF Same, RelationshipSemanticIdentity

(* A candidate joins the tables that its record resolves to.               *)
LEMMA CandidateEnds ==
  ASSUME NEW definition, NEW index, NEW r \in ResolveDefinition(definition, index), NEW count
  PROVE  LET candidate == [r EXCEPT !.provenance = "learnedFromQuery", !.count = count]
         IN  candidate.source = r.source /\ candidate.target = r.target
<1>1. PICK s, t, m : r = Relationship(ProvenanceOf(definition), s, t, m)
  BY DEF ResolveDefinition
<1> QED BY <1>1 DEF Relationship

(* The relationships of a file are those that its definitions resolve to.  *)
LEMMA FileIsResolved ==
  ASSUME NEW D, NEW definitions \in Seq(D), NEW index
  PROVE  ResolveProjectRelationships(definitions, index)
           \in Seq(UNION {ResolveDefinition(definitions[i], index) : i \in DOMAIN definitions})
<1> DEFINE n == Len(definitions)
           resolved(i) == ResolveDefinition(definitions[i], index)
           S == UNION {resolved(i) : i \in DOMAIN definitions}
           states == Seq(S)
           start == <<>>
           step == [i \in 1..n |-> [s \in states |-> AddDefinition(index, s, definitions[i])]]
           Is(f) == f = [i \in 0..n |-> IF i = 0 THEN <<>> ELSE AddDefinition(index, f[i - 1], definitions[i])]
           result == CHOOSE f : Is(f)
           holds == {i \in 0..n : result[i] \in states}
<1>1. n \in Nat /\ DOMAIN definitions = 1..n
  OBVIOUS
<1>2. ASSUME NEW i \in 1..n, NEW s \in states
      PROVE  AddDefinition(index, s, definitions[i]) \in states
  <2> DEFINE r == CHOOSE q \in resolved(i) : TRUE
  <2>1. CASE resolved(i) = {}
    BY <2>1 DEF AddDefinition
  <2>2. CASE resolved(i) # {}
    <3>1. r \in S
      BY <1>1, <2>2
    <3>2. AddDefinition(index, s, definitions[i]) = AddConfigured(s, r)
      BY <2>2 DEF AddDefinition
    <3>3. AddConfigured(s, r) = s \/ AddConfigured(s, r) = Append(s, r)
          \/ \E j : AddConfigured(s, r) = [s EXCEPT ![j] = r]
      BY DEF AddConfigured
    <3> HIDE DEF S, r
    <3> QED BY <3>1, <3>2, <3>3
  <2> QED BY <2>1, <2>2
<1>3. \E f : Is(f)
  <2>1. step \in [1..n -> [states -> states]]
    <3> HIDE DEF states, n
    <3> QED BY <1>2
  <2>2. start \in states
    OBVIOUS
  <2>3. PICK f \in [0..n -> states] : \A i \in 0..n : f[i] = IF i = 0 THEN <<>> ELSE step[i][f[i - 1]]
    <3>1. n \in Nat
      BY <1>1
    <3>2. \E f : Steps(f, n, states, start, step)
      <4> HIDE DEF step, n, states, start
      <4> QED BY <2>1, <2>2, <3>1, Iterated
    <3> HIDE DEF states, step, n
    <3> QED BY <3>2 DEF Steps
  <2>4. ASSUME NEW i \in 0..n, i # 0
        PROVE  f[i] = AddDefinition(index, f[i - 1], definitions[i])
    <3>1. i \in 1..n /\ i - 1 \in 0..n
      BY <1>1, <2>4
    <3> HIDE DEF states, n
    <3>2. f[i - 1] \in states
      BY <3>1
    <3> QED BY <2>3, <2>4, <3>1, <3>2
  <2>5. Is(f)
    <3> HIDE DEF states, step, n
    <3> QED BY <2>3, <2>4
  <2> QED BY <2>5
<1>4. \A i \in 0..n : result[i] = IF i = 0 THEN <<>> ELSE AddDefinition(index, result[i - 1], definitions[i])
  <2>1. Is(result)
    BY <1>3
  <2> HIDE DEF result, n
  <2> QED BY <2>1
<1>5. ResolveProjectRelationships(definitions, index) = result[n]
  BY DEF ResolveProjectRelationships
<1> HIDE DEF result, states
<1>6. 0 \in holds
  <2>1. 0 \in 0..n /\ start \in states
    BY <1>1 DEF states
  <2> HIDE DEF n
  <2> QED BY <1>4, <2>1
<1>7. ASSUME NEW i \in 0..(n - 1), i \in holds
      PROVE  i + 1 \in holds
  <2>1. i + 1 \in 1..n /\ i + 1 \in 0..n /\ (i + 1) - 1 = i /\ i + 1 # 0
    BY <1>1
  <2> HIDE DEF n
  <2> QED BY <1>2, <1>4, <1>7, <2>1
<1>8. n \in holds
  <2> HIDE DEF holds, n
  <2>1. \A i \in 0..n : i \in holds
    BY <1>1, <1>6, <1>7, Counting
  <2> QED BY <1>1, <2>1
<1> QED BY <1>5, <1>8 DEF states

(* Some candidates as they were learned: what a record with enough of it   *)
(* resolves to, with its count, and of nothing stronger.                   *)
Resolved(record, index) ==
  ResolveDefinition(Definition(NotGiven, record.source, record.target, record.mappings), index)
Learnable(evidence, index) ==
  UNION {{[r EXCEPT !.provenance = "learnedFromQuery", !.count = evidence[i].count] :
            r \in Resolved(evidence[i], index)} : i \in DOMAIN evidence}

LearnedOnce(result, index) ==
  /\ \A r \in Range(result) : /\ TrustRank(r) = 3
                              /\ RelationshipSemanticIdentity(r) \notin Stronger(index)
  /\ \A i, j \in DOMAIN result : Same(result[i], result[j]) => i = j

(* The candidates that were learned are of nothing stronger, and no two    *)
(* say the same.                                                           *)
LEMMA CandidatesAreLearned ==
  ASSUME NEW E, NEW evidence \in Seq(E), NEW index
  PROVE  /\ ResolveLearnedCandidates(evidence, index) \in Seq(Learnable(evidence, index))
         /\ LearnedOnce(ResolveLearnedCandidates(evidence, index), index)
<1> DEFINE n == Len(evidence)
           resolved(i) == Resolved(evidence[i], index)
           S == Learnable(evidence, index)
           states == {s \in Seq(S) : LearnedOnce(s, index)}
           start == <<>>
           step == [i \in 1..n |-> [s \in states |-> AddLearned(index, s, evidence[i])]]
           Is(f) == f = [i \in 0..n |-> IF i = 0 THEN <<>> ELSE AddLearned(index, f[i - 1], evidence[i])]
           result == CHOOSE f : Is(f)
           holds == {i \in 0..n : result[i] \in states}
<1>1. n \in Nat /\ DOMAIN evidence = 1..n
  OBVIOUS
<1>2. ASSUME NEW i \in 1..n, NEW s \in states
      PROVE  AddLearned(index, s, evidence[i]) \in states
  <2> DEFINE record == evidence[i]
             chosen == CHOOSE q \in resolved(i) : TRUE
             r == [chosen EXCEPT !.provenance = "learnedFromQuery", !.count = record.count]
             same == {j \in DOMAIN s : RelationshipSemanticIdentity(s[j]) = RelationshipSemanticIdentity(chosen)}
             first == Min(same)
             next == AddLearned(index, s, record)
  <2>1. s \in Seq(S) /\ LearnedOnce(s, index)
    OBVIOUS
  <2>2. next = s \/ /\ resolved(i) # {} /\ \A q \in resolved(i) : RelationshipSemanticIdentity(q) \notin Stronger(index)
                    /\ \/ same = {} /\ next = Append(s, r)
                       \/ same # {} /\ next = [s EXCEPT ![first] = r]
                       \/ next = s
    BY DEF AddLearned, Resolved
  <2>3. CASE next = s
    BY <2>1, <2>3
  <2>4. CASE /\ resolved(i) # {} /\ \A q \in resolved(i) : RelationshipSemanticIdentity(q) \notin Stronger(index)
             /\ \/ same = {} /\ next = Append(s, r)
                \/ same # {} /\ next = [s EXCEPT ![first] = r]
    <3>1. chosen \in resolved(i)
      BY <2>4
    <3>2. /\ r.provenance = "learnedFromQuery" /\ Same(r, chosen)
      <4>1. \A count : LET candidate == [chosen EXCEPT !.provenance = "learnedFromQuery", !.count = count]
                      IN  /\ candidate.provenance = "learnedFromQuery" /\ candidate.count = count
                          /\ Same(candidate, chosen)
        <5> HIDE DEF chosen
        <5> QED BY <3>1, ResolvedFields DEF Resolved
      <4> HIDE DEF chosen
      <4> QED BY <4>1
    <3>3. TrustRank(r) = 3
      <4> HIDE DEF r
      <4> QED BY <3>2 DEF TrustRank
    <3>4. RelationshipSemanticIdentity(r) \notin Stronger(index)
      <4> HIDE DEF r, chosen
      <4> QED BY <2>4, <3>1, <3>2 DEF Same
    <3>5. r \in S
      <4> DEFINE learned(k) == {[q EXCEPT !.provenance = "learnedFromQuery", !.count = evidence[k].count] :
                                  q \in Resolved(evidence[k], index)}
      <4>1. i \in DOMAIN evidence
        BY <1>1
      <4>2. r \in learned(i)
        <5> HIDE DEF chosen
        <5> QED BY <3>1
      <4>3. S = UNION {learned(k) : k \in DOMAIN evidence}
        BY DEF Learnable
      <4> HIDE DEF learned, S, r
      <4> QED BY <4>1, <4>2, <4>3
    <3>6. \A j \in DOMAIN s : j \in same <=> Same(s[j], r)
      <4> HIDE DEF r, chosen
      <4> QED BY <3>2 DEF Same
    <3>7. /\ DOMAIN s = 1..Len(s) /\ Len(s) \in Nat /\ \A j \in DOMAIN s : s[j] \in S
      <4> HIDE DEF S
      <4> QED BY <2>1
    <3> HIDE DEF r, chosen, S, n, resolved
    <3>8. \A t, u, v : (Same(t, u) => Same(u, t)) /\ (Same(t, u) /\ Same(u, v) => Same(t, v))
      BY DEF Same
    <3>9. /\ \A q \in Range(s) : TrustRank(q) = 3 /\ RelationshipSemanticIdentity(q) \notin Stronger(index)
          /\ \A j, k \in DOMAIN s : Same(s[j], s[k]) => j = k
      BY <2>1 DEF LearnedOnce
    <3>10. CASE same = {} /\ next = Append(s, r)
      <4>1. /\ next \in Seq(S) /\ DOMAIN next = DOMAIN s \cup {Len(s) + 1}
            /\ \A j \in DOMAIN s : next[j] = s[j]
            /\ next[Len(s) + 1] = r
        BY <2>1, <3>5, <3>7, <3>10
      <4> HIDE DEF next
      <4>2. Range(next) = Range(s) \cup {r}
        BY <4>1 DEF Range
      <4>3. \A j \in DOMAIN s : ~Same(s[j], r) /\ ~Same(r, s[j])
        BY <3>6, <3>8, <3>10
      <4>4. \A j, k \in DOMAIN next : Same(next[j], next[k]) => j = k
        BY <3>9, <4>1, <4>3
      <4>5. LearnedOnce(next, index)
        BY <3>3, <3>4, <3>9, <4>2, <4>4 DEF LearnedOnce
      <4> QED BY <4>1, <4>5 DEF next
    <3>11. CASE same # {} /\ next = [s EXCEPT ![first] = r]
      <4>1. first \in same
        <5>1. same \in SUBSET Nat
          BY <3>7
        <5> HIDE DEF same
        <5> QED BY <3>11, <5>1, MinIsLeast
      <4>2. first \in DOMAIN s /\ Same(s[first], r)
        BY <3>6, <4>1
      <4> HIDE DEF first, same
      <4>3. /\ next \in Seq(S) /\ DOMAIN next = DOMAIN s
            /\ \A j \in DOMAIN s : next[j] = IF j = first THEN r ELSE s[j]
        BY <2>1, <3>5, <3>7, <3>11, <4>2
      <4> HIDE DEF next
      <4>4. \A q \in Range(next) : q = r \/ q \in Range(s)
        BY <4>3 DEF Range
      <4>5. ASSUME NEW j \in DOMAIN s, NEW k \in DOMAIN s, Same(next[j], next[k])
            PROVE  j = k
        BY <3>8, <3>9, <4>2, <4>3, <4>5
      <4>6. LearnedOnce(next, index)
        BY <3>3, <3>4, <3>9, <4>3, <4>4, <4>5 DEF LearnedOnce
      <4> QED BY <4>3, <4>6 DEF next
    <3> QED BY <2>4, <3>10, <3>11
  <2> QED BY <2>2, <2>3, <2>4
<1>3. start \in states
  BY DEF LearnedOnce, Range
<1>4. \E f : Is(f)
  <2>1. step \in [1..n -> [states -> states]]
    <3> HIDE DEF states, n
    <3> QED BY <1>2
  <2>2. PICK f \in [0..n -> states] : \A i \in 0..n : f[i] = IF i = 0 THEN <<>> ELSE step[i][f[i - 1]]
    <3>1. n \in Nat
      BY <1>1
    <3>2. \E f : Steps(f, n, states, start, step)
      <4> HIDE DEF step, n, states, start
      <4> QED BY <1>3, <2>1, <3>1, Iterated
    <3> HIDE DEF states, step, n
    <3> QED BY <3>2 DEF Steps
  <2>3. ASSUME NEW i \in 0..n, i # 0
        PROVE  f[i] = AddLearned(index, f[i - 1], evidence[i])
    <3>1. i \in 1..n /\ i - 1 \in 0..n
      BY <1>1, <2>3
    <3> HIDE DEF states, n
    <3>2. f[i - 1] \in states
      BY <3>1
    <3> QED BY <2>2, <2>3, <3>1, <3>2
  <2>4. Is(f)
    <3> HIDE DEF states, step, n
    <3> QED BY <2>2, <2>3
  <2> QED BY <2>4
<1>5. \A i \in 0..n : result[i] = IF i = 0 THEN <<>> ELSE AddLearned(index, result[i - 1], evidence[i])
  <2>1. Is(result)
    BY <1>4
  <2> HIDE DEF result, n
  <2> QED BY <2>1
<1>6. ResolveLearnedCandidates(evidence, index) = result[n]
  BY DEF ResolveLearnedCandidates
<1> HIDE DEF result, states
<1>7. 0 \in holds
  <2>1. 0 \in 0..n
    BY <1>1
  <2> HIDE DEF n
  <2> QED BY <1>3, <1>5, <2>1
<1>8. ASSUME NEW i \in 0..(n - 1), i \in holds
      PROVE  i + 1 \in holds
  <2>1. i + 1 \in 1..n /\ i + 1 \in 0..n /\ (i + 1) - 1 = i /\ i + 1 # 0
    BY <1>1
  <2> HIDE DEF n
  <2> QED BY <1>2, <1>5, <1>8, <2>1
<1>9. n \in holds
  <2> HIDE DEF holds, n
  <2>1. \A i \in 0..n : i \in holds
    BY <1>1, <1>7, <1>8, Counting
  <2> QED BY <1>1, <2>1
<1> QED BY <1>6, <1>9 DEF states

-----------------------------------------------------------------------------
LEMMA RangeOfConcatenation ==
  ASSUME NEW S, NEW s \in Seq(S), NEW t \in Seq(S)
  PROVE  s \o t \in Seq(S) /\ Range(s \o t) = Range(s) \cup Range(t)
<1> DEFINE u == s \o t
<1>1. /\ Len(s) \in Nat /\ Len(t) \in Nat
      /\ DOMAIN s = 1..Len(s) /\ DOMAIN t = 1..Len(t)
  OBVIOUS
<1>2. /\ u \in Seq(S)
      /\ DOMAIN u = 1..(Len(s) + Len(t))
      /\ \A i \in 1..(Len(s) + Len(t)) : u[i] = IF i <= Len(s) THEN s[i] ELSE t[i - Len(s)]
  BY <1>1
<1> HIDE DEF u
<1>3. ASSUME NEW i \in 1..Len(s)
      PROVE  i \in DOMAIN u /\ u[i] = s[i]
  BY <1>1, <1>2
<1>4. ASSUME NEW i \in 1..Len(t)
      PROVE  Len(s) + i \in DOMAIN u /\ u[Len(s) + i] = t[i]
  BY <1>1, <1>2
<1>5. ASSUME NEW i \in DOMAIN u
      PROVE  u[i] \in Range(s) \cup Range(t)
  <2>1. i \in 1..Len(s) \/ i - Len(s) \in 1..Len(t)
    BY <1>1, <1>2
  <2>2. CASE i \in 1..Len(s)
    BY <1>1, <1>3, <2>2 DEF Range
  <2>3. CASE i \notin 1..Len(s)
    <3>1. u[i] = t[i - Len(s)] /\ i - Len(s) \in 1..Len(t)
      BY <1>1, <1>2, <2>1, <2>3
    <3> QED BY <1>1, <3>1 DEF Range
  <2> QED BY <2>2, <2>3
<1>6. Range(u) = Range(s) \cup Range(t)
  <2>1. Range(u) \subseteq Range(s) \cup Range(t)
    BY <1>5 DEF Range
  <2>2. Range(s) \subseteq Range(u)
    BY <1>1, <1>3 DEF Range
  <2>3. Range(t) \subseteq Range(u)
    BY <1>1, <1>4 DEF Range
  <2> QED BY <2>1, <2>2, <2>3
<1> QED BY <1>2, <1>6 DEF u

(* The foreign keys of a catalog as relationships.                         *)
ForeignKeys(metadata) ==
  {RelationshipFromForeignKey(metadata.database, key) : key \in Range(metadata.foreignKeys)}

LEMMA ForeignKeysAreDeclared ==
  ASSUME NEW metadata, NEW r \in ForeignKeys(metadata)
  PROVE  IsDeclared(r)
BY DEF ForeignKeys, RelationshipFromForeignKey, Relationship, IsDeclared

(* The relationships of a catalog: its foreign keys and those that were    *)
(* added, gathered.                                                        *)
LEMMA IndexGathers ==
  ASSUME NEW K, NEW metadata, metadata.foreignKeys \in Seq(K), NEW S, NEW additional \in Seq(S)
  PROVE  LET index == DatabaseIndex(metadata, additional)
         IN  /\ index.metadata = metadata
             /\ index.relationships \in Seq(ForeignKeys(metadata) \cup S)
             /\ Gathered(index.relationships, ForeignKeys(metadata) \cup Range(additional))
<1> DEFINE keys == metadata.foreignKeys
           declared == [i \in DOMAIN keys |-> RelationshipFromForeignKey(metadata.database, keys[i])]
           rs == declared \o additional
           index == DatabaseIndex(metadata, additional)
<1>1. DOMAIN keys = 1..Len(keys) /\ Len(keys) \in Nat
  OBVIOUS
<1>2. declared \in Seq(ForeignKeys(metadata)) /\ Range(declared) = ForeignKeys(metadata)
  <2>1. \A i \in DOMAIN keys : declared[i] \in ForeignKeys(metadata)
    BY DEF ForeignKeys, Range
  <2>2. declared \in Seq(ForeignKeys(metadata))
    <3> DEFINE n == Len(keys)
    <3>1. declared \in [1..n -> ForeignKeys(metadata)] /\ n \in Nat
      BY <1>1, <2>1
    <3> HIDE DEF declared, n
    <3> QED BY <3>1
  <2>3. Range(declared) = ForeignKeys(metadata)
    BY DEF ForeignKeys, Range
  <2> QED BY <2>2, <2>3
<1>3. rs \in Seq(ForeignKeys(metadata) \cup S) /\ Range(rs) = ForeignKeys(metadata) \cup Range(additional)
  <2> DEFINE all == ForeignKeys(metadata) \cup S
  <2>1. declared \in Seq(all) /\ additional \in Seq(all)
    <3> HIDE DEF declared
    <3> QED BY <1>2
  <2>2. declared \o additional \in Seq(all)
        /\ Range(declared \o additional) = Range(declared) \cup Range(additional)
    <3> HIDE DEF declared, all
    <3> QED BY <2>1, RangeOfConcatenation
  <2> QED BY <1>2, <2>2
<1>4. index.metadata = metadata /\ index.relationships = DeduplicateRelationships(rs)
  BY DEF DatabaseIndex
<1> HIDE DEF rs, index
<1>5. /\ index.metadata = metadata
      /\ index.relationships \in Seq(ForeignKeys(metadata) \cup S)
      /\ Gathered(index.relationships, ForeignKeys(metadata) \cup Range(additional))
  BY <1>3, <1>4, DeduplicationGathers
<1> QED BY <1>5 DEF index

(* A list that gathers relationships offers each of their identities once, *)
(* from the source that is trusted most.                                   *)
LEMMA GatheredIsOffered ==
  ASSUME NEW S, NEW result \in Seq(S), NEW known, Gathered(result, known)
  PROVE  /\ Identities(Range(result)) = Identities(known)
         /\ \A identity \in Identities(known) :
              LET offered == OfIdentity(result, identity)
                  Ranks(rs) == {TrustRank(r) : r \in {q \in rs : RelationshipSemanticIdentity(q) = identity}}
              IN  /\ Cardinality(offered) = 1 \/ \A r \in offered : IsDeclared(r)
                  /\ Ranks(offered) = {Min(Ranks(known))}
<1>1. /\ Range(result) \subseteq known
      /\ \A q \in known : \E s \in Range(result) : Same(s, q) /\ TrustRank(s) <= TrustRank(q)
  BY DEF Gathered
<1>2. ASSUME NEW s \in Range(result), NEW t \in Range(result), Same(s, t)
      PROVE  s = t \/ (IsDeclared(s) /\ IsDeclared(t))
  <2>1. PICK i \in DOMAIN result, j \in DOMAIN result : s = result[i] /\ t = result[j]
    BY DEF Range
  <2> QED BY <1>2, <2>1 DEF Gathered
<1>3. Identities(Range(result)) = Identities(known)
  <2>1. Identities(Range(result)) \subseteq Identities(known)
    BY <1>1 DEF Identities
  <2>2. Identities(known) \subseteq Identities(Range(result))
    BY <1>1 DEF Identities, Same
  <2> QED BY <2>1, <2>2
<1>4. ASSUME NEW identity \in Identities(known)
      PROVE  LET offered == OfIdentity(result, identity)
                 Ranks(rs) == {TrustRank(r) : r \in {q \in rs : RelationshipSemanticIdentity(q) = identity}}
             IN  /\ Cardinality(offered) = 1 \/ \A r \in offered : IsDeclared(r)
                 /\ Ranks(offered) = {Min(Ranks(known))}
  <2> DEFINE offered == OfIdentity(result, identity)
             Ranks(rs) == {TrustRank(r) : r \in {q \in rs : RelationshipSemanticIdentity(q) = identity}}
             least == Min(Ranks(known))
  <2>1. offered = {r \in Range(result) : RelationshipSemanticIdentity(r) = identity}
    BY DEF OfIdentity
  <2>2. Ranks(known) \in SUBSET Nat /\ Ranks(known) # {}
    <3>1. \A r : TrustRank(r) \in Nat
      BY RankFacts
    <3>2. \E r \in known : RelationshipSemanticIdentity(r) = identity
      BY DEF Identities
    <3> QED BY <3>1, <3>2
  <2>3. least \in Ranks(known) /\ \A n \in Ranks(known) : least <= n
    <3> HIDE DEF Ranks
    <3> QED BY <2>2, MinIsLeast
  <2>4. PICK r \in known : RelationshipSemanticIdentity(r) = identity /\ TrustRank(r) = least
    BY <2>3
  <2>5. PICK t \in Range(result) : Same(t, r) /\ TrustRank(t) <= TrustRank(r)
    BY <1>1
  <2>6. t \in offered /\ TrustRank(t) = least
    <3>1. t \in known /\ RelationshipSemanticIdentity(t) = identity
      BY <1>1, <2>4, <2>5 DEF Same
    <3>2. least <= TrustRank(t) /\ TrustRank(t) <= least
      BY <2>3, <2>4, <2>5, <3>1
    <3>3. TrustRank(t) \in Nat /\ TrustRank(r) \in Nat
      BY RankFacts
    <3>4. TrustRank(t) = least
      BY <2>4, <3>2, <3>3
    <3> QED BY <2>1, <3>1, <3>4
  <2>7. ASSUME NEW s \in offered
        PROVE  TrustRank(s) = least
    <3>1. s \in Range(result) /\ Same(s, t)
      BY <2>1, <2>4, <2>5 DEF Same
    <3>2. s = t \/ (IsDeclared(s) /\ IsDeclared(t))
      BY <1>2, <3>1
    <3> QED BY <2>6, <3>2, RankFacts
  <2>8. Ranks(offered) = {least}
    <3> HIDE DEF offered, least
    <3>1. \A s \in offered : RelationshipSemanticIdentity(s) = identity
      BY <2>1
    <3> QED BY <2>6, <2>7, <3>1
  <2>9. Cardinality(offered) = 1 \/ \A s \in offered : IsDeclared(s)
    <3> SUFFICES ASSUME NEW s \in offered, ~IsDeclared(s)
                 PROVE  Cardinality(offered) = 1
      OBVIOUS
    <3>1. \A u \in offered : u = s
      BY <1>2, <2>1 DEF Same
    <3>2. offered = {s}
      <4> HIDE DEF offered
      <4> QED BY <3>1
    <3> HIDE DEF offered
    <3> QED BY <3>2, FS_Singleton
  <2> QED BY <2>8, <2>9
<1> QED BY <1>3, <1>4

(* As many identities as there are relationships in a list of which no two *)
(* say the same.                                                           *)
LEMMA DifferentIdentities ==
  ASSUME NEW S, NEW list \in Seq(S), \A i, j \in DOMAIN list : Same(list[i], list[j]) => i = j
  PROVE  Len(list) = Cardinality(Identities(Range(list)))
<1> DEFINE f == [i \in 1..Len(list) |-> RelationshipSemanticIdentity(list[i])]
           ids == Identities(Range(list))
           n == Len(list)
<1>1. n \in Nat /\ DOMAIN list = 1..n
  OBVIOUS
<1>2. ids = {RelationshipSemanticIdentity(list[i]) : i \in 1..n}
  BY <1>1 DEF Identities, Range
<1>3. f \in [1..n -> ids] /\ \A x \in ids : \E i \in 1..n : f[i] = x
  BY <1>2
<1>4. \A i, j \in 1..n : f[i] = f[j] => i = j
  BY <1>1 DEF Same
<1>5. f \in Bijection(1..n, ids)
  <2> HIDE DEF f, n, ids
  <2> QED BY <1>3, <1>4 DEF Bijection, Injection, Surjection, IsInjective
<1>6. ExistsBijection(1..n, ids)
  BY <1>5 DEF ExistsBijection
<1>7. IsFiniteSet(1..n) /\ Cardinality(1..n) = n
  BY <1>1, FS_Interval
<1> HIDE DEF ids, n
<1>8. Cardinality(ids) = Cardinality(1..n)
  BY <1>6, <1>7, FS_Bijection
<1> QED BY <1>7, <1>8 DEF ids, n

(* The foreign keys, entries and records of a workspace are lists.         *)
IsWorkspace(workspace) ==
  /\ \E K : workspace.catalog.foreignKeys \in Seq(K)
  /\ \E E : workspace.entries \in Seq(E)
  /\ \E V : workspace.evidence \in Seq(V)

(* The relationships of a workspace: of its foreign keys, its file and its *)
(* evidence, gathered.                                                     *)
Base(workspace) == DatabaseIndex(workspace.catalog, <<>>)
Resolutions(workspace) ==
  ResolveProjectRelationships(ParseDefinitions(workspace.entries), Base(workspace))
Candidates(workspace) == ResolveLearnedCandidates(workspace.evidence, Configured(workspace))
Keys(workspace) == Range(Base(workspace).relationships)
File(workspace) == Range(Resolutions(workspace))
Learned(workspace) == Range(Candidates(workspace))
Resolvable(workspace) ==
  LET definitions == ParseDefinitions(workspace.entries)
  IN  UNION {ResolveDefinition(definitions[i], Base(workspace)) : i \in DOMAIN definitions}

LEMMA CompleteGathers ==
  ASSUME NEW workspace, IsWorkspace(workspace)
  PROVE  /\ Keys(workspace) = ForeignKeys(workspace.catalog)
         /\ File(workspace) \subseteq Resolvable(workspace)
         /\ \A r \in File(workspace) : TrustRank(r) \in {1, 2}
         /\ Gathered(Configured(workspace).relationships, Keys(workspace) \cup File(workspace))
         /\ Candidates(workspace) \in Seq(Learnable(workspace.evidence, Configured(workspace)))
         /\ LearnedOnce(Candidates(workspace), Configured(workspace))
         /\ Gathered(Complete(workspace).relationships,
                     Keys(workspace) \cup File(workspace) \cup Learned(workspace))
         /\ \E S : Complete(workspace).relationships \in Seq(S)
         /\ Base(workspace).metadata = workspace.catalog
         /\ Configured(workspace).metadata = workspace.catalog
         /\ Complete(workspace).metadata = workspace.catalog
<1> DEFINE catalog == workspace.catalog
           base == DatabaseIndex(catalog, <<>>)
           definitions == ParseDefinitions(workspace.entries)
           resolved == ResolveProjectRelationships(definitions, base)
           configured == Configured(workspace)
           candidates == ResolveLearnedCandidates(workspace.evidence, configured)
           index == Complete(workspace)
           keys == Range(base.relationships)
           file == Range(resolved)
           learned == Range(candidates)
           Files == UNION {ResolveDefinition(definitions[i], base) : i \in DOMAIN definitions}
           Learns == Learnable(workspace.evidence, configured)
<1>0. PICK K, E, V : /\ workspace.catalog.foreignKeys \in Seq(K)
                     /\ workspace.entries \in Seq(E) /\ workspace.evidence \in Seq(V)
  BY DEF IsWorkspace
<1>1. /\ base.metadata = catalog
      /\ base.relationships \in Seq(ForeignKeys(catalog))
      /\ Gathered(base.relationships, ForeignKeys(catalog))
  <2> DEFINE none == <<>>
             nothing == {}
  <2>1. none \in Seq(nothing) /\ Range(none) = {}
    BY DEF Range
  <2>2. base = DatabaseIndex(catalog, none)
    OBVIOUS
  <2>3. /\ base.metadata = catalog
        /\ base.relationships \in Seq(ForeignKeys(catalog) \cup nothing)
        /\ Gathered(base.relationships, ForeignKeys(catalog) \cup Range(none))
    <3> HIDE DEF base, none, nothing
    <3> QED BY <1>0, <2>1, <2>2, IndexGathers
  <2>4. ForeignKeys(catalog) \cup nothing = ForeignKeys(catalog)
        /\ ForeignKeys(catalog) \cup Range(none) = ForeignKeys(catalog)
    BY <2>1
  <2> HIDE DEF base, none
  <2> QED BY <2>3, <2>4
<1>2. keys = ForeignKeys(catalog)
  <2> HIDE DEF base
  <2> QED BY <1>1, ForeignKeysAreDeclared DEF Gathered
<1>3. resolved \in Seq(Files)
  <2>1. definitions \in Seq(E)
    BY <1>0, KeptElements DEF ParseDefinitions
  <2> HIDE DEF definitions, base
  <2> QED BY <2>1, FileIsResolved
<1>4. \A r \in file : TrustRank(r) \in {1, 2}
  <2>1. file \subseteq Files
    <3> HIDE DEF Files, resolved
    <3> QED BY <1>3 DEF Range
  <2>2. \A r \in Files : \E i \in DOMAIN definitions : r \in ResolveDefinition(definitions[i], base)
    <3> HIDE DEF definitions, base
    <3> QED OBVIOUS
  <2> HIDE DEF Files, file, definitions, base
  <2> QED BY <2>1, <2>2, ResolvedFields
<1>5. /\ configured.metadata = catalog
      /\ configured.relationships \in Seq(keys \cup Files)
      /\ Gathered(configured.relationships, keys \cup file)
  <2>1. configured = IF resolved = <<>> THEN base ELSE DatabaseIndex(catalog, resolved)
    <3>1. configured = WithProject(base, definitions)
      BY DEF Configured
    <3> HIDE DEF base, definitions
    <3> QED BY <1>1, <3>1 DEF WithProject
  <2> HIDE DEF configured, base, definitions, Files, resolved
  <2>2. CASE resolved = <<>>
    <3>1. file = {}
      BY <2>2 DEF Range
    <3>2. keys \cup file = keys
      BY <3>1
    <3>3. base.relationships \in Seq(keys \cup Files)
      BY <1>1, <1>2
    <3> QED BY <1>1, <1>2, <2>1, <2>2, <3>2, <3>3
  <2>3. CASE resolved # <<>>
    <3>1. configured = DatabaseIndex(catalog, resolved)
      BY <2>1, <2>3
    <3>2. /\ configured.metadata = catalog
          /\ configured.relationships \in Seq(ForeignKeys(catalog) \cup Files)
          /\ Gathered(configured.relationships, ForeignKeys(catalog) \cup Range(resolved))
      BY <1>0, <1>3, <3>1, IndexGathers
    <3> QED BY <1>2, <3>2
  <2> QED BY <2>2, <2>3
<1>6. candidates \in Seq(Learns) /\ LearnedOnce(candidates, configured)
  <2> HIDE DEF configured
  <2> QED BY <1>0, CandidatesAreLearned
<1>7. \A r \in learned : TrustRank(r) = 3 /\ RelationshipSemanticIdentity(r) \notin Stronger(configured)
  BY <1>6 DEF LearnedOnce
<1>8. \A r \in keys : IsDeclared(r)
  <2> HIDE DEF keys
  <2> QED BY <1>2, ForeignKeysAreDeclared
<1>9. \A r : IsDeclared(r) <=> TrustRank(r) = 0
  BY RankFacts
<1>10. /\ Gathered(index.relationships, keys \cup file \cup learned)
       /\ \E S : index.relationships \in Seq(S)
       /\ index.metadata = catalog
  <2> DEFINE others == Additional(configured.relationships)
             apart == {r \in Range(configured.relationships) : ~IsDeclared(r)}
             S == keys \cup Files \cup Learns
  <2>1. index = IF candidates = <<>> THEN configured ELSE DatabaseIndex(catalog, others \o candidates)
    <3>1. index = WithLearned(configured, workspace.evidence)
      BY DEF Complete
    <3> HIDE DEF configured
    <3> QED BY <1>5, <3>1 DEF WithLearned
  <2> HIDE DEF configured, base, definitions, Files, Learns, resolved, candidates
  <2>2. others \in Seq(keys \cup Files) /\ Range(others) = apart
    <3> DEFINE list == configured.relationships
               places == {i \in DOMAIN list : ~IsDeclared(list[i])}
    <3>1. list \in Seq(keys \cup Files)
      BY <1>5
    <3>2. others = Kept(list, places)
      BY DEF Additional
    <3>3. Kept(list, places) \in Seq(keys \cup Files)
          /\ Range(Kept(list, places)) = {list[i] : i \in places \cap DOMAIN list}
      <4> HIDE DEF list, places
      <4> QED BY <3>1, KeptElements
    <3>4. {list[i] : i \in places \cap DOMAIN list} = apart
      <4> HIDE DEF list
      <4> QED BY DEF Range, list
    <3> QED BY <3>2, <3>3, <3>4
  <2>3. others \o candidates \in Seq(S) /\ Range(others \o candidates) = apart \cup learned
    <3>1. others \in Seq(S) /\ candidates \in Seq(S)
      BY <1>6, <2>2
    <3> HIDE DEF others, S
    <3> QED BY <2>2, <3>1, RangeOfConcatenation
  <2>4. CASE candidates = <<>>
    <3>1. learned = {}
      BY <2>4 DEF Range
    <3>2. keys \cup file \cup learned = keys \cup file
      BY <3>1
    <3> QED BY <1>5, <2>1, <2>4, <3>2
  <2>5. CASE candidates # <<>>
    <3> DEFINE taken == keys \cup (apart \cup learned)
               known == keys \cup file \cup learned
               offered == Range(index.relationships)
    <3>1. /\ index.metadata = catalog
          /\ index.relationships \in Seq(ForeignKeys(catalog) \cup S)
          /\ Gathered(index.relationships, taken)
      <4> DEFINE added == others \o candidates
      <4>1. index = DatabaseIndex(catalog, added)
        BY <2>1, <2>5
      <4>2. added \in Seq(S) /\ Range(added) = apart \cup learned
        BY <2>3
      <4> HIDE DEF added, S, others, apart, learned, index
      <4>3. /\ index.metadata = catalog
            /\ index.relationships \in Seq(ForeignKeys(catalog) \cup S)
            /\ Gathered(index.relationships, ForeignKeys(catalog) \cup Range(added))
        BY <1>0, <4>1, <4>2, IndexGathers
      <4> QED BY <1>2, <4>2, <4>3
    <3>2. /\ Range(configured.relationships) \subseteq keys \cup file
          /\ \A r \in keys \cup file : \E s \in Range(configured.relationships) :
               Same(s, r) /\ TrustRank(s) <= TrustRank(r)
      BY <1>5 DEF Gathered
    <3>3. apart \subseteq file /\ apart \subseteq Range(configured.relationships)
      BY <1>8, <3>2
    <3> HIDE DEF keys, file, learned, apart, taken, index
    <3>4. offered \subseteq known
      BY <3>1, <3>3 DEF Gathered, taken
    <3>5. \A q \in taken : \E s \in offered : Same(s, q) /\ TrustRank(s) <= TrustRank(q)
      BY <3>1 DEF Gathered
    <3>6. ASSUME NEW r \in known
          PROVE  \E s \in offered : Same(s, r) /\ TrustRank(s) <= TrustRank(r)
      <4>1. CASE r \in taken
        BY <3>5, <4>1
      <4>2. CASE r \in keys \cup file
        <5>1. PICK q \in Range(configured.relationships) : Same(q, r) /\ TrustRank(q) <= TrustRank(r)
          BY <3>2, <4>2
        <5>2. q \in taken
          <6>1. CASE IsDeclared(q)
            <7>1. q \notin file
              BY <1>4, <1>9, <6>1
            <7> QED BY <3>2, <5>1, <7>1 DEF taken
          <6>2. CASE ~IsDeclared(q)
            BY <5>1, <6>2 DEF taken, apart
          <6> QED BY <6>1, <6>2
        <5>3. PICK s \in offered : Same(s, q) /\ TrustRank(s) <= TrustRank(q)
          BY <3>5, <5>2
        <5>4. Same(s, r)
          BY <5>1, <5>3 DEF Same
        <5>5. TrustRank(s) \in Nat /\ TrustRank(q) \in Nat /\ TrustRank(r) \in Nat
          BY RankFacts
        <5>6. TrustRank(s) <= TrustRank(r)
          BY <5>1, <5>3, <5>5
        <5> QED BY <5>4, <5>6
      <4> QED BY <4>1, <4>2 DEF taken
    <3>7. \A i, j \in DOMAIN index.relationships :
            (i # j /\ Same(index.relationships[i], index.relationships[j]))
              => IsDeclared(index.relationships[i]) /\ IsDeclared(index.relationships[j])
      BY <3>1 DEF Gathered
    <3>8. ASSUME NEW r \in known, IsDeclared(r) PROVE r \in offered
      <4>1. TrustRank(r) = 0
        BY <1>9, <3>8
      <4>2. r \in taken
        BY <1>4, <1>7, <4>1 DEF taken
      <4> QED BY <3>1, <3>8, <4>2 DEF Gathered
    <3> HIDE DEF offered, known
    <3>9. Gathered(index.relationships, known)
      BY <3>4, <3>6, <3>7, <3>8 DEF Gathered, offered
    <3> QED BY <3>1, <3>9 DEF known
  <2> QED BY <2>4, <2>5
<1>11. file \subseteq Files
  <2> HIDE DEF Files, resolved
  <2> QED BY <1>3 DEF Range
<1>12. /\ base = Base(workspace) /\ resolved = Resolutions(workspace)
       /\ candidates = Candidates(workspace) /\ Files = Resolvable(workspace)
       /\ keys = Keys(workspace) /\ file = File(workspace) /\ learned = Learned(workspace)
  BY DEF Base, Resolutions, Candidates, Resolvable, Keys, File, Learned
<1> HIDE DEF index, configured, base, definitions, resolved, candidates, Files, Learns, keys, file, learned
<1> QED BY <1>1, <1>2, <1>4, <1>5, <1>6, <1>10, <1>11, <1>12 DEF index, configured, Learns

(* For any catalog, file and evidence: what completion offers of the       *)
(* foreign keys, the entries of the relationship file and the learned      *)
(* candidates (RelationshipModels.ts, ProjectRelationshipConfig.ts,        *)
(* LearnedRelationshipCandidatePolicy.ts) are the identities that these    *)
(* say, no more and no less; each of them once or by foreign keys only,    *)
(* from the source that is trusted most; and nothing is learned of what    *)
(* the keys or the file say.                                               *)
THEOREM RelationshipsAreOfferedOnce ==
  ASSUME NEW workspace, IsWorkspace(workspace)
  PROVE  OfferedOnce(workspace)
<1> DEFINE configured == Configured(workspace)
           candidates == Candidates(workspace)
           index == Complete(workspace)
           keys == Keys(workspace)
           file == File(workspace)
           learned == Learned(workspace)
           Learns == Learnable(workspace.evidence, configured)
<1>1. /\ keys = ForeignKeys(workspace.catalog)
      /\ \A r \in file : TrustRank(r) \in {1, 2}
      /\ Gathered(configured.relationships, keys \cup file)
      /\ candidates \in Seq(Learns) /\ LearnedOnce(candidates, configured)
      /\ Gathered(index.relationships, keys \cup file \cup learned)
      /\ \E S : index.relationships \in Seq(S)
  BY CompleteGathers
<1>0. learned = Range(candidates)
  BY DEF Learned
<1> HIDE DEF configured, index, keys, file, learned, candidates, Learns
<1>2. \A r \in learned : TrustRank(r) = 3 /\ RelationshipSemanticIdentity(r) \notin Stronger(configured)
  BY <1>0, <1>1 DEF LearnedOnce
<1>3. \A r \in keys : IsDeclared(r)
  BY <1>1, ForeignKeysAreDeclared
<1>4. \A r : IsDeclared(r) <=> TrustRank(r) = 0
  BY RankFacts
<1>5. Identities(learned) \cap Identities(keys \cup file) = {}
  <2>1. ASSUME NEW r \in learned, NEW q \in keys \cup file, Same(r, q)
        PROVE  FALSE
    <3>1. PICK s \in Range(configured.relationships) : Same(s, q) /\ TrustRank(s) <= TrustRank(q)
      BY <1>1 DEF Gathered
    <3>2. TrustRank(q) \in 0..2 /\ TrustRank(s) \in Nat
      <4>1. TrustRank(q) = 0 \/ TrustRank(q) \in {1, 2}
        BY <1>1, <1>3, <1>4
      <4> QED BY <4>1, RankFacts
    <3>3. TrustRank(s) <= 2
      BY <3>1, <3>2
    <3>4. RelationshipSemanticIdentity(s) \in Stronger(configured)
      BY <3>1, <3>3 DEF Stronger
    <3> QED BY <1>2, <2>1, <3>1, <3>4 DEF Same
  <2> QED BY <2>1 DEF Identities, Same
<1>6. Len(candidates) = Cardinality(Identities(learned))
  <2>1. \A i, j \in DOMAIN candidates : Same(candidates[i], candidates[j]) => i = j
    BY <1>1 DEF LearnedOnce
  <2> QED BY <1>0, <1>1, <2>1, DifferentIdentities
<1>7. keys \subseteq Range(index.relationships)
  BY <1>1, <1>3 DEF Gathered
<1>8. LET known == keys \cup file \cup learned
      IN  /\ Identities(Range(index.relationships)) = Identities(known)
           /\ \A identity \in Identities(known) :
                LET offered == OfIdentity(index.relationships, identity)
                    Ranks(rs) == {TrustRank(r) : r \in {q \in rs : RelationshipSemanticIdentity(q) = identity}}
                IN  /\ Cardinality(offered) = 1 \/ \A r \in offered : IsDeclared(r)
                    /\ Ranks(offered) = {Min(Ranks(known))}
  <2> DEFINE known == keys \cup file \cup learned
  <2>1. PICK S : index.relationships \in Seq(S)
    BY <1>1
  <2>2. Gathered(index.relationships, known)
    BY <1>1
  <2> HIDE DEF known
  <2>3. /\ Identities(Range(index.relationships)) = Identities(known)
        /\ \A identity \in Identities(known) :
             LET offered == OfIdentity(index.relationships, identity)
                 Ranks(rs) == {TrustRank(r) : r \in {q \in rs : RelationshipSemanticIdentity(q) = identity}}
             IN  /\ Cardinality(offered) = 1 \/ \A r \in offered : IsDeclared(r)
                 /\ Ranks(offered) = {Min(Ranks(known))}
    BY <2>1, <2>2, GatheredIsOffered
  <2> QED BY <2>3 DEF known
<1> QED BY <1>5, <1>6, <1>7, <1>8
        DEF OfferedOnce, index, configured, candidates, keys, file, learned,
            Keys, File, Learned, Base, Resolutions, Candidates

-----------------------------------------------------------------------------
(* A catalog has finitely many keys, its foreign keys are of its tables,   *)
(* and no two of its objects have one name.                                *)
IsCatalog(catalog) ==
  /\ IsFiniteSet(catalog.keys)
  /\ \A key \in Range(catalog.foreignKeys) :
       key.parent \in Range(catalog.objects) /\ key.referenced \in Range(catalog.objects)
  /\ \A o, p \in Range(catalog.objects) : Normalize(o.name) = Normalize(p.name) => o.id = p.id

(* A relationship of two objects of a catalog.                             *)
Joins(catalog, r) ==
  \E s, t \in Range(catalog.objects) :
    r.source = Reference(catalog.database, s) /\ r.target = Reference(catalog.database, t)

LEMMA ResolvedJoins ==
  ASSUME NEW definition, NEW index, NEW r \in ResolveDefinition(definition, index)
  PROVE  Joins(index.metadata, r)
<1> DEFINE objects == Range(index.metadata.objects)
           Ends(s, t, m) == Relationship(ProvenanceOf(definition), Reference(index.metadata.database, s),
                                         Reference(index.metadata.database, t), m)
<1>1. \E s \in objects, t \in objects : \E m : r = Ends(s, t, m)
  BY DEF ResolveDefinition, FindObject, Objects
<1>2. PICK s \in objects, t \in objects : \E m : r = Ends(s, t, m)
  BY <1>1
<1>3. PICK m : r = Ends(s, t, m)
  BY <1>2
<1>4. r.source = Reference(index.metadata.database, s) /\ r.target = Reference(index.metadata.database, t)
  BY <1>3 DEF Relationship
<1> QED BY <1>4 DEF Joins

(* Whatever is known of a catalog is of two of its objects.                *)
LEMMA KnownJoins ==
  ASSUME NEW workspace, IsWorkspace(workspace), IsCatalog(workspace.catalog),
         NEW r \in Range(Complete(workspace).relationships)
  PROVE  Joins(workspace.catalog, r)
<1> DEFINE catalog == workspace.catalog
           configured == Configured(workspace)
<1>1. /\ r \in Keys(workspace) \cup File(workspace) \cup Learned(workspace)
      /\ Keys(workspace) = ForeignKeys(catalog)
      /\ File(workspace) \subseteq Resolvable(workspace)
      /\ Candidates(workspace) \in Seq(Learnable(workspace.evidence, configured))
      /\ Base(workspace).metadata = catalog
      /\ configured.metadata = catalog
  BY CompleteGathers DEF Gathered
<1>2. CASE r \in Keys(workspace)
  <2>1. PICK key \in Range(catalog.foreignKeys) : r = RelationshipFromForeignKey(catalog.database, key)
    BY <1>1, <1>2 DEF ForeignKeys
  <2>2. /\ r.source = Reference(catalog.database, key.parent)
        /\ r.target = Reference(catalog.database, key.referenced)
    BY <2>1 DEF RelationshipFromForeignKey, Relationship
  <2>3. key.parent \in Range(catalog.objects) /\ key.referenced \in Range(catalog.objects)
    BY <2>1 DEF IsCatalog
  <2> QED BY <2>2, <2>3 DEF Joins
<1>3. CASE r \in File(workspace)
  <2>1. PICK d : r \in ResolveDefinition(d, Base(workspace))
    BY <1>1, <1>3 DEF Resolvable
  <2>2. Joins(Base(workspace).metadata, r)
    BY <2>1, ResolvedJoins
  <2> QED BY <1>1, <2>2
<1>4. CASE r \in Learned(workspace)
  <2> HIDE DEF configured
  <2>1. r \in Learnable(workspace.evidence, configured)
    <3> DEFINE S == Learnable(workspace.evidence, configured)
    <3>1. Candidates(workspace) \in Seq(S)
      BY <1>1
    <3> HIDE DEF S
    <3>2. r \in S
      BY <1>4, <3>1 DEF Learned, Range
    <3> QED BY <3>2 DEF S
  <2>0. PICK i \in DOMAIN workspace.evidence :
          \E q \in Resolved(workspace.evidence[i], configured) :
            r = [q EXCEPT !.provenance = "learnedFromQuery", !.count = workspace.evidence[i].count]
    BY <2>1 DEF Learnable
  <2>2. PICK q \in Resolved(workspace.evidence[i], configured) :
          r = [q EXCEPT !.provenance = "learnedFromQuery", !.count = workspace.evidence[i].count]
    BY <2>0
  <2>3. \A count : LET candidate == [q EXCEPT !.provenance = "learnedFromQuery", !.count = count]
                  IN  candidate.source = q.source /\ candidate.target = q.target
    BY CandidateEnds DEF Resolved
  <2>4. r.source = q.source /\ r.target = q.target
    BY <2>2, <2>3
  <2>5. Joins(configured.metadata, q)
    BY <2>2, ResolvedJoins DEF Resolved
  <2> QED BY <1>1, <2>4, <2>5 DEF Joins
<1> QED BY <1>1, <1>2, <1>3, <1>4

(* Relationships of one identity are between the same tables.              *)
LEMMA SameEnds ==
  ASSUME NEW r, NEW q, Same(r, q)
  PROVE  \/ /\ ObjectIdentity(r.source) = ObjectIdentity(q.source)
            /\ ObjectIdentity(r.target) = ObjectIdentity(q.target)
         \/ /\ ObjectIdentity(r.source) = ObjectIdentity(q.target)
            /\ ObjectIdentity(r.target) = ObjectIdentity(q.source)
<1> DEFINE from == ObjectIdentity(r.source)
           to == ObjectIdentity(r.target)
           names == MappingNames(r.mappings)
           from2 == ObjectIdentity(q.source)
           to2 == ObjectIdentity(q.target)
           names2 == MappingNames(q.mappings)
<1>1. {<<from, to, names>>} \cup {<<to, from, Turned(names)>>}
        = {<<from2, to2, names2>>} \cup {<<to2, from2, Turned(names2)>>}
  BY DEF Same, RelationshipSemanticIdentity, RelationshipMappingIdentity, DirectedIdentity
<1> HIDE DEF from, to, names, from2, to2, names2
<1>2. <<from, to, names>> = <<from2, to2, names2>> \/ <<from, to, names>> = <<to2, from2, Turned(names2)>>
  BY <1>1
<1>3. (from = from2 /\ to = to2) \/ (from = to2 /\ to = from2)
  BY <1>2
<1> QED BY <1>3 DEF from, to, from2, to2

(* Between two tables there are finitely many proposals, and each says     *)
(* which table is joined to which.                                         *)
LEMMA ProposalsAreBetween ==
  ASSUME NEW index, NEW source, NEW target, NEW p \in ProposalsForDirection(index, source, target)
  PROVE  /\ p[1] \in KeysForObject(index, target)
         /\ p[2].source = Reference(index.metadata.database, source)
         /\ p[2].target = Reference(index.metadata.database, target)
<1>1. PICK key \in KeysForObject(index, target) :
        \E mappings \in MappingsForCompleteKey(source, target, key) :
          p = <<key, Relationship("heuristicCandidate", Reference(index.metadata.database, source),
                                  Reference(index.metadata.database, target), mappings)>>
  BY DEF ProposalsForDirection
<1>2. PICK mappings : p = <<key, Relationship("heuristicCandidate", Reference(index.metadata.database, source),
                                              Reference(index.metadata.database, target), mappings)>>
  BY <1>1
<1> QED BY <1>2 DEF Relationship

LEMMA KeySuggestsOnce ==
  ASSUME NEW source, NEW target, NEW key, NEW m \in MappingsForCompleteKey(source, target, key),
         NEW n \in MappingsForCompleteKey(source, target, key)
  PROVE  m = n
BY DEF MappingsForCompleteKey

LEMMA FiniteProposals ==
  ASSUME NEW index, NEW source, NEW target, IsFiniteSet(index.metadata.keys)
  PROVE  IsFiniteSet(ProposalsForDirection(index, source, target))
<1> DEFINE proposals == ProposalsForDirection(index, source, target)
           keys == index.metadata.keys
           f == [p \in proposals |-> p[1]]
<1>1. f \in [proposals -> keys]
  BY ProposalsAreBetween DEF KeysForObject
<1>2. ASSUME NEW p \in proposals, NEW q \in proposals, p[1] = q[1]
      PROVE  p = q
  <2> DEFINE Proposed(key, m) ==
               <<key, Relationship("heuristicCandidate", Reference(index.metadata.database, source),
                                   Reference(index.metadata.database, target), m)>>
  <2>1. PICK k : \E m \in MappingsForCompleteKey(source, target, k) : p = Proposed(k, m)
    BY DEF ProposalsForDirection
  <2>2. PICK l : \E m \in MappingsForCompleteKey(source, target, l) : q = Proposed(l, m)
    BY DEF ProposalsForDirection
  <2>3. PICK m \in MappingsForCompleteKey(source, target, k) : p = Proposed(k, m)
    BY <2>1
  <2>4. PICK n \in MappingsForCompleteKey(source, target, l) : q = Proposed(l, n)
    BY <2>2
  <2>5. k = l
    BY <1>2, <2>3, <2>4
  <2>6. m = n
    BY <2>5, KeySuggestsOnce
  <2> QED BY <2>3, <2>4, <2>5, <2>6
<1>3. f \in Injection(proposals, keys)
  <2>1. \A p, q \in proposals : f[p] = f[q] => p = q
    BY <1>2
  <2> HIDE DEF f, proposals
  <2> QED BY <1>1, <2>1 DEF Injection, IsInjective
<1> HIDE DEF f, proposals
<1> QED BY <1>3, FS_Injection DEF proposals

(* For any catalog, file and evidence: what the policy suggests for two    *)
(* tables (HeuristicRelationshipCandidatePolicy.ts:39) is one relationship *)
(* or none, the same one whichever table is joined to the other, and only  *)
(* where no foreign key, entry or candidate joins them: nothing that is    *)
(* known has its identity.                                                 *)
THEOREM SuggestionsComeLast ==
  ASSUME NEW workspace, IsWorkspace(workspace), IsCatalog(workspace.catalog)
  PROVE  SuggestedLast(workspace)
<1> DEFINE index == Complete(workspace)
           catalog == workspace.catalog
<1>1. index.metadata = catalog
  BY CompleteGathers
<1> HIDE DEF index
<1> SUFFICES ASSUME NEW left \in Range(catalog.objects), NEW right \in Range(catalog.objects)
             PROVE  LET suggested == ResolveHeuristicCandidate(index, left, right)
                    IN  /\ Cardinality(suggested) <= 1
                        /\ Identities(suggested) = Identities(ResolveHeuristicCandidate(index, right, left))
                        /\ suggested # {} => \A r \in Range(index.relationships) :
                                                {r.source.id, r.target.id} # {left.id, right.id}
                        /\ Identities(suggested) \cap Identities(Range(index.relationships)) = {}
  BY DEF SuggestedLast, index
<1> DEFINE suggested == ResolveHeuristicCandidate(index, left, right)
           there == ProposalsForDirection(index, left, right)
           back == ProposalsForDirection(index, right, left)
<1>2. ResolveHeuristicCandidate(index, right, left) = suggested
  <2>1. there \cup back = back \cup there
    OBVIOUS
  <2>2. RelationshipsBetween(index, right, left) = RelationshipsBetween(index, left, right)
    BY DEF RelationshipsBetween
  <2> HIDE DEF there, back
  <2> QED BY <2>1, <2>2 DEF ResolveHeuristicCandidate, there, back
<1>3. suggested = {} \/ /\ RelationshipsBetween(index, left, right) = {}
                        /\ Cardinality(there \cup back) = 1
                        /\ suggested = {p[2] : p \in there \cup back}
  BY DEF ResolveHeuristicCandidate
<1>4. IsFiniteSet(there \cup back)
  <2>1. IsFiniteSet(index.metadata.keys)
    BY <1>1 DEF IsCatalog
  <2>2. IsFiniteSet(there) /\ IsFiniteSet(back)
    BY <2>1, FiniteProposals
  <2> HIDE DEF there, back
  <2> QED BY <2>2, FS_Union
<1>5. Cardinality(suggested) <= 1
  <2> HIDE DEF suggested, there, back
  <2>1. CASE suggested = {}
    BY <2>1, FS_EmptySet
  <2>2. CASE suggested # {}
    <3>1. PICK p : there \cup back = {p}
      BY <1>3, <1>4, <2>2, FS_Singleton
    <3>2. suggested = {p[2]}
      BY <1>3, <2>2, <3>1
    <3>3. Cardinality(suggested) = 1
      BY <3>2, FS_Singleton
    <3> QED BY <3>3
  <2> QED BY <2>1, <2>2
<1>6. ASSUME suggested # {}, NEW r \in Range(index.relationships)
      PROVE  {r.source.id, r.target.id} # {left.id, right.id}
  <2>1. RelationshipsBetween(index, left, right) = {}
    BY <1>3, <1>6
  <2>2. ~(r.source.id = left.id /\ r.target.id = right.id)
    BY <2>1 DEF RelationshipsBetween, Outgoing
  <2>3. ~(r.source.id = right.id /\ r.target.id = left.id)
    BY <2>1 DEF RelationshipsBetween, Outgoing
  <2> DEFINE a == r.source.id
             b == r.target.id
             c == left.id
             d == right.id
  <2>4. ~(a = c /\ b = d) /\ ~(a = d /\ b = c)
    BY <2>2, <2>3
  <2>5. {a, b} # {c, d}
    <3> HIDE DEF a, b, c, d
    <3> QED BY <2>4
  <2> QED BY <2>5
<1>7. ASSUME NEW s \in suggested, NEW r \in Range(index.relationships), Same(s, r)
      PROVE  FALSE
  <2>1. PICK p \in there \cup back : s = p[2]
    BY <1>3, <1>7
  <2>2. \/ /\ s.source = Reference(catalog.database, left)
           /\ s.target = Reference(catalog.database, right)
        \/ /\ s.source = Reference(catalog.database, right)
           /\ s.target = Reference(catalog.database, left)
    BY <1>1, <2>1, ProposalsAreBetween
  <2>3. PICK from \in Range(catalog.objects), to \in Range(catalog.objects) :
          r.source = Reference(catalog.database, from) /\ r.target = Reference(catalog.database, to)
    BY KnownJoins DEF Joins, index
  <2>4. \A o, q \in Range(catalog.objects) :
          ObjectIdentity(Reference(catalog.database, o)) = ObjectIdentity(Reference(catalog.database, q))
            => o.id = q.id
    BY DEF ObjectIdentity, Reference, IsCatalog
  <2>5. \A o : Reference(catalog.database, o).id = o.id
    BY DEF Reference
  <2>6. \/ from.id = left.id /\ to.id = right.id
        \/ from.id = right.id /\ to.id = left.id
    <3>1. \/ /\ ObjectIdentity(s.source) = ObjectIdentity(r.source)
             /\ ObjectIdentity(s.target) = ObjectIdentity(r.target)
          \/ /\ ObjectIdentity(s.source) = ObjectIdentity(r.target)
             /\ ObjectIdentity(s.target) = ObjectIdentity(r.source)
      BY <1>7, SameEnds
    <3> HIDE DEF catalog, there, back, suggested
    <3> QED BY <2>2, <2>3, <2>4, <3>1
  <2>7. {r.source.id, r.target.id} = {left.id, right.id}
    BY <2>3, <2>5, <2>6
  <2> QED BY <1>6, <2>7
<1>8. Identities(suggested) \cap Identities(Range(index.relationships)) = {}
  <2> HIDE DEF suggested
  <2> QED BY <1>7 DEF Identities, Same
<1> QED BY <1>2, <1>5, <1>6, <1>8

-----------------------------------------------------------------------------
(* The types that columns and expressions have: a system type has the      *)
(* family of its name and some facets, a user-defined type the name of the *)
(* system type under it, or none (SqlTypeDescriptor.ts:116).               *)
WithFacets(type, facets) == [type EXCEPT !.facets = facets]
SystemType(type) ==
  type = Unknown \/ \E name : \E facets \in [DOMAIN NoFacets -> Int] : type = WithFacets(Known(name), facets)
OwnType(type) ==
  \E name, underlying : \E facets \in [DOMAIN NoFacets -> Int] :
    type = WithFacets(UserDefined(name, underlying), facets)
IsType(type) == SystemType(type) \/ OwnType(type)

LEMMA SystemTypeFields ==
  ASSUME NEW type, SystemType(type)
  PROVE  /\ type.kind \in {"known", "unknown"}
         /\ ~type.userDefined
         /\ type.underlying = ""
         /\ type.kind = "unknown" => type = Unknown
         /\ type.kind = "known" =>
              /\ type.facets \in [DOMAIN NoFacets -> Int]
              /\ type = WithFacets(Known(type.name), type.facets)
              /\ type.family = FamilyOf(type.name)
<1>1. CASE type = Unknown
  BY <1>1 DEF Unknown, Known
<1>2. CASE \E name : \E facets \in [DOMAIN NoFacets -> Int] : type = WithFacets(Known(name), facets)
  <2>1. PICK name : \E facets \in [DOMAIN NoFacets -> Int] : type = WithFacets(Known(name), facets)
    BY <1>2
  <2>2. PICK facets \in [DOMAIN NoFacets -> Int] : type = WithFacets(Known(name), facets)
    BY <2>1
  <2>3. /\ type.kind = "known" /\ type.userDefined = FALSE /\ type.underlying = ""
        /\ type.name = name /\ type.facets = facets /\ type.family = FamilyOf(name)
    BY <2>2 DEF WithFacets, Known
  <2> QED BY <2>2, <2>3
<1> QED BY <1>1, <1>2 DEF SystemType

LEMMA OwnTypeFields ==
  ASSUME NEW type, OwnType(type)
  PROVE  type.kind = "known" /\ type.userDefined
<1>1. PICK name : \E underlying : \E facets \in [DOMAIN NoFacets -> Int] :
                    type = WithFacets(UserDefined(name, underlying), facets)
  BY DEF OwnType
<1>2. PICK underlying : \E facets \in [DOMAIN NoFacets -> Int] :
                    type = WithFacets(UserDefined(name, underlying), facets)
  BY <1>1
<1>3. PICK facets \in [DOMAIN NoFacets -> Int] : type = WithFacets(UserDefined(name, underlying), facets)
  BY <1>2
<1> QED BY <1>3 DEF WithFacets, UserDefined, Known

(* Families that convert into each other do so in groups.                  *)
LEMMA CompatibleFamilies ==
  /\ \A f, g : CompatibleFamily(f, g) = CompatibleFamily(g, f)
  /\ \A f, g, h : CompatibleFamily(f, g) /\ CompatibleFamily(g, h) => CompatibleFamily(f, h)
<1>1. \A f, g : {f, g} = {g, f}
  OBVIOUS
<1>2. ASSUME NEW f, NEW g, NEW h, CompatibleFamily(f, g), CompatibleFamily(g, h)
      PROVE  CompatibleFamily(f, h)
  <2> DEFINE groups == {NumericFamilies, {"string", "unicodeString"}, {"dateTime", "time"}}
  <2>1. PICK one \in groups : {f, g} \subseteq one
    BY <1>2 DEF CompatibleFamily
  <2>2. PICK other \in groups : {g, h} \subseteq other
    BY <1>2 DEF CompatibleFamily
  <2>3. g \in one /\ g \in other /\ f \in one /\ h \in other
    BY <2>1, <2>2
  <2>4. one = other
    BY <2>3 DEF NumericFamilies
  <2>5. {f, h} \subseteq one
    BY <2>3, <2>4
  <2> QED BY <2>5 DEF CompatibleFamily
<1> QED BY <1>1, <1>2 DEF CompatibleFamily

(* Comparing two types is comparing their names and families, unless one   *)
(* of them is unknown or of the user.                                      *)
LEMMA ComparedByKind ==
  ASSUME NEW a, NEW b, IsType(a), IsType(b)
  PROVE  CompareSqlTypes(a, b) =
           IF a.kind = "unknown" \/ b.kind = "unknown" THEN "unknown"
           ELSE IF a.userDefined \/ b.userDefined THEN CompareUserDefined(a, b) ELSE CompareSystemTypes(a, b)
<1>1. a.kind \in {"known", "unknown"} /\ b.kind \in {"known", "unknown"}
  BY SystemTypeFields, OwnTypeFields DEF IsType
<1> QED BY <1>1 DEF CompareSqlTypes

LEMMA SystemTypesMutual ==
  /\ \A a, b : CompareSystemTypes(a, b) = CompareSystemTypes(b, a)
  /\ \A a, b : CompareSystemTypes(a, b) \in Close <=> (a.name = b.name \/ CompatibleFamily(a.family, b.family))
<1>1. \A a, b : Near(a, b) = Near(b, a) /\ Near(a, b) \in {"exact", "sameBaseType"}
  BY DEF Near
<1>2. \A a, b : CompatibleFamily(a.family, b.family) = CompatibleFamily(b.family, a.family)
  BY CompatibleFamilies
<1>3. ASSUME NEW a, NEW b
      PROVE  /\ CompareSystemTypes(a, b) = CompareSystemTypes(b, a)
             /\ CompareSystemTypes(a, b) \in Close <=> (a.name = b.name \/ CompatibleFamily(a.family, b.family))
  <2>1. CASE a.name = b.name
    BY <1>1, <2>1 DEF CompareSystemTypes, Close
  <2>2. CASE a.name # b.name
    BY <1>2, <2>2 DEF CompareSystemTypes, Close
  <2> QED BY <2>1, <2>2
<1> QED BY <1>3

(* However many types there are: a type is as close to another as the      *)
(* other is to it (SqlTypeDescriptor.ts:166), so it does not matter from   *)
(* which table a relationship is read, and what is close to the same       *)
(* system type is close to each other.                                     *)
THEOREM TypesAreMutuallyClose ==
  ASSUME NEW types, \A i \in DOMAIN types : IsType(types[i])
  PROVE  ClosenessIsMutual(types)
<1>1. ASSUME NEW a, NEW b, IsType(a), IsType(b)
      PROVE  CompareSqlTypes(a, b) = CompareSqlTypes(b, a)
  <2>1. CASE a.kind = "unknown" \/ b.kind = "unknown"
    BY <1>1, <2>1, ComparedByKind
  <2>2. CASE ~(a.kind = "unknown" \/ b.kind = "unknown") /\ (a.userDefined \/ b.userDefined)
    <3>1. CompareSqlTypes(a, b) = CompareUserDefined(a, b) /\ CompareSqlTypes(b, a) = CompareUserDefined(b, a)
      BY <1>1, <2>2, ComparedByKind
    <3>2. Near(a, b) = Near(b, a)
      BY DEF Near
    <3> DEFINE ofA == Known(a.underlying)
               ofB == Known(b.underlying)
    <3>3. CompareSystemTypes(ofA, ofB) = CompareSystemTypes(ofB, ofA)
      <4> HIDE DEF ofA, ofB
      <4> QED BY SystemTypesMutual
    <3>4. CompareUserDefined(a, b) = CompareUserDefined(b, a)
      BY <3>2, <3>3 DEF CompareUserDefined
    <3> QED BY <3>1, <3>4
  <2>3. CASE ~(a.kind = "unknown" \/ b.kind = "unknown") /\ ~(a.userDefined \/ b.userDefined)
    <3>1. CompareSqlTypes(a, b) = CompareSystemTypes(a, b) /\ CompareSqlTypes(b, a) = CompareSystemTypes(b, a)
      BY <1>1, <2>3, ComparedByKind
    <3> QED BY <3>1, SystemTypesMutual
  <2> QED BY <2>1, <2>2, <2>3
<1>2. ASSUME NEW a, NEW b, IsType(a), IsType(b), ~b.userDefined, CompareSqlTypes(a, b) \in Close
      PROVE  /\ SystemType(a) /\ SystemType(b) /\ a.kind = "known" /\ b.kind = "known"
             /\ a.name = b.name \/ CompatibleFamily(a.family, b.family)
  <2>1. SystemType(b) /\ b.underlying = ""
    BY <1>2, OwnTypeFields, SystemTypeFields DEF IsType
  <2>2. a.kind # "unknown" /\ b.kind # "unknown"
    BY <1>2, ComparedByKind DEF Close
  <2>3. ~a.userDefined
    <3>1. SUFFICES ASSUME a.userDefined PROVE FALSE
      OBVIOUS
    <3>2. CompareSqlTypes(a, b) = CompareUserDefined(a, b)
      BY <1>2, <2>2, <3>1, ComparedByKind
    <3>3. CompareUserDefined(a, b) = "unknown"
      BY <1>2, <2>1 DEF CompareUserDefined
    <3> QED BY <1>2, <3>2, <3>3 DEF Close
  <2>4. SystemType(a)
    BY <1>2, <2>3, OwnTypeFields DEF IsType
  <2>5. CompareSqlTypes(a, b) = CompareSystemTypes(a, b)
    BY <1>2, <2>2, <2>3, ComparedByKind
  <2>6. a.kind = "known" /\ b.kind = "known"
    BY <2>1, <2>2, <2>4, SystemTypeFields
  <2> QED BY <1>2, <2>1, <2>4, <2>5, <2>6, SystemTypesMutual
<1>3. ASSUME NEW a, NEW b, NEW c, IsType(a), IsType(b), IsType(c), ~b.userDefined,
             CompareSqlTypes(a, b) \in Close, CompareSqlTypes(b, c) \in Close
      PROVE  CompareSqlTypes(a, c) \in Close
  <2>1. /\ SystemType(a) /\ SystemType(b) /\ a.kind = "known" /\ b.kind = "known"
        /\ a.name = b.name \/ CompatibleFamily(a.family, b.family)
    BY <1>2, <1>3
  <2>2. CompareSqlTypes(c, b) \in Close
    BY <1>1, <1>3
  <2>3. /\ SystemType(c) /\ c.kind = "known"
        /\ c.name = b.name \/ CompatibleFamily(c.family, b.family)
    BY <1>2, <1>3, <2>2
  <2>4. a.family = FamilyOf(a.name) /\ b.family = FamilyOf(b.name) /\ c.family = FamilyOf(c.name)
    BY <2>1, <2>3, SystemTypeFields
  <2>5. a.name = c.name \/ CompatibleFamily(a.family, c.family)
    <3>1. CASE a.name = b.name
      BY <2>3, <2>4, <3>1, CompatibleFamilies
    <3>2. CASE c.name = b.name
      BY <2>1, <2>4, <3>2
    <3>3. CASE CompatibleFamily(a.family, b.family) /\ CompatibleFamily(c.family, b.family)
      BY <3>3, CompatibleFamilies
    <3> QED BY <2>1, <2>3, <3>1, <3>2, <3>3
  <2>6. ~a.userDefined /\ ~c.userDefined
    BY <2>1, <2>3, SystemTypeFields
  <2>7. CompareSqlTypes(a, c) = CompareSystemTypes(a, c)
    BY <1>3, <2>1, <2>3, <2>6, ComparedByKind
  <2> QED BY <2>5, <2>7, SystemTypesMutual
<1> QED BY <1>1, <1>3 DEF ClosenessIsMutual

-----------------------------------------------------------------------------
(* A finite set of numbers that is not empty has a largest one.            *)
LEMMA LargestExists ==
  ASSUME NEW numbers, numbers \subseteq Int, IsFiniteSet(numbers), numbers # {}
  PROVE  \E n \in numbers : \A m \in numbers : n >= m
<1> DEFINE HasLargest(S) == S = {} \/ \E n \in S : \A m \in S : n >= m
           bound == Cardinality(numbers)
           holds == {n \in 0..bound : \A S : S \subseteq Int /\ IsFiniteSet(S) /\ Cardinality(S) = n => HasLargest(S)}
<1>1. bound \in Nat
  BY FS_CardinalityType
<1>2. 0 \in holds
  BY <1>1, FS_EmptySet
<1>3. ASSUME NEW n \in 0..(bound - 1), n \in holds
      PROVE  n + 1 \in holds
  <2>1. ASSUME NEW S, S \subseteq Int, IsFiniteSet(S), Cardinality(S) = n + 1
        PROVE  HasLargest(S)
    <3>1. PICK x \in S : TRUE
      <4>1. S # {}
        BY <2>1, FS_EmptySet
      <4> QED BY <4>1
    <3> DEFINE rest == S \ {x}
    <3>2. rest \subseteq Int /\ IsFiniteSet(rest) /\ Cardinality(rest) = n
      <4>1. IsFiniteSet(rest) /\ Cardinality(rest) = Cardinality(S) - 1
        BY <2>1, <3>1, FS_RemoveElement
      <4> QED BY <2>1, <4>1
    <3>3. HasLargest(rest)
      BY <1>3, <3>2
    <3>4. CASE rest = {}
      <4>1. S = {x} /\ x \in Int
        BY <2>1, <3>1, <3>4
      <4> QED BY <4>1
    <3>5. CASE rest # {}
      <4>1. PICK y \in rest : \A m \in rest : y >= m
        BY <3>3, <3>5
      <4>2. y \in S /\ y \in Int /\ x \in Int /\ \A m \in S : m = x \/ m \in rest
        BY <2>1, <3>1, <4>1
      <4>3. CASE y >= x
        <5>1. \A m \in S : y >= m
          BY <4>1, <4>2, <4>3
        <5> QED BY <4>2, <5>1
      <4>4. CASE ~(y >= x)
        <5>1. \A m \in S : m \in Int
          BY <2>1
        <5>2. \A m \in S : x >= m
          BY <4>1, <4>2, <4>4, <5>1
        <5> QED BY <3>1, <5>2
      <4> QED BY <4>3, <4>4
    <3> QED BY <3>4, <3>5
  <2>2. n + 1 \in 0..bound
    BY <1>1
  <2> QED BY <2>1, <2>2
<1>4. \A n \in 0..bound : n \in holds
  <2> HIDE DEF holds, bound
  <2> QED BY <1>1, <1>2, <1>3, Counting
<1>5. bound \in holds
  <2> HIDE DEF holds
  <2> QED BY <1>1, <1>4
<1> QED BY <1>5

LEMMA MaxIsLargest ==
  ASSUME NEW numbers, numbers \subseteq Int, IsFiniteSet(numbers), numbers # {}
  PROVE  Max(numbers) \in numbers /\ \A m \in numbers : Max(numbers) >= m
BY LargestExists DEF Max

(* The widest of some facets is one of them, or none is there; and of the  *)
(* widest of some and some others it is the widest of all.                 *)
LEMMA WidestIsOne ==
  ASSUME NEW A, A \subseteq Int, IsFiniteSet(A)
  PROVE  /\ WidestFacet(A) = Absent \/ WidestFacet(A) \in A
         /\ WidestFacet(A) \in Int
         /\ WidestFacet(A) = Absent <=> A \subseteq {Absent}
         /\ WidestFacet(A) = MaxLength <=> MaxLength \in A
         /\ (MaxLength \notin A /\ ~(A \subseteq {Absent})) => \A n \in A \ {Absent} : WidestFacet(A) >= n
<1> DEFINE present == A \ {Absent}
<1>1. present \subseteq Int /\ IsFiniteSet(present)
  BY FS_Subset
<1>2. Absent \in Int /\ MaxLength \in Int /\ Absent # MaxLength
  BY DEF Absent, MaxLength
<1>3. present = {} <=> A \subseteq {Absent}
  OBVIOUS
<1>4. present # {} => Max(present) \in present /\ \A n \in present : Max(present) >= n
  <2> HIDE DEF present
  <2> QED BY <1>1, MaxIsLargest
<1> HIDE DEF Absent, MaxLength
<1>5. CASE present = {}
  <2>1. WidestFacet(A) = Absent
    BY <1>5 DEF WidestFacet
  <2>2. MaxLength \notin A
    BY <1>2, <1>5
  <2> QED BY <1>2, <1>3, <1>5, <2>1, <2>2
<1>6. CASE present # {} /\ MaxLength \in present
  <2>1. WidestFacet(A) = MaxLength
    BY <1>6 DEF WidestFacet
  <2> QED BY <1>2, <1>3, <1>6, <2>1
<1>7. CASE present # {} /\ MaxLength \notin present
  <2>1. WidestFacet(A) = Max(present)
    BY <1>7 DEF WidestFacet
  <2>2. WidestFacet(A) \in present /\ \A n \in present : WidestFacet(A) >= n
    BY <1>4, <1>7, <2>1
  <2>3. MaxLength \notin A
    BY <1>2, <1>7
  <2>4. WidestFacet(A) \in A /\ WidestFacet(A) # Absent /\ WidestFacet(A) # MaxLength
    BY <1>7, <2>2
  <2> HIDE DEF WidestFacet
  <2> QED BY <1>1, <1>3, <1>7, <2>2, <2>3, <2>4
<1> QED BY <1>5, <1>6, <1>7

LEMMA WidestOfAll ==
  ASSUME NEW A, A \subseteq Int, IsFiniteSet(A), NEW B, B \subseteq Int, IsFiniteSet(B)
  PROVE  WidestFacet({WidestFacet(A)} \cup B) = WidestFacet(A \cup B)
<1> DEFINE w == WidestFacet(A)
           one == {w} \cup B
           all == A \cup B
<1>1. /\ w = Absent \/ w \in A
      /\ w \in Int
      /\ w = Absent <=> A \subseteq {Absent}
      /\ w = MaxLength <=> MaxLength \in A
      /\ (MaxLength \notin A /\ ~(A \subseteq {Absent})) => \A n \in A \ {Absent} : w >= n
  BY WidestIsOne
<1> HIDE DEF w
<1>2. one \subseteq Int /\ IsFiniteSet(one) /\ all \subseteq Int /\ IsFiniteSet(all)
  BY <1>1, FS_Union, FS_Singleton
<1>3. Absent # MaxLength
  BY DEF Absent, MaxLength
<1> HIDE DEF Absent, MaxLength
<1>4. one \subseteq {Absent} <=> all \subseteq {Absent}
  BY <1>1
<1>5. MaxLength \in one <=> MaxLength \in all
  BY <1>1
<1>6. CASE all \subseteq {Absent} \/ MaxLength \in all
  <2>1. /\ WidestFacet(one) = Absent <=> one \subseteq {Absent}
        /\ WidestFacet(one) = MaxLength <=> MaxLength \in one
        /\ WidestFacet(all) = Absent <=> all \subseteq {Absent}
        /\ WidestFacet(all) = MaxLength <=> MaxLength \in all
    <3> HIDE DEF one, all
    <3> QED BY <1>2, WidestIsOne
  <2> QED BY <1>4, <1>5, <1>6, <2>1 DEF w
<1>7. CASE ~(all \subseteq {Absent}) /\ MaxLength \notin all
  <2> DEFINE x == WidestFacet(one)
             y == WidestFacet(all)
  <2>1. /\ x \in one \ {Absent} /\ \A n \in one \ {Absent} : x >= n
        /\ y \in all \ {Absent} /\ \A n \in all \ {Absent} : y >= n
    <3>1. ~(one \subseteq {Absent}) /\ MaxLength \notin one
      BY <1>4, <1>5, <1>7
    <3> HIDE DEF one, all
    <3> QED BY <1>2, <1>7, <3>1, WidestIsOne
  <2> HIDE DEF x, y
  <2>2. x \in Int /\ y \in Int
    BY <1>2, <2>1
  <2>3. y >= x
    BY <1>1, <2>1
  <2>4. x >= y
    <3>1. CASE y \in B
      BY <2>1, <3>1
    <3>2. CASE y \in A
      <4>1. w \in A \ {Absent} /\ w >= y
        BY <1>1, <1>7, <2>1, <3>2
      <4>2. x >= w
        BY <2>1, <4>1
      <4> QED BY <1>1, <2>2, <4>1, <4>2
    <3> QED BY <2>1, <3>1, <3>2
  <2>5. x = y
    BY <2>2, <2>3, <2>4
  <2> QED BY <2>5 DEF x, y, w
<1> QED BY <1>6, <1>7

-----------------------------------------------------------------------------
(* The type of some expressions, whatever their order: the name that comes *)
(* first of those that have a place, with the widest facets of that name.  *)
Branch(type) == type = NullLiteral \/ SystemType(type)
KnownOf(S) == {t \in S : t.kind = "known"}
OfPrecedence(S, p) == {t \in KnownOf(S) : Precedence(t) = p}
BestOf(S) == Min({Precedence(t) : t \in KnownOf(S)})
WidestOf(S, p) == [f \in DOMAIN NoFacets |-> WidestFacet({t.facets[f] : t \in OfPrecedence(S, p)})]
Reconciled(S) ==
  IF KnownOf(S) = {} \/ BestOf(S) > Len(TypePrecedence) THEN Unknown
  ELSE WithFacets(Known(TypePrecedence[BestOf(S)]), WidestOf(S, BestOf(S)))

LEMMA KnownBranch ==
  ASSUME NEW type, Branch(type)
  PROVE  /\ type.kind \in {"known", "unknown", "null"} /\ ~type.userDefined
         /\ type.kind = "known" => SystemType(type)
         /\ type.kind = "unknown" => type = Unknown
<1>1. NullLiteral.kind = "null" /\ ~NullLiteral.userDefined
  BY DEF NullLiteral, Unknown, Known
<1> QED BY <1>1, SystemTypeFields DEF Branch

LEMMA Precedences ==
  ASSUME NEW type
  PROVE  /\ Precedence(type) \in Nat
         /\ Precedence(type) <= Len(TypePrecedence) =>
              /\ Precedence(type) \in DOMAIN TypePrecedence
              /\ TypePrecedence[Precedence(type)] = type.name
         /\ \A other : other.name = type.name => Precedence(other) = Precedence(type)
<1> DEFINE named == {i \in DOMAIN TypePrecedence : TypePrecedence[i] = type.name}
           places == named \cup {Len(TypePrecedence) + 1}
<1>1. Len(TypePrecedence) \in Nat /\ DOMAIN TypePrecedence = 1..Len(TypePrecedence)
  BY DEF TypePrecedence
<1> HIDE DEF TypePrecedence
<1>2. places \in SUBSET Nat /\ places # {}
  BY <1>1
<1>3. Min(places) \in places
  <2> HIDE DEF places
  <2> QED BY <1>2, MinIsLeast
<1>4. Precedence(type) = Min(places)
  BY DEF Precedence
<1>5. \A other : other.name = type.name => Precedence(other) = Precedence(type)
  BY DEF Precedence
<1>6. Precedence(type) \in places
  BY <1>3, <1>4
<1> HIDE DEF Precedence
<1> QED BY <1>1, <1>2, <1>5, <1>6

LEMMA BestIsLeast ==
  ASSUME NEW S, KnownOf(S) # {}
  PROVE  /\ BestOf(S) \in Nat
         /\ \E t \in KnownOf(S) : Precedence(t) = BestOf(S)
         /\ \A t \in KnownOf(S) : BestOf(S) <= Precedence(t)
<1> DEFINE all == {Precedence(t) : t \in KnownOf(S)}
<1>1. all \in SUBSET Nat /\ all # {}
  BY Precedences
<1>2. Min(all) \in all /\ \A n \in all : Min(all) <= n
  <2> HIDE DEF all
  <2> QED BY <1>1, MinIsLeast
<1>3. BestOf(S) = Min(all)
  BY DEF BestOf
<1> QED BY <1>1, <1>2, <1>3

(* Nothing but a least precedence is one.                                  *)
LEMMA LeastIsBest ==
  ASSUME NEW S, NEW p \in Nat, OfPrecedence(S, p) # {}, \A t \in KnownOf(S) : p <= Precedence(t)
  PROVE  BestOf(S) = p
<1>1. KnownOf(S) # {} /\ \E t \in KnownOf(S) : Precedence(t) = p
  BY DEF OfPrecedence
<1>2. /\ BestOf(S) \in Nat
      /\ \E t \in KnownOf(S) : Precedence(t) = BestOf(S)
      /\ \A t \in KnownOf(S) : BestOf(S) <= Precedence(t)
  BY <1>1, BestIsLeast
<1> HIDE DEF BestOf
<1> QED BY <1>1, <1>2

(* A list of branches has the type of the set of them.                     *)
LEMMA ReconciledList ==
  ASSUME NEW T, NEW types \in Seq(T), \A i \in DOMAIN types : Branch(types[i])
  PROVE  ReconcileByPrecedence(types) = Reconciled(Range(types))
<1> DEFINE S == Range(types)
           known == {i \in DOMAIN types : types[i].kind = "known"}
           own == {i \in known : types[i].userDefined}
           best == Min({Precedence(types[i]) : i \in known})
           places == {i \in known : Precedence(types[i]) = best}
<1>1. own = {}
  BY KnownBranch
<1>2. \A t : t \in KnownOf(S) <=> \E i \in known : t = types[i]
  BY DEF KnownOf, Range
<1>3. {Precedence(types[i]) : i \in known} = {Precedence(t) : t \in KnownOf(S)}
  <2> HIDE DEF known, S
  <2> QED BY <1>2
<1>4. best = BestOf(S)
  BY <1>3 DEF BestOf
<1>5. known = {} <=> KnownOf(S) = {}
  <2> HIDE DEF known, S
  <2> QED BY <1>2
<1>6. ReconcileByPrecedence(types) =
        IF known = {} \/ best > Len(TypePrecedence) THEN Unknown ELSE MergeSameBaseType(types, places)
  BY <1>1 DEF ReconcileByPrecedence
<1>7. ASSUME known # {}, ~(best > Len(TypePrecedence))
      PROVE  MergeSameBaseType(types, places) = WithFacets(Known(TypePrecedence[best]), WidestOf(S, best))
  <2>1. places # {}
    <3>1. \E t \in KnownOf(S) : Precedence(t) = BestOf(S)
      BY <1>5, <1>7, BestIsLeast
    <3> HIDE DEF known, best, S
    <3> QED BY <1>2, <1>4, <3>1
  <2>2. places \in SUBSET Nat
    OBVIOUS
  <2> DEFINE first == types[Min(places)]
  <2>3. Min(places) \in places
    <3> HIDE DEF places
    <3> QED BY <2>1, <2>2, MinIsLeast
  <2>4. Min(places) \in DOMAIN types /\ first.kind = "known" /\ Precedence(first) = best
    <3> HIDE DEF best
    <3> QED BY <2>3
  <2>5. SystemType(first)
    BY <2>4, KnownBranch
  <2>6. first.name = TypePrecedence[best]
    <3>1. best \in Nat /\ Len(TypePrecedence) \in Nat
      <4>1. Len(TypePrecedence) \in Nat
        BY DEF TypePrecedence
      <4> HIDE DEF best
      <4> QED BY <2>4, <4>1, Precedences
    <3>2. best <= Len(TypePrecedence)
      <4> HIDE DEF best
      <4> QED BY <1>7, <3>1
    <3> HIDE DEF best, first
    <3> QED BY <2>4, <3>2, Precedences
  <2>7. first = WithFacets(Known(TypePrecedence[best]), first.facets)
    <3> HIDE DEF best, first
    <3> QED BY <2>4, <2>5, <2>6, SystemTypeFields
  <2>8. \A t : t \in OfPrecedence(S, best) <=> \E i \in places : t = types[i]
    <3> HIDE DEF best, S
    <3> QED BY <1>2 DEF OfPrecedence
  <2>9. \A f : {types[i].facets[f] : i \in places} = {t.facets[f] : t \in OfPrecedence(S, best)}
    <3> HIDE DEF places, best, S
    <3> QED BY <2>8
  <2>10. [f \in DOMAIN NoFacets |-> WidestFacet({types[i].facets[f] : i \in places})] = WidestOf(S, best)
    <3> HIDE DEF places, best, S
    <3> QED BY <2>9 DEF WidestOf
  <2>11. MergeSameBaseType(types, places) = [first EXCEPT !.facets = WidestOf(S, best)]
    <3> HIDE DEF places, best, S
    <3> QED BY <2>10 DEF MergeSameBaseType
  <2>12. ASSUME NEW facets, NEW wide, NEW name
         PROVE  [WithFacets(Known(name), facets) EXCEPT !.facets = wide] = WithFacets(Known(name), wide)
    BY DEF WithFacets, Known
  <2> HIDE DEF first, places, best, S
  <2> QED BY <2>7, <2>11, <2>12
<1> HIDE DEF known, best, places, S
<1>8. ReconcileByPrecedence(types) =
        IF KnownOf(S) = {} \/ best > Len(TypePrecedence) THEN Unknown
        ELSE WithFacets(Known(TypePrecedence[best]), WidestOf(S, best))
  BY <1>5, <1>6, <1>7
<1> QED BY <1>4, <1>8 DEF Reconciled, S

(* What decides the type of some expressions: the types that have a place, *)
(* and of these the ones that come first.                                  *)
LEMMA NothingPlaced ==
  ASSUME NEW S, \A t \in KnownOf(S) : Precedence(t) > Len(TypePrecedence)
  PROVE  Reconciled(S) = Unknown
<1>1. CASE KnownOf(S) = {}
  BY <1>1 DEF Reconciled
<1>2. CASE KnownOf(S) # {}
  <2>1. \E t \in KnownOf(S) : Precedence(t) = BestOf(S)
    BY <1>2, BestIsLeast
  <2>2. BestOf(S) > Len(TypePrecedence)
    BY <2>1
  <2> QED BY <2>2 DEF Reconciled
<1> QED BY <1>1, <1>2

LEMMA FirstPlaced ==
  ASSUME NEW S, NEW p \in Nat, p <= Len(TypePrecedence), OfPrecedence(S, p) # {},
         \A t \in KnownOf(S) : p <= Precedence(t)
  PROVE  Reconciled(S) = WithFacets(Known(TypePrecedence[p]), WidestOf(S, p))
<1>1. BestOf(S) = p
  BY LeastIsBest
<1>2. KnownOf(S) # {}
  BY DEF OfPrecedence
<1>3. ~(p > Len(TypePrecedence))
  <2>1. Len(TypePrecedence) \in Nat
    BY DEF TypePrecedence
  <2> HIDE DEF TypePrecedence
  <2> QED BY <2>1
<1> QED BY <1>1, <1>2, <1>3 DEF Reconciled

FacetsOf(S, p, f) == {t.facets[f] : t \in OfPrecedence(S, p)}

LEMMA FiniteFacets ==
  ASSUME NEW S, IsFiniteSet(S), \A t \in S : Branch(t), NEW p, NEW f \in DOMAIN NoFacets
  PROVE  FacetsOf(S, p, f) \subseteq Int /\ IsFiniteSet(FacetsOf(S, p, f))
<1> DEFINE some == OfPrecedence(S, p)
           facet == [t \in some |-> t.facets[f]]
           all == {facet[t] : t \in some}
<1>1. all = FacetsOf(S, p, f)
  BY DEF FacetsOf
<1>2. some \subseteq S /\ \A t \in some : SystemType(t) /\ t.kind = "known"
  BY KnownBranch DEF OfPrecedence, KnownOf
<1>3. \A t \in some : t.facets[f] \in Int
  <2>1. \A t \in some : t.facets \in [DOMAIN NoFacets -> Int]
    BY <1>2, SystemTypeFields
  <2> HIDE DEF some
  <2> QED BY <2>1
<1>4. facet \in Surjection(some, all)
  BY DEF Surjection
<1>5. IsFiniteSet(some)
  BY <1>2, FS_Subset
<1>6. IsFiniteSet(all)
  <2> HIDE DEF some, all, facet
  <2> QED BY <1>4, <1>5, FS_Surjection
<1> QED BY <1>1, <1>3, <1>6

(* What some of a set of types have together can stand for them.           *)
LEMMA NestedIsSame ==
  ASSUME NEW A, IsFiniteSet(A), \A t \in A : Branch(t),
         NEW B, IsFiniteSet(B), \A t \in B : Branch(t)
  PROVE  Reconciled({Reconciled(A)} \cup B) = Reconciled(A \cup B)
<1> DEFINE r == Reconciled(A)
           one == {r} \cup B
           all == A \cup B
           last == Len(TypePrecedence)
<1>1. last \in Nat
  BY DEF TypePrecedence
<1>2. Unknown.kind = "unknown" /\ \A name, facets : /\ WithFacets(Known(name), facets).kind = "known"
                                                    /\ WithFacets(Known(name), facets).name = name
                                                    /\ WithFacets(Known(name), facets).facets = facets
  BY DEF Unknown, Known, WithFacets
<1>3. KnownOf(all) = KnownOf(A) \cup KnownOf(B)
  BY DEF KnownOf
<1>4. KnownOf(one) = KnownOf({r}) \cup KnownOf(B)
  BY DEF KnownOf
<1>5. \A t : Precedence(t) \in Nat
  BY Precedences
<1>6. \A p : /\ OfPrecedence(all, p) = OfPrecedence(A, p) \cup OfPrecedence(B, p)
             /\ OfPrecedence(one, p) = OfPrecedence({r}, p) \cup OfPrecedence(B, p)
  <2> HIDE DEF one, all
  <2> QED BY <1>3, <1>4 DEF OfPrecedence
<1>7. CASE \A t \in KnownOf(all) : Precedence(t) > last
  <2>1. r = Unknown
    BY <1>3, <1>7, NothingPlaced
  <2>2. KnownOf({r}) = {}
    BY <1>2, <2>1 DEF KnownOf
  <2>3. \A t \in KnownOf(one) : Precedence(t) > last
    BY <1>3, <1>4, <1>7, <2>2
  <2>4. Reconciled(one) = Unknown /\ Reconciled(all) = Unknown
    <3> HIDE DEF one, all
    <3> QED BY <1>7, <2>3, NothingPlaced
  <2> QED BY <2>4
<1>8. CASE ~(\A t \in KnownOf(all) : Precedence(t) > last)
  <2> DEFINE p == BestOf(all)
  <2>1. /\ p \in Nat /\ p <= last
        /\ OfPrecedence(all, p) # {}
        /\ \A t \in KnownOf(all) : p <= Precedence(t)
    <3>1. PICK u \in KnownOf(all) : ~(Precedence(u) > last)
      BY <1>8
    <3>2. /\ p \in Nat
          /\ \E t \in KnownOf(all) : Precedence(t) = p
          /\ \A t \in KnownOf(all) : p <= Precedence(t)
      <4>1. KnownOf(all) # {}
        BY <3>1
      <4> HIDE DEF all
      <4> QED BY <4>1, BestIsLeast
    <3> HIDE DEF p, last
    <3>3. p <= last
      BY <1>1, <1>5, <3>1, <3>2
    <3>4. OfPrecedence(all, p) # {}
      BY <3>2 DEF OfPrecedence
    <3> QED BY <3>2, <3>3, <3>4
  <2> HIDE DEF p
  <2>2. Reconciled(all) = WithFacets(Known(TypePrecedence[p]), WidestOf(all, p))
    <3> HIDE DEF all
    <3> QED BY <2>1, FirstPlaced
  <2>3. CASE OfPrecedence(A, p) # {}
    <3>1. r = WithFacets(Known(TypePrecedence[p]), WidestOf(A, p))
      BY <1>3, <2>1, <2>3, FirstPlaced
    <3>2. r.kind = "known" /\ Precedence(r) = p /\ r.facets = WidestOf(A, p)
      <4>1. PICK t \in KnownOf(A) : Precedence(t) = p
        BY <2>3 DEF OfPrecedence
      <4>2. t.name = TypePrecedence[p]
        BY <2>1, <4>1, Precedences
      <4>3. r.name = t.name /\ r.kind = "known" /\ r.facets = WidestOf(A, p)
        BY <1>2, <3>1, <4>2
      <4> HIDE DEF r
      <4>4. Precedence(r) = Precedence(t)
        BY <4>3, Precedences
      <4> QED BY <4>1, <4>3, <4>4
    <3> HIDE DEF r
    <3>3. OfPrecedence({r}, p) = {r} /\ KnownOf({r}) = {r}
      BY <3>2 DEF OfPrecedence, KnownOf
    <3>4. OfPrecedence(one, p) # {} /\ \A t \in KnownOf(one) : p <= Precedence(t)
      <4>1. OfPrecedence(one, p) = {r} \cup OfPrecedence(B, p) /\ KnownOf(one) = {r} \cup KnownOf(B)
        <5> HIDE DEF one
        <5> QED BY <1>4, <1>6, <3>3
      <4>2. p <= Precedence(r)
        BY <2>1, <3>2
      <4> HIDE DEF one, all
      <4> QED BY <1>3, <2>1, <4>1, <4>2
    <3>5. Reconciled(one) = WithFacets(Known(TypePrecedence[p]), WidestOf(one, p))
      <4> HIDE DEF one
      <4> QED BY <2>1, <3>4, FirstPlaced
    <3>6. ASSUME NEW f \in DOMAIN NoFacets
          PROVE  WidestOf(one, p)[f] = WidestOf(all, p)[f]
      <4>1. FacetsOf(one, p, f) = {r.facets[f]} \cup FacetsOf(B, p, f)
        BY <1>6, <3>3 DEF FacetsOf
      <4>2. FacetsOf(all, p, f) = FacetsOf(A, p, f) \cup FacetsOf(B, p, f)
        BY <1>6 DEF FacetsOf
      <4>3. r.facets[f] = WidestFacet(FacetsOf(A, p, f))
        BY <3>2 DEF WidestOf, FacetsOf
      <4>4. /\ WidestOf(one, p)[f] = WidestFacet(FacetsOf(one, p, f))
            /\ WidestOf(all, p)[f] = WidestFacet(FacetsOf(all, p, f))
        BY DEF WidestOf, FacetsOf
      <4>5. /\ FacetsOf(A, p, f) \subseteq Int /\ IsFiniteSet(FacetsOf(A, p, f))
            /\ FacetsOf(B, p, f) \subseteq Int /\ IsFiniteSet(FacetsOf(B, p, f))
        BY FiniteFacets
      <4>6. WidestFacet({WidestFacet(FacetsOf(A, p, f))} \cup FacetsOf(B, p, f))
              = WidestFacet(FacetsOf(A, p, f) \cup FacetsOf(B, p, f))
        BY <4>5, WidestOfAll
      <4> QED BY <4>1, <4>2, <4>3, <4>4, <4>6
    <3>7. WidestOf(one, p) = WidestOf(all, p)
      <4>1. WidestOf(one, p) = [f \in DOMAIN NoFacets |-> WidestOf(one, p)[f]]
        BY DEF WidestOf
      <4>2. WidestOf(all, p) = [f \in DOMAIN NoFacets |-> WidestOf(all, p)[f]]
        BY DEF WidestOf
      <4> HIDE DEF one, all
      <4> QED BY <3>6, <4>1, <4>2
    <3>8. Reconciled(one) = Reconciled(all)
      <4> HIDE DEF one, all
      <4> QED BY <2>2, <3>5, <3>7
    <3> QED BY <3>8 DEF r
  <2>4. CASE OfPrecedence(A, p) = {}
    <3>1. OfPrecedence({r}, p) = {} /\ \A t \in KnownOf({r}) : p <= Precedence(t)
      <4>1. CASE \A t \in KnownOf(A) : Precedence(t) > last
        <5>1. r = Unknown
          BY <4>1, NothingPlaced
        <5> QED BY <1>2, <5>1 DEF OfPrecedence, KnownOf
      <4>2. CASE ~(\A t \in KnownOf(A) : Precedence(t) > last)
        <5> DEFINE q == BestOf(A)
        <5>1. PICK u \in KnownOf(A) : ~(Precedence(u) > last)
          BY <4>2
        <5>2. /\ q \in Nat
              /\ \A t \in KnownOf(A) : q <= Precedence(t)
          BY <5>1, BestIsLeast
        <5>3. PICK t \in KnownOf(A) : Precedence(t) = q
          BY <5>1, BestIsLeast
        <5> HIDE DEF q
        <5>4. q <= last /\ OfPrecedence(A, q) # {} /\ p <= q /\ p # q
          <6>1. q <= last
            <7> HIDE DEF last
            <7> QED BY <1>1, <1>5, <5>1, <5>2
          <6>2. t \in OfPrecedence(A, q)
            BY <5>3 DEF OfPrecedence
          <6>3. p <= q
            BY <1>3, <2>1, <5>3
          <6> QED BY <2>4, <6>1, <6>2, <6>3
        <5>5. r = WithFacets(Known(TypePrecedence[q]), WidestOf(A, q))
          BY <5>2, <5>4, FirstPlaced
        <5>6. t.name = TypePrecedence[q]
          BY <5>3, <5>4, Precedences
        <5>7. r.name = t.name
          BY <1>2, <5>5, <5>6
        <5> HIDE DEF r
        <5>8. Precedence(r) = q
          BY <5>3, <5>7, Precedences
        <5> QED BY <5>4, <5>8 DEF OfPrecedence, KnownOf
      <4> QED BY <4>1, <4>2
    <3>2. OfPrecedence(one, p) = OfPrecedence(all, p)
      BY <1>6, <2>4, <3>1
    <3>3. \A t \in KnownOf(one) : p <= Precedence(t)
      BY <1>3, <1>4, <2>1, <3>1
    <3>4. Reconciled(one) = WithFacets(Known(TypePrecedence[p]), WidestOf(one, p))
      <4> HIDE DEF one
      <4> QED BY <2>1, <3>2, <3>3, FirstPlaced
    <3>5. WidestOf(one, p) = WidestOf(all, p)
      BY <3>2 DEF WidestOf
    <3> QED BY <2>2, <3>4, <3>5
  <2> QED BY <2>3, <2>4
<1> QED BY <1>7, <1>8

LEMMA ReconciledIsSystem ==
  ASSUME NEW S, IsFiniteSet(S), \A t \in S : Branch(t)
  PROVE  SystemType(Reconciled(S))
<1> DEFINE p == BestOf(S)
<1>1. WidestOf(S, p) \in [DOMAIN NoFacets -> Int]
  <2>1. ASSUME NEW f \in DOMAIN NoFacets
        PROVE  WidestFacet(FacetsOf(S, p, f)) \in Int
    <3>1. FacetsOf(S, p, f) \subseteq Int /\ IsFiniteSet(FacetsOf(S, p, f))
      BY FiniteFacets
    <3> QED BY <3>1, WidestIsOne
  <2> QED BY <2>1 DEF WidestOf, FacetsOf
<1>2. Reconciled(S) = Unknown \/ Reconciled(S) = WithFacets(Known(TypePrecedence[p]), WidestOf(S, p))
  BY DEF Reconciled
<1> HIDE DEF p
<1> QED BY <1>1, <1>2 DEF SystemType

(* The type of branches in CASE or COALESCE, whatever their order.         *)
ReconciledBranches(S) == IF \E t \in S : t.kind = "unknown" THEN Unknown ELSE Reconciled(S)

LEMMA ReconciledBranchList ==
  ASSUME NEW T, NEW types \in Seq(T), \A i \in DOMAIN types : Branch(types[i])
  PROVE  ReconcileExpressions(types) = ReconciledBranches(Range(types))
<1>1. (\E i \in DOMAIN types : types[i].kind = "unknown") <=> (\E t \in Range(types) : t.kind = "unknown")
  BY DEF Range
<1>2. ReconcileByPrecedence(types) = Reconciled(Range(types))
  BY ReconciledList
<1> HIDE DEF ReconcileByPrecedence, Reconciled
<1> QED BY <1>1, <1>2 DEF ReconcileExpressions, ReconciledBranches

(* Some branches together stand for them, or for an unresolved one.        *)
LEMMA NestedBranches ==
  ASSUME NEW A, IsFiniteSet(A), \A t \in A : Branch(t),
         NEW B, IsFiniteSet(B), \A t \in B : Branch(t),
         NEW r, r = ReconciledBranches(A)
  PROVE  /\ Branch(r)
         /\ ReconciledBranches({r} \cup B) =
              IF r.kind = "known" THEN ReconciledBranches(A \cup B) ELSE Unknown
<1>1. Unknown.kind = "unknown" /\ SystemType(Unknown)
  BY DEF Unknown, Known, SystemType
<1>2. SystemType(Reconciled(A))
  BY ReconciledIsSystem
<1>3. r = Unknown \/ r = Reconciled(A)
  BY DEF ReconciledBranches
<1> HIDE DEF Reconciled, Unknown, SystemType
<1>4. SystemType(r) /\ Branch(r)
  BY <1>1, <1>2, <1>3 DEF Branch
<1>5. r.kind \in {"known", "unknown"}
  BY <1>4, SystemTypeFields
<1>6. CASE r.kind = "known"
  <2>1. ~(\E t \in A : t.kind = "unknown") /\ r = Reconciled(A)
    BY <1>1, <1>6 DEF ReconciledBranches
  <2>2. (\E t \in {r} \cup B : t.kind = "unknown") <=> (\E t \in A \cup B : t.kind = "unknown")
    BY <1>6, <2>1
  <2>3. Reconciled({r} \cup B) = Reconciled(A \cup B)
    BY <2>1, NestedIsSame
  <2> QED BY <1>4, <1>6, <2>2, <2>3 DEF ReconciledBranches
<1>7. CASE r.kind = "unknown"
  BY <1>4, <1>7 DEF ReconciledBranches
<1> QED BY <1>5, <1>6, <1>7

(* However many branches there are, of whatever system types: the type of  *)
(* CASE or COALESCE over them (SqlTypeInference.ts:255,                    *)
(* SqlTypeDescriptor.ts:289) does not depend on their order.  Put together *)
(* in a CASE or COALESCE of their own, some of them leave it as it is when *)
(* the type of that one is known, and unknown when it is not.              *)
THEOREM ExpressionsHaveOneType ==
  ASSUME NEW T, NEW types \in Seq(T), \A i \in DOMAIN types : types[i] = NullLiteral \/ IsType(types[i])
  PROVE  ReconcileIsOne(types)
<1> SUFFICES ASSUME \A i \in DOMAIN types : ~types[i].userDefined
             PROVE  /\ \A order \in Orderings(types) : ReconcileExpressions(order) = ReconcileExpressions(types)
                    /\ \A i \in DOMAIN types :
                         ReconcileExpressions(<<ReconcileExpressions(SubSeq(types, 1, i))>>
                                                \o SubSeq(types, i + 1, Len(types)))
                           = IF ReconcileExpressions(SubSeq(types, 1, i)).kind = "known"
                             THEN ReconcileExpressions(types) ELSE Unknown
  BY DEF ReconcileIsOne
<1>1. \A i \in DOMAIN types : Branch(types[i])
  BY OwnTypeFields DEF IsType, Branch
<1>2. DOMAIN types = 1..Len(types) /\ Len(types) \in Nat
  OBVIOUS
<1>3. ReconcileExpressions(types) = ReconciledBranches(Range(types))
  BY <1>1, ReconciledBranchList
<1>4. ASSUME NEW order \in Orderings(types)
      PROVE  ReconcileExpressions(order) = ReconcileExpressions(types)
  <2>1. PICK p \in Bijection(DOMAIN types, DOMAIN types) : order = [i \in DOMAIN types |-> types[p[i]]]
    BY DEF Orderings
  <2>2. /\ p \in [DOMAIN types -> DOMAIN types]
        /\ \A j \in DOMAIN types : \E i \in DOMAIN types : p[i] = j
    BY <2>1 DEF Bijection, Surjection
  <2>3. order \in Seq(T)
    BY <1>2, <2>1, <2>2
  <2>4. DOMAIN order = DOMAIN types /\ \A i \in DOMAIN types : order[i] = types[p[i]]
    BY <2>1
  <2>5. Range(order) = Range(types)
    BY <2>2, <2>4 DEF Range
  <2>6. \A i \in DOMAIN order : Branch(order[i])
    BY <1>1, <2>2, <2>4
  <2>7. ReconcileExpressions(order) = ReconciledBranches(Range(order))
    BY <2>3, <2>6, ReconciledBranchList
  <2> QED BY <1>3, <2>5, <2>7
<1>5. ASSUME NEW i \in DOMAIN types
      PROVE  ReconcileExpressions(<<ReconcileExpressions(SubSeq(types, 1, i))>>
                                    \o SubSeq(types, i + 1, Len(types)))
               = IF ReconcileExpressions(SubSeq(types, 1, i)).kind = "known"
                 THEN ReconcileExpressions(types) ELSE Unknown
  <2> DEFINE n == Len(types)
             begin == SubSeq(types, 1, i)
             rest == SubSeq(types, i + 1, n)
             r == ReconcileExpressions(begin)
             nested == <<r>> \o rest
  <2>1. i \in Nat /\ i >= 1 /\ i <= n /\ n \in Nat
    BY <1>2
  <2>2. /\ begin \in Seq(T) /\ DOMAIN begin = 1..i
        /\ \A j \in 1..i : begin[j] = types[j]
    BY <1>2, <2>1
  <2>3. /\ rest \in Seq(T) /\ DOMAIN rest = 1..(n - i) /\ Len(rest) = n - i
        /\ \A j \in 1..(n - i) : rest[j] = types[j + i]
    BY <1>2, <2>1
  <2> HIDE DEF begin, rest
  <2>4. /\ \A j \in DOMAIN begin : Branch(begin[j])
        /\ \A j \in DOMAIN rest : Branch(rest[j])
    <3>1. \A j \in 1..i : j \in DOMAIN types
      BY <1>2, <2>1
    <3>2. \A j \in 1..(n - i) : j + i \in DOMAIN types
      BY <1>2, <2>1
    <3> QED BY <1>1, <2>2, <2>3, <3>1, <3>2
  <2>5. IsFiniteSet(Range(begin)) /\ IsFiniteSet(Range(rest))
    <3>1. /\ begin \in Surjection(1..i, Range(begin))
          /\ rest \in Surjection(1..(n - i), Range(rest))
      BY <2>2, <2>3 DEF Surjection, Range
    <3>2. IsFiniteSet(1..i) /\ IsFiniteSet(1..(n - i))
      BY <2>1, FS_Interval
    <3> QED BY <3>1, <3>2, FS_Surjection
  <2>6. Range(types) = Range(begin) \cup Range(rest)
    <3>1. \A j \in 1..n : j \in 1..i \/ (j - i \in 1..(n - i) /\ (j - i) + i = j)
      BY <2>1
    <3>2. \A j \in 1..(n - i) : j + i \in 1..n
      BY <2>1
    <3>3. \A j \in 1..i : j \in 1..n
      BY <2>1
    <3>4. \A x : x \in Range(types) <=> \E j \in 1..n : x = types[j]
      BY <1>2 DEF Range
    <3>5. \A x : x \in Range(begin) <=> \E j \in 1..i : x = types[j]
      BY <2>2 DEF Range
    <3>6. \A x : x \in Range(rest) <=> \E j \in 1..(n - i) : x = types[j + i]
      BY <2>3 DEF Range
    <3>7. ASSUME NEW x \in Range(types)
          PROVE  x \in Range(begin) \cup Range(rest)
      <4>1. PICK j \in 1..n : x = types[j]
        BY <3>4
      <4> HIDE DEF n
      <4>2. CASE j \in 1..i
        BY <3>5, <4>1, <4>2
      <4>3. CASE j \notin 1..i
        BY <3>1, <3>6, <4>1, <4>3
      <4> QED BY <4>2, <4>3
    <3>8. \A x \in Range(begin) \cup Range(rest) : x \in Range(types)
      BY <3>2, <3>3, <3>4, <3>5, <3>6
    <3> QED BY <3>7, <3>8
  <2>7. \A x \in Range(begin) \cup Range(rest) : Branch(x)
    BY <2>4 DEF Range
  <2>8. r = ReconciledBranches(Range(begin))
    BY <2>2, <2>4, ReconciledBranchList
  <2>9. /\ Branch(r)
        /\ ReconciledBranches({r} \cup Range(rest)) =
             IF r.kind = "known" THEN ReconciledBranches(Range(begin) \cup Range(rest)) ELSE Unknown
    <3> HIDE DEF r
    <3> QED BY <2>5, <2>7, <2>8, NestedBranches
  <2> HIDE DEF r
  <2>10. /\ nested \in Seq(T \cup {r})
         /\ Range(nested) = {r} \cup Range(rest)
    <3> DEFINE head == <<r>>
               S == T \cup {r}
    <3>1. head \in Seq(S) /\ Range(head) = {r}
      BY DEF Range
    <3>2. rest \in Seq(S)
      BY <2>3
    <3> HIDE DEF head, S
    <3>3. head \o rest \in Seq(S) /\ Range(head \o rest) = Range(head) \cup Range(rest)
      BY <3>1, <3>2, RangeOfConcatenation
    <3> QED BY <3>1, <3>3 DEF head, S
  <2> HIDE DEF nested
  <2>11. \A j \in DOMAIN nested : Branch(nested[j])
    <3>1. \A x \in Range(nested) : Branch(x)
      BY <2>7, <2>9, <2>10
    <3> QED BY <3>1 DEF Range
  <2>12. ReconcileExpressions(nested) = ReconciledBranches(Range(nested))
    BY <2>10, <2>11, ReconciledBranchList
  <2>13. ReconcileExpressions(nested) =
           IF r.kind = "known" THEN ReconcileExpressions(types) ELSE Unknown
    <3> HIDE DEF Unknown
    <3> QED BY <1>3, <2>6, <2>9, <2>10, <2>12
  <2> QED BY <2>13 DEF nested, r, begin, rest
<1> QED BY <1>4, <1>5
=============================================================================
