------------------------------- MODULE ListFacts -------------------------------
(* Facts about lists that several proofs need: the least number of a set, what     *)
(* FlattenSeq returns, and that sorting lists every element of a set in order. Then *)
(* what the algorithms of TurnText make of any lists of lines. Whatever is recursive *)
(* is treated by the least counterexample, since an induction theorem takes an      *)
(* operator as its parameter.                                                      *)
EXTENDS Naturals, SequencesExt, SequenceTheorems, FiniteSetTheorems, WellFoundedInduction,
        TLAPS

\* A set of numbers has a least element.
LEMMA Least == ASSUME NEW T \in SUBSET Nat, T # {}
               PROVE  \E n \in T : \A m \in T : n <= m
<1>1. IsWellFoundedOn(OpToRel(<, Nat), Nat)
    BY NatLessThanWellFounded
<1>2. PICK n \in T : \A m \in T : <<m, n>> \notin OpToRel(<, Nat)
    BY <1>1, WFMin
<1>3. ASSUME NEW m \in T PROVE n <= m
    <2>1. m \in Nat /\ n \in Nat
        OBVIOUS
    <2>2. ~(m < n)
        <3> SUFFICES ASSUME m < n PROVE FALSE
            OBVIOUS
        <3>1. <<m, n>> \in Nat \X Nat /\ <<m, n>>[1] = m /\ <<m, n>>[2] = n
            BY <2>1
        <3>2. <<m, n>> \in OpToRel(<, Nat)
            BY <3>1 DEF OpToRel
        <3> QED BY <1>2, <3>2
    <2> QED BY <2>1, <2>2
<1> QED BY <1>3

Folding(seqs, n, f) ==
    f = [i \in 1..n |-> IF i = 1 THEN seqs[i] ELSE f[i-1] \o seqs[i]]

\* The concatenations of the first sequences, of the first two, and so on.
\* The recursion of FlattenSeq has a solution: a least length without one would
\* extend a shorter one.
LEMMA FoldingExists ==
    ASSUME NEW seqs, NEW n \in Nat
    PROVE  \E f : Folding(seqs, n, f)
<1> DEFINE T == {m \in Nat : ~\E f : Folding(seqs, m, f)}
<1> SUFFICES ASSUME T # {} PROVE FALSE
    OBVIOUS
<1>1. PICK m \in T : \A k \in T : m <= k
    BY Least
<1>2. m # 0
    <2>1. Folding(seqs, 0, [i \in 1..0 |-> 0])
        BY DEF Folding
    <2> QED BY <2>1
<1>3. PICK f : Folding(seqs, m - 1, f)
    BY <1>1, <1>2
<1> DEFINE g == [i \in 1..m |-> IF i = 1 THEN seqs[i] ELSE f[i-1] \o seqs[i]]
<1>4. Folding(seqs, m, g)
    <2>1. m \in Nat
        OBVIOUS
    <2>2. \A i \in 1..(m-1) : f[i] = IF i = 1 THEN seqs[i] ELSE f[i-1] \o seqs[i]
        BY <1>3 DEF Folding
    <2>3. \A i \in 1..(m-1) : g[i] = f[i]
        BY <2>1, <2>2
    <2>4. ASSUME NEW i \in 1..m, i # 1 PROVE g[i-1] = f[i-1]
        <3>1. i \in Nat /\ i - 1 \in 1..(m-1)
            BY <2>1, <2>4
        <3> QED BY <2>3, <3>1
    <2>5. g = [i \in 1..m |-> IF i = 1 THEN seqs[i] ELSE g[i-1] \o seqs[i]]
        <3> DEFINE h == [i \in 1..m |-> IF i = 1 THEN seqs[i] ELSE g[i-1] \o seqs[i]]
        <3>1. \A i \in 1..m : g[i] = h[i]
            BY <2>4
        <3>2. g = [i \in 1..m |-> g[i]]
            OBVIOUS
        <3>3. h = [i \in 1..m |-> h[i]]
            OBVIOUS
        <3> HIDE DEF g, h
        <3>4. g = h
            BY <3>1, <3>2, <3>3
        <3> QED BY <3>4 DEF h
    <2> QED BY <2>5 DEF Folding
<1> QED BY <1>4

LEMMA Flattened ==
    ASSUME NEW S, NEW seqs \in Seq(Seq(S))
    PROVE  /\ FlattenSeq(seqs) \in Seq(S)
           /\ ToSet(FlattenSeq(seqs)) = UNION {ToSet(seqs[i]) : i \in DOMAIN seqs}
<1> DEFINE len == Len(seqs)
           flatten == CHOOSE f : Folding(seqs, len, f)
           Elems(n) == UNION {ToSet(seqs[i]) : i \in 1..n}
           T == {n \in 1..len : ~(flatten[n] \in Seq(S) /\ ToSet(flatten[n]) = Elems(n))}
<1>1. len \in Nat /\ DOMAIN seqs = 1..len /\ \A i \in 1..len : seqs[i] \in Seq(S)
    OBVIOUS
<1>2. Folding(seqs, len, flatten)
    BY <1>1, FoldingExists
<1>3. FlattenSeq(seqs) = IF len = 0 THEN seqs ELSE flatten[len]
    BY DEF FlattenSeq, Folding
<1> HIDE DEF flatten, len
<1>4. CASE len = 0
    <2>1. seqs = <<>> /\ FlattenSeq(seqs) = <<>> /\ DOMAIN seqs = {}
        BY <1>1, <1>3, <1>4 DEF len
    <2>2. <<>> \in Seq(S) /\ ToSet(<<>>) = {}
        BY DEF ToSet
    <2> QED BY <2>1, <2>2
<1>5. CASE len # 0
    <2>1. T = {}
        <3> SUFFICES ASSUME T # {} PROVE FALSE
            OBVIOUS
        <3>1. T \in SUBSET Nat
            BY <1>1
        <3>2. PICK n \in T : \A m \in T : n <= m
            BY <3>1, Least
        <3>3. n \in 1..len /\ n \in Nat
            BY <1>1
        <3>4. flatten[n] = IF n = 1 THEN seqs[n] ELSE flatten[n-1] \o seqs[n]
            BY <1>2, <3>3 DEF Folding
        <3>5. CASE n = 1
            <4>1. Elems(1) = ToSet(seqs[1])
                BY <1>1
            <4>2. flatten[1] \in Seq(S) /\ ToSet(flatten[1]) = Elems(1)
                BY <1>1, <3>3, <3>4, <3>5, <4>1
            <4> QED BY <3>5, <4>2
        <3>6. CASE n # 1
            <4>1. n - 1 \in 1..len /\ n - 1 \notin T /\ 1..n = (1..(n-1)) \cup {n}
                <5>1. n - 1 \in 1..len /\ ~(n <= n - 1) /\ 1..n = (1..(n-1)) \cup {n}
                    BY <1>1, <3>3, <3>6
                <5> QED BY <3>2, <5>1
            <4>2. flatten[n-1] \in Seq(S) /\ ToSet(flatten[n-1]) = Elems(n-1)
                BY <4>1
            <4>3. seqs[n] \in Seq(S)
                BY <1>1, <3>3
            <4>4. flatten[n] \in Seq(S) /\ ToSet(flatten[n]) = ToSet(flatten[n-1]) \cup ToSet(seqs[n])
                <5> DEFINE s == flatten[n-1]
                           t == seqs[n]
                <5> HIDE DEF s, t
                <5>1. s \in Seq(S) /\ t \in Seq(S)
                    BY <4>2, <4>3 DEF s, t
                <5>2. s \o t \in Seq(S) /\ Range(s \o t) = Range(s) \cup Range(t)
                    BY <5>1, ConcatProperties, RangeConcatenation
                <5>3. ToSet(s \o t) = ToSet(s) \cup ToSet(t)
                    BY <5>2 DEF ToSet, Range
                <5>4. flatten[n] = s \o t
                    BY <3>4, <3>6 DEF s, t
                <5> QED BY <5>2, <5>3, <5>4 DEF s, t
            <4>5. Elems(n) = Elems(n-1) \cup ToSet(seqs[n])
                BY <4>1
            <4> QED BY <4>2, <4>4, <4>5
        <3> QED BY <3>5, <3>6
    <2>2. len \in 1..len
        BY <1>1, <1>5
    <2>3. flatten[len] \in Seq(S) /\ ToSet(flatten[len]) = Elems(len)
        BY <2>1, <2>2
    <2> QED BY <1>1, <1>3, <1>5, <2>3
<1> QED BY <1>4, <1>5


\* A list that has a place for every element of a set lists the set.
LEMMA Placed ==
    ASSUME NEW S, NEW n \in Nat, NEW place \in [S -> 1..n],
           \A x, y \in S : place[x] = place[y] => x = y,
           NEW s \in [1..n -> S], \A i \in 1..n : place[s[i]] = i
    PROVE  s \in Seq(S) /\ ToSet(s) = S
<1>2. s \in Seq(S)
    OBVIOUS
<1>3. \A x \in S : place[x] \in 1..n /\ s[place[x]] = x
    OBVIOUS
<1>4. ToSet(s) = S
    BY <1>3 DEF ToSet
<1> QED BY <1>2, <1>4

\* A strict total order on a set: above[x] is what comes before x.
Ranks(S, above) ==
    /\ \A x \in S : above[x] \subseteq S /\ x \notin above[x]
    /\ \A x \in S : \A y \in above[x] : above[y] \subseteq above[x]
    /\ \A x, y \in S : x = y \/ x \in above[y] \/ y \in above[x]
\* A list that puts each element behind as many as come before it.
Ranked(S, above, s) ==
    /\ DOMAIN s = 1..Cardinality(S) /\ s = [i \in DOMAIN s |-> s[i]]
    /\ \A i \in DOMAIN s : \A x \in S :
           Cardinality(above[x]) + 1 = i => s[i] \in S /\ Cardinality(above[s[i]]) + 1 = i

\* It lists every element, in the order: as many elements as places each have a place
\* of their own, so the places are a bijection.
LEMMA Sorted ==
    ASSUME NEW S, IsFiniteSet(S), NEW above, Ranks(S, above), NEW s, Ranked(S, above, s)
    PROVE  /\ s \in Seq(S) /\ ToSet(s) = S /\ DOMAIN s = 1..Cardinality(S)
           /\ \A i, j \in DOMAIN s : i < j <=> s[i] \in above[s[j]]
<1> DEFINE n == Cardinality(S)
           place == [x \in S |-> Cardinality(above[x]) + 1]
<1>1. n \in Nat
    BY FS_CardinalityType
<1>2. ASSUME NEW x \in S
      PROVE  /\ above[x] \subseteq S /\ x \notin above[x] /\ IsFiniteSet(above[x])
             /\ Cardinality(above[x]) \in Nat /\ Cardinality(above[x]) < n
    <2>1. above[x] \subseteq S /\ x \notin above[x]
        BY DEF Ranks
    <2>2. IsFiniteSet(above[x]) /\ Cardinality(above[x]) <= n
          /\ (n = Cardinality(above[x]) => S = above[x])
        BY <2>1, FS_Subset
    <2>3. Cardinality(above[x]) \in Nat
        BY <2>2, FS_CardinalityType
    <2> QED BY <1>1, <2>1, <2>2, <2>3
<1>3. ASSUME NEW x \in S, NEW y \in S, x \in above[y]
      PROVE  Cardinality(above[x]) < Cardinality(above[y])
    <2>1. above[x] \subseteq above[y] /\ x \notin above[x]
        BY <1>3 DEF Ranks
    <2>2. IsFiniteSet(above[y]) /\ Cardinality(above[x]) \in Nat /\ Cardinality(above[y]) \in Nat
        BY <1>2
    <2>3. Cardinality(above[x]) <= Cardinality(above[y])
          /\ (Cardinality(above[y]) = Cardinality(above[x]) => above[y] = above[x])
        BY <2>1, <2>2, FS_Subset
    <2> QED BY <1>3, <2>1, <2>2, <2>3
<1>4. place \in [S -> 1..n] /\ \A x \in S : place[x] = Cardinality(above[x]) + 1
    BY <1>1, <1>2
<1> HIDE DEF n, place
<1>5. \A x, y \in S : place[x] < place[y] <=> x \in above[y]
    <2> SUFFICES ASSUME NEW x \in S, NEW y \in S PROVE place[x] < place[y] <=> x \in above[y]
        OBVIOUS
    <2>1. x = y \/ x \in above[y] \/ y \in above[x]
        BY DEF Ranks
    <2>2. place[x] = Cardinality(above[x]) + 1 /\ place[y] = Cardinality(above[y]) + 1
        BY <1>4
    <2>3. Cardinality(above[x]) \in Nat /\ Cardinality(above[y]) \in Nat /\ x \notin above[x]
        BY <1>2
    <2>4. x \in above[y] => Cardinality(above[x]) < Cardinality(above[y])
        BY <1>3
    <2>5. y \in above[x] => Cardinality(above[y]) < Cardinality(above[x])
        BY <1>3
    <2> QED BY <2>1, <2>2, <2>3, <2>4, <2>5
<1>6. \A x, y \in S : place[x] = place[y] => x = y
    <2> SUFFICES ASSUME NEW x \in S, NEW y \in S, place[x] = place[y] PROVE x = y
        OBVIOUS
    <2>1. place[x] \in Nat /\ place[y] \in Nat
        BY <1>1, <1>4
    <2> QED BY <1>5, <2>1 DEF Ranks
<1>7. place \in Surjection(S, 1..n)
    <2>1. place \in Injection(S, 1..n)
        BY <1>4, <1>6 DEF Injection, IsInjective
    <2>2. IsFiniteSet(1..n) /\ Cardinality(1..n) = n
        BY <1>1, FS_Interval
    <2> QED BY <2>1, <2>2, FS_Injection DEF n
<1>8. DOMAIN s = 1..n /\ s = [i \in DOMAIN s |-> s[i]]
    BY DEF Ranked, n
<1>9. ASSUME NEW i \in 1..n PROVE s[i] \in S /\ place[s[i]] = i
    <2>1. PICK x \in S : place[x] = i
        BY <1>7 DEF Surjection
    <2>2. Cardinality(above[x]) + 1 = i
        BY <1>4, <2>1
    <2>3. s[i] \in S /\ Cardinality(above[s[i]]) + 1 = i
        BY <1>8, <2>2 DEF Ranked
    <2> QED BY <1>4, <2>3
<1>10. s \in [1..n -> S]
    BY <1>8, <1>9
<1>11. \A i \in 1..n : place[s[i]] = i
    BY <1>9
<1>12. s \in Seq(S) /\ ToSet(s) = S
    <2>1. s \in Seq(S)
        BY <1>1, <1>4, <1>6, <1>10, <1>11, Placed
    <2>2. ToSet(s) = S
        BY <1>1, <1>4, <1>6, <1>10, <1>11, Placed
    <2> QED BY <2>1, <2>2
<1>13. \A i, j \in DOMAIN s : i < j <=> s[i] \in above[s[j]]
    BY <1>5, <1>8, <1>9
<1> QED BY <1>8, <1>12, <1>13 DEF n

\* Distinct numbers are such an order, the greater first.
ByKey(S, key) == [x \in S |-> {y \in S : key[y] > key[x]}]
LEMMA KeysRank ==
    ASSUME NEW S, NEW key \in [S -> Nat], \A x, y \in S : key[x] = key[y] => x = y
    PROVE  Ranks(S, ByKey(S, key))
<1>1. \A x, y \in S : y \in ByKey(S, key)[x] <=> key[y] > key[x]
    BY DEF ByKey
<1>2. \A x \in S : ByKey(S, key)[x] \subseteq S
    BY DEF ByKey
<1>3. \A x \in S : x \notin ByKey(S, key)[x]
    BY <1>1
<1>4. ASSUME NEW x \in S, NEW y \in ByKey(S, key)[x] PROVE ByKey(S, key)[y] \subseteq ByKey(S, key)[x]
    <2> SUFFICES ASSUME NEW z \in ByKey(S, key)[y] PROVE z \in ByKey(S, key)[x]
        OBVIOUS
    <2>1. y \in S /\ z \in S
        BY <1>2, <1>4
    <2> QED BY <1>1, <2>1
<1>5. \A x, y \in S : x = y \/ x \in ByKey(S, key)[y] \/ y \in ByKey(S, key)[x]
    BY <1>1
<1> QED BY <1>2, <1>3, <1>4, <1>5 DEF Ranks

--------------------------------------------------------------------------------
(* A tool call: its output. What is clipped is compared by the sums over the   *)
(* pieces that the button and the clipping count.                              *)

Text == INSTANCE TurnText

\* Its instance of the library is the library.
LEMMA TextCardinality == ASSUME NEW s PROVE Text!Cardinality(s) = Cardinality(s)
BY DEF Text!Cardinality, Cardinality

\* A bounded set of numbers has a greatest element.
LEMMA Greatest == ASSUME NEW n \in Nat, NEW T \in SUBSET 0..n, T # {}
                  PROVE  Text!Max(T) \in T /\ \A m \in T : m <= Text!Max(T)
<1> DEFINE Bounds == {b \in Nat : \A m \in T : m <= b}
<1>1. n \in Bounds /\ Bounds \in SUBSET Nat
    OBVIOUS
<1>2. PICK b \in Bounds : \A c \in Bounds : b <= c
    BY <1>1, Least
<1>3. b \in T
    <2> SUFFICES ASSUME b \notin T PROVE FALSE
        OBVIOUS
    <2>1. PICK m \in T : TRUE
        OBVIOUS
    <2>2. \A k \in T : k \in Nat /\ k <= b /\ k # b
        BY <1>2
    <2>3. b \in Nat /\ b # 0
        BY <2>1, <2>2
    <2>4. b - 1 \in Nat /\ \A k \in T : k <= b - 1
        BY <2>2, <2>3
    <2> QED BY <1>2, <2>3, <2>4
<1>4. \E x \in T : \A y \in T : x >= y
    BY <1>2, <1>3
<1> QED BY <1>4 DEF Text!Max

\* The greater and the smaller of two numbers.
LEMMA TextBounds ==
    ASSUME NEW a \in Int, NEW b \in Int
    PROVE  /\ Text!Max({a, b}) = IF a >= b THEN a ELSE b
           /\ Text!Min({a, b}) = IF a <= b THEN a ELSE b
<1>1. \E x \in {a, b} : \A y \in {a, b} : x >= y
    OBVIOUS
<1>2. \E x \in {a, b} : \A y \in {a, b} : x <= y
    OBVIOUS
<1>3. Text!Max({a, b}) \in {a, b} /\ \A y \in {a, b} : Text!Max({a, b}) >= y
    BY <1>1 DEF Text!Max
<1>4. Text!Min({a, b}) \in {a, b} /\ \A y \in {a, b} : Text!Min({a, b}) <= y
    BY <1>2 DEF Text!Min
<1> QED BY <1>3, <1>4

\* The partial sums exist: see FoldingExists.
Sums(counts, n, f) == f = [i \in 0..n |-> IF i = 0 THEN 0 ELSE f[i-1] + counts[i]]
LEMMA SumsExist == ASSUME NEW n \in Nat, NEW counts PROVE \E f : Sums(counts, n, f)
<1> DEFINE T == {m \in Nat : ~\E f : Sums(counts, m, f)}
<1> SUFFICES ASSUME T # {} PROVE FALSE
    OBVIOUS
<1>1. PICK m \in T : \A k \in T : m <= k
    BY Least
<1>2. m # 0
    <2>1. Sums(counts, 0, [i \in 0..0 |-> 0])
        BY DEF Sums
    <2> QED BY <2>1
<1>3. PICK f : Sums(counts, m - 1, f)
    BY <1>1, <1>2
<1> DEFINE g == [i \in 0..m |-> IF i = 0 THEN 0 ELSE f[i-1] + counts[i]]
<1>4. Sums(counts, m, g)
    <2>1. m \in Nat
        OBVIOUS
    <2>2. \A i \in 0..(m-1) : f[i] = IF i = 0 THEN 0 ELSE f[i-1] + counts[i]
        BY <1>3 DEF Sums
    <2>3. \A i \in 0..(m-1) : g[i] = f[i]
        BY <2>1, <2>2
    <2>4. ASSUME NEW i \in 0..m, i # 0 PROVE g[i-1] = f[i-1]
        <3>1. i \in Nat /\ i - 1 \in 0..(m-1)
            BY <2>1, <2>4
        <3> QED BY <2>3, <3>1
    <2>5. g = [i \in 0..m |-> IF i = 0 THEN 0 ELSE g[i-1] + counts[i]]
        <3> DEFINE h == [i \in 0..m |-> IF i = 0 THEN 0 ELSE g[i-1] + counts[i]]
        <3>1. \A i \in 0..m : g[i] = h[i]
            BY <2>4
        <3>2. g = [i \in 0..m |-> g[i]]
            OBVIOUS
        <3>3. h = [i \in 0..m |-> h[i]]
            OBVIOUS
        <3> HIDE DEF g, h
        <3>4. g = h
            BY <3>1, <3>2, <3>3
        <3> QED BY <3>4 DEF h
    <2> QED BY <2>5 DEF Sums
<1> QED BY <1>4

\* A sum of counts is the sum before it and one count more.
LEMMA SumsUp ==
    ASSUME NEW n \in Nat, NEW counts \in [1..n -> Nat]
    PROVE  \E sum \in [0..n -> Nat] :
               /\ sum[0] = 0 /\ \A i \in 1..n : i - 1 \in 0..n /\ sum[i] = sum[i-1] + counts[i]
               /\ Text!SumUpTo(counts, n) = sum[n]
<1> DEFINE sum == CHOOSE f : Sums(counts, n, f)
<1>1. Sums(counts, n, sum)
    BY SumsExist
<1>2. Text!SumUpTo(counts, n) = sum[n]
    BY DEF Text!SumUpTo, Sums
<1> HIDE DEF sum
<1>3. sum = [i \in 0..n |-> sum[i]] /\ sum[0] = 0
    BY <1>1 DEF Sums
<1>4. ASSUME NEW i \in 1..n PROVE i - 1 \in 0..n /\ i \in 0..n /\ sum[i] = sum[i-1] + counts[i]
    <2>1. i - 1 \in 0..n /\ i \in 0..n /\ i # 0
        OBVIOUS
    <2> QED BY <1>1, <2>1 DEF Sums
<1> DEFINE Wrong == {i \in 0..n : sum[i] \notin Nat}
<1>5. Wrong = {}
    <2> SUFFICES ASSUME Wrong # {} PROVE FALSE
        OBVIOUS
    <2>1. PICK i \in Wrong : \A k \in Wrong : i <= k
        <3>1. Wrong \in SUBSET Nat
            OBVIOUS
        <3> QED BY <3>1, Least
    <2>2. i \in 1..n
        BY <1>3
    <2>3. i - 1 \in 0..n /\ i - 1 \notin Wrong
        BY <2>1, <2>2
    <2>4. sum[i-1] \in Nat /\ counts[i] \in Nat
        BY <2>2, <2>3
    <2> QED BY <1>4, <2>2, <2>4
<1>6. sum \in [0..n -> Nat]
    BY <1>3, <1>5
<1> QED BY <1>2, <1>3, <1>4, <1>6

\* Greater counts have a greater sum.
LEMMA SumsCompare ==
    ASSUME NEW n \in Nat, NEW counts \in [1..n -> Nat], NEW others \in [1..n -> Nat],
           \A i \in 1..n : counts[i] <= others[i]
    PROVE  /\ Text!SumUpTo(counts, n) \in Nat /\ Text!SumUpTo(others, n) \in Nat
           /\ Text!SumUpTo(counts, n) <= Text!SumUpTo(others, n)
<1>1. PICK s \in [0..n -> Nat] :
          /\ s[0] = 0 /\ \A i \in 1..n : i - 1 \in 0..n /\ s[i] = s[i-1] + counts[i]
          /\ Text!SumUpTo(counts, n) = s[n]
    BY SumsUp
<1>2. PICK t \in [0..n -> Nat] :
          /\ t[0] = 0 /\ \A i \in 1..n : i - 1 \in 0..n /\ t[i] = t[i-1] + others[i]
          /\ Text!SumUpTo(others, n) = t[n]
    BY SumsUp
<1> DEFINE Above == {i \in 0..n : s[i] > t[i]}
<1>3. Above = {}
    <2> SUFFICES ASSUME Above # {} PROVE FALSE
        OBVIOUS
    <2>1. PICK i \in Above : \A k \in Above : i <= k
        <3>1. Above \in SUBSET Nat
            OBVIOUS
        <3> QED BY <3>1, Least
    <2>2. i \in 1..n
        BY <1>1, <1>2
    <2>3. i - 1 \in 0..n /\ i - 1 \notin Above
        BY <2>1, <2>2
    <2>4. s[i-1] <= t[i-1] /\ s[i-1] \in Nat /\ t[i-1] \in Nat
        BY <2>3
    <2>5. counts[i] <= others[i] /\ counts[i] \in Nat /\ others[i] \in Nat
        BY <2>2
    <2> QED BY <1>1, <1>2, <2>2, <2>4, <2>5
<1>4. n \in 0..n
    OBVIOUS
<1>5. s[n] \in Nat /\ t[n] \in Nat /\ s[n] <= t[n]
    <2>1. s[n] \in Nat /\ t[n] \in Nat
        BY <1>4
    <2>2. ~(s[n] > t[n])
        BY <1>3, <1>4
    <2> QED BY <2>1, <2>2
<1> HIDE DEF Above
<1> QED BY <1>1, <1>2, <1>5

\* The pieces that are kept: see FoldingExists.
Kept(output, n, f) ==
    f = [i \in 0..n |-> IF i = 0 THEN <<>>
                        ELSE IF output[i].tag # Text!None \/ ~output[i].blank
                             THEN Append(f[i-1], output[i]) ELSE f[i-1]]
LEMMA KeptExist == ASSUME NEW n \in Nat, NEW output PROVE \E f : Kept(output, n, f)
<1> DEFINE T == {m \in Nat : ~\E f : Kept(output, m, f)}
           Keeps(i) == output[i].tag # Text!None \/ ~output[i].blank
<1> SUFFICES ASSUME T # {} PROVE FALSE
    OBVIOUS
<1>1. PICK m \in T : \A k \in T : m <= k
    BY Least
<1>2. m # 0
    <2>1. Kept(output, 0, [i \in 0..0 |-> <<>>])
        BY DEF Kept
    <2> QED BY <2>1
<1>3. PICK f : Kept(output, m - 1, f)
    BY <1>1, <1>2
<1> DEFINE g == [i \in 0..m |-> IF i = 0 THEN <<>>
                                ELSE IF Keeps(i) THEN Append(f[i-1], output[i]) ELSE f[i-1]]
<1>4. Kept(output, m, g)
    <2>1. m \in Nat
        OBVIOUS
    <2>2. \A i \in 0..(m-1) : f[i] = IF i = 0 THEN <<>> ELSE IF Keeps(i)
                                    THEN Append(f[i-1], output[i]) ELSE f[i-1]
        BY <1>3 DEF Kept
    <2> HIDE DEF Keeps
    <2>3. ASSUME NEW i \in 0..(m-1) PROVE g[i] = f[i]
        <3>1. i \in 0..m
            BY <2>1
        <3>2. g[i] = IF i = 0 THEN <<>> ELSE IF Keeps(i) THEN Append(f[i-1], output[i]) ELSE f[i-1]
            BY <3>1
        <3> HIDE DEF g
        <3> QED BY <2>2, <3>2
    <2>4. ASSUME NEW i \in 0..m, i # 0 PROVE g[i-1] = f[i-1]
        <3>1. i \in Nat /\ i - 1 \in 0..(m-1)
            BY <2>1, <2>4
        <3> QED BY <2>3, <3>1
    <2> DEFINE h == [i \in 0..m |-> IF i = 0 THEN <<>>
                                    ELSE IF Keeps(i) THEN Append(g[i-1], output[i]) ELSE g[i-1]]
    <2>5. \A i \in 0..m : g[i] = h[i]
        BY <2>4
    <2>6. g = [i \in 0..m |-> g[i]] /\ h = [i \in 0..m |-> h[i]]
        OBVIOUS
    <2>7. g = h
        <3> HIDE DEF g, h
        <3> QED BY <2>5, <2>6
    <2> HIDE DEF g
    <2> QED BY <2>7 DEF Kept, Keeps
<1> QED BY <1>4

\* The segments are pieces of the output.
LEMMA SegmentsArePieces ==
    ASSUME NEW P, NEW output \in Seq(P)
    PROVE  Text!Segments(output) \in Seq(P)
<1> DEFINE n == Len(output)
           kept == CHOOSE f : Kept(output, n, f)
<1>1. n \in Nat /\ \A i \in 1..n : output[i] \in P
    OBVIOUS
<1>2. Text!Segments(output) = kept[n]
    BY DEF Text!Segments, Kept
<1>3. Kept(output, n, kept)
    BY <1>1, KeptExist
<1> HIDE DEF kept, n
<1>4. kept[0] = <<>>
    BY <1>1, <1>3 DEF Kept
<1>5. ASSUME NEW i \in 1..n
      PROVE  i - 1 \in 0..n /\ kept[i] \in {Append(kept[i-1], output[i]), kept[i-1]}
    <2>1. i - 1 \in 0..n /\ i \in 0..n /\ i # 0
        BY <1>1
    <2> QED BY <1>3, <2>1 DEF Kept
<1> DEFINE Foreign == {i \in 0..n : kept[i] \notin Seq(P)}
<1>6. Foreign = {}
    <2> SUFFICES ASSUME Foreign # {} PROVE FALSE
        OBVIOUS
    <2>1. PICK i \in Foreign : \A k \in Foreign : i <= k
        <3>1. Foreign \in SUBSET Nat
            BY <1>1
        <3> QED BY <3>1, Least
    <2>2. i \in 1..n
        <3>1. i \in 0..n /\ kept[i] \notin Seq(P)
            OBVIOUS
        <3>2. <<>> \in Seq(P)
            OBVIOUS
        <3>3. i # 0
            BY <1>4, <3>1, <3>2
        <3> QED BY <1>1, <3>1, <3>3
    <2>3. i - 1 \in 0..n /\ i - 1 \notin Foreign
        BY <1>1, <2>1, <2>2
    <2>4. kept[i-1] \in Seq(P) /\ output[i] \in P
        BY <1>1, <2>2, <2>3
    <2>5. Append(kept[i-1], output[i]) \in Seq(P)
        BY <2>4
    <2> QED BY <1>5, <2>2, <2>4, <2>5
<1>7. n \in 0..n
    BY <1>1
<1> QED BY <1>2, <1>6, <1>7

\* A segment that is taken at all is taken with no more lines than are counted, so that
\* no more is hidden than is counted when the header drops none.
LEMMA ClippedIsCounted ==
    ASSUME NEW tool, NEW all, NEW P, NEW output \in Seq(P),
           \A s \in P : s.lines \in Nat \ {0} /\ s.footer \in Nat,
           \A s \in P : s.tag \in Text!Listings \cup Text!Notices \cup {Text!None},
           Text!Dropped(Text!Segments(output)) = {}
    PROVE  LET shown == Text!ToolOutputSnippet(tool, output, all) IN shown.hidden <= shown.more
<1> DEFINE segments == Text!Segments(output)
           n == Len(segments)
           limit == Text!InlineLimit(tool)
           weights == [i \in DOMAIN segments |->
                          IF segments[i].tag \in Text!Notices THEN 0
                          ELSE Text!BodyLines(segments[i])]
           lengths == [i \in DOMAIN segments |->
                          IF segments[i].tag \in Text!Listings \cup {Text!None}
                          THEN segments[i].lines ELSE 0]
           spent == Text!SumUpTo(weights, n)
           total == Text!SumUpTo(lengths, n)
<1>1. segments \in Seq(P)
    BY SegmentsArePieces
<1> HIDE DEF segments
<1>2. n \in Nat /\ DOMAIN segments = 1..n /\ \A i \in 1..n : segments[i] \in P
    BY <1>1
<1> HIDE DEF n
<1>3. ASSUME NEW i \in 1..n
      PROVE weights[i] \in Nat /\ lengths[i] \in Nat /\ weights[i] <= lengths[i]
    <2> DEFINE piece == segments[i]
    <2>1. piece.lines \in Nat /\ piece.lines # 0 /\ piece.footer \in Nat
          /\ piece.tag \in Text!Listings \cup Text!Notices \cup {Text!None}
        BY <1>2
    <2> HIDE DEF piece
    <2>2. Text!BodyLines(piece) = IF piece.tag \in Text!Listings
                                    THEN IF 1 >= piece.lines - piece.footer THEN 1
                                         ELSE piece.lines - piece.footer
                                    ELSE piece.lines
        BY <2>1, TextBounds DEF Text!BodyLines
    <2>3. Text!BodyLines(piece) \in Nat /\ Text!BodyLines(piece) <= piece.lines
        BY <2>1, <2>2
    <2>4. weights[i] = (IF piece.tag \in Text!Notices THEN 0 ELSE Text!BodyLines(piece))
          /\ lengths[i] = IF piece.tag \in Text!Listings \cup {Text!None}
                          THEN piece.lines ELSE 0
        BY <1>2 DEF piece
    <2>5. piece.tag \notin Text!Notices => piece.tag \in Text!Listings \cup {Text!None}
        BY <2>1
    <2> HIDE DEF weights, lengths
    <2> QED BY <2>1, <2>3, <2>4, <2>5
<1>4. weights \in [1..n -> Nat] /\ lengths \in [1..n -> Nat]
    BY <1>2, <1>3
<1>5. spent \in Nat /\ total \in Nat /\ spent <= total
    <2> HIDE DEF weights, lengths
    <2> QED BY <1>2, <1>3, <1>4, SumsCompare
<1>6. limit \in Nat
    BY DEF Text!InlineLimit
<1>7. /\ Text!Spent(segments, n) = spent /\ Text!TotalLines(segments) = total
      /\ Text!Owed(segments) = spent
    BY DEF Text!Spent, Text!TotalLines, Text!Owed, n, segments
<1> DEFINE shown == Text!ToolOutputSnippet(tool, output, all)
<1>8. /\ shown.hidden = spent - Text!Taken(segments, n, limit, all)
       /\ shown.more = IF total <= limit \/ all THEN 0 ELSE total - limit
    BY <1>7 DEF Text!ToolOutputSnippet, segments, n
<1>9. Text!Taken(segments, n, limit, all) =
           IF all THEN spent ELSE IF spent <= limit THEN spent ELSE limit
    <2>1. Text!Taken(segments, n, limit, all) =
              IF all THEN spent ELSE Text!Min({spent, limit})
        BY <1>7 DEF Text!Taken
    <2> HIDE DEF spent, limit
    <2>2. spent \in Int /\ limit \in Int
        BY <1>5, <1>6
    <2>3. Text!Min({spent, limit}) = IF spent <= limit THEN spent ELSE limit
        BY ONLY <2>2, TextBounds
    <2> QED BY <2>1, <2>3
<1> HIDE DEF shown, spent, total, limit
<1>10. shown.hidden <= shown.more
    BY <1>5, <1>6, <1>8, <1>9
<1> QED BY <1>10 DEF shown

--------------------------------------------------------------------------------
(* A tool call: the rows of an edit. The common prefix ends at p, the common suffix*)
(* has s lines, and the rows of either side are two runs of lines around them. *)

\* How many of the first numbers are not between two bounds.
LEMMA Outside ==
    ASSUME NEW lo \in Nat, NEW hi \in Nat, NEW k \in Nat, lo <= hi
    PROVE  Cardinality({j \in 1..k : j <= lo \/ j > hi}) =
               IF k <= lo THEN k ELSE IF k <= hi THEN lo ELSE lo + (k - hi)
<1> DEFINE S == {j \in 1..k : j <= lo \/ j > hi}
<1>1. CASE k <= lo
    <2>1. S = 1..k
        BY <1>1
    <2>2. Cardinality(1..k) = k
        BY FS_Interval
    <2> HIDE DEF S
    <2> QED BY <1>1, <2>1, <2>2 DEF S
<1>2. CASE ~(k <= lo) /\ k <= hi
    <2>1. S = 1..lo
        BY <1>2
    <2>2. Cardinality(1..lo) = lo
        BY FS_Interval
    <2> HIDE DEF S
    <2> QED BY <1>2, <2>1, <2>2 DEF S
<1>3. CASE ~(k <= lo) /\ ~(k <= hi)
    <2> DEFINE A == 1..lo
               B == (hi+1)..k
    <2>1. S = A \cup B /\ A \cap B = {}
        BY <1>3
    <2>2. IsFiniteSet(A) /\ Cardinality(A) = lo
        BY FS_Interval
    <2>3. IsFiniteSet(B) /\ Cardinality(B) = k - hi
        <3>1. hi + 1 \in Int /\ k \in Int /\ ~(hi + 1 > k) /\ k - (hi + 1) + 1 = k - hi
            BY <1>3
        <3> QED BY <3>1, FS_Interval
    <2>4. Cardinality(A \cup B) = lo + (k - hi) - Cardinality({})
        <3> HIDE DEF A, B
        <3> QED BY <2>1, <2>2, <2>3, FS_Union
    <2> HIDE DEF A, B, S
    <2>5. Cardinality(S) = lo + (k - hi)
        BY <2>1, <2>4, FS_EmptySet
    <2> QED BY <1>3, <2>5 DEF S
<1> QED BY <1>1, <1>2, <1>3


DiffRows(T) == [kind : {"kept", "-", "+"}, text : T]
IsPart(part, T, kind, t, c, j) ==
    /\ part \in [1..(j - c) -> DiffRows(T)]
    /\ \A k \in 1..(j - c) : part[k].kind = kind /\ part[k].text = t[k + c]

\* The rows of one kind, each with the line it stands for.
LEMMA KindRows ==
    ASSUME NEW T, NEW t \in Seq(T), NEW c \in Nat, NEW j \in Nat, c <= j, j <= Len(t),
           NEW kind \in {"kept", "-", "+"}
    PROVE  IsPart(Text!Rows(kind, SubSeq(t, c + 1, j)), T, kind, t, c, j)
<1> DEFINE n == j - c
           lines == SubSeq(t, c + 1, j)
<1>1. n \in Nat /\ c + 1 \in Int /\ j - (c + 1) + 1 = n /\ (c + 1 <= j <=> n # 0)
    OBVIOUS
<1>2. \A i \in (c+1)..j : t[i] \in T
    <2>1. Len(t) \in Nat /\ \A i \in 1..Len(t) : t[i] \in T
        OBVIOUS
    <2>2. \A i \in (c+1)..j : i \in 1..Len(t)
        BY <2>1
    <2> QED BY <2>1, <2>2
<1>3. lines \in Seq(T) /\ Len(lines) = n /\ \A k \in 1..n : lines[k] = t[k + c]
    <2>1. lines \in Seq(T)
        BY <1>1, <1>2, SubSeqProperties
    <2>2. Len(lines) = IF c + 1 <= j THEN j - (c + 1) + 1 ELSE 0
        BY <1>1, <1>2, SubSeqProperties
    <2>3. \A k \in 1..(j - (c + 1) + 1) : lines[k] = t[c + 1 + k - 1]
        BY <1>1, <1>2, SubSeqProperties
    <2>4. \A k \in 1..n : c + 1 + k - 1 = k + c
        BY <1>1
    <2> HIDE DEF lines, n
    <2> QED BY <1>1, <2>1, <2>2, <2>3, <2>4
<1> HIDE DEF lines, n
<1>4. DOMAIN lines = 1..n /\ \A k \in 1..n : lines[k] \in T
    BY <1>1, <1>3
<1> DEFINE diff == Text!Rows(kind, lines)
<1>5. diff = [k \in 1..n |-> [kind |-> kind, text |-> lines[k]]]
    BY <1>4 DEF Text!Rows
<1>6. \A k \in 1..n : [kind |-> kind, text |-> lines[k]] \in DiffRows(T)
    BY <1>4 DEF DiffRows
<1> HIDE DEF diff
<1>7. diff \in [1..n -> DiffRows(T)]
    BY <1>1, <1>5, <1>6
<1>8. \A k \in 1..n : diff[k].kind = kind /\ diff[k].text = t[k + c]
    BY <1>3, <1>5
<1> QED BY <1>7, <1>8 DEF diff, lines, n, IsPart

IsJoin(joined, s, m, t, n) ==
    /\ \A k \in 1..m : joined[k] = s[k]
    /\ \A k \in (m+1)..(m+n) : joined[k] = t[k - m]

\* The elements of a list after another.
LEMMA Joined ==
    ASSUME NEW S, NEW m \in Nat, NEW n \in Nat, NEW s \in [1..m -> S], NEW t \in [1..n -> S]
    PROVE  s \o t \in [1..(m+n) -> S] /\ IsJoin(s \o t, s, m, t, n)
<1> DEFINE joined == s \o t
<1>1. s \in Seq(S) /\ Len(s) = m
    OBVIOUS
<1>2. t \in Seq(S) /\ Len(t) = n
    OBVIOUS
<1>3. joined \in Seq(S) /\ Len(joined) = m + n
      /\ \A k \in 1..(m + n) : joined[k] = IF k <= m THEN s[k] ELSE t[k - m]
    BY <1>1, <1>2, ConcatProperties
<1> HIDE DEF joined
<1>4. joined \in [1..(m+n) -> S]
    BY <1>3
<1>5. IsJoin(joined, s, m, t, n)
    BY <1>3 DEF IsJoin
<1> QED BY <1>4, <1>5 DEF joined

\* A text of so many lines.
IsText(T, text, len) == text \in Seq(T) /\ Len(text) = len

\* The rows of an edit: the prefix, what is removed, what is added, the suffix.
\* What is removed ends at a, what is added ends at b.
IsTrimmed(lines, o, n, p, a, b, s) ==
    /\ DOMAIN lines = 1..(b + s)
    /\ \A k \in 1..p : lines[k].kind = "kept" /\ lines[k].text = o[k]
    /\ \A k \in (p+1)..a : lines[k].kind = "-" /\ lines[k].text = o[k]
    /\ \A k \in (a+1)..b : lines[k].kind = "+" /\ lines[k].text = n[k - a + p]
    /\ \A k \in (b+1)..(b+s) : lines[k].kind = "kept" /\ lines[k].text = o[k - b + a]
LEMMA TrimmedRows ==
    ASSUME NEW T, NEW o \in Seq(T), NEW n \in Seq(T), NEW p \in Nat, NEW s \in Nat,
           p + s <= Len(o), p + s <= Len(n)
    PROVE  IsTrimmed(Text!Trimmed(o, n, p, s), o, n, p, Len(o) - s,
                     Len(o) - s + (Len(n) - s - p), s)
<1> DEFINE a == Len(o) - s
           c == Len(n) - s
           removals == a - p
           additions == c - p
           b == a + additions
           l == Len(o)
           before == Text!Rows("kept", SubSeq(o, 1, p))
           minus == Text!Rows("-", SubSeq(o, p + 1, a))
           plus == Text!Rows("+", SubSeq(n, p + 1, c))
           after == Text!Rows("kept", SubSeq(o, a + 1, l))
           diff == Text!Trimmed(o, n, p, s)
           R == DiffRows(T)
<1>1. /\ a \in Nat /\ b \in Nat /\ c \in Nat /\ l \in Nat /\ removals \in Nat /\ additions \in Nat
      /\ p <= a /\ p <= c /\ a <= b /\ a <= Len(o) /\ c <= Len(n) /\ p <= Len(o) /\ l <= Len(o)
      /\ a <= l /\ l - a = s /\ p + removals = a /\ a + additions = b
    OBVIOUS
<1>2. diff = ((before \o minus) \o plus) \o after
    BY DEF Text!Trimmed
<1>0. a - p = removals /\ c - p = additions
      /\ "kept" \in {"kept", "-", "+"} /\ "-" \in {"kept", "-", "+"} /\ "+" \in {"kept", "-", "+"}
    OBVIOUS
<1> HIDE DEF a, b, c, l, removals, additions
<1>3. before \in [1..p -> R] /\ \A k \in 1..p : before[k].kind = "kept" /\ before[k].text = o[k]
    <2> DEFINE part == Text!Rows("kept", SubSeq(o, 0 + 1, p))
    <2>1. 0 \in Nat /\ 0 <= p /\ p <= Len(o)
        BY <1>1
    <2>2. IsPart(part, T, "kept", o, 0, p)
        BY <1>0, <2>1, KindRows
    <2>3. part = before
        OBVIOUS
    <2> HIDE DEF part, before
    <2>4. p - 0 = p /\ \A k \in 1..p : k + 0 = k
        OBVIOUS
    <2> QED BY <2>2, <2>3, <2>4 DEF IsPart
<1>4. minus \in [1..removals -> R]
      /\ \A k \in 1..removals : minus[k].kind = "-" /\ minus[k].text = o[k + p]
    <2>1. IsPart(minus, T, "-", o, p, a)
        BY <1>0, <1>1, KindRows
    <2> HIDE DEF minus
    <2> QED BY <1>0, <2>1 DEF IsPart
<1>5. plus \in [1..additions -> R]
      /\ \A k \in 1..additions : plus[k].kind = "+" /\ plus[k].text = n[k + p]
    <2>1. IsPart(plus, T, "+", n, p, c)
        BY <1>0, <1>1, KindRows
    <2> HIDE DEF plus
    <2> QED BY <1>0, <2>1 DEF IsPart
<1>6. after \in [1..s -> R]
      /\ \A k \in 1..s : after[k].kind = "kept" /\ after[k].text = o[k + a]
    <2>1. IsPart(after, T, "kept", o, a, l)
        BY <1>0, <1>1, KindRows
    <2> HIDE DEF after
    <2> QED BY <1>1, <2>1 DEF IsPart
<1> HIDE DEF before, minus, plus, after, R, diff
<1> DEFINE removed == before \o minus
<1>7. removed \in [1..a -> R] /\ IsJoin(removed, before, p, minus, removals)
    <2>1. removed \in [1..(p + removals) -> R] /\ IsJoin(removed, before, p, minus, removals)
        BY <1>1, <1>3, <1>4, Joined
    <2> HIDE DEF removed
    <2> QED BY <1>1, <2>1
<1> HIDE DEF removed
<1> DEFINE changed == removed \o plus
<1>8. changed \in [1..b -> R] /\ IsJoin(changed, removed, a, plus, additions)
    <2>1. changed \in [1..(a + additions) -> R] /\ IsJoin(changed, removed, a, plus, additions)
        BY <1>1, <1>5, <1>7, Joined
    <2> HIDE DEF changed
    <2> QED BY <1>1, <2>1
<1>9. diff = changed \o after
    BY <1>2 DEF removed
<1> HIDE DEF changed
<1>10. diff \in [1..(b + s) -> R] /\ IsJoin(diff, changed, b, after, s)
    BY <1>1, <1>6, <1>8, <1>9, Joined
<1>11. ASSUME NEW k \in 1..p PROVE diff[k].kind = "kept" /\ diff[k].text = o[k]
    <2>1. k \in 1..a /\ k \in 1..b
        BY <1>1
    <2>2. diff[k] = before[k]
        BY <1>7, <1>8, <1>10, <2>1 DEF IsJoin
    <2> QED BY <1>3, <2>2
<1>12. ASSUME NEW k \in (p+1)..a PROVE diff[k].kind = "-" /\ diff[k].text = o[k]
    <2>1. k \in 1..a /\ k \in 1..b /\ k \in (p+1)..(p+removals)
          /\ k - p \in 1..removals /\ k - p + p = k
        BY <1>1
    <2>2. diff[k] = minus[k - p]
        BY <1>7, <1>8, <1>10, <2>1 DEF IsJoin
    <2> QED BY <1>4, <2>1, <2>2
<1>13. ASSUME NEW k \in (a+1)..b PROVE diff[k].kind = "+" /\ diff[k].text = n[k - a + p]
    <2>1. k \in 1..b /\ k - a \in 1..additions /\ k \in (a+1)..(a+additions)
        BY <1>1
    <2>2. diff[k] = plus[k - a]
        BY <1>8, <1>10, <2>1 DEF IsJoin
    <2> QED BY <1>5, <2>1, <2>2
<1>14. ASSUME NEW k \in (b+1)..(b+s) PROVE diff[k].kind = "kept" /\ diff[k].text = o[k - b + a]
    <2>1. k - b \in 1..s
        BY <1>1
    <2>2. diff[k] = after[k - b]
        BY <1>10 DEF IsJoin
    <2> QED BY <1>6, <2>1, <2>2
<1>15. DOMAIN diff = 1..(b + s)
    BY <1>10
<1>16. IsTrimmed(diff, o, n, p, a, b, s)
    BY <1>11, <1>12, <1>13, <1>14, <1>15 DEF IsTrimmed
<1> QED BY <1>16 DEF diff, a, b, c, additions

\* Rows that show a text in two runs, with other rows between them, read as the text.
IsShown(diff, len, other, text, lo, hi, number) ==
    /\ DOMAIN diff = 1..len
    /\ \A k \in 1..len : diff[k].kind # other <=> k <= lo \/ k > hi
    /\ \A k \in 1..lo : diff[k].text = text[k]
    /\ \A k \in (hi+1)..len : diff[k].text = text[lo + (k - hi)]
    /\ \A k \in 1..len : number[k] = IF diff[k].kind = other THEN 0
                                     ELSE Cardinality({j \in 1..k : diff[j].kind # other})
LEMMA ReadsOff ==
    ASSUME NEW lo \in Nat, NEW hi \in Nat, NEW len \in Nat, lo <= hi, hi <= len,
           NEW T, NEW text, IsText(T, text, lo + (len - hi)), NEW diff, NEW other, NEW number,
           IsShown(diff, len, other, text, lo, hi, number)
    PROVE  Text!Reads(diff, number, other, text)
<1> USE DEF IsShown
<1> DEFINE side == {k \in DOMAIN diff : diff[k].kind # other}
           At(k) == IF k <= lo THEN k ELSE lo + (k - hi)
<1>1. ASSUME NEW k \in 1..len PROVE {j \in 1..k : diff[j].kind # other} = {j \in 1..k : j <= lo \/ j > hi}
    <2>1. \A j \in 1..k : j \in 1..len
        OBVIOUS
    <2> QED BY <2>1
<1>2. side = {j \in 1..len : j <= lo \/ j > hi}
    OBVIOUS
<1>3. ASSUME NEW k \in side
      PROVE  /\ k \in 1..len /\ (k <= lo \/ k > hi)
             /\ number[k] = At(k) /\ At(k) \in 1..(lo + (len - hi)) /\ diff[k].text = text[At(k)]
    <2>1. k \in 1..len /\ (k <= lo \/ k > hi) /\ diff[k].kind # other
        OBVIOUS
    <2>2. number[k] = Cardinality({j \in 1..k : j <= lo \/ j > hi})
        BY <1>1, <2>1
    <2>3. Cardinality({j \in 1..k : j <= lo \/ j > hi}) = At(k)
        <3>1. k \in Nat
            BY <2>1
        <3>2. Cardinality({j \in 1..k : j <= lo \/ j > hi}) =
                  IF k <= lo THEN k ELSE IF k <= hi THEN lo ELSE lo + (k - hi)
            BY <3>1, Outside
        <3> QED BY <2>1, <3>1, <3>2
    <2>4. At(k) \in 1..(lo + (len - hi))
        BY <2>1
    <2>5. diff[k].text = text[At(k)]
        <3>1. CASE k <= lo
            <4>1. k \in 1..lo
                BY <2>1, <3>1
            <4> QED BY <3>1, <4>1
        <3>2. CASE ~(k <= lo)
            <4>1. k \in (hi+1)..len
                BY <2>1, <3>2
            <4> QED BY <3>2, <4>1
        <3> QED BY <3>1, <3>2
    <2> HIDE DEF At
    <2> QED BY <2>1, <2>2, <2>3, <2>4, <2>5
<1>5. Len(text) = lo + (len - hi) /\ DOMAIN text = 1..(lo + (len - hi))
    BY DEF IsText
<1>4. Cardinality(side) = Len(text)
    <2>1. Cardinality({j \in 1..len : j <= lo \/ j > hi}) =
              IF len <= lo THEN len ELSE IF len <= hi THEN lo ELSE lo + (len - hi)
        BY Outside
    <2>2. Cardinality({j \in 1..len : j <= lo \/ j > hi}) = lo + (len - hi)
        BY <2>1
    <2> HIDE DEF side
    <2> QED BY <1>2, <1>5, <2>2
<1>6. \A k \in side : number[k] \in DOMAIN text /\ diff[k].text = text[number[k]]
    <2> HIDE DEF At, side
    <2> QED BY <1>3, <1>5
<1>7. \A j, k \in side : j < k => number[j] < number[k]
    <2> SUFFICES ASSUME NEW j \in side, NEW k \in side, j < k PROVE number[j] < number[k]
        OBVIOUS
    <2>1. At(j) < At(k)
        BY <1>3
    <2> HIDE DEF At, side
    <2> QED BY <1>3, <2>1
<1>8. \A k \in DOMAIN diff \ side : number[k] = 0
    OBVIOUS
<1>9. Text!Reads(diff, number, other, text)
    <2>1. Text!Cardinality(side) = Len(text)
        BY <1>4, TextCardinality
    <2> HIDE DEF IsShown
    <2> QED BY <1>6, <1>7, <1>8, <2>1 DEF Text!Reads
<1> QED BY <1>9

AreCommon(o, n, l, m, p, s) ==
    /\ p \in Nat /\ s \in Nat /\ p + s <= l /\ p + s <= m
    /\ \A i \in 1..p : o[i] = n[i]
    /\ \A i \in 0..(s-1) : o[l - i] = n[m - i]

\* The prefix and the suffix are common and do not overlap.
LEMMA CommonBounds ==
    ASSUME NEW T, NEW o, NEW n, NEW l \in Nat, NEW m \in Nat, IsText(T, o, l), IsText(T, n, m)
    PROVE  LET p == Text!CommonPrefix(o, n)
               s == Text!CommonSuffix(o, n, Text!Min({Len(o), Len(n)}) - p) IN
           AreCommon(o, n, l, m, p, s)
<1> DEFINE short == Text!Min({Len(o), Len(n)})
           Starts == {p \in 0..short : \A i \in 1..p : o[i] = n[i]}
           p == Text!CommonPrefix(o, n)
           most == short - p
           Endings == {s \in 0..most : \A i \in 0..(s-1) : o[l - i] = n[m - i]}
           s == Text!CommonSuffix(o, n, most)
<1>0. Len(o) = l /\ Len(n) = m
    BY DEF IsText
<1>1. short \in Nat /\ short <= l /\ short <= m
    <2>1. short = Text!Min({l, m})
        BY <1>0
    <2>2. Text!Min({l, m}) = IF l <= m THEN l ELSE m
        BY TextBounds
    <2> HIDE DEF short
    <2> QED BY <2>1, <2>2
<1>2. p = Text!Max(Starts)
    BY DEF Text!CommonPrefix
<1> HIDE DEF short, p
<1>3. p \in Starts
    <2>1. 0 \in Starts
        BY <1>1
    <2>2. Starts \in SUBSET (0..short)
        OBVIOUS
    <2> HIDE DEF Starts
    <2> QED BY <1>1, <1>2, <2>1, <2>2, Greatest
<1>4. most \in Nat /\ p \in Nat /\ p + most = short
    BY <1>1, <1>3
<1>5. s = Text!Max(Endings)
    <2>1. s = Text!Max({k \in 0..most : \A i \in 0..(k-1) : o[Len(o) - i] = n[Len(n) - i]})
        BY DEF Text!CommonSuffix
    <2> QED BY <1>0, <2>1
<1> HIDE DEF most, s
<1>6. s \in Endings
    <2>1. 0 \in Endings
        BY <1>4
    <2>2. Endings \in SUBSET (0..most)
        OBVIOUS
    <2> HIDE DEF Endings
    <2> QED BY <1>4, <1>5, <2>1, <2>2, Greatest
<1>7. s \in Nat /\ p + s <= l /\ p + s <= m
    BY <1>1, <1>4, <1>6
<1>8. \A i \in 1..p : o[i] = n[i]
    BY <1>3
<1>9. \A i \in 0..(s-1) : o[l - i] = n[m - i]
    BY <1>6
<1>10. AreCommon(o, n, l, m, p, s)
    BY <1>4, <1>7, <1>8, <1>9 DEF AreCommon
<1> QED BY <1>10 DEF s, most, p, short

\* Of one edit both texts can be read.
LEMMA EditIsRead ==
    ASSUME NEW T, NEW o, NEW n, NEW l \in Nat, NEW m \in Nat, IsText(T, o, l), IsText(T, n, m)
    PROVE  LET diff == Text!UnifiedDiff(o, n) IN
           /\ Text!Reads(diff, [k \in DOMAIN diff |-> diff[k].old], "+", o)
           /\ Text!Reads(diff, [k \in DOMAIN diff |-> diff[k].new], "-", n)
<1> DEFINE p == Text!CommonPrefix(o, n)
           s == Text!CommonSuffix(o, n, Text!Min({Len(o), Len(n)}) - p)
           lines == Text!DiffLines(o, n)
           diff == Text!UnifiedDiff(o, n)
           a == l - s
           b == a + (m - s - p)
           len == b + s
           Number(k, other) == IF lines[k].kind = other THEN 0
                               ELSE Text!Cardinality({j \in 1..k : lines[j].kind # other})
           olds == [k \in DOMAIN diff |-> diff[k].old]
           news == [k \in DOMAIN diff |-> diff[k].new]
<1>1. /\ p \in Nat /\ s \in Nat /\ p + s <= l /\ p + s <= m
      /\ \A i \in 1..p : o[i] = n[i]
      /\ \A i \in 0..(s-1) : o[l - i] = n[m - i]
    <2>1. AreCommon(o, n, l, m, p, s)
        BY CommonBounds
    <2> HIDE DEF p, s
    <2> QED BY <2>1 DEF AreCommon
<1>2. lines = Text!Trimmed(o, n, p, s)
    BY DEF Text!DiffLines
<1>3. /\ DOMAIN diff = DOMAIN lines
      /\ \A k \in DOMAIN lines :
             diff[k] = [kind |-> lines[k].kind, text |-> lines[k].text,
                        old |-> Number(k, "+"), new |-> Number(k, "-")]
    BY DEF Text!UnifiedDiff
<1> HIDE DEF p, s, lines, diff
<1>4. IsTrimmed(lines, o, n, p, a, b, s)
    <2>1. o \in Seq(T) /\ n \in Seq(T) /\ Len(o) = l /\ Len(n) = m
        BY DEF IsText
    <2>2. p \in Nat /\ s \in Nat /\ p + s <= Len(o) /\ p + s <= Len(n)
        BY <1>1, <2>1
    <2>3. IsTrimmed(Text!Trimmed(o, n, p, s), o, n, p, Len(o) - s,
                    Len(o) - s + (Len(n) - s - p), s)
        BY <2>1, <2>2, TrimmedRows
    <2> QED BY <1>2, <2>1, <2>3
<1>5. /\ p \in Nat /\ s \in Nat /\ a \in Nat /\ b \in Nat /\ len \in Nat
      /\ p <= a /\ a <= b /\ b <= len /\ a <= len /\ len - b = s
      /\ l = a + (len - b) /\ m = p + (len - a) /\ l = a + s
    BY <1>1
<1>6. b + s = len
    OBVIOUS
<1> HIDE DEF a, b, len, Number
<1>7. /\ DOMAIN diff = 1..len
      /\ \A k \in 1..len : /\ diff[k].kind = lines[k].kind /\ diff[k].text = lines[k].text
                          /\ diff[k].old = Number(k, "+") /\ diff[k].new = Number(k, "-")
    BY <1>3, <1>4, <1>6 DEF IsTrimmed
<1>8. ASSUME NEW k \in 1..len
      PROVE  \/ k <= p /\ diff[k].kind = "kept" /\ diff[k].text = o[k]
             \/ p < k /\ k <= a /\ diff[k].kind = "-" /\ diff[k].text = o[k]
             \/ a < k /\ k <= b /\ diff[k].kind = "+" /\ diff[k].text = n[p + (k - a)]
             \/ b < k /\ diff[k].kind = "kept" /\ diff[k].text = o[a + (k - b)]
    <2>1. k \in 1..p \/ k \in (p+1)..a \/ k \in (a+1)..b \/ k \in (b+1)..(b+s)
        BY <1>5, <1>6
    <2>2. diff[k].kind = lines[k].kind /\ diff[k].text = lines[k].text
        BY <1>7
    <2>3. k - a + p = p + (k - a) /\ k - b + a = a + (k - b)
        BY <1>5
    <2>4. CASE k \in 1..p
        BY <1>4, <2>2, <2>4 DEF IsTrimmed
    <2>5. CASE k \in (p+1)..a
        BY <1>4, <1>5, <2>2, <2>5 DEF IsTrimmed
    <2>6. CASE k \in (a+1)..b
        BY <1>4, <1>5, <2>2, <2>3, <2>6 DEF IsTrimmed
    <2>7. CASE k \in (b+1)..(b+s)
        BY <1>4, <1>5, <2>2, <2>3, <2>7 DEF IsTrimmed
    <2> QED BY <2>1, <2>4, <2>5, <2>6, <2>7
<1>9. ASSUME NEW k \in 1..len, NEW other
      PROVE  Number(k, other) = IF diff[k].kind = other THEN 0
                                ELSE Cardinality({j \in 1..k : diff[j].kind # other})
    <2>1. \A j \in 1..k : j \in 1..len
        BY <1>5
    <2>2. {j \in 1..k : diff[j].kind # other} = {j \in 1..k : lines[j].kind # other}
        BY <1>7, <2>1
    <2> QED BY <1>7, <2>2, TextCardinality DEF Number
<1>10. Text!Reads(diff, olds, "+", o)
    <2>1. ASSUME NEW k \in 1..len PROVE diff[k].kind # "+" <=> k <= a \/ k > b
        BY <1>5, <1>8
    <2>2. ASSUME NEW k \in 1..a PROVE diff[k].text = o[k]
        <3>1. k \in 1..len /\ ~(a < k) /\ ~(b < k)
            BY <1>5
        <3> QED BY <1>8, <3>1
    <2>3. ASSUME NEW k \in (b+1)..len PROVE diff[k].text = o[a + (k - b)]
        <3>1. k \in 1..len /\ b < k /\ ~(k <= b) /\ ~(k <= p) /\ ~(k <= a)
            BY <1>5
        <3> QED BY <1>8, <3>1
    <2>4. \A k \in 1..len : olds[k] = IF diff[k].kind = "+" THEN 0
                                      ELSE Cardinality({j \in 1..k : diff[j].kind # "+"})
        BY <1>7, <1>9
    <2> HIDE DEF olds
    <2>5. IsShown(diff, len, "+", o, a, b, olds)
        BY <1>7, <2>1, <2>2, <2>3, <2>4 DEF IsShown
    <2>6. IsText(T, o, a + (len - b))
        BY <1>5
    <2> QED BY <1>5, <2>5, <2>6, ReadsOff
<1>11. Text!Reads(diff, news, "-", n)
    <2>1. ASSUME NEW k \in 1..len PROVE diff[k].kind # "-" <=> k <= p \/ k > a
        BY <1>5, <1>8
    <2>2. ASSUME NEW k \in 1..p PROVE diff[k].text = n[k]
        <3>1. k \in 1..len /\ ~(p < k) /\ ~(a < k) /\ ~(b < k)
            BY <1>5
        <3> QED BY <1>1, <1>8, <3>1
    <2>3. ASSUME NEW k \in (a+1)..len PROVE diff[k].text = n[p + (k - a)]
        <3>1. k \in 1..len /\ ~(k <= a) /\ ~(k <= p)
            BY <1>5
        <3>2. CASE k <= b
            <4>1. ~(b < k)
                BY <1>5, <3>2
            <4> QED BY <1>8, <3>1, <4>1
        <3>3. CASE ~(k <= b)
            <4> DEFINE i == s - (k - b)
            <4>1. diff[k].text = o[a + (k - b)]
                BY <1>8, <3>1, <3>3
            <4>2. i \in 0..(s-1)
                BY <1>5, <3>1, <3>3
            <4>3. a + (k - b) = l - i /\ p + (k - a) = m - i
                BY <1>5
            <4> HIDE DEF i
            <4> QED BY <1>1, <4>1, <4>2, <4>3
        <3> QED BY <3>2, <3>3
    <2>4. \A k \in 1..len : news[k] = IF diff[k].kind = "-" THEN 0
                                      ELSE Cardinality({j \in 1..k : diff[j].kind # "-"})
        BY <1>7, <1>9
    <2> HIDE DEF news
    <2>5. IsShown(diff, len, "-", n, p, a, news)
        BY <1>7, <2>1, <2>2, <2>3, <2>4 DEF IsShown
    <2>6. IsText(T, n, p + (len - a))
        BY <1>5
    <2> QED BY <1>5, <2>5, <2>6, ReadsOff
<1> HIDE DEF olds, news
<1> QED BY <1>10, <1>11 DEF diff, olds, news

--------------------------------------------------------------------------------
(* A tool call: the run's patch. The parser's states are followed line by line,*)
(* section by section and file by file.                                        *)

\* The parser goes from one state to another along some lines.
Parses(S, lines, a, b) ==
    /\ lines \in Seq(S)
    /\ \E g : /\ g[0] = a /\ g[Len(lines)] = b
              /\ \A i \in 1..Len(lines) : g[i] = Text!ParseLine(g[i-1], lines[i])

Parsing(lines, n, f) ==
    f = [i \in 0..n |-> IF i = 0 THEN Text!Start ELSE Text!ParseLine(f[i-1], lines[i])]
LEMMA ParsingExists == ASSUME NEW n \in Nat, NEW lines PROVE \E f : Parsing(lines, n, f)
<1> DEFINE T == {m \in Nat : ~\E f : Parsing(lines, m, f)}
<1> SUFFICES ASSUME T # {} PROVE FALSE
    OBVIOUS
<1>1. PICK m \in T : \A k \in T : m <= k
    BY Least
<1>2. m # 0
    <2>1. Parsing(lines, 0, [i \in 0..0 |-> Text!Start])
        BY DEF Parsing
    <2> QED BY <2>1
<1>3. PICK f : Parsing(lines, m - 1, f)
    BY <1>1, <1>2
<1> DEFINE g == [i \in 0..m |-> IF i = 0 THEN Text!Start ELSE Text!ParseLine(f[i-1], lines[i])]
<1>4. Parsing(lines, m, g)
    <2>1. m \in Nat
        OBVIOUS
    <2>2. \A i \in 0..(m-1) : f[i] = IF i = 0 THEN Text!Start ELSE Text!ParseLine(f[i-1], lines[i])
        BY <1>3 DEF Parsing
    <2>3. \A i \in 0..(m-1) : g[i] = f[i]
        BY <2>1, <2>2
    <2>4. ASSUME NEW i \in 0..m, i # 0 PROVE g[i-1] = f[i-1]
        <3>1. i \in Nat /\ i - 1 \in 0..(m-1)
            BY <2>1, <2>4
        <3> QED BY <2>3, <3>1
    <2> DEFINE h == [i \in 0..m |-> IF i = 0 THEN Text!Start
                                    ELSE Text!ParseLine(g[i-1], lines[i])]
    <2>5. \A i \in 0..m : g[i] = h[i]
        BY <2>4
    <2>6. g = [i \in 0..m |-> g[i]] /\ h = [i \in 0..m |-> h[i]]
        OBVIOUS
    <2>7. g = h
        <3> HIDE DEF g, h
        <3> QED BY <2>5, <2>6
    <2> HIDE DEF g
    <2> QED BY <2>7 DEF Parsing
<1> QED BY <1>4

\* Where the parser gets is what it returns.
LEMMA ParsedOut ==
    ASSUME NEW S, NEW lines, NEW end, Parses(S, lines, Text!Start, end)
    PROVE  Text!ParsePatch(lines) = Text!Finalize(end).out
<1> DEFINE n == Len(lines)
           state == CHOOSE f : Parsing(lines, n, f)
<1>1. n \in Nat
    BY DEF Parses
<1>2. Text!ParsePatch(lines) = Text!Finalize(state[n]).out
    BY DEF Text!ParsePatch, Parsing
<1>3. Parsing(lines, n, state)
    BY <1>1, ParsingExists
<1>4. PICK g : /\ g[0] = Text!Start /\ g[n] = end
               /\ \A i \in 1..n : g[i] = Text!ParseLine(g[i-1], lines[i])
    BY DEF Parses
<1> HIDE DEF state, n
<1>5. state[0] = Text!Start
    BY <1>1, <1>3 DEF Parsing
<1>6. ASSUME NEW i \in 1..n PROVE i - 1 \in 0..n /\ state[i] = Text!ParseLine(state[i-1], lines[i])
    <2>1. i - 1 \in 0..n /\ i \in 0..n /\ i # 0
        BY <1>1
    <2> QED BY <1>3, <2>1 DEF Parsing
<1> DEFINE Apart == {i \in 0..n : state[i] # g[i]}
<1>7. Apart = {}
    <2> SUFFICES ASSUME Apart # {} PROVE FALSE
        OBVIOUS
    <2>1. PICK i \in Apart : \A k \in Apart : i <= k
        <3>1. Apart \in SUBSET Nat
            BY <1>1
        <3> QED BY <3>1, Least
    <2>2. i \in 1..n
        BY <1>1, <1>4, <1>5
    <2>3. i - 1 \in 0..n /\ i - 1 \notin Apart
        BY <1>1, <2>1, <2>2
    <2>4. state[i-1] = g[i-1]
        BY <2>3
    <2> QED BY <1>4, <1>6, <2>2, <2>4
<1>8. n \in 0..n
    BY <1>1
<1> QED BY <1>2, <1>4, <1>7, <1>8

\* The parser stays where it is, takes a line, and goes on.
LEMMA ParsesNothing == ASSUME NEW S, NEW a PROVE Parses(S, <<>>, a, a)
<1> DEFINE g == [i \in 0..0 |-> a]
<1>1. <<>> \in Seq(S) /\ Len(<<>>) = 0
    OBVIOUS
<1>2. g[0] = a
    OBVIOUS
<1> HIDE DEF g
<1>3. g[Len(<<>>)] = a /\ \A i \in 1..Len(<<>>) : g[i] = Text!ParseLine(g[i-1], <<>>[i])
    BY <1>1, <1>2
<1> QED BY <1>1, <1>2, <1>3 DEF Parses

LEMMA ParsesOne == ASSUME NEW S, NEW x \in S, NEW a PROVE Parses(S, <<x>>, a, Text!ParseLine(a, x))
<1> DEFINE g == [i \in 0..1 |-> IF i = 0 THEN a ELSE Text!ParseLine(a, x)]
<1>1. <<x>> \in Seq(S) /\ Len(<<x>>) = 1 /\ <<x>>[1] = x
    OBVIOUS
<1>2. g[0] = a /\ g[1] = Text!ParseLine(a, x)
    OBVIOUS
<1> HIDE DEF g
<1>3. \A i \in 1..1 : i = 1 /\ i - 1 = 0
    OBVIOUS
<1>4. \A i \in 1..1 : g[i] = Text!ParseLine(g[i-1], <<x>>[i])
    BY <1>1, <1>2, <1>3
<1> QED BY <1>1, <1>2, <1>4 DEF Parses

LEMMA ParsesOn ==
    ASSUME NEW S, NEW s, NEW t, NEW a, NEW b, NEW c, Parses(S, s, a, b), Parses(S, t, b, c)
    PROVE  Parses(S, s \o t, a, c)
<1> DEFINE m == Len(s)
           n == Len(t)
           st == s \o t
<1>1. m \in Nat /\ n \in Nat /\ s \in [1..m -> S] /\ t \in [1..n -> S]
    BY DEF Parses
<1>2. PICK g : g[0] = a /\ g[m] = b /\ \A i \in 1..m : g[i] = Text!ParseLine(g[i-1], s[i])
    BY DEF Parses
<1>3. PICK h : h[0] = b /\ h[n] = c /\ \A i \in 1..n : h[i] = Text!ParseLine(h[i-1], t[i])
    BY DEF Parses
<1> HIDE DEF m, n
<1>4. st \in [1..(m+n) -> S] /\ IsJoin(st, s, m, t, n)
    BY <1>1, Joined
<1> HIDE DEF st
<1>5. st \in Seq(S) /\ Len(st) = m + n
    BY <1>1, <1>4
<1> DEFINE l == m + n
           k == [i \in 0..l |-> IF i <= m THEN g[i] ELSE h[i - m]]
<1>6. l \in Nat /\ l - m = n /\ (l <= m <=> n = 0) /\ (n = 0 => l = m) /\ m + n = l
    BY <1>1
<1> HIDE DEF l
<1>9. k[0] = a /\ k[l] = c
    <2>1. 0 \in 0..l /\ l \in 0..l /\ 0 <= m
        BY <1>1, <1>6
    <2>2. k[0] = a
        BY <1>2, <2>1
    <2>3. k[l] = IF n = 0 THEN g[l] ELSE h[n]
        BY <1>6, <2>1
    <2> HIDE DEF k
    <2> QED BY <1>2, <1>3, <1>6, <2>2, <2>3
<1>7. ASSUME NEW i \in 1..l PROVE k[i] = Text!ParseLine(k[i-1], st[i])
    <2>1. i \in 0..l /\ i - 1 \in 0..l
        BY <1>1, <1>6
    <2>2. CASE i <= m
        <3>1. i \in 1..m /\ i - 1 <= m
            BY <1>1, <2>2
        <3>2. k[i] = g[i] /\ k[i-1] = g[i-1] /\ st[i] = s[i]
            BY <1>4, <2>1, <2>2, <3>1 DEF IsJoin
        <3> HIDE DEF k
        <3> QED BY <1>2, <3>1, <3>2
    <2>3. CASE ~(i <= m)
        <3>1. i \in (m+1)..(m+n) /\ i - m \in 1..n /\ (i - 1 <= m <=> i - m = 1)
              /\ i - m - 1 = i - 1 - m /\ (i - m = 1 => i - 1 = m)
            BY <1>1, <1>6, <2>3
        <3>2. k[i] = h[i - m] /\ st[i] = t[i - m]
            BY <1>4, <2>1, <2>3, <3>1 DEF IsJoin
        <3>3. k[i-1] = h[i - m - 1]
            BY <1>2, <1>3, <2>1, <3>1
        <3> HIDE DEF k
        <3> QED BY <1>3, <3>1, <3>2, <3>3
    <2> QED BY <2>2, <2>3
<1> HIDE DEF k
<1>8. Parses(S, st, a, c)
    <2>1. k[Len(st)] = c /\ \A i \in 1..Len(st) : k[i] = Text!ParseLine(k[i-1], st[i])
        BY <1>5, <1>6, <1>7, <1>9
    <2> QED BY <1>5, <1>9, <2>1 DEF Parses
<1> QED BY <1>8 DEF st

\* The states of the parser that a patch of changed files brings about.
ParserAt(out, path, added, removed, hunks, source) ==
    [out |-> out, hunks |-> hunks, source |-> source,
     current |-> [path |-> path, added |-> added, removed |-> removed, hunks |-> <<>>]]
Between(out, source) == ParserAt(out, Text!None, 0, 0, <<>>, source)
DiffOf(path, added, removed, hunks) ==
    [path |-> path, added |-> added, removed |-> removed, hunks |-> hunks]

\* Before the first line there is neither an entry nor a current file.
LEMMA ParserStarts == Text!Start = Between({}, Text!None)
BY DEF Text!Start, Text!NoDiff, Between, ParserAt

\* Finishing adds the current file, if there is one.
LEMMA Finalized ==
    ASSUME NEW out, NEW path, NEW added, NEW removed, NEW hunks, NEW source
    PROVE  /\ Text!Finalize(Between(out, source)) = Between(out, source)
           /\ path # Text!None =>
                  Text!Finalize(ParserAt(out, path, added, removed, hunks, source)) =
                      Between({d \in out : d.path # path} \cup {DiffOf(path, added, removed, hunks)},
                              source)
<1>1. Text!Finalize(Between(out, source)) = Between(out, source)
    BY DEF Text!Finalize, Text!NoDiff, Between, ParserAt
<1>2. ASSUME path # Text!None
      PROVE  Text!Finalize(ParserAt(out, path, added, removed, hunks, source)) =
                 Between({d \in out : d.path # path} \cup {DiffOf(path, added, removed, hunks)}, source)
    <2> DEFINE st == ParserAt(out, path, added, removed, hunks, source)
    <2>1. st.current # Text!NoDiff
        BY <1>2 DEF Text!NoDiff, ParserAt
    <2>2. [st.current EXCEPT !.hunks = st.hunks] = DiffOf(path, added, removed, hunks)
          /\ st.current.path = path /\ st.out = out
        BY DEF DiffOf, ParserAt
    <2>3. Text!Finalize(st) =
              [st EXCEPT !.out = {d \in @ : d.path # st.current.path}
                                     \cup {[st.current EXCEPT !.hunks = st.hunks]},
                         !.current = Text!NoDiff, !.hunks = <<>>]
        BY <2>1 DEF Text!Finalize
    <2> QED BY <2>2, <2>3 DEF ParserAt, Between, Text!NoDiff
<1> QED BY <1>1, <1>2

\* What the parser makes of each line.
LEMMA DiffLineParsed ==
    ASSUME NEW st, NEW out, NEW source, Text!Finalize(st) = Between(out, source)
    PROVE  Text!ParseLine(st, Text!Line("diff", Text!None)) = Between(out, Text!None)
BY DEF Text!ParseLine, Text!Line, Between, ParserAt

LEMMA IndexLineParsed ==
    ASSUME NEW out, NEW source
    PROVE  Text!ParseLine(Between(out, source), Text!Line("index", Text!None)) = Between(out, source)
BY DEF Text!ParseLine, Text!Line, Text!Content, Text!NoDiff, Between, ParserAt

LEMMA SourceLineParsed ==
    ASSUME NEW out, NEW path, NEW added, NEW removed, NEW hunks, NEW source, NEW named
    PROVE  Text!ParseLine(ParserAt(out, path, added, removed, hunks, source), Text!Line("---", named)) =
               ParserAt(out, path, added, removed, hunks, named)
BY DEF Text!ParseLine, Text!Line, ParserAt

LEMMA TargetLineParsed ==
    ASSUME NEW out, NEW all, NEW path, NEW added, NEW removed, NEW hunks, NEW source, NEW target, NEW named,
           named = IF target = Text!None THEN source ELSE target, named # Text!None, path # named,
           Text!Finalize(ParserAt(out, path, added, removed, hunks, source)) = Between(all, source)
    PROVE  Text!ParseLine(ParserAt(out, path, added, removed, hunks, source), Text!Line("+++", target)) =
               ParserAt(all, named, 0, 0, <<>>, Text!None)
<1> DEFINE st == ParserAt(out, path, added, removed, hunks, source)
<1>1. Text!ParseLine(st, Text!Line("+++", target)) = Text!PostImage(st, target)
    BY DEF Text!ParseLine, Text!Line
<1>2. st.current.path = path /\ st.source = source
    BY DEF ParserAt
<1>3. Text!PostImage(st, target) =
          [Between(all, source) EXCEPT
              !.current = IF @ = Text!NoDiff THEN [Text!NoDiff EXCEPT !.path = named] ELSE @,
              !.source = Text!None]
    BY <1>2 DEF Text!PostImage
<1>4. Between(all, source).current = Text!NoDiff
    BY DEF Between, ParserAt, Text!NoDiff
<1> QED BY <1>1, <1>3, <1>4 DEF Between, ParserAt, Text!NoDiff

LEMMA HunkLineParsed ==
    ASSUME NEW out, NEW path, NEW added, NEW removed, NEW source
    PROVE  Text!ParseLine(ParserAt(out, path, added, removed, <<>>, source), Text!Line("@@", Text!None)) =
               ParserAt(out, path, added, removed, <<"@@">>, source)
BY DEF Text!ParseLine, Text!Line, ParserAt

\* The marks of the lines of a hunk that do not look like headers.
Marks == {"kept", "-", "+"}
LEMMA ContentLineParsed ==
    ASSUME NEW out, NEW path, NEW added, NEW removed, NEW hunks, NEW source, NEW mark \in Marks,
           path # Text!None
    PROVE  Text!ParseLine(ParserAt(out, path, added, removed, hunks, source), Text!Line(mark, Text!None)) =
               ParserAt(out, path, IF mark = "+" THEN added + 1 ELSE added,
                        IF mark = "-" THEN removed + 1 ELSE removed, Append(hunks, mark), source)
<1> DEFINE st == ParserAt(out, path, added, removed, hunks, source)
<1>1. Text!ParseLine(st, Text!Line(mark, Text!None)) = Text!Content(st, mark)
    BY DEF Text!ParseLine, Text!Line, Marks
<1>2. st.current # Text!NoDiff
    BY DEF ParserAt, Text!NoDiff
<1> QED BY <1>1, <1>2 DEF Text!Content, ParserAt

\* How many of the first k lines are marked so.
Marked(content, mark, k) == Cardinality({i \in 1..k : content[i] = mark})

\* The marked lines are counted one by one.
LEMMA OneMoreMarked ==
    ASSUME NEW content, NEW mark
    PROVE  /\ Marked(content, mark, 0) = 0
           /\ \A k \in Nat \ {0} :
                  Marked(content, mark, k) = IF content[k] = mark THEN Marked(content, mark, k - 1) + 1
                                             ELSE Marked(content, mark, k - 1)
<1> DEFINE At(k) == {i \in 1..k : content[i] = mark}
<1>1. Marked(content, mark, 0) = 0
    <2>1. At(0) = {}
        OBVIOUS
    <2> HIDE DEF At
    <2>2. Cardinality(At(0)) = 0
        BY <2>1, FS_EmptySet
    <2> QED BY <2>2 DEF Marked, At
<1>2. ASSUME NEW k \in Nat \ {0}
      PROVE  Marked(content, mark, k) = IF content[k] = mark THEN Marked(content, mark, k - 1) + 1
                                        ELSE Marked(content, mark, k - 1)
    <2>1. k - 1 \in Nat /\ k \notin At(k - 1)
        OBVIOUS
    <2>2. IsFiniteSet(At(k - 1))
        <3>1. IsFiniteSet(1..(k-1)) /\ At(k - 1) \subseteq 1..(k-1)
            BY <2>1, FS_Interval
        <3> QED BY <3>1, FS_Subset
    <2>3. At(k) = IF content[k] = mark THEN At(k - 1) \cup {k} ELSE At(k - 1)
        <3>1. \A i : i \in 1..k <=> i \in 1..(k-1) \/ i = k
            OBVIOUS
        <3> QED BY <3>1
    <2> HIDE DEF At
    <2>4. Cardinality(At(k - 1) \cup {k}) = Cardinality(At(k - 1)) + 1
        BY <2>1, <2>2, FS_AddElement
    <2>5. Cardinality(At(k)) = IF content[k] = mark THEN Cardinality(At(k - 1)) + 1
                               ELSE Cardinality(At(k - 1))
        BY <2>3, <2>4
    <2> QED BY <2>5 DEF Marked, At
<1> QED BY <1>1, <1>2

AppendsOn(s, t, x) == Append(s \o t, x) = s \o Append(t, x)
LEMMA AppendJoins ==
    ASSUME NEW T, NEW s \in Seq(T), NEW t \in Seq(T), NEW x \in T
    PROVE  AppendsOn(s, t, x)
BY DEF AppendsOn

\* A list after another grows element by element.
Grows(h, c) ==
    /\ h \o SubSeq(c, 1, 0) = h /\ h \o SubSeq(c, 1, Len(c)) = h \o c
    /\ \A i \in 1..Len(c) : Append(h \o SubSeq(c, 1, i - 1), c[i]) = h \o SubSeq(c, 1, i)
LEMMA Growing ==
    ASSUME NEW T, NEW h \in Seq(T), NEW c \in Seq(T)
    PROVE  Grows(h, c)
<1>1. SubSeq(c, 1, 0) = <<>> /\ h \o <<>> = h
    OBVIOUS
<1>2. SubSeq(c, 1, Len(c)) = c
    OBVIOUS
<1>3. ASSUME NEW i \in 1..Len(c)
      PROVE  Append(h \o SubSeq(c, 1, i - 1), c[i]) = h \o SubSeq(c, 1, i)
    <2> DEFINE d == SubSeq(c, 1, i - 1)
               x == c[i]
    <2>1. x \in T
        OBVIOUS
    <2>2. d \in Seq(T)
        OBVIOUS
    <2>3. SubSeq(c, 1, i) = Append(d, x)
        OBVIOUS
    <2> HIDE DEF d, x
    <2>4. AppendsOn(h, d, x)
        BY <2>1, <2>2, AppendJoins
    <2> QED BY <2>3, <2>4 DEF d, x, AppendsOn
<1> QED BY <1>1, <1>2, <1>3 DEF Grows

\* The lines of a hunk are counted and kept as they are marked.
LEMMA ContentParsed ==
    ASSUME NEW S, \A mark \in Marks : Text!Line(mark, Text!None) \in S,
           NEW content \in Seq(Marks), NEW out, NEW path, path # Text!None, NEW source
    PROVE  LET n == Len(content)
               lines == [i \in DOMAIN content |-> IF content[i] = "dashes" THEN Text!Line("---", "text")
                                                  ELSE Text!Line(content[i], Text!None)] IN
           Parses(S, lines, ParserAt(out, path, 0, 0, <<"@@">>, source),
                  ParserAt(out, path, Marked(content, "+", n), Marked(content, "-", n),
                           <<"@@">> \o content, source))
<1> DEFINE n == Len(content)
           lines == [i \in DOMAIN content |-> IF content[i] = "dashes" THEN Text!Line("---", "text")
                                              ELSE Text!Line(content[i], Text!None)]
           hunks(i) == <<"@@">> \o SubSeq(content, 1, i)
           state(i) == ParserAt(out, path, Marked(content, "+", i), Marked(content, "-", i), hunks(i), source)
           g == [i \in 0..n |-> state(i)]
<1>1. n \in Nat /\ DOMAIN content = 1..n /\ \A i \in 1..n : content[i] \in Marks
    OBVIOUS
<1>2. /\ hunks(0) = <<"@@">> /\ hunks(n) = <<"@@">> \o content
      /\ \A i \in 1..n : Append(hunks(i - 1), content[i]) = hunks(i)
    <2> DEFINE T == {"@@"} \cup Marks
               h == <<"@@">>
    <2>1. h \in Seq(T) /\ content \in Seq(T)
        OBVIOUS
    <2> HIDE DEF T, h
    <2>2. Grows(h, content)
        BY <2>1, Growing
    <2> QED BY <2>2 DEF Grows, h
<1> HIDE DEF n, hunks
<1>3. \A i \in 1..n : lines[i] = Text!Line(content[i], Text!None) /\ lines[i] \in S
    <2> SUFFICES ASSUME NEW i \in 1..n
                 PROVE  lines[i] = Text!Line(content[i], Text!None) /\ lines[i] \in S
        OBVIOUS
    <2>1. content[i] \in Marks /\ content[i] # "dashes"
        BY <1>1 DEF Marks
    <2>2. lines[i] = Text!Line(content[i], Text!None)
        BY <1>1, <2>1
    <2> HIDE DEF lines
    <2> QED BY <2>1, <2>2
<1>4. lines = [i \in 1..n |-> lines[i]]
    BY <1>1
<1> HIDE DEF lines
<1>5. lines \in Seq(S) /\ Len(lines) = n
    <2>1. lines \in [1..n -> S]
        BY <1>3, <1>4
    <2> QED BY <1>1, <2>1
<1>6. ASSUME NEW i \in 1..n PROVE state(i) = Text!ParseLine(state(i - 1), lines[i])
    <2> DEFINE mark == content[i]
               more(m) == IF mark = m THEN Marked(content, m, i - 1) + 1 ELSE Marked(content, m, i - 1)
    <2>1. mark \in Marks /\ lines[i] = Text!Line(mark, Text!None)
        BY <1>1, <1>3
    <2>2. \A m : Marked(content, m, i) = more(m)
        <3>1. i \in Nat \ {0}
            BY <1>1
        <3> QED BY <3>1, OneMoreMarked
    <2>3. hunks(i) = Append(hunks(i - 1), mark)
        BY <1>2
    <2> HIDE DEF mark
    <2> DEFINE added == Marked(content, "+", i - 1)
               removed == Marked(content, "-", i - 1)
               before == hunks(i - 1)
    <2>5. state(i - 1) = ParserAt(out, path, added, removed, before, source)
        OBVIOUS
    <2>6. more("+") = (IF mark = "+" THEN added + 1 ELSE added)
          /\ more("-") = IF mark = "-" THEN removed + 1 ELSE removed
        OBVIOUS
    <2> HIDE DEF added, removed, before, state, more
    <2>7. Text!ParseLine(ParserAt(out, path, added, removed, before, source),
                           Text!Line(mark, Text!None)) =
              ParserAt(out, path, IF mark = "+" THEN added + 1 ELSE added,
                       IF mark = "-" THEN removed + 1 ELSE removed, Append(before, mark), source)
        BY <2>1, ContentLineParsed
    <2>4. Text!ParseLine(state(i - 1), Text!Line(mark, Text!None)) =
              ParserAt(out, path, more("+"), more("-"), Append(before, mark), source)
        BY <2>5, <2>6, <2>7
    <2> USE DEF state, before
    <2> HIDE DEF more
    <2> QED BY <2>1, <2>2, <2>3, <2>4
<1>7. state(0) = ParserAt(out, path, 0, 0, <<"@@">>, source)
    BY <1>2, OneMoreMarked
<1>8. state(n) = ParserAt(out, path, Marked(content, "+", n), Marked(content, "-", n),
                          <<"@@">> \o content, source)
    BY <1>2
<1> HIDE DEF state
<1>9. Parses(S, lines, state(0), state(n))
    <2>1. g[0] = state(0) /\ g[Len(lines)] = state(n)
        BY <1>1, <1>5
    <2>2. ASSUME NEW i \in 1..Len(lines) PROVE g[i] = Text!ParseLine(g[i-1], lines[i])
        <3>1. i \in 1..n /\ i \in 0..n /\ i - 1 \in 0..n
            BY <1>1, <1>5
        <3>2. g[i] = state(i) /\ g[i-1] = state(i - 1)
            BY <3>1
        <3> HIDE DEF g
        <3> QED BY <1>6, <3>1, <3>2
    <2> HIDE DEF g
    <2> QED BY <1>5, <2>1, <2>2 DEF Parses
<1> QED BY <1>7, <1>8, <1>9 DEF n, lines

\* Two lines, and three.
LEMMA ParsesTwo ==
    ASSUME NEW S, NEW x \in S, NEW y \in S, NEW a, NEW b, NEW c,
           Text!ParseLine(a, x) = b, Text!ParseLine(b, y) = c
    PROVE  Parses(S, <<x, y>>, a, c)
<1> DEFINE g == [i \in 0..2 |-> IF i = 0 THEN a ELSE IF i = 1 THEN b ELSE c]
           lines == <<x, y>>
<1>1. lines \in Seq(S) /\ Len(lines) = 2 /\ lines[1] = x /\ lines[2] = y
    OBVIOUS
<1>2. g[0] = a /\ g[1] = b /\ g[2] = c
    OBVIOUS
<1> HIDE DEF g, lines
<1>3. \A i \in 1..2 : (i = 1 /\ i - 1 = 0) \/ (i = 2 /\ i - 1 = 1)
    OBVIOUS
<1>4. \A i \in 1..2 : g[i] = Text!ParseLine(g[i-1], lines[i])
    BY <1>1, <1>2, <1>3
<1>5. Parses(S, lines, a, c)
    BY <1>1, <1>2, <1>4 DEF Parses
<1> QED BY <1>5 DEF lines

LEMMA ParsesThree ==
    ASSUME NEW S, NEW x \in S, NEW y \in S, NEW z \in S, NEW a, NEW b, NEW c, NEW d,
           Text!ParseLine(a, x) = b, Text!ParseLine(b, y) = c, Text!ParseLine(c, z) = d
    PROVE  Parses(S, <<x, y, z>>, a, d)
<1>1. Parses(S, <<x, y>>, a, c) /\ Parses(S, <<z>>, c, d)
    BY ParsesOne, ParsesTwo
<1>2. Parses(S, <<x, y>> \o <<z>>, a, d)
    BY <1>1, ParsesOn
<1>3. <<x, y, z>> = <<x, y>> \o <<z>>
    OBVIOUS
<1> QED BY <1>2, <1>3

\* The lines a section is written in.
LinesOf(f) == {Text!Line("diff", Text!None), Text!Line("index", Text!None),
               Text!Line("---", f.source), Text!Line("+++", f.target),
               Text!Line("@@", Text!None)} \cup {Text!Line(mark, Text!None) : mark \in Marks}
EntryOf(f) == DiffOf(Text!PathOf(f), Marked(f.content, "+", Len(f.content)),
                     Marked(f.content, "-", Len(f.content)), <<"@@">> \o f.content)
\* Finishing the current file leaves these entries; its path is one of these.
Ready(st, all, paths) ==
    \E out, path, added, removed, hunks, source :
        /\ st = ParserAt(out, path, added, removed, hunks, source)
        /\ path \in paths \cup {Text!None}
        /\ Text!Finalize(st) = Between(all, source)

LEMMA ReadyBetween == ASSUME NEW all, NEW source, NEW paths PROVE Ready(Between(all, source), all, paths)
<1>1. Text!Finalize(Between(all, source)) = Between(all, source)
    BY Finalized
<1>2. Between(all, source) = ParserAt(all, Text!None, 0, 0, <<>>, source)
    BY DEF Between
<1>3. Text!None \in paths \cup {Text!None}
    OBVIOUS
<1> QED BY <1>1, <1>2, <1>3 DEF Ready

\* The text of a section before its changes.
LEMMA HeaderParsed ==
    ASSUME NEW S, NEW f, LinesOf(f) \subseteq S, NEW st, NEW all, NEW paths, Ready(st, all, paths)
    PROVE  \E end : /\ Parses(S, <<Text!Line("diff", Text!None), Text!Line("index", Text!None)>>, st, end)
                    /\ Ready(end, all, paths)
<1> DEFINE x == Text!Line("diff", Text!None)
           y == Text!Line("index", Text!None)
           end == Between(all, Text!None)
<1>1. PICK source : Text!Finalize(st) = Between(all, source)
    BY DEF Ready
<1>2. x \in S /\ y \in S
    BY DEF LinesOf
<1>3. Text!ParseLine(st, x) = end
    BY <1>1, DiffLineParsed
<1>4. Text!ParseLine(end, y) = end
    BY IndexLineParsed
<1>5. Ready(end, all, paths)
    BY ReadyBetween
<1> HIDE DEF x, y, end
<1>6. Parses(S, <<x, y>>, st, end)
    BY <1>2, <1>3, <1>4, ParsesTwo
<1> QED BY <1>5, <1>6 DEF x, y

\* The text of a section from its headers on.
LEMMA ChangesParsed ==
    ASSUME NEW S, NEW f, LinesOf(f) \subseteq S, f.content \in Seq(Marks),
           Text!PathOf(f) # Text!None,
           NEW st, NEW all, NEW paths, Ready(st, all, paths), Text!PathOf(f) \notin paths,
           \A d \in all : d.path # Text!PathOf(f)
    PROVE  LET lines == [i \in DOMAIN f.content |->
                            IF f.content[i] = "dashes" THEN Text!Line("---", "text")
                            ELSE Text!Line(f.content[i], Text!None)] IN
           \E end : /\ Parses(S, <<Text!Line("---", f.source), Text!Line("+++", f.target),
                                   Text!Line("@@", Text!None)>> \o lines, st, end)
                    /\ Ready(end, all \cup {EntryOf(f)}, paths \cup {Text!PathOf(f)})
<1> DEFINE lines == [i \in DOMAIN f.content |->
                        IF f.content[i] = "dashes" THEN Text!Line("---", "text")
                        ELSE Text!Line(f.content[i], Text!None)]
           x == Text!Line("---", f.source)
           y == Text!Line("+++", f.target)
           z == Text!Line("@@", Text!None)
           P == Text!PathOf(f)
           content == f.content
           n == Len(content)
<1>1. PICK out, path, added, removed, hunks, source :
          /\ st = ParserAt(out, path, added, removed, hunks, source)
          /\ path \in paths \cup {Text!None}
          /\ Text!Finalize(st) = Between(all, source)
    BY DEF Ready
<1>2. x \in S /\ y \in S /\ z \in S /\ \A mark \in Marks : Text!Line(mark, Text!None) \in S
    BY DEF LinesOf
<1>3. P = (IF f.target = Text!None THEN f.source ELSE f.target) /\ P # Text!None /\ path # P
    BY <1>1 DEF Text!PathOf
<1> DEFINE named == ParserAt(out, path, added, removed, hunks, f.source)
           opened == ParserAt(all, P, 0, 0, <<>>, Text!None)
           started == ParserAt(all, P, 0, 0, <<"@@">>, Text!None)
           end == ParserAt(all, P, Marked(content, "+", n), Marked(content, "-", n),
                           <<"@@">> \o content, Text!None)
<1>4. Text!ParseLine(st, x) = named
    BY <1>1, SourceLineParsed
<1>5. Text!Finalize(named) = Between(all, f.source)
    BY <1>1 DEF Text!Finalize, Between, ParserAt
<1>6. Text!ParseLine(named, y) = opened
    <2> HIDE DEF P
    <2> QED BY <1>3, <1>5, TargetLineParsed
<1>7. Text!ParseLine(opened, z) = started
    BY HunkLineParsed
<1>8. Parses(S, lines, started, end)
    <2> HIDE DEF P
    <2> QED BY <1>2, <1>3, ContentParsed
<1>9. Text!Finalize(end) = Between(all \cup {EntryOf(f)}, Text!None)
    <2> DEFINE a == Marked(content, "+", n)
               r == Marked(content, "-", n)
               h == <<"@@">> \o content
    <2>1. EntryOf(f) = DiffOf(P, a, r, h)
        BY DEF EntryOf
    <2>2. {d \in all : d.path # P} = all
        OBVIOUS
    <2> HIDE DEF a, r, h, P
    <2>3. Text!Finalize(ParserAt(all, P, a, r, h, Text!None)) =
              Between({d \in all : d.path # P} \cup {DiffOf(P, a, r, h)}, Text!None)
        BY <1>3, Finalized
    <2> QED BY <2>1, <2>2, <2>3 DEF a, r, h
<1>10. Ready(end, all \cup {EntryOf(f)}, paths \cup {P})
    <2>1. P \in paths \cup {P} \cup {Text!None}
        OBVIOUS
    <2> QED BY <1>9, <2>1 DEF Ready
<1> HIDE DEF x, y, z, named, opened, started, end, lines
<1>11. Parses(S, <<x, y, z>>, st, started)
    BY <1>2, <1>4, <1>6, <1>7, ParsesThree
<1>12. Parses(S, <<x, y, z>> \o lines, st, end)
    BY <1>8, <1>11, ParsesOn
<1> QED BY <1>10, <1>12 DEF x, y, z, lines

\* A section adds the entry of its file, if there are changes.
LEMMA SectionParsed ==
    ASSUME NEW S, NEW f, NEW bare, LinesOf(f) \subseteq S, f.content \in Seq(Marks),
           Text!PathOf(f) # Text!None,
           NEW st, NEW all, NEW paths, Ready(st, all, paths), Text!PathOf(f) \notin paths,
           \A d \in all : d.path # Text!PathOf(f)
    PROVE  \E end : /\ Parses(S, Text!Section(f, bare), st, end)
                    /\ Ready(end, IF f.content = <<>> THEN all ELSE all \cup {EntryOf(f)},
                             paths \cup {Text!PathOf(f)})
<1> DEFINE headers == <<Text!Line("diff", Text!None), Text!Line("index", Text!None)>>
           lines == [i \in DOMAIN f.content |->
                        IF f.content[i] = "dashes" THEN Text!Line("---", "text")
                        ELSE Text!Line(f.content[i], Text!None)]
           changes == <<Text!Line("---", f.source), Text!Line("+++", f.target),
                        Text!Line("@@", Text!None)>> \o lines
           head == IF bare THEN <<>> ELSE headers
           body == IF f.content = <<>> THEN <<>> ELSE changes
           after == IF f.content = <<>> THEN all ELSE all \cup {EntryOf(f)}
           P == Text!PathOf(f)
<1>1. Text!Section(f, bare) = head \o body
    BY DEF Text!Section
<1>2. /\ \E end : Parses(S, headers, st, end) /\ Ready(end, all, paths)
      /\ Parses(S, <<>>, st, st)
    BY HeaderParsed, ParsesNothing
<1> HIDE DEF headers
<1>3. PICK mid : Parses(S, head, st, mid) /\ Ready(mid, all, paths)
    BY <1>2
<1>4. \E end : Parses(S, changes, mid, end) /\ Ready(end, all \cup {EntryOf(f)}, paths \cup {P})
    BY <1>3, ChangesParsed
<1> HIDE DEF changes
<1>5. Parses(S, <<>>, mid, mid) /\ Ready(mid, all, paths \cup {P})
    BY <1>3, ParsesNothing DEF Ready
<1>6. PICK end : Parses(S, body, mid, end) /\ Ready(end, after, paths \cup {P})
    BY <1>4, <1>5
<1> HIDE DEF head, body, after, P
<1>7. Parses(S, head \o body, st, end)
    BY <1>3, <1>6, ParsesOn
<1> QED BY <1>1, <1>6, <1>7 DEF after, P

\* The parser finds the entries of the files with changes.
Separable(files) ==
    /\ files \in Seq(ToSet(files))
    /\ \A i \in DOMAIN files : files[i].content \in Seq(Marks)
                               /\ Text!PathOf(files[i]) # Text!None
    /\ \A i, j \in DOMAIN files : i # j => Text!PathOf(files[i]) # Text!PathOf(files[j])
ChangedUpTo(files, k) == {i \in 1..k : files[i].content # <<>>}
EntriesUpTo(files, k) == {EntryOf(files[i]) : i \in ChangedUpTo(files, k)}
PathsUpTo(files, k) == {Text!PathOf(files[i]) : i \in 1..k}
LinesIn(files) == UNION {LinesOf(files[i]) : i \in DOMAIN files}

\* A file's section adds its entry and its path.
LEMMA OneMoreFile ==
    ASSUME NEW files, Separable(files), NEW bare, NEW k \in DOMAIN files, NEW st,
           Ready(st, EntriesUpTo(files, k - 1), PathsUpTo(files, k - 1))
    PROVE  \E end : /\ Parses(LinesIn(files), Text!Section(files[k], bare), st, end)
                    /\ Ready(end, EntriesUpTo(files, k), PathsUpTo(files, k))
<1> DEFINE f == files[k]
           all == EntriesUpTo(files, k - 1)
           paths == PathsUpTo(files, k - 1)
<1>1. /\ k \in Nat \ {0} /\ k \notin 1..(k-1) /\ 1..(k-1) \subseteq DOMAIN files
      /\ \A i : i \in 1..k <=> i \in 1..(k-1) \/ i = k
    BY DEF Separable
<1>2. f.content \in Seq(Marks) /\ Text!PathOf(f) # Text!None
    BY DEF Separable
<1>3. Text!PathOf(f) \notin paths
    BY <1>1 DEF Separable, PathsUpTo
<1>4. ASSUME NEW d \in all PROVE d.path # Text!PathOf(f)
    <2>1. PICK i \in 1..(k-1) : d = EntryOf(files[i])
        BY DEF EntriesUpTo, ChangedUpTo
    <2>2. d.path = Text!PathOf(files[i])
        BY <2>1 DEF EntryOf, DiffOf
    <2>3. i # k /\ i \in DOMAIN files
        BY <1>1
    <2> QED BY <2>2, <2>3 DEF Separable
<1>5. LinesOf(f) \subseteq LinesIn(files)
    BY DEF LinesIn
<1>6. (IF f.content = <<>> THEN all ELSE all \cup {EntryOf(f)}) = EntriesUpTo(files, k)
    <2> HIDE DEF f
    <2>1. ChangedUpTo(files, k) = IF f.content = <<>> THEN ChangedUpTo(files, k - 1)
                                  ELSE ChangedUpTo(files, k - 1) \cup {k}
        BY <1>1 DEF ChangedUpTo, f
    <2>2. CASE f.content = <<>>
        BY <2>1, <2>2 DEF EntriesUpTo
    <2>3. CASE f.content # <<>>
        <3>1. \A e : e \in EntriesUpTo(files, k) <=> e \in all \/ e = EntryOf(files[k])
            BY <2>1, <2>3 DEF EntriesUpTo
        <3> QED BY <2>3, <3>1 DEF f
    <2> QED BY <2>2, <2>3
<1>7. paths \cup {Text!PathOf(f)} = PathsUpTo(files, k)
    <2>1. \A p : p \in PathsUpTo(files, k) <=> p \in paths \/ p = Text!PathOf(f)
        BY <1>1 DEF PathsUpTo
    <2> QED BY <2>1
<1> HIDE DEF f, all, paths
<1>8. Ready(st, all, paths)
    BY DEF all, paths
<1>9. \E end : /\ Parses(LinesIn(files), Text!Section(f, bare), st, end)
               /\ Ready(end, IF f.content = <<>> THEN all ELSE all \cup {EntryOf(f)},
                        paths \cup {Text!PathOf(f)})
    BY <1>2, <1>3, <1>4, <1>5, <1>8, SectionParsed
<1> QED BY <1>6, <1>7, <1>9 DEF f

\* After the last section the parser has the entries of all files.
LEMMA PatchParsed ==
    ASSUME NEW files, NEW bare, Separable(files)
    PROVE  Text!ParsePatch(FlattenSeq([i \in DOMAIN files |-> Text!Section(files[i], bare)])) =
               EntriesUpTo(files, Len(files))
<1> DEFINE sections == [i \in DOMAIN files |-> Text!Section(files[i], bare)]
           m == Len(files)
           flat == CHOOSE f : Folding(sections, m, f)
           S == LinesIn(files)
           Good(k, lines) == \E end : /\ Parses(S, lines, Text!Start, end)
                                      /\ Ready(end, EntriesUpTo(files, k), PathsUpTo(files, k))
<1>1. m \in Nat /\ DOMAIN files = 1..m
    BY DEF Separable
<1>2. Len(sections) = m /\ (m = 0 => sections = <<>>) /\ \A i \in 1..m : sections[i] = Text!Section(files[i], bare)
    <2> HIDE DEF m
    <2>1. sections = [i \in 1..m |-> Text!Section(files[i], bare)]
        BY <1>1
    <2> HIDE DEF sections
    <2>2. Len(sections) = m /\ (m = 0 => sections = <<>>)
        BY <1>1, <2>1
    <2> QED BY <2>1, <2>2
<1> HIDE DEF sections, m
<1>3. Folding(sections, m, flat)
    BY <1>1, FoldingExists
<1>4. FlattenSeq(sections) = IF m = 0 THEN <<>> ELSE flat[m]
    BY <1>2 DEF FlattenSeq, Folding
<1> HIDE DEF flat
<1>5. Good(0, <<>>)
    <2>1. 1..0 = {}
        OBVIOUS
    <2>2. EntriesUpTo(files, 0) = {} /\ PathsUpTo(files, 0) = {}
        BY <2>1 DEF EntriesUpTo, PathsUpTo, ChangedUpTo
    <2>3. Ready(Text!Start, {}, {})
        BY ParserStarts, ReadyBetween
    <2>4. Parses(S, <<>>, Text!Start, Text!Start)
        BY ParsesNothing
    <2> QED BY <2>2, <2>3, <2>4
<1>6. ASSUME NEW k \in 1..m, NEW st, NEW lines, Parses(S, lines, Text!Start, st),
             Ready(st, EntriesUpTo(files, k - 1), PathsUpTo(files, k - 1))
      PROVE  Good(k, lines \o sections[k])
    <2>1. PICK end : /\ Parses(S, sections[k], st, end)
                     /\ Ready(end, EntriesUpTo(files, k), PathsUpTo(files, k))
        BY <1>1, <1>2, <1>6, OneMoreFile
    <2>2. Parses(S, lines \o sections[k], Text!Start, end)
        BY <1>6, <2>1, ParsesOn
    <2> QED BY <2>1, <2>2
<1>7. ASSUME NEW k \in 1..m, k = 1 PROVE Good(k, sections[k])
    <2>1. k - 1 = 0 /\ 1..0 = {}
        BY <1>7
    <2>2. EntriesUpTo(files, k - 1) = {} /\ PathsUpTo(files, k - 1) = {}
        BY <2>1 DEF EntriesUpTo, PathsUpTo, ChangedUpTo
    <2>3. Ready(Text!Start, EntriesUpTo(files, k - 1), PathsUpTo(files, k - 1))
        BY <2>2, ParserStarts, ReadyBetween
    <2>4. PICK end : /\ Parses(S, sections[k], Text!Start, end)
                     /\ Ready(end, EntriesUpTo(files, k), PathsUpTo(files, k))
        BY <1>1, <1>2, <2>3, OneMoreFile
    <2> QED BY <2>4
<1> DEFINE T == {k \in 1..m : ~Good(k, flat[k])}
<1>8. T = {}
    <2> SUFFICES ASSUME T # {} PROVE FALSE
        OBVIOUS
    <2>1. PICK k \in T : \A i \in T : k <= i
        <3>1. T \in SUBSET Nat
            BY <1>1
        <3> QED BY <3>1, Least
    <2> HIDE DEF Good
    <2>2. k \in 1..m /\ flat[k] = IF k = 1 THEN sections[k] ELSE flat[k-1] \o sections[k]
        BY <1>3 DEF Folding
    <2>3. CASE k = 1
        BY <1>7, <2>1, <2>2, <2>3
    <2>4. CASE k # 1
        <3>1. k - 1 \in 1..m /\ ~(k <= k - 1)
            BY <1>1, <2>2, <2>4
        <3>2. Good(k - 1, flat[k-1])
            BY <2>1, <3>1
        <3>3. PICK st : /\ Parses(S, flat[k-1], Text!Start, st)
                        /\ Ready(st, EntriesUpTo(files, k - 1), PathsUpTo(files, k - 1))
            BY <3>2 DEF Good
        <3>4. Good(k, flat[k-1] \o sections[k])
            BY <1>6, <2>2, <3>3
        <3> QED BY <2>1, <2>2, <2>4, <3>4
    <2> QED BY <2>3, <2>4
<1>9. Good(m, FlattenSeq(sections))
    <2> HIDE DEF Good
    <2>1. CASE m = 0
        BY <1>4, <1>5, <2>1
    <2>2. CASE m # 0
        <3>1. m \in 1..m
            BY <1>1, <2>2
        <3> QED BY <1>4, <1>8, <2>2, <3>1
    <2> QED BY <2>1, <2>2
<1>10. PICK end : /\ Parses(S, FlattenSeq(sections), Text!Start, end)
                  /\ Ready(end, EntriesUpTo(files, m), PathsUpTo(files, m))
    BY <1>9
<1>11. Text!Finalize(end).out = EntriesUpTo(files, m)
    BY <1>10 DEF Ready, Between, ParserAt
<1> QED BY <1>10, <1>11, ParsedOut DEF m, sections
================================================================================
