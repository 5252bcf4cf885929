---------------------------- MODULE QueueLemmas -----------------------------
(* Facts about sequences used as queues: what is in them, that nothing is in *)
(* them twice, and how the two change when an element is added at the end,   *)
(* taken from the front, or one queue is put behind another.                 *)
EXTENDS Lists, Integers, SequencesExt, Functions, SequenceTheorems,
        FiniteSetTheorems, FunctionTheorems, WellFoundedInduction, TLAPS

(* An empty queue holds nothing.                                             *)
LEMMA EmptyQueue == Range(<<>>) = {} /\ IsInjective(<<>>)
  BY DEF Range, IsInjective

(* Adding an element at the end adds it to the elements.                     *)
LEMMA RangeOfAppend ==
  ASSUME NEW S, NEW q \in Seq(S), NEW x \in S
  PROVE  Range(Append(q, x)) = Range(q) \cup {x}
  <1>1. Append(q, x) \in Seq(S) /\ Len(Append(q, x)) = Len(q) + 1
    BY AppendProperties
  <1>2. /\ Range(q) = {q[i] : i \in 1..Len(q)}
        /\ Range(Append(q, x)) = {Append(q, x)[i] : i \in 1..(Len(q) + 1)}
    BY <1>1, RangeEquality
  <1>3. /\ \A i \in 1..Len(q) : Append(q, x)[i] = q[i]
        /\ Append(q, x)[Len(q) + 1] = x
        /\ Len(q) \in Nat
    BY AppendProperties, LenProperties
  <1>. QED
    BY <1>2, <1>3

(* Adding an element that is not in a queue leaves everything in it once.    *)
LEMMA AppendOnce ==
  ASSUME NEW S, NEW q \in Seq(S), NEW x \in S, IsInjective(q), x \notin Range(q)
  PROVE  IsInjective(Append(q, x))
  <1>1. /\ Append(q, x) \in Seq(S) /\ Len(Append(q, x)) = Len(q) + 1
        /\ \A i \in 1..Len(q) : Append(q, x)[i] = q[i]
        /\ Append(q, x)[Len(q) + 1] = x
    BY AppendProperties
  <1>2. DOMAIN Append(q, x) = 1..(Len(q) + 1) /\ DOMAIN q = 1..Len(q)
        /\ Len(q) \in Nat
    BY <1>1, LenProperties
  <1>3. \A i \in 1..Len(q) : q[i] # x
    BY <1>2 DEF Range
  <1>. QED
    BY <1>1, <1>2, <1>3 DEF IsInjective

(* Taking the front of a queue leaves the other elements.                    *)
LEMMA RangeOfTail ==
  ASSUME NEW S, NEW q \in Seq(S), q # <<>>
  PROVE  /\ Head(q) \in S /\ Tail(q) \in Seq(S)
         /\ Range(q) = {Head(q)} \cup Range(Tail(q))
         /\ Len(Tail(q)) = Len(q) - 1
  <1>1. /\ Head(q) \in S /\ Tail(q) \in Seq(S) /\ Len(Tail(q)) = Len(q) - 1
        /\ \A i \in 1..Len(Tail(q)) : Tail(q)[i] = q[i + 1]
    BY HeadTailProperties
  <1>2. Len(q) \in Nat \ {0}
    BY EmptySeq
  <1>3. Head(q) = q[1]
    OBVIOUS
  <1>4. /\ Range(q) = {q[i] : i \in 1..Len(q)}
        /\ Range(Tail(q)) = {Tail(q)[i] : i \in 1..(Len(q) - 1)}
    BY <1>1, RangeEquality
  <1>5. ASSUME NEW y \in Range(q) PROVE y \in {Head(q)} \cup Range(Tail(q))
    <2>1. PICK i \in 1..Len(q) : y = q[i]
      BY <1>4, <1>5
    <2>2. CASE i = 1
      BY <2>1, <2>2, <1>3
    <2>3. CASE i # 1
      <3>1. i - 1 \in 1..(Len(q) - 1) /\ Tail(q)[i - 1] = q[(i - 1) + 1]
        BY <1>1, <1>2, <2>3
      <3>2. (i - 1) + 1 = i
        OBVIOUS
      <3>. QED
        BY <1>4, <2>1, <3>1, <3>2
    <2>. QED
      BY <2>2, <2>3
  <1>6. ASSUME NEW y \in {Head(q)} \cup Range(Tail(q)) PROVE y \in Range(q)
    BY <1>1, <1>2, <1>3, <1>4, <1>6
  <1>. QED
    BY <1>1, <1>5, <1>6

(* Everything is in a queue once: so it is when the front has been taken,    *)
(* which is then not in it.                                                  *)
LEMMA TailOnce ==
  ASSUME NEW S, NEW q \in Seq(S), q # <<>>, IsInjective(q)
  PROVE  IsInjective(Tail(q)) /\ Head(q) \notin Range(Tail(q))
  <1>1. /\ Tail(q) \in Seq(S) /\ Len(Tail(q)) = Len(q) - 1
        /\ \A i \in 1..Len(Tail(q)) : Tail(q)[i] = q[i + 1]
    BY HeadTailProperties
  <1>2. Len(q) \in Nat \ {0}
    BY EmptySeq
  <1>3. Head(q) = q[1]
    OBVIOUS
  <1>4. DOMAIN q = 1..Len(q) /\ DOMAIN Tail(q) = 1..(Len(q) - 1)
    BY <1>1, LenProperties
  <1>5. IsInjective(Tail(q))
    <2> SUFFICES ASSUME NEW i \in 1..(Len(q) - 1), NEW j \in 1..(Len(q) - 1),
                        Tail(q)[i] = Tail(q)[j]
                 PROVE  i = j
      BY <1>4 DEF IsInjective
    <2>1. q[i + 1] = q[j + 1] /\ i + 1 \in 1..Len(q) /\ j + 1 \in 1..Len(q)
      BY <1>1, <1>2
    <2>2. i + 1 = j + 1
      BY <1>4, <2>1 DEF IsInjective
    <2>. QED
      BY <2>2
  <1>6. ASSUME NEW i \in 1..(Len(q) - 1) PROVE Tail(q)[i] # Head(q)
    <2>1. Tail(q)[i] = q[i + 1] /\ i + 1 \in 1..Len(q) /\ 1 \in 1..Len(q) /\ i + 1 # 1
      BY <1>1, <1>2
    <2>. QED
      BY <1>3, <1>4, <2>1 DEF IsInjective
  <1>. QED
    BY <1>4, <1>5, <1>6 DEF Range

(* The front of two queues, one behind the other, is that of the first.      *)
LEMMA TailOfConcat ==
  ASSUME NEW S, NEW p \in Seq(S), NEW q \in Seq(S), p # <<>>
  PROVE  /\ p \o q # <<>> /\ Head(p \o q) = Head(p)
         /\ Tail(p \o q) = Tail(p) \o q
  <1>1. /\ p \o q \in Seq(S) /\ Len(p \o q) = Len(p) + Len(q)
        /\ \A i \in 1..(Len(p) + Len(q)) :
              (p \o q)[i] = IF i <= Len(p) THEN p[i] ELSE q[i - Len(p)]
    BY ConcatProperties
  <1>2. Len(p) \in Nat \ {0} /\ Len(q) \in Nat
    BY EmptySeq, LenProperties
  <1>3. p \o q # <<>>
    BY ConcatEqualIffEmpty
  <1>4. Head(p \o q) = Head(p)
    BY <1>1, <1>2
  <1>5. /\ Tail(p) \in Seq(S) /\ Len(Tail(p)) = Len(p) - 1
        /\ \A i \in 1..Len(Tail(p)) : Tail(p)[i] = p[i + 1]
        /\ Tail(p \o q) \in Seq(S) /\ Len(Tail(p \o q)) = Len(p \o q) - 1
        /\ \A i \in 1..Len(Tail(p \o q)) : Tail(p \o q)[i] = (p \o q)[i + 1]
    BY <1>1, <1>3, HeadTailProperties
  <1>6. /\ Tail(p) \o q \in Seq(S) /\ Len(Tail(p) \o q) = Len(Tail(p)) + Len(q)
        /\ \A i \in 1..(Len(Tail(p)) + Len(q)) :
              (Tail(p) \o q)[i] = IF i <= Len(Tail(p)) THEN Tail(p)[i]
                                  ELSE q[i - Len(Tail(p))]
    BY <1>5, ConcatProperties
  <1>7. ASSUME NEW i \in 1..(Len(p) - 1 + Len(q))
        PROVE  Tail(p \o q)[i] = (Tail(p) \o q)[i]
    <2>1. Tail(p \o q)[i] = (p \o q)[i + 1] /\ i + 1 \in 1..(Len(p) + Len(q))
      BY <1>1, <1>2, <1>5
    <2>2. CASE i <= Len(p) - 1
      BY <2>1, <2>2, <1>1, <1>2, <1>5, <1>6
    <2>3. CASE i > Len(p) - 1
      <3>1. (i + 1) - Len(p) = i - (Len(p) - 1)
        BY <1>2
      <3>. QED
        BY <2>1, <2>3, <3>1, <1>1, <1>2, <1>5, <1>6
    <2>. QED
      BY <2>2, <2>3, <1>2
  <1>8. Tail(p \o q) = Tail(p) \o q
    BY <1>1, <1>2, <1>5, <1>6, <1>7, SeqEqual
  <1>. QED
    BY <1>3, <1>4, <1>8

(* Adding at the end of the second of two queues adds at the end of both.    *)
LEMMA AppendToConcat ==
  ASSUME NEW S, NEW p \in Seq(S), NEW q \in Seq(S), NEW x \in S
  PROVE  p \o Append(q, x) = Append(p \o q, x)
  <1>1. Append(q, x) = q \o <<x>> /\ <<x>> \in Seq(S)
    BY AppendIsConcat
  <1>2. p \o q \in Seq(S)
    BY ConcatProperties
  <1>3. Append(p \o q, x) = (p \o q) \o <<x>>
    BY <1>2, AppendIsConcat
  <1>. QED
    BY <1>1, <1>3, ConcatAssociative

(* A finite set as a sequence has each element of the set once.              *)
LEMMA SetAsSequence ==
  ASSUME NEW S, IsFiniteSet(S)
  PROVE  /\ SetToSeq(S) \in Seq(S) /\ Len(SetToSeq(S)) = Cardinality(S)
         /\ Cardinality(S) \in Nat
         /\ IsInjective(SetToSeq(S)) /\ Range(SetToSeq(S)) = S
  <1> DEFINE n == Cardinality(S)
             f == SetToSeq(S)
  <1>1. n \in Nat /\ ExistsBijection(1..n, S)
    BY FS_CardinalityType
  <1>2. \E g \in [1..n -> S] : IsInjective(g)
    BY <1>1 DEF ExistsBijection, Bijection, Injection, IsInjective
  <1>3. f \in [1..n -> S] /\ IsInjective(f)
    BY <1>2 DEF SetToSeq
  <1> HIDE DEF f
  <1>4. f \in Seq(S) /\ Len(f) = n
    BY <1>1, <1>3
  <1>5. f \in Injection(1..n, S)
    BY <1>3 DEF Injection, IsInjective
  <1>6. IsFiniteSet(1..n) /\ Cardinality(1..n) = n
    BY <1>1, FS_Interval
  <1>7. f \in Surjection(1..n, S)
    BY <1>5, <1>6, FS_Injection
  <1>8. Range(f) = S
    BY <1>3, <1>7 DEF Surjection, Range
  <1>. QED
    BY <1>1, <1>3, <1>4, <1>8 DEF f

(* The list of the elements of a set that are in a list has these elements, each *)
(* once if the list has them once. *)
LEMMA KeptProperties ==
  ASSUME NEW S, NEW s \in Seq(S), NEW K
  PROVE  /\ Kept(s, K) \in Seq(S)
         /\ Range(Kept(s, K)) = Range(s) \cap K
         /\ IsInjective(s) => IsInjective(Kept(s, K))
  <1> DEFINE at == {i \in DOMAIN s : s[i] \in K}
             N == Cardinality(at)
             below(i) == {j \in at : j < i}
             rank == [i \in at |-> Cardinality(below(i)) + 1]
             pos == [n \in 1..N |-> CHOOSE i \in at : Cardinality(below(i)) = n - 1]
  <1>1. /\ Len(s) \in Nat /\ DOMAIN s = 1..Len(s)
        /\ \A i \in DOMAIN s : s[i] \in S
    BY LenProperties, ElementOfSeq
  <1>2. at \subseteq 1..Len(s) /\ at \subseteq Nat
    BY <1>1
  <1>3. IsFiniteSet(1..Len(s))
    BY <1>1, FS_Interval
  <1>4. IsFiniteSet(at) /\ N \in Nat
    BY <1>2, <1>3, FS_Subset, FS_CardinalityType
  <1>5. \A n \in 1..N : Kept(s, K)[n] = s[pos[n]]
    BY DEF Kept
  <1>6. DOMAIN Kept(s, K) = 1..N
    BY DEF Kept
  <1>61. Kept(s, K) = [n \in 1..N |-> s[pos[n]]]
    BY DEF Kept
  <1> HIDE DEF at
  <1>7. ASSUME NEW i \in at
        PROVE  /\ IsFiniteSet(below(i)) /\ Cardinality(below(i)) \in Nat
               /\ Cardinality(below(i)) + 1 <= N
    <2>1. below(i) \subseteq at /\ i \notin below(i)
      BY <1>2
    <2>2. IsFiniteSet(below(i)) /\ Cardinality(below(i)) \in Nat
      BY <2>1, <1>4, FS_Subset, FS_CardinalityType
    <2>3. Cardinality(below(i) \cup {i}) = Cardinality(below(i)) + 1
      BY <2>1, <2>2, FS_AddElement
    <2>4. below(i) \cup {i} \in SUBSET at
      BY <2>1
    <2>5. Cardinality(below(i) \cup {i}) <= N
      BY <2>4, <1>4, FS_Subset
    <2> QED BY <2>2, <2>3, <2>5
  <1>8. ASSUME NEW i \in at, NEW k \in at, i < k
        PROVE  Cardinality(below(i)) < Cardinality(below(k))
    <2>. i \in Nat /\ k \in Nat /\ \A j \in at : j \in Nat
      BY <1>2
    <2>0. \A j \in below(i) : j \in below(k)
      BY <1>8
    <2>01. i \in below(k)
      BY <1>8
    <2>02. i \notin below(i)
      OBVIOUS
    <2>1. below(i) \cup {i} \in SUBSET below(k) /\ i \notin below(i)
      <3> HIDE DEF below
      <3> QED BY <2>01, <2>02, <2>0
    <2>2. Cardinality(below(i) \cup {i}) = Cardinality(below(i)) + 1
      BY <2>1, <1>7, FS_AddElement
    <2>3. Cardinality(below(i) \cup {i}) <= Cardinality(below(k))
      BY <2>1, <1>7, FS_Subset
    <2>4. Cardinality(below(i)) \in Nat /\ Cardinality(below(k)) \in Nat
      BY <1>7
    <2> HIDE DEF below
    <2> QED BY <2>2, <2>3, <2>4
  <1> HIDE DEF below
  <1>9. rank \in [at -> 1..N]
    BY <1>7, <1>4
  <1>10. \A i, k \in at : rank[i] = rank[k] => i = k
    <2> SUFFICES ASSUME NEW i \in at, NEW k \in at, rank[i] = rank[k] PROVE i = k
      OBVIOUS
    <2>1. Cardinality(below(i)) = Cardinality(below(k))
      BY <1>7
    <2>2. ~(i < k) /\ ~(k < i)
      BY <2>1, <1>8, <1>7
    <2>3. i \in Nat /\ k \in Nat
      BY <1>2
    <2> QED BY <2>2, <2>3
  <1>11. rank \in Injection(at, 1..N)
    BY <1>9, <1>10 DEF Injection, IsInjective
  <1>12. IsFiniteSet(1..N) /\ Cardinality(1..N) = N
    BY <1>4, FS_Interval
  <1>13. rank \in Surjection(at, 1..N)
    BY <1>11, <1>12, FS_Injection
  <1>14. \A n \in 1..N : \E i \in at : rank[i] = n
    BY <1>13 DEF Surjection
  <1>15. \A n \in 1..N : \E i \in at : Cardinality(below(i)) = n - 1
    BY <1>14, <1>7, <1>4
  <1>16. \A n \in 1..N : pos[n] \in at /\ Cardinality(below(pos[n])) = n - 1
    BY <1>15
  <1>17. pos \in [1..N -> at]
    BY <1>16
  <1>18. \A n, m \in 1..N : pos[n] = pos[m] => n = m
    BY <1>16, <1>4
  <1> HIDE DEF pos, rank
  <1>19. pos \in Injection(1..N, at)
    BY <1>17, <1>18 DEF Injection, IsInjective
  <1>20. pos \in Surjection(1..N, at)
    BY <1>19, <1>12, <1>4, FS_Injection
  <1>21. \A i \in at : \E n \in 1..N : pos[n] = i
    BY <1>20 DEF Surjection
  <1>22. Kept(s, K) \in Seq(S)
    <2>1. Kept(s, K) \in [1..N -> S]
      BY <1>61, <1>17, <1>2, <1>1
    <2> QED BY <2>1, <1>4
  <1>23. Range(Kept(s, K)) = {s[i] : i \in at}
    BY <1>5, <1>6, <1>16, <1>21 DEF Range
  <1>24. {s[i] : i \in at} = Range(s) \cap K
    BY DEF Range, at
  <1>25. IsInjective(s) => IsInjective(Kept(s, K))
    <2> SUFFICES ASSUME IsInjective(s), NEW n \in 1..N, NEW m \in 1..N,
                        Kept(s, K)[n] = Kept(s, K)[m]
                 PROVE  n = m
      BY <1>6 DEF IsInjective
    <2>1. s[pos[n]] = s[pos[m]] /\ pos[n] \in DOMAIN s /\ pos[m] \in DOMAIN s
      BY <1>5, <1>16, <1>2, <1>1
    <2> QED BY <2>1, <1>18 DEF IsInjective
  <1> QED BY <1>22, <1>23, <1>24, <1>25

(* Among natural numbers, if any, there is a least one. *)
LEMMA LeastNatural ==
  ASSUME NEW T, T \subseteq Nat, T # {}
  PROVE  \E n \in T : \A m \in T : n <= m
  <1> DEFINE I == {0..n : n \in T}
             R == StrictSubsetOrdering(Nat)
  <1>1. I \subseteq FiniteSubsetsOf(Nat)
    <2> SUFFICES ASSUME NEW n \in T PROVE 0..n \in FiniteSubsetsOf(Nat)
      OBVIOUS
    <2>1. n \in Nat
      OBVIOUS
    <2>2. IsFiniteSet(0..n)
      BY <2>1, FS_Interval
    <2>3. 0..n \subseteq Nat
      BY <2>1
    <2> QED BY <2>2, <2>3 DEF FiniteSubsetsOf
  <1>2. IsWellFoundedOn(R, FiniteSubsetsOf(Nat))
    BY FS_StrictSubsetOrderingWellFounded
  <1>3. I # {}
    OBVIOUS
  <1> HIDE DEF R
  <1>4. PICK x \in I : \A y \in I : ~ (<<y, x>> \in R)
    BY <1>1, <1>2, <1>3, WFMin
  <1>5. PICK n \in T : x = 0..n
    BY <1>4
  <1>6. ASSUME NEW m \in T, m < n PROVE FALSE
    <2>1. m \in Nat /\ n \in Nat
      OBVIOUS
    <2>2. 0..m \in SUBSET Nat /\ 0..n \in SUBSET Nat /\ 0..m \subseteq 0..n
      BY <2>1, <1>6
    <2>3. n \in 0..n /\ n \notin 0..m
      BY <2>1, <1>6
    <2>4. 0..m # 0..n
      BY <2>3
    <2>5. <<0..m, 0..n>> \in R
      BY <2>2, <2>4 DEF R, StrictSubsetOrdering
    <2> QED BY <2>5, <1>4, <1>5
  <1> QED BY <1>6

(* A finite set has a subset of every size up to its own.                    *)
LEMMA SubsetOfSize ==
  ASSUME NEW S, IsFiniteSet(S), NEW n \in Nat, n <= Cardinality(S)
  PROVE  \E x \in SUBSET S : Cardinality(x) = n
  <1> DEFINE N == Cardinality(S)
  <1>1. N \in Nat /\ ExistsBijection(1..N, S)
    BY FS_CardinalityType
  <1>2. PICK f \in Bijection(1..N, S) : TRUE
    BY <1>1 DEF ExistsBijection
  <1>3. f \in [1..N -> S] /\ \A i, j \in 1..N : f[i] = f[j] => i = j
    BY <1>2 DEF Bijection, Injection, Surjection, IsInjective
  <1> DEFINE x == {f[i] : i \in 1..n}
             g == [i \in 1..n |-> f[i]]
  <1>4. 1..n \subseteq 1..N
    BY <1>1
  <1>5. g \in [1..n -> x] /\ \A i, j \in 1..n : g[i] = g[j] => i = j
    BY <1>3, <1>4
  <1>6. \A y \in x : \E i \in 1..n : g[i] = y
    OBVIOUS
  <1> HIDE DEF g
  <1>7. g \in Bijection(1..n, x)
    BY <1>5, <1>6 DEF Bijection, Injection, Surjection, IsInjective
  <1>8. ExistsBijection(1..n, x)
    BY <1>7 DEF ExistsBijection
  <1>9. IsFiniteSet(1..n) /\ Cardinality(1..n) = n
    BY FS_Interval
  <1> HIDE DEF x
  <1>10. Cardinality(x) = n
    BY <1>8, <1>9, FS_Bijection
  <1>11. x \in SUBSET S
    BY <1>3, <1>4 DEF x
  <1> QED BY <1>10, <1>11

(* A list that holds everything once is as long as what it holds is large.   *)
LEMMA LengthOfOnce ==
  ASSUME NEW S, NEW q \in Seq(S), IsInjective(q)
  PROVE  IsFiniteSet(Range(q)) /\ Cardinality(Range(q)) = Len(q)
  <1>1. Len(q) \in Nat /\ DOMAIN q = 1..Len(q)
    BY LenProperties
  <1>2. q \in [1..Len(q) -> Range(q)]
    BY <1>1 DEF Range
  <1>3. q \in Bijection(1..Len(q), Range(q))
    BY <1>1, <1>2 DEF Bijection, Injection, Surjection, IsInjective, Range
  <1>4. ExistsBijection(1..Len(q), Range(q))
    BY <1>3 DEF ExistsBijection
  <1>5. IsFiniteSet(1..Len(q)) /\ Cardinality(1..Len(q)) = Len(q)
    BY <1>1, FS_Interval
  <1> QED BY <1>4, <1>5, FS_Bijection

(* One list behind another has the elements of both, once if they have nothing in common. *)
LEMMA ConcatOnce ==
  ASSUME NEW S, NEW p \in Seq(S), NEW q \in Seq(S), IsInjective(p), IsInjective(q), 
         Range(p) \cap Range(q) = {}
  PROVE  /\ p \o q \in Seq(S) /\ IsInjective(p \o q) /\ Len(p \o q) = Len(p) + Len(q)
         /\ Range(p \o q) = Range(p) \cup Range(q)
  <1>1. /\ p \o q \in Seq(S) /\ Len(p \o q) = Len(p) + Len(q)
        /\ \A i \in 1..(Len(p) + Len(q)) :
              (p \o q)[i] = IF i <= Len(p) THEN p[i] ELSE q[i - Len(p)]
    BY ConcatProperties
  <1>2. Len(p) \in Nat /\ Len(q) \in Nat /\ DOMAIN p = 1..Len(p) /\ DOMAIN q = 1..Len(q)
        /\ DOMAIN (p \o q) = 1..(Len(p) + Len(q))
    BY <1>1, LenProperties
  <1>3. Range(p \o q) \subseteq Range(p) \cup Range(q)
    <2> SUFFICES ASSUME NEW i \in 1..(Len(p) + Len(q)) 
                 PROVE (p \o q)[i] \in Range(p) \cup Range(q)
      BY <1>2 DEF Range
    <2>1. CASE i <= Len(p)
      <3>1. (p \o q)[i] = p[i] /\ i \in DOMAIN p
        BY <2>1, <1>1, <1>2
      <3> QED BY <3>1 DEF Range
    <2>2. CASE ~(i <= Len(p))
      <3>1. (p \o q)[i] = q[i - Len(p)] /\ i - Len(p) \in DOMAIN q
        BY <2>2, <1>1, <1>2
      <3> QED BY <3>1 DEF Range
    <2> QED BY <2>1, <2>2
  <1>4. Range(p) \subseteq Range(p \o q)
    <2> SUFFICES ASSUME NEW i \in 1..Len(p) PROVE p[i] \in Range(p \o q)
      BY <1>2 DEF Range
    <2>1. i \in 1..(Len(p) + Len(q)) /\ (p \o q)[i] = p[i]
      BY <1>1, <1>2
    <2> QED BY <2>1, <1>2 DEF Range
  <1>5. Range(q) \subseteq Range(p \o q)
    <2> SUFFICES ASSUME NEW i \in 1..Len(q) PROVE q[i] \in Range(p \o q)
      BY <1>2 DEF Range
    <2>1. Len(p) + i \in 1..(Len(p) + Len(q)) /\ ~(Len(p) + i <= Len(p))
          /\ (Len(p) + i) - Len(p) = i
      BY <1>2
    <2>2. (p \o q)[Len(p) + i] = q[i]
      BY <1>1, <2>1
    <2> QED BY <2>1, <2>2, <1>2 DEF Range
  <1>6. IsInjective(p \o q)
    <2> SUFFICES ASSUME NEW i \in 1..(Len(p) + Len(q)), NEW j \in 1..(Len(p) + Len(q)),
                        (p \o q)[i] = (p \o q)[j]
                 PROVE  i = j
      BY <1>2 DEF IsInjective
    <2>0. \A k \in 1..(Len(p) + Len(q)) :
             \/ k \in DOMAIN p /\ (p \o q)[k] = p[k] /\ (p \o q)[k] \in Range(p)
             \/ k - Len(p) \in DOMAIN q /\ (p \o q)[k] = q[k - Len(p)] /\ (p \o q)[k] \in Range(q)
      <3> SUFFICES ASSUME NEW k \in 1..(Len(p) + Len(q))
                   PROVE \/ k \in DOMAIN p /\ (p \o q)[k] = p[k] /\ (p \o q)[k] \in Range(p)
                         \/ k - Len(p) \in DOMAIN q /\ (p \o q)[k] = q[k - Len(p)] /\ (p \o q)[k] \in Range(q)
        OBVIOUS
      <3>1. CASE k <= Len(p)
        <4>1. k \in DOMAIN p /\ (p \o q)[k] = p[k]
          BY <3>1, <1>1, <1>2
        <4> QED BY <4>1 DEF Range
      <3>2. CASE ~(k <= Len(p))
        <4>1. k - Len(p) \in DOMAIN q /\ (p \o q)[k] = q[k - Len(p)]
          BY <3>2, <1>1, <1>2
        <4> QED BY <4>1 DEF Range
      <3> QED BY <3>1, <3>2
    <2>1. CASE i \in DOMAIN p /\ (p \o q)[i] = p[i] /\ (p \o q)[i] \in Range(p)
      <3>1. j \in DOMAIN p /\ (p \o q)[j] = p[j]
        BY <2>0, <2>1
      <3> QED BY <2>1, <3>1 DEF IsInjective
    <2>2. CASE i - Len(p) \in DOMAIN q /\ (p \o q)[i] = q[i - Len(p)] /\ (p \o q)[i] \in Range(q)
      <3>1. j - Len(p) \in DOMAIN q /\ (p \o q)[j] = q[j - Len(p)]
        BY <2>0, <2>2
      <3>2. i - Len(p) = j - Len(p)
        BY <2>2, <3>1 DEF IsInjective
      <3> QED BY <3>2, <1>2
    <2> QED BY <2>0, <2>1, <2>2
  <1> QED BY <1>1, <1>3, <1>4, <1>5, <1>6
=============================================================================
