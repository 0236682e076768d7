--------------------------- MODULE FiniteNumbers ---------------------------
(***************************************************************************)
(* What the proofs need to know of finite sets: induction over them, their *)
(* largest and smallest numbers, the place of a number among others, sums  *)
(* over them; and of sequences of times.  Properties to be shown by        *)
(* induction are given as the set of what has them, so that a proof can    *)
(* name that set.                                                          *)
(***************************************************************************)
EXTENDS Integers, Sequences, FiniteSets, SequencesExt, FiniteSetsExt, Functions, FiniteSetTheorems,
        SequenceTheorems, WellFoundedInduction, TLAPS

-----------------------------------------------------------------------------
\* Every non-empty set of natural numbers has a smallest one.
LEMMA SmallestNat ==
  ASSUME NEW T \in SUBSET Nat, T # {}
  PROVE  \E m \in T : \A n \in T : m <= n
<1>1. PICK m \in T : \A n \in T : ~ (<<n, m>> \in OpToRel(<, Nat))
  BY WFMin, NatLessThanWellFounded
<1>2. \A n \in T : m <= n
  <2>1. TAKE n \in T
  <2>2. n \in Nat /\ m \in Nat
    OBVIOUS
  <2>3. <<n, m>> \notin {ss \in Nat \X Nat : ss[1] < ss[2]}
    BY <1>1 DEF OpToRel
  <2>4. ~ (n < m)
    BY <2>2, <2>3
  <2>5. QED
    BY <2>2, <2>4
<1>3. QED
  BY <1>2

\* Induction over the natural numbers, for the set of those that have a property.
LEMMA NumberInduction ==
  ASSUME NEW Good \in SUBSET Nat, 0 \in Good, \A n \in Good : n + 1 \in Good
  PROVE  Good = Nat
<1> DEFINE Bad == Nat \ Good
<1>1. SUFFICES ASSUME Bad # {} PROVE FALSE
  OBVIOUS
<1>2. PICK m \in Bad : \A n \in Bad : m <= n
  BY <1>1, SmallestNat
<1>3. m \in Nat /\ m # 0 /\ m - 1 \in Nat /\ m - 1 \notin Bad
  BY <1>2
<1>4. m - 1 \in Good /\ (m - 1) + 1 = m
  BY <1>3
<1>5. QED
  BY <1>2, <1>4

\* Induction over the subsets of a finite set, for the set of those that have a
\* property: if all that is left when an element goes has it, the whole has it.
LEMMA SubsetInduction ==
  ASSUME NEW S, IsFiniteSet(S), NEW Good,
         \A s \in SUBSET S : (\A x \in s : s \ {x} \in Good) => s \in Good
  PROVE  S \in Good
<1> DEFINE Bad == {s \in SUBSET S : s \notin Good}
           Sizes == {Cardinality(s) : s \in Bad}
<1>1. SUFFICES ASSUME S \notin Good PROVE FALSE
  OBVIOUS
<1>2. \A s \in SUBSET S : IsFiniteSet(s) /\ Cardinality(s) \in Nat
  BY FS_Subset, FS_CardinalityType
<1>3. Sizes \in SUBSET Nat /\ Sizes # {}
  BY <1>1, <1>2
<1>4. PICK m \in Sizes : \A n \in Sizes : m <= n
  <2> HIDE DEF Sizes
  <2>1. QED
    BY <1>3, SmallestNat
<1>5. PICK s \in Bad : m = Cardinality(s)
  OBVIOUS
<1>6. \A x \in s : s \ {x} \in Good
  <2>1. SUFFICES ASSUME NEW x \in s, s \ {x} \in Bad PROVE FALSE
    OBVIOUS
  <2>2. Cardinality(s \ {x}) = Cardinality(s) - 1 /\ Cardinality(s) \in Nat
    BY <1>2, FS_RemoveElement
  <2>3. Cardinality(s \ {x}) \in Sizes
    BY <2>1
  <2>4. Cardinality(s) <= Cardinality(s \ {x})
    BY <1>4, <1>5, <2>3
  <2>5. QED
    BY <2>2, <2>4
<1>7. QED
  BY <1>5, <1>6

\* The values of a function on a finite set are finite in number.
LEMMA FiniteImage ==
  ASSUME NEW E, IsFiniteSet(E), NEW f
  PROVE  IsFiniteSet({f[j] : j \in E})
<1> DEFINE T == {f[j] : j \in E}
           g == [j \in E |-> f[j]]
<1>1. g \in [E -> T] /\ \A t \in T : \E j \in E : g[j] = t
  OBVIOUS
<1>2. g \in Surjection(E, T)
  <2> HIDE DEF g, T
  <2>1. QED
    BY <1>1 DEF Surjection
<1>3. QED
  <2> HIDE DEF g
  <2>1. IsFiniteSet(T)
    <3> HIDE DEF T
    <3>1. QED
      BY <1>2, FS_Surjection
  <2>2. QED
    BY <2>1

-----------------------------------------------------------------------------
\* A finite set of integers that is not empty has a largest and a smallest one, which
\* Max and Min return.
LEMMA Extremes ==
  ASSUME NEW S \in SUBSET Int, IsFiniteSet(S), S # {}
  PROVE  /\ Max(S) \in S /\ \A n \in S : n <= Max(S)
         /\ Min(S) \in S /\ \A n \in S : Min(S) <= n
<1> DEFINE Good == {s \in SUBSET S : s = {} \/ \E a, b \in s : \A n \in s : a <= n /\ n <= b}
<1>1. ASSUME NEW s \in SUBSET S, \A x \in s : s \ {x} \in Good PROVE s \in Good
  <2>1. SUFFICES ASSUME s # {} PROVE \E a, b \in s : \A n \in s : a <= n /\ n <= b
    OBVIOUS
  <2>2. PICK x \in s : TRUE
    BY <2>1
  <2>3. CASE s \ {x} = {}
    <3>1. \A n \in s : n = x
      BY <2>3
    <3>2. QED
      BY <2>2, <3>1
  <2>4. CASE s \ {x} # {}
    <3>1. PICK a \in s \ {x}, b \in s \ {x} : \A n \in s \ {x} : a <= n /\ n <= b
      BY <1>1, <2>4
    <3>2. \A n \in s : n \in Int
      OBVIOUS
    <3>3. WITNESS (IF x < a THEN x ELSE a) \in s, (IF x > b THEN x ELSE b) \in s
    <3>4. TAKE n \in s
    <3>5. n = x \/ (a <= n /\ n <= b)
      BY <3>1
    <3>6. QED
      BY <3>2, <3>5
  <2>5. QED
    BY <2>3, <2>4
<1>2. S \in Good
  <2> HIDE DEF Good
  <2>1. QED
    BY <1>1, SubsetInduction
<1>3. PICK a \in S, b \in S : \A n \in S : a <= n /\ n <= b
  BY <1>2
<1>4. (\A n \in S : b >= n) /\ (\A n \in S : a <= n)
  BY <1>3
<1>5. (\E m \in S : \A n \in S : m >= n) /\ (\E m \in S : \A n \in S : m <= n)
  BY <1>3, <1>4
<1>6. /\ Max(S) \in S /\ \A n \in S : Max(S) >= n
      /\ Min(S) \in S /\ \A n \in S : Min(S) <= n
  BY <1>5, Zenon DEF Max, Min
<1>7. QED
  BY <1>6

\* There are n numbers up to n.
LEMMA UpToN == ASSUME NEW n \in Nat PROVE IsFiniteSet(1 .. n) /\ Cardinality(1 .. n) = n
<1>1. IsFiniteSet(1 .. n)
  BY FS_Interval
<1>2. Cardinality(1 .. n) = IF 1 > n THEN 0 ELSE n - 1 + 1
  BY FS_Interval
<1>3. QED
  BY <1>1, <1>2

\* A set with two elements has one beside any given.
LEMMA AnotherOne ==
  ASSUME NEW T, IsFiniteSet(T), Cardinality(T) >= 2, NEW x
  PROVE  \E y \in T : y # x
<1>1. SUFFICES ASSUME \A y \in T : y = x PROVE FALSE
  OBVIOUS
<1>2. T \in SUBSET {x} /\ IsFiniteSet({x}) /\ Cardinality({x}) = 1
  BY <1>1, FS_Singleton
<1>3. Cardinality(T) <= 1 /\ Cardinality(T) \in Nat
  BY <1>2, FS_Subset, FS_CardinalityType
<1>4. QED
  BY <1>3

\* Among the values of a function on a finite set there is, for every k less than
\* their number, one that no more than k of them are less than and more than k of
\* them do not exceed.
LEMMA OrderStatistic ==
  ASSUME NEW D, IsFiniteSet(D), NEW f \in [D -> Int], NEW k \in Nat, k < Cardinality(D)
  PROVE  \E i \in D : \E under, upTo \in SUBSET D :
           /\ \A j \in D : (j \in under <=> f[j] < f[i]) /\ (j \in upTo <=> f[j] <= f[i])
           /\ Cardinality(under) <= k /\ k < Cardinality(upTo)
<1> DEFINE UpTo(i) == {j \in D : f[j] <= f[i]}
           Under(i) == {j \in D : f[j] < f[i]}
           Values(E) == {f[j] : j \in E}
           Enough == {i \in D : k < Cardinality(UpTo(i))}
<1>1. \A E \in SUBSET D : /\ IsFiniteSet(E) /\ Cardinality(E) \in Nat
                          /\ IsFiniteSet(Values(E)) /\ Values(E) \in SUBSET Int
  BY FS_Subset, FS_CardinalityType, FiniteImage
<1>2. Enough # {}
  <2>1. D # {}
    BY FS_EmptySet
  <2>2. Values(D) # {} /\ IsFiniteSet(Values(D)) /\ Values(D) \in SUBSET Int
    BY <1>1, <2>1
  <2>3. PICK i \in D : \A j \in D : f[j] <= f[i]
    <3>1. Max(Values(D)) \in Values(D) /\ \A n \in Values(D) : n <= Max(Values(D))
      <4> HIDE DEF Values
      <4>1. QED
        BY <2>2, Extremes
    <3>2. QED
      BY <3>1
  <2>4. UpTo(i) = D
    BY <2>3
  <2>5. i \in Enough
    BY <2>4
  <2>6. QED
    BY <2>5
<1>3. PICK i \in Enough : \A j \in Enough : f[i] <= f[j]
  <2>1. /\ Enough \in SUBSET D
        /\ Values(Enough) # {} /\ IsFiniteSet(Values(Enough)) /\ Values(Enough) \in SUBSET Int
    BY <1>1, <1>2
  <2>2. Min(Values(Enough)) \in Values(Enough) /\ \A n \in Values(Enough) : Min(Values(Enough)) <= n
    <3> HIDE DEF Values
    <3>1. QED
      BY <2>1, Extremes
  <2>3. QED
    BY <2>2
<1>4. SUFFICES ASSUME ~ (Cardinality(Under(i)) <= k) PROVE FALSE
  <2>1. /\ i \in D /\ Under(i) \in SUBSET D /\ UpTo(i) \in SUBSET D
        /\ \A j \in D : (j \in Under(i) <=> f[j] < f[i]) /\ (j \in UpTo(i) <=> f[j] <= f[i])
        /\ k < Cardinality(UpTo(i))
    BY <1>3
  <2> HIDE DEF UpTo, Under
  <2>2. QED
    BY <2>1
<1>5. k < Cardinality(Under(i)) /\ Under(i) # {}
  <2>1. Under(i) \in SUBSET D
    OBVIOUS
  <2>2. Cardinality(Under(i)) \in Nat
    BY <1>1, <2>1
  <2>3. QED
    BY <1>4, <2>2, FS_EmptySet
<1>6. PICK j \in Under(i) : \A l \in Under(i) : f[l] <= f[j]
  <2>1. Under(i) \in SUBSET D
    OBVIOUS
  <2>2. Values(Under(i)) # {} /\ IsFiniteSet(Values(Under(i))) /\ Values(Under(i)) \in SUBSET Int
    BY <1>1, <1>5, <2>1
  <2>3. Max(Values(Under(i))) \in Values(Under(i))
        /\ \A n \in Values(Under(i)) : n <= Max(Values(Under(i)))
    <3> HIDE DEF Values
    <3>1. QED
      BY <2>2, Extremes
  <2>4. QED
    BY <2>3
<1>7. UpTo(j) = Under(i)
  <2>1. \A l \in D : f[l] \in Int
    OBVIOUS
  <2>2. QED
    BY <1>6, <2>1
<1>8. j \in Enough
  BY <1>5, <1>6, <1>7
<1>9. f[i] <= f[j] /\ f[j] < f[i] /\ f[i] \in Int /\ f[j] \in Int
  BY <1>3, <1>6, <1>8
<1>10. QED
  BY <1>9

\* The place of a number in a finite set, counted from the smallest: places are in the
\* order of the numbers, and each is somebody's.
LEMMA Places ==
  ASSUME NEW S \in SUBSET Int, IsFiniteSet(S)
  PROVE  /\ \A a \in S : Cardinality({c \in S : c <= a}) \in 1 .. Cardinality(S)
         /\ \A a, b \in S : a < b => Cardinality({c \in S : c <= a}) < Cardinality({c \in S : c <= b})
         /\ \A i \in 1 .. Cardinality(S) : \E a \in S : Cardinality({c \in S : c <= a}) = i
<1> DEFINE UpTo(a) == {c \in S : c <= a}
           Under(a) == {c \in S : c < a}
<1>1. \A T \in SUBSET S : IsFiniteSet(T) /\ Cardinality(T) \in Nat /\ Cardinality(T) <= Cardinality(S)
  BY FS_Subset, FS_CardinalityType
<1>2. \A a \in S : UpTo(a) \in SUBSET S /\ Under(a) \in SUBSET S
  OBVIOUS
<1>3. \A a \in S : Cardinality(UpTo(a)) = Cardinality(Under(a)) + 1
  <2>1. TAKE a \in S
  <2>i. \A c \in S : c \in Int
    OBVIOUS
  <2>o. \A c \in S : c <= a <=> (c < a \/ c = a)
    BY <2>i
  <2>u. a \in UpTo(a) /\ a \notin Under(a)
    BY <2>i
  <2>2. UpTo(a) = Under(a) \cup {a} /\ a \notin Under(a)
    <3>1. \A c \in S : c \in UpTo(a) <=> c \in Under(a) \/ c = a
      BY <2>o
    <3>2. UpTo(a) \subseteq S /\ Under(a) \subseteq S
      OBVIOUS
    <3>3. QED
      <4> HIDE DEF UpTo, Under
      <4>1. QED
        BY <2>u, <3>1, <3>2
  <2>3. IsFiniteSet(Under(a))
    BY <1>1, <1>2
  <2>4. QED
    <3> HIDE DEF UpTo, Under
    <3>1. QED
      BY <2>2, <2>3, FS_AddElement
<1>4. \A a \in S : Cardinality(UpTo(a)) \in 1 .. Cardinality(S)
  <2>1. TAKE a \in S
  <2>2. Cardinality(UpTo(a)) \in Nat /\ Cardinality(Under(a)) \in Nat
        /\ Cardinality(UpTo(a)) <= Cardinality(S)
    BY <1>1, <1>2
  <2>3. Cardinality(S) \in Nat
    BY FS_CardinalityType
  <2>4. QED
    <3> HIDE DEF UpTo, Under
    <3>1. QED
      BY <1>3, <2>2, <2>3
<1>5. \A a, b \in S : a < b => Cardinality(UpTo(a)) < Cardinality(UpTo(b))
  <2>1. SUFFICES ASSUME NEW a \in S, NEW b \in S, a < b
                 PROVE  Cardinality(UpTo(a)) < Cardinality(UpTo(b))
    OBVIOUS
  <2>i. \A c \in S : c \in Int
    OBVIOUS
  <2>o. \A c \in S : c <= a => c < b
    BY <2>i, <2>1
  <2>2. UpTo(a) \in SUBSET Under(b)
    BY <2>o
  <2>3. Cardinality(UpTo(a)) <= Cardinality(Under(b))
    BY <1>1, <1>2, <2>2, FS_Subset
  <2>4. Cardinality(UpTo(a)) \in Nat /\ Cardinality(Under(b)) \in Nat
    BY <1>1, <1>2
  <2>5. QED
    <3> HIDE DEF UpTo, Under
    <3>1. QED
      BY <1>3, <2>3, <2>4
<1>6. \A i \in 1 .. Cardinality(S) : \E a \in S : Cardinality(UpTo(a)) = i
  <2>0. TAKE i \in 1 .. Cardinality(S)
  <2> DEFINE Enough == {a \in S : i <= Cardinality(UpTo(a))}
  <2>i. \A c \in S : c \in Int
    OBVIOUS
  <2>s. Cardinality(S) \in Nat /\ S # {}
    BY FS_CardinalityType, FS_EmptySet
  <2>1. Max(S) \in Enough
    <3>1. Max(S) \in S /\ \A n \in S : n <= Max(S)
      BY <2>s, Extremes
    <3>2. UpTo(Max(S)) = S
      BY <3>1
    <3>3. QED
      BY <2>s, <3>1, <3>2
  <2>2. Enough # {} /\ IsFiniteSet(Enough) /\ Enough \in SUBSET Int
    BY <1>1, <2>1
  <2>3. PICK a \in Enough : \A n \in Enough : a <= n
    <3> HIDE DEF Enough
    <3>1. Min(Enough) \in Enough /\ \A n \in Enough : Min(Enough) <= n
      BY <2>2, Extremes
    <3>2. QED
      BY <3>1
  <2>4. a \in S /\ i <= Cardinality(UpTo(a))
    BY <2>3
  <2>5. Cardinality(Under(a)) \in Nat /\ Cardinality(UpTo(a)) = Cardinality(Under(a)) + 1
    BY <1>1, <1>2, <1>3, <2>4
  <2>6. CASE Under(a) = {}
    <3>1. Cardinality(Under(a)) = 0
      BY <2>6, FS_EmptySet
    <3>2. Cardinality(UpTo(a)) = i
      <4> HIDE DEF Under, UpTo, Enough
      <4>1. QED
        BY <2>4, <2>5, <3>1
    <3>3. QED
      BY <2>4, <3>2
  <2>7. CASE Under(a) # {}
    <3>1. IsFiniteSet(Under(a)) /\ Under(a) \in SUBSET Int
      BY <1>1, <1>2, <2>4
    <3>2. PICK b \in Under(a) : \A n \in Under(a) : n <= b
      <4> HIDE DEF Under
      <4>1. Max(Under(a)) \in Under(a) /\ \A n \in Under(a) : n <= Max(Under(a))
        BY <2>7, <3>1, Extremes
      <4>2. QED
        BY <4>1
    <3>3. b \in S /\ b < a /\ ~ (a <= b)
      BY <2>i, <2>4, <3>2
    <3>4. UpTo(b) = Under(a)
      <4>1. \A c \in S : c <= b <=> c < a
        <5>1. TAKE c \in S
        <5>2. c < a => c <= b
          BY <3>2
        <5>3. c \in Int /\ b \in Int /\ a \in Int
          BY <2>i, <2>4, <3>3
        <5>4. QED
          BY <3>3, <5>2, <5>3
      <4>2. QED
        BY <4>1
    <3>5. b \notin Enough
      BY <2>3, <3>3
    <3>6. ~ (i <= Cardinality(UpTo(b)))
      BY <3>3, <3>5
    <3>7. Cardinality(UpTo(a)) = i
      <4>1. ~ (i <= Cardinality(Under(a)))
        BY <3>4, <3>6
      <4> HIDE DEF Under, UpTo, Enough
      <4>2. QED
        BY <2>4, <2>5, <4>1
    <3>8. QED
      BY <2>4, <3>7
  <2>8. QED
    BY <2>6, <2>7
<1>7. QED
  BY <1>4, <1>5, <1>6

-----------------------------------------------------------------------------
(* SumFunctionOnSet picks the elements of the set in an order of its own,  *)
(* and is defined by recursion: Iterates says that sum computes it for     *)
(* every subset of S.                                                      *)

Pick(s) == CHOOSE x \in s : TRUE

Iterates(f, S, sum) ==
  sum = [s \in SUBSET S |-> IF s = {} THEN 0 ELSE f[Pick(s)] + sum[s \ {Pick(s)}]]

LEMMA Picked == ASSUME NEW s, s # {} PROVE Pick(s) \in s
BY DEF Pick

\* Whatever the whole sets are, the sums over a common subset agree.
LEMMA IteratesOnce ==
  ASSUME NEW f, NEW S, NEW T, NEW g, NEW h, Iterates(f, S, g), Iterates(f, T, h),
         NEW u, IsFiniteSet(u), u \subseteq S, u \subseteq T
  PROVE  g[u] = h[u]
<1> DEFINE Good == {v \in SUBSET u : g[v] = h[v]}
<1>1. ASSUME NEW v \in SUBSET u, \A x \in v : v \ {x} \in Good PROVE v \in Good
  <2>1. /\ v \in SUBSET S /\ v \in SUBSET T
        /\ g[v] = IF v = {} THEN 0 ELSE f[Pick(v)] + g[v \ {Pick(v)}]
        /\ h[v] = IF v = {} THEN 0 ELSE f[Pick(v)] + h[v \ {Pick(v)}]
    BY DEF Iterates
  <2>2. v # {} => g[v \ {Pick(v)}] = h[v \ {Pick(v)}]
    BY <1>1, Picked
  <2>3. QED
    BY <2>1, <2>2
<1>2. u \in Good
  <2> HIDE DEF Good
  <2>1. QED
    BY <1>1, SubsetInduction
<1>3. QED
  BY <1>2

\* What SumFunctionOnSet chooses to compute with exists.
LEMMA IteratesExists ==
  ASSUME NEW f, NEW S, IsFiniteSet(S) PROVE \E sum : Iterates(f, S, sum)
<1> DEFINE Has(t) == \E sum : Iterates(f, t, sum)
           The(t) == CHOOSE sum : Iterates(f, t, sum)
           Good == {s \in SUBSET S : \A t \in SUBSET s : Has(t)}
<1>1. ASSUME NEW s \in SUBSET S, \A x \in s : s \ {x} \in Good PROVE s \in Good
  <2>1. \A t \in SUBSET s : t # s => Iterates(f, t, The(t))
    <3>1. SUFFICES ASSUME NEW t \in SUBSET s, t # s PROVE Iterates(f, t, The(t))
      OBVIOUS
    <3>2. PICK x \in s : t \in SUBSET (s \ {x})
      BY <3>1
    <3>3. Has(t)
      BY <1>1, <3>2
    <3>4. QED
      BY <3>3
  <2> DEFINE g == [t \in SUBSET s |-> IF t # s THEN The(t)[t]
                                      ELSE IF s = {} THEN 0
                                      ELSE f[Pick(s)] + The(s \ {Pick(s)})[s \ {Pick(s)}]]
  <2>2. ASSUME NEW t \in SUBSET s
        PROVE  g[t] = IF t = {} THEN 0 ELSE f[Pick(t)] + g[t \ {Pick(t)}]
    <3>1. CASE t = s
      <4>1. s # {} => s \ {Pick(s)} # s /\ s \ {Pick(s)} \in SUBSET s
        BY Picked
      <4>2. QED
        BY <3>1, <4>1
    <3>2. CASE t # s
      <4>1. g[t] = The(t)[t] /\ Iterates(f, t, The(t))
        BY <2>1, <3>2
      <4>2. t \in SUBSET t
            /\ The(t)[t] = IF t = {} THEN 0 ELSE f[Pick(t)] + The(t)[t \ {Pick(t)}]
        <5> HIDE DEF The, g
        <5>1. QED
          BY <4>1 DEF Iterates
      <4>3. ASSUME t # {} PROVE The(t)[t \ {Pick(t)}] = g[t \ {Pick(t)}]
        <5> DEFINE u == t \ {Pick(t)}
        <5>1. u # s /\ u \in SUBSET s /\ u \subseteq t /\ IsFiniteSet(u)
          BY <3>2, FS_Subset
        <5>2. g[u] = The(u)[u] /\ Iterates(f, u, The(u))
          BY <2>1, <5>1
        <5>3. The(t)[u] = The(u)[u]
          <6> HIDE DEF u, The, g
          <6>1. QED
            BY <4>1, <5>1, <5>2, IteratesOnce
        <5>4. QED
          BY <5>2, <5>3
      <4>4. QED
        BY <4>1, <4>2, <4>3
    <3>3. QED
      BY <3>1, <3>2
  <2>3. Iterates(f, s, g)
    <3>1. g = [t \in SUBSET s |-> g[t]]
      OBVIOUS
    <3>2. QED
      <4> HIDE DEF g
      <4>1. QED
        BY <2>2, <3>1 DEF Iterates
  <2>4. \A t \in SUBSET s : Has(t)
    <3>1. TAKE t \in SUBSET s
    <3>2. CASE t = s
      BY <2>3, <3>2
    <3>3. CASE t # s
      BY <2>1, <3>3
    <3>4. QED
      BY <3>2, <3>3
  <2>5. QED
    BY <2>4
<1>2. S \in Good
  <2> HIDE DEF Good
  <2>1. QED
    BY <1>1, SubsetInduction
<1>3. QED
  BY <1>2

LEMMA SumIterates ==
  ASSUME NEW f, NEW S, IsFiniteSet(S), NEW sum, Iterates(f, S, sum), NEW T \in SUBSET S
  PROVE  SumFunctionOnSet(f, T) = sum[T]
<1> DEFINE it == CHOOSE g : Iterates(f, T, g)
<1>1. SumFunctionOnSet(f, T) = it[T]
  BY DEF SumFunctionOnSet, FoldFunctionOnSet, MapThenFoldSet, Iterates, Pick
<1>2. IsFiniteSet(T) /\ \E g : Iterates(f, T, g)
  BY FS_Subset, IteratesExists
<1>3. Iterates(f, T, it)
  BY <1>2
<1>4. QED
  <2> HIDE DEF it
  <2>1. T \subseteq T /\ T \subseteq S
    OBVIOUS
  <2>2. it[T] = sum[T]
    BY <1>2, <1>3, <2>1, IteratesOnce
  <2>3. QED
    BY <1>1, <2>2

\* A sum is the element picked first and the sum of the rest.
LEMMA SumUnfolds ==
  ASSUME NEW f, NEW S, IsFiniteSet(S)
  PROVE  SumFunctionOnSet(f, S) =
           IF S = {} THEN 0 ELSE f[Pick(S)] + SumFunctionOnSet(f, S \ {Pick(S)})
<1>1. PICK sum : Iterates(f, S, sum)
  BY IteratesExists
<1>2. \A T \in SUBSET S : SumFunctionOnSet(f, T) = sum[T]
  BY <1>1, SumIterates
<1>3. S \in SUBSET S /\ S \ {Pick(S)} \in SUBSET S
  OBVIOUS
<1>4. sum[S] = IF S = {} THEN 0 ELSE f[Pick(S)] + sum[S \ {Pick(S)}]
  BY <1>1, <1>3 DEF Iterates
<1>5. QED
  BY <1>2, <1>3, <1>4

-----------------------------------------------------------------------------
\* The sum of integers is an integer.
LEMMA SumType ==
  ASSUME NEW S, IsFiniteSet(S), NEW f, \A x \in S : f[x] \in Int
  PROVE  SumFunctionOnSet(f, S) \in Int
<1> DEFINE Good == {s \in SUBSET S : SumFunctionOnSet(f, s) \in Int}
<1>1. ASSUME NEW s \in SUBSET S, \A x \in s : s \ {x} \in Good PROVE s \in Good
  <2>1. SumFunctionOnSet(f, s) = IF s = {} THEN 0 ELSE f[Pick(s)] + SumFunctionOnSet(f, s \ {Pick(s)})
    BY SumUnfolds, FS_Subset
  <2>2. s # {} => f[Pick(s)] \in Int /\ SumFunctionOnSet(f, s \ {Pick(s)}) \in Int
    BY <1>1, Picked
  <2>3. QED
    BY <2>1, <2>2
<1>2. S \in Good
  <2> HIDE DEF Good
  <2>1. QED
    BY <1>1, SubsetInduction
<1>3. QED
  BY <1>2

\* The order does not matter: any element may come first.
LEMMA SumWithout ==
  ASSUME NEW S, IsFiniteSet(S), NEW f, \A y \in S : f[y] \in Int, NEW x \in S
  PROVE  SumFunctionOnSet(f, S) = f[x] + SumFunctionOnSet(f, S \ {x})
<1> DEFINE Total(s) == SumFunctionOnSet(f, s)
           Good == {s \in SUBSET S : \A z \in s : Total(s) = f[z] + Total(s \ {z})}
<1>t. \A s \in SUBSET S : IsFiniteSet(s) /\ Total(s) \in Int
  BY FS_Subset, SumType
<1>1. ASSUME NEW s \in SUBSET S, \A y \in s : s \ {y} \in Good PROVE s \in Good
  <2>1. SUFFICES ASSUME NEW z \in s PROVE Total(s) = f[z] + Total(s \ {z})
    OBVIOUS
  <2> DEFINE p == Pick(s)
  <2>2. p \in s /\ Total(s) = f[p] + Total(s \ {p})
    BY <1>t, SumUnfolds, Picked
  <2>3. CASE z = p
    BY <2>2, <2>3
  <2>4. CASE z # p
    <3> HIDE DEF p, Total
    <3>1. Total(s \ {p}) = f[z] + Total((s \ {p}) \ {z})
      BY <1>1, <2>2, <2>4
    <3>2. Total(s \ {z}) = f[p] + Total((s \ {z}) \ {p})
      BY <1>1, <2>2, <2>4
    <3>3. (s \ {p}) \ {z} = (s \ {z}) \ {p}
      OBVIOUS
    <3>4. /\ f[p] \in Int /\ f[z] \in Int /\ Total((s \ {z}) \ {p}) \in Int
          /\ Total(s \ {z}) \in Int /\ Total(s \ {p}) \in Int
      BY <1>t, <2>2
    <3>5. Total(s \ {p}) = f[z] + Total((s \ {z}) \ {p})
      BY <3>1, <3>3
    <3>6. \A a, b, c, d, e, total \in Int :
            a = e + c /\ b = d + c /\ total = d + a => total = e + b
      OBVIOUS
    <3>7. Total(s) \in Int
      BY <1>t
    <3>8. QED
      BY <2>2, <3>2, <3>4, <3>5, <3>6, <3>7
  <2>5. QED
    BY <2>3, <2>4
<1>2. S \in Good
  <2> HIDE DEF Good
  <2>1. QED
    BY <1>1, SubsetInduction
<1>3. QED
  BY <1>2

\* A sum only depends on the elements of its set.
LEMMA SumSame ==
  ASSUME NEW S, IsFiniteSet(S), NEW f, NEW g, \A x \in S : f[x] = g[x]
  PROVE  SumFunctionOnSet(f, S) = SumFunctionOnSet(g, S)
<1> DEFINE Good == {s \in SUBSET S : SumFunctionOnSet(f, s) = SumFunctionOnSet(g, s)}
<1>1. ASSUME NEW s \in SUBSET S, \A x \in s : s \ {x} \in Good PROVE s \in Good
  <2>1. /\ SumFunctionOnSet(f, s) = IF s = {} THEN 0 ELSE f[Pick(s)] + SumFunctionOnSet(f, s \ {Pick(s)})
        /\ SumFunctionOnSet(g, s) = IF s = {} THEN 0 ELSE g[Pick(s)] + SumFunctionOnSet(g, s \ {Pick(s)})
    BY SumUnfolds, FS_Subset
  <2>2. s # {} => /\ f[Pick(s)] = g[Pick(s)]
                  /\ SumFunctionOnSet(f, s \ {Pick(s)}) = SumFunctionOnSet(g, s \ {Pick(s)})
    BY <1>1, Picked
  <2>3. QED
    BY <2>1, <2>2
<1>2. S \in Good
  <2> HIDE DEF Good
  <2>1. QED
    BY <1>1, SubsetInduction
<1>3. QED
  BY <1>2

\* A sum grows with its parts.
LEMMA SumMonotone ==
  ASSUME NEW S, IsFiniteSet(S), NEW f, NEW g,
         \A x \in S : f[x] \in Int /\ g[x] \in Int /\ f[x] <= g[x]
  PROVE  SumFunctionOnSet(f, S) <= SumFunctionOnSet(g, S)
<1> DEFINE Good == {s \in SUBSET S : SumFunctionOnSet(f, s) <= SumFunctionOnSet(g, s)}
<1>t. \A s \in SUBSET S : SumFunctionOnSet(f, s) \in Int /\ SumFunctionOnSet(g, s) \in Int
  BY FS_Subset, SumType
<1>1. ASSUME NEW s \in SUBSET S, \A x \in s : s \ {x} \in Good PROVE s \in Good
  <2>1. /\ SumFunctionOnSet(f, s) = IF s = {} THEN 0 ELSE f[Pick(s)] + SumFunctionOnSet(f, s \ {Pick(s)})
        /\ SumFunctionOnSet(g, s) = IF s = {} THEN 0 ELSE g[Pick(s)] + SumFunctionOnSet(g, s \ {Pick(s)})
    BY SumUnfolds, FS_Subset
  <2>2. s # {} => /\ f[Pick(s)] \in Int /\ g[Pick(s)] \in Int /\ f[Pick(s)] <= g[Pick(s)]
                  /\ SumFunctionOnSet(f, s \ {Pick(s)}) <= SumFunctionOnSet(g, s \ {Pick(s)})
    BY <1>1, Picked
  <2>3. SumFunctionOnSet(f, s \ {Pick(s)}) \in Int /\ SumFunctionOnSet(g, s \ {Pick(s)}) \in Int
    BY <1>t
  <2>4. QED
    BY <2>1, <2>2, <2>3
<1>2. S \in Good
  <2> HIDE DEF Good
  <2>1. QED
    BY <1>1, SubsetInduction
<1>3. QED
  BY <1>2

\* Sums add up.
LEMMA SumAdds ==
  ASSUME NEW S, IsFiniteSet(S), NEW f, NEW g, NEW h,
         \A x \in S : f[x] \in Int /\ g[x] \in Int /\ h[x] = f[x] + g[x]
  PROVE  SumFunctionOnSet(h, S) = SumFunctionOnSet(f, S) + SumFunctionOnSet(g, S)
<1> DEFINE F(s) == SumFunctionOnSet(f, s)
           G(s) == SumFunctionOnSet(g, s)
           H(s) == SumFunctionOnSet(h, s)
           Good == {s \in SUBSET S : H(s) = F(s) + G(s)}
<1>t. \A s \in SUBSET S : F(s) \in Int /\ G(s) \in Int
  BY FS_Subset, SumType
<1>1. ASSUME NEW s \in SUBSET S, \A x \in s : s \ {x} \in Good PROVE s \in Good
  <2>1. /\ F(s) = IF s = {} THEN 0 ELSE f[Pick(s)] + F(s \ {Pick(s)})
        /\ G(s) = IF s = {} THEN 0 ELSE g[Pick(s)] + G(s \ {Pick(s)})
        /\ H(s) = IF s = {} THEN 0 ELSE h[Pick(s)] + H(s \ {Pick(s)})
    BY SumUnfolds, FS_Subset
  <2>2. s # {} => /\ f[Pick(s)] \in Int /\ g[Pick(s)] \in Int /\ h[Pick(s)] = f[Pick(s)] + g[Pick(s)]
                  /\ H(s \ {Pick(s)}) = F(s \ {Pick(s)}) + G(s \ {Pick(s)})
    BY <1>1, Picked
  <2>3. F(s \ {Pick(s)}) \in Int /\ G(s \ {Pick(s)}) \in Int
    BY <1>t
  <2>4. H(s) = F(s) + G(s)
    <3> HIDE DEF F, G, H
    <3>1. CASE s = {}
      BY <2>1, <3>1
    <3>2. CASE s # {}
      <4>1. \A a, b, c, d, e \in Int : (a + b) + (c + d) = (a + c) + (b + d)
        OBVIOUS
      <4>2. /\ F(s) = f[Pick(s)] + F(s \ {Pick(s)}) /\ G(s) = g[Pick(s)] + G(s \ {Pick(s)})
            /\ H(s) = (f[Pick(s)] + g[Pick(s)]) + (F(s \ {Pick(s)}) + G(s \ {Pick(s)}))
        BY <2>1, <2>2, <3>2
      <4>3. f[Pick(s)] \in Int /\ g[Pick(s)] \in Int
        BY <2>2, <3>2
      <4>4. QED
        BY <2>3, <4>1, <4>2, <4>3
    <3>3. QED
      BY <3>1, <3>2
  <2>5. QED
    BY <2>4
<1>2. S \in Good
  <2> HIDE DEF Good
  <2>1. QED
    BY <1>1, SubsetInduction
<1>3. QED
  BY <1>2

\* A change of one part is the change of the sum.
LEMMA SumChanges ==
  ASSUME NEW S, IsFiniteSet(S), NEW f, NEW g, NEW x \in S,
         \A y \in S : f[y] \in Int /\ g[y] \in Int /\ (y # x => g[y] = f[y])
  PROVE  SumFunctionOnSet(g, S) = SumFunctionOnSet(f, S) + g[x] - f[x]
<1>1. IsFiniteSet(S \ {x})
  BY FS_RemoveElement
<1>2. /\ SumFunctionOnSet(f, S) = f[x] + SumFunctionOnSet(f, S \ {x})
      /\ SumFunctionOnSet(g, S) = g[x] + SumFunctionOnSet(g, S \ {x})
  BY SumWithout
<1>3. SumFunctionOnSet(f, S \ {x}) = SumFunctionOnSet(g, S \ {x})
  BY <1>1, SumSame
<1>4. /\ SumFunctionOnSet(f, S \ {x}) \in Int /\ f[x] \in Int /\ g[x] \in Int
  BY <1>1, SumType
<1>5. QED
  BY <1>2, <1>3, <1>4

\* A sum of zeros is zero.
LEMMA SumOfZeros ==
  ASSUME NEW S, IsFiniteSet(S), NEW f, \A x \in S : f[x] = 0
  PROVE  SumFunctionOnSet(f, S) = 0
<1> DEFINE Good == {s \in SUBSET S : SumFunctionOnSet(f, s) = 0}
<1>1. ASSUME NEW s \in SUBSET S, \A x \in s : s \ {x} \in Good PROVE s \in Good
  <2>1. SumFunctionOnSet(f, s) = IF s = {} THEN 0 ELSE f[Pick(s)] + SumFunctionOnSet(f, s \ {Pick(s)})
    BY SumUnfolds, FS_Subset
  <2>2. s # {} => f[Pick(s)] = 0 /\ SumFunctionOnSet(f, s \ {Pick(s)}) = 0
    BY <1>1, Picked
  <2>3. QED
    BY <2>1, <2>2
<1>2. S \in Good
  <2> HIDE DEF Good
  <2>1. QED
    BY <1>1, SubsetInduction
<1>3. QED
  BY <1>2

\* Parts between two numbers make a sum between as many of each.
LEMMA SumWithin ==
  ASSUME NEW S, IsFiniteSet(S), NEW f, NEW low \in Int, NEW high \in Int,
         \A x \in S : f[x] \in Int /\ low <= f[x] /\ f[x] <= high
  PROVE  /\ SumFunctionOnSet(f, S) \in Int /\ Cardinality(S) \in Nat
         /\ low * Cardinality(S) <= SumFunctionOnSet(f, S)
         /\ SumFunctionOnSet(f, S) <= high * Cardinality(S)
<1> DEFINE Total(s) == SumFunctionOnSet(f, s)
           Good == {s \in SUBSET S : /\ low * Cardinality(s) <= Total(s)
                                     /\ Total(s) <= high * Cardinality(s)}
<1>t. \A s \in SUBSET S : Total(s) \in Int /\ IsFiniteSet(s) /\ Cardinality(s) \in Nat
  BY FS_Subset, SumType, FS_CardinalityType
<1>1. ASSUME NEW s \in SUBSET S, \A x \in s : s \ {x} \in Good PROVE s \in Good
  <2>1. Total(s) = IF s = {} THEN 0 ELSE f[Pick(s)] + Total(s \ {Pick(s)})
    BY SumUnfolds, FS_Subset
  <2>2. CASE s = {}
    BY <2>1, <2>2, FS_EmptySet
  <2>3. CASE s # {}
    <3> DEFINE x == Pick(s)
               rest == s \ {x}
    <3>1. x \in s /\ f[x] \in Int /\ low <= f[x] /\ f[x] <= high
      BY <2>3, Picked
    <3>2. rest \in Good /\ rest \in SUBSET S
      BY <1>1, <3>1
    <3>3. Cardinality(s) = Cardinality(rest) + 1
      <4> HIDE DEF x
      <4>1. Cardinality(rest) = Cardinality(s) - 1
        BY <1>t, <3>1, FS_RemoveElement
      <4>2. QED
        BY <1>t, <3>2, <4>1
    <3>4. Total(s) = f[x] + Total(rest)
      BY <2>1, <2>3
    <3>5. ASSUME NEW n \in Nat, NEW a \in Int, NEW b \in Int, low <= a, a <= high, low * n <= b, b <= high * n
          PROVE  low * (n + 1) <= a + b /\ a + b <= high * (n + 1)
      <4>1. low * (n + 1) = low * n + low /\ high * (n + 1) = high * n + high
        OBVIOUS
      <4>2. low * n \in Int /\ high * n \in Int
        OBVIOUS
      <4>3. QED
        BY <3>5, <4>1, <4>2
    <3>6. Cardinality(rest) \in Nat /\ Total(rest) \in Int
      BY <1>t, <3>2
    <3>7. low * Cardinality(rest) <= Total(rest) /\ Total(rest) <= high * Cardinality(rest)
      BY <3>2
    <3> HIDE DEF x, rest, Total
    <3>8. low * Cardinality(s) <= Total(s) /\ Total(s) <= high * Cardinality(s)
      BY <3>1, <3>3, <3>4, <3>5, <3>6, <3>7
    <3>9. QED
      BY <3>8
  <2>4. QED
    BY <2>2, <2>3
<1>2. S \in Good
  <2> HIDE DEF Good
  <2>1. QED
    BY <1>1, SubsetInduction
<1>3. QED
  BY <1>t, <1>2

\* A sum of multiples is the multiple of the sum.
LEMMA SumScaled ==
  ASSUME NEW S, IsFiniteSet(S), NEW f, NEW k \in Int, NEW g, \A x \in S : f[x] \in Int /\ g[x] = f[x] * k
  PROVE  SumFunctionOnSet(g, S) = SumFunctionOnSet(f, S) * k
<1> DEFINE F(s) == SumFunctionOnSet(f, s)
           G(s) == SumFunctionOnSet(g, s)
           Good == {s \in SUBSET S : G(s) = F(s) * k}
<1>t. \A s \in SUBSET S : F(s) \in Int
  BY FS_Subset, SumType
<1>1. ASSUME NEW s \in SUBSET S, \A x \in s : s \ {x} \in Good PROVE s \in Good
  <2>1. /\ F(s) = IF s = {} THEN 0 ELSE f[Pick(s)] + F(s \ {Pick(s)})
        /\ G(s) = IF s = {} THEN 0 ELSE g[Pick(s)] + G(s \ {Pick(s)})
    BY SumUnfolds, FS_Subset
  <2>2. s # {} => /\ f[Pick(s)] \in Int /\ g[Pick(s)] = f[Pick(s)] * k
                  /\ G(s \ {Pick(s)}) = F(s \ {Pick(s)}) * k
    BY <1>1, Picked
  <2>3. F(s \ {Pick(s)}) \in Int
    BY <1>t
  <2>4. G(s) = F(s) * k
    <3> HIDE DEF F, G
    <3>1. CASE s = {}
      BY <2>1, <3>1
    <3>2. CASE s # {}
      <4>1. \A a, b \in Int : a * k + b * k = (a + b) * k
        OBVIOUS
      <4>2. /\ F(s) = f[Pick(s)] + F(s \ {Pick(s)})
            /\ G(s) = f[Pick(s)] * k + F(s \ {Pick(s)}) * k
        BY <2>1, <2>2, <3>2
      <4>3. f[Pick(s)] \in Int
        BY <2>2, <3>2
      <4>4. QED
        BY <2>3, <4>1, <4>2, <4>3
    <3>3. QED
      BY <3>1, <3>2
  <2>5. QED
    BY <2>4
<1>2. S \in Good
  <2> HIDE DEF Good
  <2>1. QED
    BY <1>1, SubsetInduction
<1>3. QED
  BY <1>2

-----------------------------------------------------------------------------
\* A set of numbers moved by one is as large, and a sum over it is the same.
LEMMA Shifted ==
  ASSUME NEW S \in SUBSET Int, IsFiniteSet(S), NEW T \in SUBSET Int, \A i \in Int : i \in T <=> i + 1 \in S
  PROVE  IsFiniteSet(T) /\ Cardinality(T) = Cardinality(S)
<1> DEFINE back == [i \in S |-> i - 1]
<1>1. back \in [S -> T]
  <2>1. \A i \in S : i - 1 \in Int /\ (i - 1) + 1 = i
    OBVIOUS
  <2>2. QED
    BY <2>1
<1>2. \A i, j \in S : back[i] = back[j] => i = j
  <2>1. \A i, j \in Int : i - 1 = j - 1 => i = j
    OBVIOUS
  <2>2. QED
    BY <2>1
<1>3. \A k \in T : \E i \in S : back[i] = k
  <2>1. \A k \in T : k + 1 \in S /\ (k + 1) - 1 = k
    OBVIOUS
  <2>2. QED
    BY <2>1
<1> HIDE DEF back
<1>4. back \in Bijection(S, T)
  BY <1>1, <1>2, <1>3 DEF Bijection, Injection, Surjection, IsInjective
<1>5. QED
  BY <1>4, FS_Bijection DEF ExistsBijection

LEMMA SumShifted ==
  ASSUME NEW S \in SUBSET Int, IsFiniteSet(S), NEW T \in SUBSET Int, \A i \in Int : i \in T <=> i + 1 \in S,
         NEW f, NEW g, \A i \in T : g[i] \in Int /\ g[i] = f[i + 1]
  PROVE  SumFunctionOnSet(g, T) = SumFunctionOnSet(f, S)
<1> DEFINE Back(s) == {i \in T : i + 1 \in s}
           Good == {s \in SUBSET S : SumFunctionOnSet(g, Back(s)) = SumFunctionOnSet(f, s)}
<1>f. IsFiniteSet(T)
  BY Shifted
<1>1. ASSUME NEW s \in SUBSET S, \A x \in s : s \ {x} \in Good PROVE s \in Good
  <2>1. SumFunctionOnSet(f, s) = IF s = {} THEN 0 ELSE f[Pick(s)] + SumFunctionOnSet(f, s \ {Pick(s)})
    BY SumUnfolds, FS_Subset
  <2>2. IsFiniteSet(Back(s))
    BY <1>f, FS_Subset
  <2>3. CASE s = {}
    <3>1. Back(s) = {}
      BY <2>3
    <3>2. SumFunctionOnSet(g, Back(s)) = 0
      <4>1. \A x \in Back(s) : g[x] = 0
        BY <3>1
      <4> HIDE DEF Back
      <4>2. QED
        BY <2>2, <4>1, SumOfZeros
    <3>3. QED
      BY <2>1, <2>3, <3>2
  <2>4. CASE s # {}
    <3> DEFINE p == Pick(s)
               k == p - 1
    <3>1. p \in s /\ p \in Int /\ k + 1 = p /\ k \in Int
      <4>1. p \in s /\ p \in Int
        BY <2>4, Picked
      <4> HIDE DEF p
      <4>2. QED
        BY <4>1
    <3>2. k \in Back(s) /\ Back(s) \ {k} = Back(s \ {p})
      <4>1. k \in T
        BY <3>1
      <4>2. \A i \in T : i + 1 = p <=> i = k
        BY <3>1
      <4> HIDE DEF p, k
      <4>3. QED
        BY <3>1, <4>1, <4>2
    <3>3. \A y \in Back(s) : g[y] \in Int
      OBVIOUS
    <3>4. SumFunctionOnSet(g, Back(s)) = g[k] + SumFunctionOnSet(g, Back(s) \ {k})
      <4> HIDE DEF Back, k
      <4>1. QED
        BY <2>2, <3>2, <3>3, SumWithout
    <3>5. g[k] = f[p]
      <4>1. k \in T
        BY <3>2
      <4> HIDE DEF p, k
      <4>2. QED
        BY <3>1, <4>1
    <3>6. SumFunctionOnSet(g, Back(s \ {p})) = SumFunctionOnSet(f, s \ {p})
      BY <1>1, <3>1
    <3>7. QED
      <4>1. SumFunctionOnSet(g, Back(s)) = f[p] + SumFunctionOnSet(f, s \ {p})
        <5> HIDE DEF p, k, Back
        <5>1. QED
          BY <3>2, <3>4, <3>5, <3>6
      <4>2. SumFunctionOnSet(f, s) = f[p] + SumFunctionOnSet(f, s \ {p})
        BY <2>1, <2>4
      <4>3. QED
        BY <4>1, <4>2
  <2>5. QED
    BY <2>3, <2>4
<1>2. S \in Good
  <2> HIDE DEF Good
  <2>1. QED
    BY <1>1, SubsetInduction
<1>3. Back(S) = T
  OBVIOUS
<1>4. QED
  BY <1>2, <1>3

-----------------------------------------------------------------------------
\* A sequence has the type of its elements.
LEMMA SequenceType ==
  ASSUME NEW S, NEW T, NEW q \in Seq(S), \A i \in 1 .. Len(q) : q[i] \in T PROVE q \in Seq(T)
<1>1. Len(q) \in Nat /\ q = [i \in 1 .. Len(q) |-> q[i]]
  OBVIOUS
<1>2. [i \in 1 .. Len(q) |-> q[i]] \in Seq(T)
  BY <1>1
<1>3. QED
  BY <1>1, <1>2

\* BoundedSeq is what its name says.
LEMMA BoundedSequence ==
  ASSUME NEW S, NEW n \in Nat, NEW s
  PROVE  s \in BoundedSeq(S, n) <=> s \in Seq(S) /\ Len(s) <= n
<1>1. s \in BoundedSeq(S, n) <=> \E m \in 0 .. n : s \in [1 .. m -> S]
  BY Zenon DEF BoundedSeq, SeqOf
<1>2. ASSUME NEW m \in 0 .. n, s \in [1 .. m -> S] PROVE s \in Seq(S) /\ Len(s) <= n
  <2>1. m \in Nat /\ m <= n
    OBVIOUS
  <2>2. s \in Seq(S) /\ Len(s) = m
    BY <1>2, <2>1
  <2>3. QED
    BY <2>1, <2>2
<1>3. ASSUME s \in Seq(S), Len(s) <= n PROVE Len(s) \in 0 .. n /\ s \in [1 .. Len(s) -> S]
  BY <1>3
<1>4. QED
  BY <1>1, <1>2, <1>3

\* The indices of what came after a time.
After(q, t) == {i \in DOMAIN q : q[i] > t}

NeverFalls(q) == \A i, j \in DOMAIN q : i <= j => q[i] <= q[j]

LEMMA AfterIsFinite ==
  ASSUME NEW q \in Seq(Nat), NEW t
  PROVE  IsFiniteSet(After(q, t)) /\ Cardinality(After(q, t)) \in Nat /\ Cardinality(After(q, t)) <= Len(q)
<1>1. Len(q) \in Nat /\ After(q, t) \in SUBSET (1 .. Len(q))
  BY DEF After
<1>2. IsFiniteSet(1 .. Len(q)) /\ Cardinality(1 .. Len(q)) = Len(q)
  BY <1>1, UpToN
<1>3. IsFiniteSet(After(q, t)) /\ Cardinality(After(q, t)) <= Len(q)
  BY <1>1, <1>2, FS_Subset
<1>4. QED
  BY <1>3, FS_CardinalityType

LEMMA AfterAppend ==
  ASSUME NEW q \in Seq(Nat), NEW v \in Nat, NEW t \in Int
  PROVE  Cardinality(After(Append(q, v), t)) = Cardinality(After(q, t)) + (IF v > t THEN 1 ELSE 0)
<1> DEFINE longer == Append(q, v)
           n == Len(q) + 1
<1>1. /\ Len(q) \in Nat /\ DOMAIN q = 1 .. Len(q) /\ DOMAIN longer = 1 .. n
      /\ (\A i \in 1 .. Len(q) : longer[i] = q[i]) /\ longer[n] = v
  OBVIOUS
<1>2. IsFiniteSet(After(q, t)) /\ Cardinality(After(q, t)) \in Nat
  BY AfterIsFinite
<1>3. n \notin After(q, t)
  BY <1>1 DEF After
<1>4. \A i \in 1 .. n : i \in 1 .. Len(q) \/ i = n
  BY <1>1
<1>5. CASE v > t
  <2>1. After(longer, t) = After(q, t) \cup {n}
    <3>1. \A i \in 1 .. n : longer[i] > t <=> i \in After(q, t) \/ i = n
      <4> HIDE DEF longer, n
      <4>1. QED
        BY <1>1, <1>3, <1>4, <1>5 DEF After
    <3>2. After(q, t) \subseteq 1 .. n /\ n \in 1 .. n
      BY <1>1 DEF After
    <3> HIDE DEF longer, n
    <3>3. QED
      BY <1>1, <3>1, <3>2 DEF After
  <2> HIDE DEF longer, n
  <2>2. QED
    BY <1>2, <1>3, <1>5, <2>1, FS_AddElement DEF longer
<1>6. CASE ~ (v > t)
  <2>1. After(longer, t) = After(q, t)
    <3>1. \A i \in 1 .. n : longer[i] > t <=> i \in After(q, t)
      <4> HIDE DEF longer, n
      <4>1. QED
        BY <1>1, <1>3, <1>4, <1>6 DEF After
    <3>2. After(q, t) \subseteq 1 .. n
      BY <1>1 DEF After
    <3> HIDE DEF longer, n
    <3>3. QED
      BY <1>1, <3>1, <3>2 DEF After
  <2>2. QED
    BY <1>2, <1>6, <2>1
<1>7. QED
  BY <1>5, <1>6

LEMMA AfterTail ==
  ASSUME NEW q \in Seq(Nat), q # <<>>, NEW t \in Int
  PROVE  Cardinality(After(Tail(q), t)) = Cardinality(After(q, t)) - (IF Head(q) > t THEN 1 ELSE 0)
<1> DEFINE rest == Tail(q)
           T == After(rest, t)
           U == After(q, t) \ {1}
           shift == [i \in T |-> i + 1]
<1>1. /\ Len(q) \in Nat \ {0} /\ DOMAIN q = 1 .. Len(q) /\ rest \in Seq(Nat) /\ Len(rest) = Len(q) - 1
      /\ DOMAIN rest = 1 .. Len(rest) /\ \A i \in 1 .. Len(rest) : rest[i] = q[i + 1]
      /\ Head(q) = q[1]
  OBVIOUS
<1>2. /\ IsFiniteSet(T) /\ Cardinality(T) \in Nat
      /\ IsFiniteSet(After(q, t)) /\ Cardinality(After(q, t)) \in Nat
  <2> HIDE DEF rest
  <2>1. QED
    BY <1>1, AfterIsFinite
<1>3. \A i \in T : i \in 1 .. Len(rest) /\ rest[i] > t
  <2> HIDE DEF rest
  <2>1. QED
    BY <1>1 DEF After
<1>4. \A i \in 1 .. Len(q) : i \in U <=> i # 1 /\ q[i] > t
  BY <1>1 DEF After
<1>5. \A i \in T : i \in Nat /\ i + 1 \in U
  <2>1. TAKE i \in T
  <2>2. i \in 1 .. Len(rest) /\ q[i + 1] > t
    <3> HIDE DEF rest, T
    <3>1. QED
      BY <1>1, <1>3
  <2>3. i \in Nat /\ i + 1 \in 1 .. Len(q) /\ i + 1 # 1
    <3> HIDE DEF rest
    <3>1. QED
      BY <1>1, <2>2
  <2>4. QED
    BY <1>4, <2>2, <2>3
<1>6. \A k \in U : k - 1 \in T /\ (k - 1) + 1 = k
  <2>1. TAKE k \in U
  <2>2. k \in 1 .. Len(q) /\ k # 1 /\ q[k] > t
    BY <1>1 DEF After
  <2>3. k - 1 \in 1 .. Len(rest) /\ (k - 1) + 1 = k
    <3> HIDE DEF rest
    <3>1. QED
      BY <1>1, <2>2
  <2>4. rest[k - 1] > t
    <3> HIDE DEF rest
    <3>1. QED
      BY <1>1, <2>2, <2>3
  <2>5. k - 1 \in T
    <3> HIDE DEF rest
    <3>1. QED
      BY <1>1, <2>3, <2>4 DEF After
  <2>6. QED
    BY <2>3, <2>5
<1>7. shift \in Bijection(T, U)
  <2> HIDE DEF T, U
  <2>1. shift \in [T -> U] /\ \A i, j \in T : shift[i] = shift[j] => i = j
    BY <1>5
  <2>2. \A k \in U : \E i \in T : shift[i] = k
    BY <1>6
  <2> HIDE DEF shift
  <2>3. QED
    BY <2>1, <2>2 DEF Bijection, Injection, Surjection, IsInjective
<1>8. Cardinality(U) = Cardinality(T)
  <2> HIDE DEF T, U, shift
  <2>1. QED
    BY <1>2, <1>7, FS_Bijection DEF ExistsBijection
<1>9. Cardinality(U) = IF 1 \in After(q, t) THEN Cardinality(After(q, t)) - 1 ELSE Cardinality(After(q, t))
  BY <1>2, FS_RemoveElement
<1>10. 1 \in After(q, t) <=> Head(q) > t
  BY <1>1 DEF After
<1>11. QED
  <2> HIDE DEF T, U
  <2>1. Cardinality(T) = Cardinality(After(q, t)) - (IF Head(q) > t THEN 1 ELSE 0)
    BY <1>2, <1>8, <1>9, <1>10
  <2>2. QED
    BY <2>1 DEF T

\* What holds of the first of 1 .. n, if of any, holds of as many as there are of them.
LEMMA Beginning ==
  ASSUME NEW n \in Nat, NEW D \in SUBSET (1 .. n), \A i \in D : \A j \in 1 .. n : j <= i => j \in D
  PROVE  /\ IsFiniteSet(D) /\ Cardinality(D) \in 0 .. n
         /\ \A i \in 1 .. n : i \in D <=> i <= Cardinality(D)
<1>1. IsFiniteSet(1 .. n) /\ IsFiniteSet(D)
  BY UpToN, FS_Subset
<1>2. CASE D = {}
  <2>1. Cardinality(D) = 0
    BY <1>2, FS_EmptySet
  <2>2. QED
    BY <1>1, <1>2, <2>1
<1>3. CASE D # {}
  <2>1. PICK m \in D : \A i \in D : i <= m
    <3>1. D \in SUBSET Int
      OBVIOUS
    <3>2. QED
      BY <1>1, <1>3, <3>1, Extremes
  <2>2. m \in 1 .. n /\ m \in Nat
    OBVIOUS
  <2>3. \A i \in 1 .. n : i \in D <=> i \in 1 .. m
    BY <2>1, <2>2
  <2>4. D = 1 .. m
    <3>1. 1 .. m \in SUBSET (1 .. n)
      BY <2>2
    <3>2. QED
      BY <2>3, <3>1
  <2>5. Cardinality(D) = m
    BY <2>2, <2>4, UpToN
  <2>6. QED
    BY <1>1, <2>2, <2>3, <2>5
<1>4. QED
  BY <1>2, <1>3

\* A sequence without what is in front of it keeps what came after a time, if nothing
\* in front did.
LEMMA AfterCut ==
  ASSUME NEW q \in Seq(Nat), NEW d \in 0 .. Len(q), NEW w \in Seq(Nat), Len(w) = Len(q) - d,
         \A i \in 1 .. Len(w) : w[i] = q[d + i],
         NEW t \in Int, \A i \in 1 .. d : ~ (q[i] > t)
  PROVE  Cardinality(After(w, t)) = Cardinality(After(q, t))
<1> DEFINE T == After(w, t)
           U == After(q, t)
           shift == [i \in T |-> d + i]
<1>1. /\ Len(q) \in Nat /\ Len(w) \in Nat /\ DOMAIN q = 1 .. Len(q) /\ DOMAIN w = 1 .. Len(w)
      /\ d \in Nat /\ d <= Len(q)
  OBVIOUS
<1>2. IsFiniteSet(T)
  BY AfterIsFinite
<1>3. \A i : i \in T <=> i \in 1 .. Len(w) /\ w[i] > t
  BY <1>1 DEF After
<1>4. \A i : i \in U <=> i \in 1 .. Len(q) /\ q[i] > t
  BY <1>1 DEF After
<1>5. \A i \in T : i \in Nat /\ d + i \in U
  <2>1. TAKE i \in T
  <2>2. i \in 1 .. Len(w) /\ q[d + i] > t
    BY <1>3
  <2>3. i \in Nat /\ d + i \in 1 .. Len(q)
    BY <1>1, <2>2
  <2>4. QED
    BY <1>4, <2>2, <2>3
<1>6. \A k \in U : k - d \in T /\ d + (k - d) = k
  <2>1. TAKE k \in U
  <2>2. k \in 1 .. Len(q) /\ q[k] > t
    BY <1>4
  <2>3. k - d \in 1 .. Len(w) /\ d + (k - d) = k
    <3>1. k > d
      BY <1>1, <2>2
    <3>2. QED
      BY <1>1, <2>2, <3>1
  <2>4. w[k - d] > t
    BY <2>2, <2>3
  <2>5. QED
    BY <1>3, <2>3, <2>4
<1> HIDE DEF T, U
<1>7. shift \in [T -> U] /\ \A i, j \in T : shift[i] = shift[j] => i = j
  BY <1>1, <1>5
<1>8. \A k \in U : \E i \in T : shift[i] = k
  BY <1>6
<1> HIDE DEF shift
<1>9. shift \in Bijection(T, U)
  BY <1>7, <1>8 DEF Bijection, Injection, Surjection, IsInjective
<1>10. Cardinality(U) = Cardinality(T)
  BY <1>2, <1>9, FS_Bijection DEF ExistsBijection
<1>11. QED
  BY <1>10 DEF T, U
=============================================================================
