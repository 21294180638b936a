------------------------------ MODULE DataLemmas ------------------------------
(***************************************************************************)
(* What the proofs about several modules need of numbers and sequences:    *)
(* extrema of sets of numbers; induction over intervals, in forms that     *)
(* name a set, since a theorem about a predicate cannot be instantiated by *)
(* the provers and one about a set can; the ascending enumeration of a     *)
(* set; recursion over a sequence.                                         *)
(***************************************************************************)
EXTENDS SequencesExt, FiniteSetTheorems, SequenceTheorems, WellFoundedInduction, TLAPS

-----------------------------------------------------------------------------
(* Numbers *)

\* A set of numbers that is bounded has a maximum.
LEMMA MaxOfBounded ==
    ASSUME NEW S \in SUBSET Nat, S # {}, NEW b \in Nat, \A x \in S : x <= b
    PROVE  Max(S) \in S /\ \A x \in S : x <= Max(S)
<1> DEFINE Gaps == {b - x : x \in S}
<1>0. \A x \in S : b - x \in Nat
  OBVIOUS
<1>1. Gaps \in SUBSET Nat /\ Gaps # {}
  BY <1>0, Zenon
<1>2. PICK gap \in Gaps : \A g \in Gaps : gap <= g
  <2>1. PICK n \in Gaps : \A g \in Gaps : <<g, n>> \notin OpToRel(<, Nat)
    BY <1>1, WFMin, NatLessThanWellFounded, Zenon
  <2>2. \A g \in Gaps : ~(g < n)
    BY <1>1, <2>1, Zenon DEF OpToRel
  <2>3. n \in Nat /\ \A g \in Gaps : g \in Nat
    BY <1>1, <2>1, Zenon
  <2> HIDE DEF Gaps
  <2>4. \A g \in Gaps : n <= g
    BY <2>2, <2>3
  <2> QED BY <2>1, <2>4, Zenon
<1>3. PICK m \in S : gap = b - m
  BY <1>2
<1>4. \A x \in S : m >= x
  BY <1>2, <1>3
<1> QED
  BY <1>4 DEF Max

\* So has a set of natural numbers a minimum.
LEMMA MinOfNat ==
    ASSUME NEW S \in SUBSET Nat, S # {}
    PROVE  Min(S) \in S /\ \A x \in S : Min(S) <= x
<1>1. PICK n \in S : \A x \in S : <<x, n>> \notin OpToRel(<, Nat)
  BY WFMin, NatLessThanWellFounded, Zenon
<1>2. \A x \in S : ~(x < n)
  BY <1>1, Zenon DEF OpToRel
<1>3. \A x \in S : n <= x
  BY <1>2
<1> QED
  BY <1>3 DEF Min

\* What holds of a number when it holds of all greater ones holds of all.
LEMMA Downward ==
    ASSUME NEW a \in Int, NEW b \in Int, NEW S,
           \A i \in a .. b : (\A k \in i + 1 .. b : k \in S) => i \in S
    PROVE  \A i \in a .. b : i \in S
<1> DEFINE Bad == {n \in Nat : b - n \in a .. b /\ b - n \notin S}
<1>1. ASSUME NEW i \in a .. b, i \notin S PROVE FALSE
  <2>1. b - i \in Bad
    BY <1>1
  <2>2. Min(Bad) \in Bad /\ \A n \in Bad : Min(Bad) <= n
    BY <2>1, MinOfNat
  <2> DEFINE j == b - Min(Bad)
  <2>3. j \in a .. b /\ j \notin S
    BY <2>2
  <2>4. \A k \in j + 1 .. b : k \in S
    <3> SUFFICES ASSUME NEW k \in j + 1 .. b, k \notin S PROVE FALSE
      OBVIOUS
    <3>1. b - k \in Bad
      BY <2>2
    <3>2. b - k < Min(Bad)
      BY <2>2
    <3> QED
      BY <2>2, <3>1, <3>2
  <2> QED
    BY <2>3, <2>4
<1> QED
  BY <1>1

\* The usual induction, up to a bound.
LEMMA Upward ==
    ASSUME NEW b \in Nat, NEW S, 0 \in S, \A n \in 0 .. b - 1 : n \in S => n + 1 \in S
    PROVE  \A n \in 0 .. b : n \in S
<1> DEFINE Bad == {n \in 0 .. b : n \notin S}
<1>1. ASSUME NEW n \in 0 .. b, n \notin S PROVE FALSE
  <2>1. n \in Bad /\ Bad \in SUBSET Nat
    BY <1>1
  <2>2. PICK m \in Bad : \A k \in Bad : m <= k
    BY <2>1, MinOfNat
  <2>3. m # 0 /\ m - 1 \in 0 .. b - 1 /\ m - 1 \notin Bad
    BY <2>2
  <2> QED
    BY <2>2, <2>3
<1> QED
  BY <1>1

\* What holds of a number when it holds of all smaller ones holds of all.
LEMMA FromBelow ==
    ASSUME NEW b \in Nat, NEW S, \A n \in 0 .. b : (\A k \in 0 .. n - 1 : k \in S) => n \in S
    PROVE  \A n \in 0 .. b : n \in S
<1> DEFINE Bad == {n \in 0 .. b : n \notin S}
<1>1. ASSUME NEW n \in 0 .. b, n \notin S PROVE FALSE
  <2>1. n \in Bad /\ Bad \in SUBSET Nat
    BY <1>1
  <2>2. PICK m \in Bad : \A k \in Bad : m <= k
    BY <2>1, MinOfNat
  <2>3. m \in 0 .. b /\ \A k \in 0 .. m - 1 : k \notin Bad /\ k \in 0 .. b
    BY <2>2
  <2> QED
    BY <2>2, <2>3
<1> QED
  BY <1>1

-----------------------------------------------------------------------------
(* Enumerations *)

\* t lists the numbers in S, each once and in ascending order.
Enumerates(t, S) == /\ t \in Seq(S)
                    /\ \A i, j \in 1 .. Len(t) : i < j => t[i] < t[j]
                    /\ \A b \in S : \E i \in 1 .. Len(t) : t[i] = b

Rank(S, b) == Cardinality({c \in S : c < b})

\* The rank of a member counts those before it, from 0, and grows with it.
LEMMA RankGrows ==
    ASSUME NEW S \in SUBSET Nat, IsFiniteSet(S)
    PROVE  /\ Cardinality(S) \in Nat
           /\ \A b \in S : Rank(S, b) \in 0 .. Cardinality(S) - 1
           /\ \A a, b \in S : a < b => Rank(S, a) < Rank(S, b)
<1> DEFINE Under(b) == {c \in S : c < b}
<1>1. \A b \in S : IsFiniteSet(Under(b)) /\ Cardinality(Under(b)) \in Nat
  <2> TAKE b \in S
  <2>1. Under(b) \in SUBSET S
    OBVIOUS
  <2>2. IsFiniteSet(Under(b))
    BY <2>1, FS_Subset
  <2> QED BY <2>2, FS_CardinalityType
<1>2. Cardinality(S) \in Nat
  BY FS_CardinalityType
<1>3. ASSUME NEW b \in S PROVE Cardinality(Under(b)) <= Cardinality(S) - 1
  <2>1. Under(b) \in SUBSET (S \ {b})
    OBVIOUS
  <2>2. IsFiniteSet(S \ {b}) /\ Cardinality(S \ {b}) = Cardinality(S) - 1
    BY FS_RemoveElement
  <2>3. Cardinality(Under(b)) <= Cardinality(S \ {b})
    BY <2>1, <2>2, FS_Subset
  <2> QED BY <2>2, <2>3
<1>4. ASSUME NEW a \in S, NEW b \in S, a < b PROVE Cardinality(Under(a)) < Cardinality(Under(b))
  <2>0. a \in Nat /\ b \in Nat /\ \A c \in S : c \in Nat
    OBVIOUS
  <2>1. a \notin Under(a) /\ Under(a) \cup {a} \in SUBSET Under(b)
    <3>1. \A c \in S : c < a => c < b
      BY <1>4, <2>0
    <3>2. ~(a < a)
      BY <2>0
    <3> QED BY <1>4, <3>1, <3>2, Zenon
  <2>2. Cardinality(Under(a) \cup {a}) = Cardinality(Under(a)) + 1
    BY <1>1, <2>1, FS_AddElement
  <2>3. Cardinality(Under(a) \cup {a}) <= Cardinality(Under(b))
    BY <1>1, <2>1, FS_Subset
  <2> QED BY <1>1, <2>2, <2>3
<1> QED
  BY <1>1, <1>2, <1>3, <1>4 DEF Rank

\* Where two enumerations agree so far, neither is ahead of the other.
LEMMA NotLater ==
    ASSUME NEW S \in SUBSET Nat, NEW t, NEW u, Enumerates(t, S), Enumerates(u, S),
           NEW i \in 1 .. Len(t), \A k \in 1 .. i - 1 : k <= Len(u) /\ t[k] = u[k]
    PROVE  i <= Len(u) /\ u[i] <= t[i]
<1>1. /\ Len(t) \in Nat /\ Len(u) \in Nat
      /\ \A k \in 1 .. Len(t) : t[k] \in S
      /\ \A k \in 1 .. Len(u) : u[k] \in S
      /\ S \subseteq Nat
  BY DEF Enumerates
<1>2. PICK j \in 1 .. Len(u) : u[j] = t[i]
  BY <1>1 DEF Enumerates
<1>3. j >= i
  <2> SUFFICES ASSUME j < i PROVE FALSE
    BY <1>1
  <2>1. j \in 1 .. i - 1 /\ j \in 1 .. Len(t)
    BY <1>1
  <2>2. t[j] = u[j] /\ t[j] < t[i] /\ t[i] \in Nat
    BY <1>1, <2>1 DEF Enumerates
  <2> QED BY <1>2, <2>2
<1>4. i <= Len(u) /\ (i = j \/ u[i] < u[j])
  BY <1>1, <1>3 DEF Enumerates
<1>5. u[i] \in Nat /\ t[i] \in Nat /\ u[j] = t[i]
  <2>1. i \in 1 .. Len(u) /\ i \in 1 .. Len(t)
    BY <1>1, <1>4
  <2>2. u[i] \in S /\ t[i] \in S
    BY <1>1, <2>1
  <2> QED BY <1>2, <2>2
<1> QED
  BY <1>4, <1>5

\* A set has one ascending enumeration.
LEMMA EnumerationIsUnique ==
    ASSUME NEW S \in SUBSET Nat, NEW t, NEW u, Enumerates(t, S), Enumerates(u, S)
    PROVE  t = u
<1>1. /\ Len(t) \in Nat /\ Len(u) \in Nat
      /\ t \in Seq(S) /\ u \in Seq(S)
      /\ \A k \in 1 .. Len(t) : t[k] \in Nat
      /\ \A k \in 1 .. Len(u) : u[k] \in Nat
  <2>1. t \in Seq(S) /\ u \in Seq(S)
    BY DEF Enumerates
  <2>2. \A v \in Seq(S) : Len(v) \in Nat /\ \A k \in 1 .. Len(v) : v[k] \in S
    OBVIOUS
  <2> QED BY <2>1, <2>2
<1> DEFINE Same(i) == i <= Len(t) /\ i <= Len(u) /\ t[i] = u[i]
           Bad == {i \in Nat : i # 0 /\ (i <= Len(t) \/ i <= Len(u)) /\ ~Same(i)}
<1>2. Bad = {}
  <2> SUFFICES ASSUME Bad # {} PROVE FALSE
    OBVIOUS
  <2>1. PICK i \in Bad : \A k \in Bad : i <= k
    BY MinOfNat
  <2>2. \A k \in 1 .. i - 1 : Same(k)
    <3> TAKE k \in 1 .. i - 1
    <3>1. k \notin Bad /\ k \in Nat /\ k # 0 /\ k <= i
      BY <2>1
    <3> QED BY <1>1, <2>1, <3>1
  <2>3. i <= Len(t) => i <= Len(u) /\ u[i] <= t[i]
    <3> SUFFICES ASSUME i <= Len(t) PROVE i <= Len(u) /\ u[i] <= t[i]
      OBVIOUS
    <3>1. i \in 1 .. Len(t) /\ \A k \in 1 .. i - 1 : k <= Len(u) /\ t[k] = u[k]
      BY <1>1, <2>1, <2>2
    <3> QED BY <3>1, NotLater, Zenon
  <2>4. i <= Len(u) => i <= Len(t) /\ t[i] <= u[i]
    <3> SUFFICES ASSUME i <= Len(u) PROVE i <= Len(t) /\ t[i] <= u[i]
      OBVIOUS
    <3>1. i \in 1 .. Len(u) /\ \A k \in 1 .. i - 1 : k <= Len(t) /\ u[k] = t[k]
      BY <1>1, <2>1, <2>2
    <3> QED BY <3>1, NotLater, Zenon
  <2> QED BY <1>1, <2>1, <2>3, <2>4
<1>3. \A i \in 1 .. Len(t) : Same(i)
  BY <1>1, <1>2
<1>4. \A i \in 1 .. Len(u) : Same(i)
  BY <1>1, <1>2
<1>5. Len(t) = Len(u)
  BY <1>1, <1>3, <1>4
<1> QED
  BY <1>1, <1>3, <1>5

-----------------------------------------------------------------------------
(* The last element of a sequence *)

\* The last element of a sequence and what is before it.
LEMMA FrontOf ==
    ASSUME NEW T, NEW s \in Seq(T), s # <<>>
    PROVE  /\ Len(s) \in Nat \ {0} /\ Last(s) = s[Len(s)] /\ Last(s) \in T
           /\ Front(s) \in Seq(T) /\ Len(Front(s)) = Len(s) - 1
           /\ \A i \in 1 .. Len(s) - 1 : Front(s)[i] = s[i]
  BY DEF Front, Last

\* Another state of the innermost call.
LEMMA ReplaceTop ==
    ASSUME NEW T, NEW s \in Seq(T), s # <<>>, NEW g \in T
    PROVE  /\ Append(Front(s), g) \in Seq(T) /\ Len(Append(Front(s), g)) = Len(s)
           /\ \A i \in 1 .. Len(s) : Append(Front(s), g)[i] = IF i = Len(s) THEN g ELSE s[i]
<1>1. /\ Len(s) \in Nat \ {0}
      /\ Front(s) \in Seq(T) /\ Len(Front(s)) = Len(s) - 1
      /\ \A i \in 1 .. Len(s) - 1 : Front(s)[i] = s[i]
  BY FrontOf
<1> DEFINE u == Front(s)
<1> HIDE DEF u
<1>2. Append(u, g) \in Seq(T) /\ Len(Append(u, g)) = Len(u) + 1
  BY <1>1 DEF u
<1>3. \A i \in 1 .. Len(u) + 1 : Append(u, g)[i] = IF i = Len(u) + 1 THEN g ELSE u[i]
  BY <1>1 DEF u
<1> QED
  BY <1>1, <1>2, <1>3 DEF u

-----------------------------------------------------------------------------
(* Recursion over a sequence *)

\* f[n] is what the first n of L steps make of a base.
Iterates(f, A, L, base, step) ==
    f \in [0 .. L -> A] /\ f[0] = base /\ \A n \in 1 .. L : f[n] = step[n][f[n - 1]]

\* A step for each element of a sequence can be iterated over it.
LEMMA Iterated ==
    ASSUME NEW A, NEW L \in Nat, NEW base \in A, NEW step \in [1 .. L -> [A -> A]]
    PROVE  \E f : Iterates(f, A, L, base, step)
<1> DEFINE Defined(f, n) == f[0] = base /\ \A k \in 1 .. n : f[k] = step[k][f[k - 1]]
           S == {n \in 0 .. L : \E f \in [0 .. L -> A] : Defined(f, n)}
<1>1. 0 \in S
  <2> DEFINE f == [k \in 0 .. L |-> base]
  <2>1. f \in [0 .. L -> A] /\ Defined(f, 0) /\ 0 \in 0 .. L
    OBVIOUS
  <2> HIDE DEF f, Defined
  <2> QED BY <2>1
<1>2. ASSUME NEW n \in 0 .. L - 1, n \in S PROVE n + 1 \in S
  <2>1. PICK f \in [0 .. L -> A] : Defined(f, n)
    BY <1>2
  <2> DEFINE g == [f EXCEPT ![n + 1] = step[n + 1][f[n]]]
  <2>2. n + 1 \in 1 .. L /\ f[n] \in A /\ step[n + 1][f[n]] \in A
    OBVIOUS
  <2>3. /\ g \in [0 .. L -> A] /\ g[n + 1] = step[n + 1][f[n]]
        /\ \A k \in 0 .. n : g[k] = f[k]
    BY <2>2
  <2> HIDE DEF g
  <2>4. Defined(g, n + 1)
    <3>1. g[0] = base
      BY <2>1, <2>3
    <3>2. ASSUME NEW k \in 1 .. n + 1 PROVE g[k] = step[k][g[k - 1]]
      <4>1. CASE k = n + 1
        BY <2>3, <4>1
      <4>2. CASE k \in 1 .. n
        <5>1. g[k] = f[k] /\ g[k - 1] = f[k - 1] /\ f[k] = step[k][f[k - 1]]
          BY <2>1, <2>3, <4>2
        <5> QED BY <5>1
      <4> QED BY <4>1, <4>2
    <3> QED BY <3>1, <3>2
  <2>5. n + 1 \in 0 .. L
    OBVIOUS
  <2> HIDE DEF Defined
  <2> QED BY <2>3, <2>4, <2>5
<1>3. L \in S
  <2> HIDE DEF S
  <2>1. \A n \in 0 .. L : n \in S
    BY <1>1, <1>2, Upward, Zenon
  <2> QED BY <2>1
<1> QED
  BY <1>3 DEF Iterates

\* The sequence of sequences, concatenated one after the other.
LEMMA Flattened ==
    ASSUME NEW T, NEW seqs \in Seq(Seq(T))
    PROVE  \E f \in [0 .. Len(seqs) -> Seq(T)] :
              /\ f[0] = <<>> /\ FlattenSeq(seqs) = f[Len(seqs)]
              /\ \A n \in 1 .. Len(seqs) : f[n] = f[n - 1] \o seqs[n]
<1> DEFINE L == Len(seqs)
           Step(h, i) == IF i = 1 THEN seqs[i] ELSE h[i - 1] \o seqs[i]
<1>0. L \in Nat /\ (\A n \in 1 .. L : seqs[n] \in Seq(T)) /\ <<>> \in Seq(T)
  OBVIOUS
<1>1. CASE L = 0
  <2>1. seqs = <<>> /\ FlattenSeq(seqs) = seqs
    BY <1>1 DEF FlattenSeq
  <2> DEFINE f == [n \in 0 .. L |-> <<>>]
  <2>2. f \in [0 .. L -> Seq(T)] /\ f[0] = <<>> /\ f[L] = <<>>
    BY <1>0
  <2>3. 1 .. L = {}
    BY <1>1
  <2> HIDE DEF f
  <2> QED BY <2>1, <2>2, <2>3
<1>2. CASE L # 0
  <2> DEFINE step == [n \in 1 .. L |-> [s \in Seq(T) |-> s \o seqs[n]]]
  <2>1. step \in [1 .. L -> [Seq(T) -> Seq(T)]]
    BY <1>0
  <2>2. PICK f \in [0 .. L -> Seq(T)] : f[0] = <<>> /\ \A n \in 1 .. L : f[n] = step[n][f[n - 1]]
    <3> DEFINE A == Seq(T)
               none == <<>>
    <3>1. L \in Nat
      BY <1>0
    <3>2. none \in A
      OBVIOUS
    <3>3. step \in [1 .. L -> [A -> A]]
      BY <2>1
    <3> HIDE DEF step, L, A, none
    <3>4. \E f : Iterates(f, A, L, none, step)
      BY <3>1, <3>2, <3>3, Iterated, Zenon
    <3> QED BY <3>4 DEF A, none, Iterates
  <2>3. \A n \in 1 .. L : f[n] = f[n - 1] \o seqs[n] /\ f[n] \in Seq(T)
    <3> TAKE n \in 1 .. L
    <3>1. n - 1 \in 0 .. L /\ n \in 0 .. L
      BY <1>0
    <3>2. f[n - 1] \in Seq(T) /\ f[n] \in Seq(T)
      BY <3>1
    <3>3. step[n] = [s \in Seq(T) |-> s \o seqs[n]]
      OBVIOUS
    <3> QED BY <2>2, <3>2, <3>3
  <2>4. f[1] = seqs[1]
    <3>1. 1 \in 1 .. L
      BY <1>0, <1>2
    <3>2. f[1] = f[0] \o seqs[1] /\ seqs[1] \in Seq(T)
      BY <1>0, <2>3, <3>1, 1 - 1 = 0, Zenon
    <3> QED BY <2>2, <3>2
  <2> DEFINE g == [n \in 1 .. L |-> f[n]]
  <2>5. g = [n \in 1 .. L |-> Step(g, n)]
    <3>1. ASSUME NEW n \in 1 .. L PROVE g[n] = Step(g, n)
      <4>1. CASE n = 1
        BY <2>4, <4>1
      <4>2. CASE n # 1
        <5>1. n - 1 \in 1 .. L
          BY <1>0, <4>2
        <5> QED BY <2>3, <4>2, <5>1
      <4> QED BY <4>1, <4>2
    <3> QED BY <3>1
  <2> DEFINE h == CHOOSE x : x = [n \in 1 .. L |-> Step(x, n)]
  <2>6. h = [n \in 1 .. L |-> Step(h, n)]
    <3> HIDE DEF g, Step
    <3> QED BY <2>5
  <2>7. FlattenSeq(seqs) = h[L]
    BY <1>2 DEF FlattenSeq
  <2> HIDE DEF h
  <2> DEFINE S == {n \in 0 .. L : n # 0 => h[n] = f[n]}
  <2>8. 0 \in S
    BY <1>0
  <2>9. ASSUME NEW n \in 0 .. L - 1, n \in S PROVE n + 1 \in S
    <3> DEFINE m == n + 1
    <3>1. m \in 1 .. L /\ m \in 0 .. L /\ m - 1 = n /\ (m = 1 <=> n = 0)
      BY <1>0
    <3> HIDE DEF m
    <3>2. h[m] = Step(h, m)
      BY <2>6, <3>1
    <3>3. CASE n = 0
      BY <2>4, <3>1, <3>2, <3>3 DEF m
    <3>4. CASE n # 0
      <4>1. h[m - 1] = f[m - 1]
        BY <2>9, <3>1, <3>4
      <4>2. f[m] = f[m - 1] \o seqs[m]
        BY <2>3, <3>1, Zenon
      <4>3. h[m] = h[m - 1] \o seqs[m]
        BY <3>1, <3>2, <3>4, Zenon
      <4> QED BY <3>1, <4>1, <4>2, <4>3 DEF m
    <3> QED BY <3>3, <3>4
  <2>10. \A n \in 0 .. L : n \in S
    <3> HIDE DEF S, L
    <3> QED BY <1>0, <2>8, <2>9, Upward, Zenon
  <2>11. h[L] = f[L]
    BY <1>0, <1>2, <2>10
  <2> QED BY <2>2, <2>3, <2>7, <2>11
<1> QED
  BY <1>1, <1>2
=============================================================================
