------------------------------- MODULE ListFacts -------------------------------
(***************************************************************************)
(* Lemmas about lists. What a recursive function computes is shown by the    *)
(* least number at which it would fail.                                      *)
(***************************************************************************)
EXTENDS Lists, SequenceTheorems, WellFoundedInduction, TLAPS

\* A set of naturals has a least element.
LEMMA LeastNatural ==
  ASSUME NEW T, T \subseteq Nat, T # {}
  PROVE  \E n \in T : \A m \in T : n <= m
<1> DEFINE R == {s \in Nat \X Nat : s[1] < s[2]}
<1>1. IsWellFoundedOn(R, Nat)
  BY NatLessThanWellFounded DEF OpToRel
<1>2. \E n \in T : \A m \in T : <<m, n>> \notin R
  <2> HIDE DEF R
  <2> QED
    BY <1>1, WFMin
<1>3. PICK n \in T : \A m \in T : <<m, n>> \notin R
  BY <1>2
<1>4. ASSUME NEW m \in T PROVE n <= m
  <2>1. ~(m < n)
    BY <1>3
  <2> QED
    BY <2>1
<1> QED
  BY <1>4

\* Induction up to a bound: a set that has 0, and with each number below the bound
\* the next one, has all up to it.
LEMMA UpTo ==
  ASSUME NEW n \in Nat, NEW T, 0 \in T,
         \A i \in 0 .. n : i # n /\ i \in T => i + 1 \in T
  PROVE  0 .. n \subseteq T
<1> SUFFICES ASSUME (0 .. n) \ T # {} PROVE FALSE
  OBVIOUS
<1>1. (0 .. n) \ T \subseteq Nat
  OBVIOUS
<1>2. PICK m \in (0 .. n) \ T : \A k \in (0 .. n) \ T : m <= k
  BY <1>1, LeastNatural
<1>3. m # 0 /\ m - 1 \in 0 .. n /\ m - 1 # n
  OBVIOUS
<1>4. m - 1 \in T
  BY <1>2, <1>3
<1>5. (m - 1) + 1 \in T
  BY <1>3, <1>4
<1> QED
  BY <1>5

\* One step of Without.
Keep(q, D, f, i) ==
  IF i = 0 THEN <<>> ELSE IF q[i] \in D THEN f[i - 1] ELSE Append(f[i - 1], q[i])

LEMMA KeepType ==
  ASSUME NEW S, NEW q \in Seq(S), NEW D, NEW n \in 0 .. Len(q), NEW f \in [0 .. n -> Seq(S)],
         NEW i \in 0 .. Len(q), i <= n + 1
  PROVE  Keep(q, D, f, i) \in Seq(S)
<1>1. CASE i = 0
  BY <1>1 DEF Keep
<1>2. CASE i # 0
  <2>1. f[i - 1] \in Seq(S) /\ q[i] \in S
    BY <1>2
  <2> QED
    BY <1>2, <2>1 DEF Keep
<1> QED
  BY <1>1, <1>2

Keeps(q, D, f, n) == \A i \in 0 .. n : f[i] = Keep(q, D, f, i)

LEMMA KeptExists ==
  ASSUME NEW S, NEW q \in Seq(S), NEW D
  PROVE  \E f \in [0 .. Len(q) -> Seq(S)] : Keeps(q, D, f, Len(q))
<1> DEFINE T == {n \in 0 .. Len(q) : \E f \in [0 .. n -> Seq(S)] : Keeps(q, D, f, n)}
<1>1. 0 \in T
  <2> DEFINE f == [i \in 0 .. 0 |-> <<>>]
  <2>1. f \in [0 .. 0 -> Seq(S)]
    OBVIOUS
  <2>2. Keeps(q, D, f, 0)
    BY DEF Keeps, Keep
  <2> QED
    BY <2>1, <2>2
<1>2. ASSUME NEW n \in 0 .. Len(q), n # Len(q), n \in T PROVE n + 1 \in T
  <2>1. PICK f \in [0 .. n -> Seq(S)] : Keeps(q, D, f, n)
    BY <1>2
  <2> DEFINE g == [i \in 0 .. n + 1 |-> IF i = n + 1 THEN Keep(q, D, f, i) ELSE f[i]]
  <2>0. n + 1 \in 0 .. Len(q)
    BY <1>2
  <2>2. Keep(q, D, f, n + 1) \in Seq(S)
    BY <2>0, KeepType
  <2>3. g \in [0 .. n + 1 -> Seq(S)]
    BY <2>2
  <2>4. ASSUME NEW i \in 0 .. n + 1 PROVE g[i] = Keep(q, D, g, i)
    <3>1. i # 0 => g[i - 1] = f[i - 1]
      OBVIOUS
    <3>2. Keep(q, D, f, i) = Keep(q, D, g, i)
      BY <3>1 DEF Keep
    <3>3. g[i] = Keep(q, D, f, i)
      BY <2>1 DEF Keeps
    <3> QED
      BY <3>2, <3>3
  <2> HIDE DEF g
  <2>5. Keeps(q, D, g, n + 1)
    BY <2>4 DEF Keeps
  <2> QED
    BY <2>0, <2>3, <2>5
<1>3. 0 .. Len(q) \subseteq T
  <2> HIDE DEF T
  <2> QED
    BY <1>1, <1>2, UpTo
<1> QED
  BY <1>3

\* The function Without computes with.
LEMMA KeptFunction ==
  ASSUME NEW S, NEW q \in Seq(S), NEW D
  PROVE  \E f \in [0 .. Len(q) -> Seq(S)] : Keeps(q, D, f, Len(q)) /\ Without(q, D) = f[Len(q)]
<1> DEFINE F == CHOOSE f : f = [i \in 0 .. Len(q) |->
                  IF i = 0 THEN <<>>
                  ELSE IF q[i] \in D THEN f[i - 1] ELSE Append(f[i - 1], q[i])]
<1>1. PICK f \in [0 .. Len(q) -> Seq(S)] : Keeps(q, D, f, Len(q))
  BY KeptExists
<1>2. f = [i \in 0 .. Len(q) |->
             IF i = 0 THEN <<>>
             ELSE IF q[i] \in D THEN f[i - 1] ELSE Append(f[i - 1], q[i])]
  BY <1>1 DEF Keeps, Keep
<1>3. F = [i \in 0 .. Len(q) |->
             IF i = 0 THEN <<>>
             ELSE IF q[i] \in D THEN F[i - 1] ELSE Append(F[i - 1], q[i])]
  BY <1>2, Zenon
<1>4. Without(q, D) = F[Len(q)]
  BY DEF Without
<1> HIDE DEF F
<1>5. Keeps(q, D, F, Len(q))
  BY <1>3 DEF Keeps, Keep
<1>6. F \in [0 .. Len(q) -> Seq(S)]
  <2> DEFINE T == {i \in 0 .. Len(q) : F[i] \in Seq(S)}
  <2>1. 0 \in T
    <3>1. F[0] = <<>>
      BY <1>5 DEF Keeps, Keep
    <3> QED
      BY <3>1
  <2>2. ASSUME NEW i \in 0 .. Len(q), i # Len(q), i \in T PROVE i + 1 \in T
    <3>1. i + 1 \in 0 .. Len(q) /\ q[i + 1] \in S /\ F[i] \in Seq(S)
      BY <2>2
    <3>2. F[i + 1] = Keep(q, D, F, i + 1)
      BY <1>5, <3>1 DEF Keeps
    <3>3. F[i + 1] = IF q[i + 1] \in D THEN F[i] ELSE Append(F[i], q[i + 1])
      BY <3>2 DEF Keep
    <3>4. Append(F[i], q[i + 1]) \in Seq(S)
      BY <3>1, AppendProperties
    <3> QED
      BY <3>1, <3>3, <3>4
  <2>3. 0 .. Len(q) \subseteq T
    <3> HIDE DEF T
    <3>1. \A i \in 0 .. Len(q) : i # Len(q) /\ i \in T => i + 1 \in T
      BY <2>2
    <3>2. Len(q) \in Nat
      OBVIOUS
    <3> QED
      BY <2>1, <3>1, <3>2, UpTo
  <2>4. \A i \in 0 .. Len(q) : F[i] \in Seq(S)
    BY <2>3
  <2> QED
    BY <1>3, <2>4
<1> QED
  BY <1>4, <1>5, <1>6

Elements(q) == {q[i] : i \in 1 .. Len(q)}
Distinct(q) == \A i, j \in 1 .. Len(q) : q[i] = q[j] => i = j

LEMMA AppendElements ==
  ASSUME NEW S, NEW q \in Seq(S), NEW x \in S
  PROVE  /\ Append(q, x) \in Seq(S)
         /\ Elements(Append(q, x)) = Elements(q) \cup {x}
         /\ Distinct(q) /\ x \notin Elements(q) => Distinct(Append(q, x))
<1> DEFINE a == Append(q, x)
<1>0. /\ Len(a) = Len(q) + 1
      /\ a \in Seq(S)
      /\ a[Len(q) + 1] = x
  OBVIOUS
<1>1. \A i \in 1 .. Len(q) : a[i] = q[i]
  OBVIOUS
<1> HIDE DEF a
<1>2. 1 .. Len(a) = (1 .. Len(q)) \cup {Len(q) + 1}
  BY <1>0
<1>3. Elements(a) = Elements(q) \cup {x}
  BY <1>0, <1>1, <1>2 DEF Elements
<1>4. ASSUME Distinct(q), x \notin Elements(q), NEW i \in 1 .. Len(a), NEW j \in 1 .. Len(a),
             a[i] = a[j]
      PROVE  i = j
  BY <1>0, <1>1, <1>2, <1>4 DEF Elements, Distinct
<1> QED
  BY <1>0, <1>3, <1>4 DEF Distinct, a

\* What is left of a list.
LEMMA WithoutFacts ==
  ASSUME NEW S, NEW q \in Seq(S), NEW D
  PROVE  /\ Without(q, D) \in Seq(S)
         /\ Elements(Without(q, D)) = Elements(q) \ D
         /\ Distinct(q) => Distinct(Without(q, D))
<1>1. PICK f \in [0 .. Len(q) -> Seq(S)] :
        Keeps(q, D, f, Len(q)) /\ Without(q, D) = f[Len(q)]
  BY KeptFunction
<1> DEFINE E(i) == {q[j] : j \in 1 .. i}
           P(i) == /\ Elements(f[i]) = E(i) \ D
                   /\ Distinct(q) => Distinct(f[i])
           T == {i \in 0 .. Len(q) : P(i)}
<1>2. 0 \in T
  <2>1. f[0] = <<>> /\ Len(f[0]) = 0
    BY <1>1 DEF Keeps, Keep
  <2> QED
    BY <2>1 DEF Elements, Distinct
<1>3. ASSUME NEW i \in 0 .. Len(q), i # Len(q), i \in T PROVE i + 1 \in T
  <2>1. /\ f[i] \in Seq(S) /\ q[i + 1] \in S
        /\ f[i + 1] = IF q[i + 1] \in D THEN f[i] ELSE Append(f[i], q[i + 1])
    <3>1. f[i + 1] = Keep(q, D, f, i + 1)
      BY <1>1, <1>3 DEF Keeps
    <3> QED
      BY <1>3, <3>1 DEF Keep
  <2>2. E(i + 1) = E(i) \cup {q[i + 1]}
    BY <1>3
  <2>3. Elements(f[i]) = E(i) \ D /\ (Distinct(q) => Distinct(f[i]))
    BY <1>3
  <2>4. Distinct(q) => q[i + 1] \notin E(i)
    BY <1>3 DEF Distinct
  <2> HIDE DEF E
  <2>5. CASE q[i + 1] \in D
    BY <2>1, <2>2, <2>3, <2>5, <1>3
  <2>6. CASE q[i + 1] \notin D
    <3>1. /\ Elements(f[i + 1]) = Elements(f[i]) \cup {q[i + 1]}
          /\ Distinct(f[i]) /\ q[i + 1] \notin Elements(f[i]) => Distinct(f[i + 1])
      BY <2>1, <2>6, AppendElements
    <3> QED
      BY <1>3, <2>2, <2>3, <2>4, <2>6, <3>1
  <2> QED
    BY <2>5, <2>6
<1>4. 0 .. Len(q) \subseteq T
  <2> HIDE DEF T
  <2>1. \A i \in 0 .. Len(q) : i # Len(q) /\ i \in T => i + 1 \in T
    BY <1>3
  <2>2. Len(q) \in Nat
    OBVIOUS
  <2> QED
    BY <1>2, <2>1, <2>2, UpTo
<1>5. P(Len(q))
  BY <1>4
<1> QED
  BY <1>1, <1>5 DEF Elements
================================================================================
