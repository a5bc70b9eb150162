------------------------ MODULE SettlementAmountsProofs ------------------------
(***************************************************************************)
(* Proofs about SettlementAmounts, for any number of suppliers, items and  *)
(* groups and for any amounts.  Loops over sequences are functions of the  *)
(* length of the prefix seen; Climb is induction over it.                  *)
(***************************************************************************)
EXTENDS SettlementAmounts, SequenceTheorems, WellFoundedInduction, TLAPS

(* What holds of the empty prefix and of the next longer one holds of all. *)
LEMMA Climb ==
  ASSUME NEW n \in Nat, NEW P \in SUBSET (0..n), 0 \in P,
         \A i \in P : i < n => i + 1 \in P
  PROVE  P = 0..n
<1> DEFINE R == OpToRel(<, Nat)
<1>1. IsWellFoundedOn(R, Nat)
  BY NatLessThanWellFounded, Zenon
<1>2. \A x, y \in Nat : x < y => <<x, y>> \in R
  BY Zenon DEF OpToRel
<1> HIDE DEF R
<1> SUFFICES ASSUME (0..n) \ P # {} PROVE FALSE
  OBVIOUS
<1>3. PICK m \in (0..n) \ P : \A y \in (0..n) \ P : ~(<<y, m>> \in R)
  <2>1. (0..n) \ P \subseteq Nat
    OBVIOUS
  <2> QED
    BY <1>1, <2>1, WFMin
<1>4. \A y \in (0..n) \ P : ~(y < m)
  <2>1. m \in Nat /\ \A y \in (0..n) \ P : y \in Nat
    OBVIOUS
  <2> QED
    BY <1>2, <1>3, <2>1, Zenon
<1>5. m - 1 \in P
  BY <1>4
<1> QED
  BY <1>3, <1>5

(* The value of a loop of n rounds.                                        *)
Loop(f, S, base, n, step) ==
  f \in [0..n -> S] /\ f[0] = base /\ \A i \in 1..n : f[i] = step[i][f[i - 1]]

LEMMA Recursion ==
  ASSUME NEW S, NEW base \in S, NEW n \in Nat, NEW step \in [1..n -> [S -> S]]
  PROVE  \E f : Loop(f, S, base, n, step)
<1> DEFINE Value(f, m) == f[0] = base /\ \A i \in 1..m : f[i] = step[i][f[i - 1]]
           P == {m \in 0..n : \E f \in [0..m -> S] : Value(f, m)}
<1>1. 0 \in P
  <2>1. [i \in 0..0 |-> base] \in [0..0 -> S] /\ Value([i \in 0..0 |-> base], 0)
    OBVIOUS
  <2>2. 0 \in 0..n
    OBVIOUS
  <2> QED
    BY <2>1, <2>2, Zenon
<1>2. ASSUME NEW m \in P, m < n PROVE m + 1 \in P
  <2>1. PICK f \in [0..m -> S] : Value(f, m)
    BY <1>2
  <2> DEFINE g == [i \in 0..m + 1 |-> IF i <= m THEN f[i] ELSE step[m + 1][f[m]]]
  <2>2. m \in Nat /\ m + 1 \in 1..n /\ f[m] \in S
    BY <1>2
  <2>3. step[m + 1][f[m]] \in S
    BY <2>2
  <2>4. g \in [0..m + 1 -> S]
    BY <2>2, <2>3
  <2>5. Value(g, m + 1)
    BY <2>1, <2>2
  <2>6. m + 1 \in 0..n
    BY <2>2
  <2> QED
    BY <2>4, <2>5, <2>6, Zenon
<1>3. P = 0..n
  <2> HIDE DEF P
  <2>1. P \in SUBSET (0..n)
    BY DEF P
  <2> QED
    BY <1>1, <1>2, <2>1, Climb
<1>4. n \in P
  BY <1>3
<1> QED
  BY <1>4 DEF Loop

--------------------------------------------------------------------------------
(* Sums.                                                                   *)

LEMMA SumSteps ==
  ASSUME NEW v \in Seq(Int)
  PROVE  /\ PartialSums(v) \in [0..Len(v) -> Int]
         /\ PartialSums(v)[0] = 0
         /\ \A i \in 1..Len(v) : PartialSums(v)[i] = PartialSums(v)[i - 1] + v[i]
         /\ AmtSum(v) \in Int
<1> DEFINE n == Len(v)
           Value(f) == f = [i \in 0..n |-> IF i = 0 THEN 0 ELSE f[i - 1] + v[i]]
           step == [i \in 1..n |-> [x \in Int |-> x + v[i]]]
<1>1. n \in Nat /\ \A i \in 1..n : v[i] \in Int
  OBVIOUS
<1>2. step \in [1..n -> [Int -> Int]]
  BY <1>1
<1>3. PICK f : Loop(f, Int, 0, n, step)
  <2> HIDE DEF step, n
  <2>1. 0 \in Int
    OBVIOUS
  <2> QED
    BY <1>1, <1>2, <2>1, Recursion
<1>4. Value(f)
  <2>1. ASSUME NEW i \in 1..n PROVE f[i] = f[i - 1] + v[i]
    <3>1. i - 1 \in 0..n
      BY <1>1
    <3>2. f[i - 1] \in Int
      BY <1>3, <3>1 DEF Loop
    <3> QED
      BY <1>3, <3>2 DEF Loop
  <2> QED
    BY <1>1, <1>3, <2>1 DEF Loop
<1>5. Value(PartialSums(v))
  BY <1>4 DEF PartialSums
<1> DEFINE s == PartialSums(v)
<1>6. s[0] = 0 /\ \A i \in 1..n : s[i] = s[i - 1] + v[i]
  <2> HIDE DEF s
  <2>1. Value(s)
    BY <1>5 DEF s
  <2> QED
    BY <1>1, <2>1
<1>7. \A i \in 0..n : s[i] \in Int
  <2> DEFINE P == {i \in 0..n : s[i] \in Int}
  <2> HIDE DEF s
  <2>1. 0 \in P /\ \A i \in P : i < n => i + 1 \in P
    BY <1>1, <1>6
  <2>2. P \in SUBSET (0..n)
    OBVIOUS
  <2>3. P = 0..n
    <3> HIDE DEF P
    <3> QED
      BY <1>1, <2>1, <2>2, Climb
  <2> QED
    BY <2>3
<1>8. s \in [0..n -> Int]
  BY <1>5, <1>7
<1> QED
  BY <1>1, <1>6, <1>8 DEF AmtSum

LEMMA AddBounds ==
  ASSUME NEW a \in Int, NEW b \in Int, NEW c \in Int, NEW i \in Int,
         NEW s \in Int, NEW t \in Int, NEW x \in Int, NEW y \in Int,
         a * s - b * t <= i * c, a * x - b * y <= c
  PROVE  a * (s + x) - b * (t + y) <= (i + 1) * c
<1>1. a * (s + x) = a * s + a * x /\ b * (t + y) = b * t + b * y /\ (i + 1) * c = i * c + c
  OBVIOUS
<1> QED
  BY <1>1

(* A relation kept by each member is kept by the sums.                     *)
LEMMA SumWithin ==
  ASSUME NEW v \in Seq(Int), NEW w \in Seq(Int), Len(v) = Len(w),
         NEW a \in Int, NEW b \in Int, NEW c \in Int,
         \A k \in 1..Len(v) : a * v[k] - b * w[k] <= c
  PROVE  a * AmtSum(v) - b * AmtSum(w) <= Len(v) * c
<1> DEFINE s == PartialSums(v)
           t == PartialSums(w)
           n == Len(v)
           P == {i \in 0..n : a * s[i] - b * t[i] <= i * c}
<1>1. /\ n \in Nat
      /\ \A i \in 1..n : v[i] \in Int /\ w[i] \in Int
      /\ s \in [0..n -> Int] /\ t \in [0..n -> Int]
      /\ s[0] = 0 /\ t[0] = 0
      /\ \A i \in 1..n : s[i] = s[i - 1] + v[i] /\ t[i] = t[i - 1] + w[i]
  BY SumSteps
<1> HIDE DEF s, t, n
<1>2. 0 \in P
  BY <1>1
<1>3. ASSUME NEW i \in P, i < n PROVE i + 1 \in P
  <2>1. i \in 0..n /\ i < n /\ a * s[i] - b * t[i] <= i * c
    BY <1>3
  <2>2. i \in Int /\ i \in 0..n /\ i + 1 \in 1..n /\ (i + 1) - 1 = i
    BY <1>1, <2>1
  <2>3. /\ s[i] \in Int /\ t[i] \in Int /\ v[i + 1] \in Int /\ w[i + 1] \in Int
        /\ s[i + 1] = s[i] + v[i + 1] /\ t[i + 1] = t[i] + w[i + 1]
    BY <1>1, <2>2
  <2>4. a * v[i + 1] - b * w[i + 1] <= c
    BY <2>2 DEF n
  <2>5. a * (s[i] + v[i + 1]) - b * (t[i] + w[i + 1]) <= (i + 1) * c
    BY <2>1, <2>2, <2>3, <2>4, AddBounds, Zenon
  <2>6. a * s[i + 1] - b * t[i + 1] <= (i + 1) * c /\ i + 1 \in 0..n
    BY <1>1, <2>2, <2>3, <2>5
  <2> QED
    BY <2>6
<1>4. P = 0..n
  <2>1. P \in SUBSET (0..n)
    OBVIOUS
  <2> HIDE DEF P
  <2> QED
    BY <1>1, <1>2, <1>3, <2>1, Climb
<1>5. n \in P
  <2> HIDE DEF P
  <2> QED
    BY <1>1, <1>4
<1>6. AmtSum(v) = s[n] /\ AmtSum(w) = t[n]
  BY DEF AmtSum, s, t, n
<1> QED
  BY <1>5, <1>6 DEF n

LEMMA SumAtLeast ==
  ASSUME NEW v \in Seq(Int), NEW c \in Int, \A k \in 1..Len(v) : v[k] >= c
  PROVE  AmtSum(v) >= Len(v) * c
<1> DEFINE a == -1
           b == 0
           e == -c
<1>1. /\ a \in Int /\ b \in Int /\ e \in Int /\ Len(v) = Len(v)
      /\ \A k \in 1..Len(v) : a * v[k] - b * v[k] <= e
  <2>1. \A k \in 1..Len(v) : v[k] \in Int
    OBVIOUS
  <2> QED
    BY <2>1
<1> HIDE DEF a, b, e
<1>2. a * AmtSum(v) - b * AmtSum(v) <= Len(v) * e
  BY <1>1, SumWithin, Zenon
<1>3. AmtSum(v) \in Int /\ Len(v) \in Nat
  BY SumSteps
<1> QED
  BY <1>2, <1>3 DEF a, b, e

LEMMA SumZeros ==
  ASSUME NEW v \in Seq(Int), \A k \in 1..Len(v) : v[k] = 0
  PROVE  AmtSum(v) = 0
<1> DEFINE z == 0
           o == 1
<1>1. z \in Int /\ o \in Int /\ Len(v) = Len(v) /\ AmtSum(v) \in Int /\ Len(v) \in Nat
  BY SumSteps
<1>2. /\ \A k \in 1..Len(v) : o * v[k] - z * v[k] <= z
      /\ \A k \in 1..Len(v) : v[k] >= z
  BY DEF o, z
<1> HIDE DEF o, z
<1>3. o * AmtSum(v) - z * AmtSum(v) <= Len(v) * z
  BY <1>1, <1>2, SumWithin, Zenon
<1>4. AmtSum(v) >= Len(v) * z
  BY <1>1, <1>2, SumAtLeast, Zenon
<1> QED
  BY <1>1, <1>3, <1>4 DEF o, z

(* Two sequences that agree up to a length have the same sums up to it.    *)
LEMMA SumPrefix ==
  ASSUME NEW v \in Seq(Int), NEW w \in Seq(Int), NEW m \in 0..Len(v), m <= Len(w),
         \A k \in 1..m : v[k] = w[k]
  PROVE  PartialSums(v)[m] = PartialSums(w)[m]
<1> DEFINE s == PartialSums(v)
           t == PartialSums(w)
           P == {i \in 0..m : s[i] = t[i]}
<1>1. /\ m \in Nat
      /\ s[0] = 0 /\ t[0] = 0
      /\ \A i \in 1..m : s[i] = s[i - 1] + v[i] /\ t[i] = t[i - 1] + w[i]
  BY SumSteps
<1> HIDE DEF s, t
<1>2. 0 \in P
  BY <1>1
<1>3. ASSUME NEW i \in P, i < m PROVE i + 1 \in P
  BY <1>1, <1>3
<1>4. P = 0..m
  <2>1. P \in SUBSET (0..m)
    OBVIOUS
  <2> HIDE DEF P
  <2> QED
    BY <1>1, <1>2, <1>3, <2>1, Climb
<1>5. m \in P
  <2> HIDE DEF P
  <2> QED
    BY <1>1, <1>4
<1> QED
  BY <1>5 DEF s, t

(* A sum of what is not negative is positive if one of it is: the partial  *)
(* sums do not decrease.                                                   *)
LEMMA SumPositive ==
  ASSUME NEW v \in Seq(Int), \A i \in 1..Len(v) : v[i] \in Nat,
         NEW k \in 1..Len(v), v[k] > 0
  PROVE  AmtSum(v) > 0
<1> DEFINE n == Len(v)
           s == PartialSums(v)
           P == {i \in 0..n : s[i] >= 0 /\ (i >= k => s[i] > 0)}
<1>1. /\ n \in Nat /\ k \in 1..n /\ v[k] > 0 /\ \A i \in 1..n : v[i] \in Nat
      /\ s \in [0..n -> Int] /\ s[0] = 0 /\ \A i \in 1..n : s[i] = s[i - 1] + v[i]
  BY SumSteps
<1> HIDE DEF s, n
<1>2. 0 \in P
  BY <1>1
<1>3. ASSUME NEW i \in P, i < n PROVE i + 1 \in P
  <2>1. i \in 0..n /\ s[i] >= 0 /\ (i >= k => s[i] > 0)
    BY <1>3
  <2>2. i + 1 \in 1..n /\ (i + 1) - 1 = i /\ i + 1 \in 0..n
    BY <1>1, <1>3, <2>1
  <2>3. s[i] \in Int /\ v[i + 1] \in Nat /\ s[i + 1] = s[i] + v[i + 1]
    BY <1>1, <2>1, <2>2
  <2>4. s[i + 1] >= 0
    BY <2>1, <2>3
  <2>5. i + 1 >= k => s[i + 1] > 0
    <3>1. CASE i >= k
      BY <2>1, <2>3, <3>1
    <3>2. CASE i + 1 = k
      BY <1>1, <2>1, <2>3, <3>2
    <3> QED
      BY <1>1, <2>1, <3>1, <3>2
  <2> QED
    BY <2>2, <2>4, <2>5
<1>4. n \in P
  <2>1. P \in SUBSET (0..n)
    OBVIOUS
  <2> HIDE DEF P
  <2>2. P = 0..n
    BY <1>1, <1>2, <1>3, <2>1, Climb
  <2> QED
    BY <1>1, <2>2
<1> QED
  BY <1>1, <1>4 DEF AmtSum, s, n

LEMMA SumOfNone == AmtSum(<<>>) = 0
<1>1. <<>> \in Seq(Int) /\ Len(<<>>) = 0
  OBVIOUS
<1> QED
  BY <1>1, SumSteps DEF AmtSum

LEMMA SumAppend ==
  ASSUME NEW v \in Seq(Int), NEW x \in Int
  PROVE  AmtSum(Append(v, x)) = AmtSum(v) + x
<1> DEFINE w == Append(v, x)
           n == Len(v)
<1>1. /\ n \in Nat /\ w \in Seq(Int) /\ Len(w) = n + 1
      /\ w[n + 1] = x /\ \A k \in 1..n : w[k] = v[k]
  OBVIOUS
<1> HIDE DEF w
<1>2. PartialSums(w)[n] = PartialSums(v)[n]
  <2>1. n \in 0..Len(v) /\ n <= Len(w)
    BY <1>1
  <2> QED
    BY <1>1, <2>1, SumPrefix
<1>3. PartialSums(w)[n + 1] = PartialSums(w)[n] + x
  <2>1. \A i \in 1..Len(w) : PartialSums(w)[i] = PartialSums(w)[i - 1] + w[i]
    BY <1>1, SumSteps, Zenon
  <2>2. n + 1 \in 1..Len(w) /\ (n + 1) - 1 = n
    BY <1>1
  <2> QED
    BY <1>1, <2>1, <2>2, Zenon
<1> QED
  BY <1>1, <1>2, <1>3 DEF AmtSum, w

LEMMA SumConcat ==
  ASSUME NEW v \in Seq(Int), NEW w \in Seq(Int)
  PROVE  AmtSum(v \o w) = AmtSum(v) + AmtSum(w)
<1> DEFINE u == v \o w
           n == Len(v)
           m == Len(w)
           s == PartialSums(u)
           t == PartialSums(w)
           P == {i \in 0..m : s[n + i] = AmtSum(v) + t[i]}
<1>1. /\ n \in Nat /\ m \in Nat /\ u \in Seq(Int) /\ Len(u) = n + m
      /\ \A k \in 1..n : u[k] = v[k]
      /\ \A k \in 1..m : u[n + k] = w[k]
  OBVIOUS
<1>2. s[n] = AmtSum(v) /\ AmtSum(v) \in Int
  <2> HIDE DEF u, s
  <2>1. n \in 0..Len(u) /\ n <= Len(v)
    BY <1>1
  <2>2. PartialSums(u)[n] = PartialSums(v)[n]
    BY <1>1, <2>1, SumPrefix
  <2> QED
    BY <2>2, SumSteps DEF AmtSum, s
<1>3. /\ t[0] = 0 /\ \A i \in 1..m : t[i] = t[i - 1] + w[i] /\ w[i] \in Int
      /\ t \in [0..m -> Int]
      /\ \A i \in 1..n + m : s[i] = s[i - 1] + u[i]
  <2> HIDE DEF u
  <2>1. \A i \in 1..Len(u) : s[i] = s[i - 1] + u[i]
    BY <1>1, SumSteps
  <2>2. /\ t[0] = 0 /\ \A i \in 1..m : t[i] = t[i - 1] + w[i]
        /\ t \in [0..m -> Int]
    BY SumSteps
  <2>3. \A i \in 1..m : w[i] \in Int
    OBVIOUS
  <2> QED
    BY <1>1, <2>1, <2>2, <2>3
<1> HIDE DEF s, t, u, n, m
<1>4. 0 \in P
  BY <1>1, <1>2, <1>3
<1>5. ASSUME NEW i \in P, i < m PROVE i + 1 \in P
  <2>1. i \in 0..m /\ s[n + i] = AmtSum(v) + t[i]
    BY <1>5
  <2>2. /\ i \in Nat /\ i + 1 \in 1..m /\ n + (i + 1) \in 1..n + m
        /\ (n + (i + 1)) - 1 = n + i /\ (i + 1) - 1 = i
    BY <1>1, <1>5, <2>1
  <2>3. s[n + (i + 1)] = s[n + i] + w[i + 1] /\ t[i + 1] = t[i] + w[i + 1]
    BY <1>1, <1>3, <2>2
  <2>4. t[i] \in Int /\ w[i + 1] \in Int /\ i + 1 \in 0..m
    BY <1>1, <1>3, <2>1, <2>2
  <2>5. s[n + (i + 1)] = AmtSum(v) + t[i + 1]
    BY <1>2, <2>1, <2>3, <2>4
  <2> QED
    BY <2>4, <2>5
<1>6. m \in P
  <2>1. P \in SUBSET (0..m)
    OBVIOUS
  <2> HIDE DEF P
  <2>2. P = 0..m
    BY <1>1, <1>4, <1>5, <2>1, Climb
  <2> QED
    BY <1>1, <2>2
<1> QED
  BY <1>1, <1>6 DEF AmtSum, s, t, u, n, m

LEMMA SumUpdate ==
  ASSUME NEW v \in Seq(Int), NEW w \in Seq(Int), Len(w) = Len(v), NEW k \in 1..Len(v),
         \A j \in 1..Len(v) : j # k => w[j] = v[j]
  PROVE  AmtSum(w) = AmtSum(v) + (w[k] - v[k])
<1> DEFINE n == Len(v)
           s == PartialSums(v)
           t == PartialSums(w)
           d == w[k] - v[k]
           P == {i \in 0..n : (i < k => t[i] = s[i]) /\ (i >= k => t[i] = s[i] + d)}
<1>1. /\ n \in Nat /\ d \in Int /\ k \in 1..n
      /\ \A i \in 1..n : v[i] \in Int
      /\ s[0] = 0 /\ s \in [0..n -> Int] /\ \A i \in 1..n : s[i] = s[i - 1] + v[i]
      /\ t[0] = 0 /\ \A i \in 1..n : t[i] = t[i - 1] + w[i]
      /\ w[k] = v[k] + d /\ \A i \in 1..n : i # k => w[i] = v[i]
  <2>1. /\ n \in Nat /\ k \in 1..n /\ \A i \in 1..n : v[i] \in Int /\ w[i] \in Int
    OBVIOUS
  <2>2. s[0] = 0 /\ s \in [0..n -> Int] /\ \A i \in 1..n : s[i] = s[i - 1] + v[i]
    BY SumSteps
  <2>3. t[0] = 0 /\ \A i \in 1..n : t[i] = t[i - 1] + w[i]
    BY SumSteps
  <2>4. d \in Int /\ w[k] = v[k] + d /\ \A i \in 1..n : i # k => w[i] = v[i]
    BY <2>1
  <2> QED
    BY <2>1, <2>2, <2>3, <2>4
<1> HIDE DEF s, t, n, d
<1>2. 0 \in P
  <2>1. 0 \in 0..n /\ 0 < k /\ ~(0 >= k)
    <3>1. n \in Nat /\ k \in 1..n
      BY <1>1
    <3> QED
      BY <3>1
  <2>2. t[0] = s[0]
    BY <1>1
  <2> QED
    BY <2>1, <2>2, Zenon
<1>3. ASSUME NEW i \in P, i < n PROVE i + 1 \in P
  <2>1. i \in 0..n /\ (i < k => t[i] = s[i]) /\ (i >= k => t[i] = s[i] + d)
    BY <1>3
  <2>2. i \in Nat /\ i + 1 \in 1..n /\ (i + 1) - 1 = i
    BY <1>1, <1>3, <2>1
  <2>3. /\ s[i + 1] = s[i] + v[i + 1] /\ t[i + 1] = t[i] + w[i + 1]
        /\ i + 1 = k => w[i + 1] = v[i + 1] + d
        /\ i + 1 # k => w[i + 1] = v[i + 1]
    BY <1>1, <2>2
  <2>4. s[i] \in Int /\ v[i + 1] \in Int /\ i + 1 \in 0..n /\ k \in Nat /\ d \in Int
    <3>1. s \in [0..n -> Int] /\ n \in Nat /\ k \in 1..n /\ \A j \in 1..n : v[j] \in Int
      BY <1>1
    <3>2. s[i] \in Int
      BY <2>1, <3>1, Zenon
    <3>3. v[i + 1] \in Int
      BY <2>2, <3>1, Zenon
    <3>4. i + 1 \in 0..n /\ k \in Nat
      BY <2>2, <3>1
    <3> QED
      BY <1>1, <3>2, <3>3, <3>4, Zenon
  <2>5. i + 1 < k => t[i + 1] = s[i + 1]
    BY <2>1, <2>2, <2>3, <2>4
  <2>6. i + 1 >= k => t[i + 1] = s[i + 1] + d
    BY <2>1, <2>2, <2>3, <2>4
  <2> QED
    BY <2>4, <2>5, <2>6
<1>4. n \in P
  <2>1. P \in SUBSET (0..n)
    OBVIOUS
  <2> HIDE DEF P
  <2>2. P = 0..n
    BY <1>1, <1>2, <1>3, <2>1, Climb
  <2> QED
    BY <1>1, <2>2
<1> QED
  BY <1>1, <1>4 DEF AmtSum, s, t, n, d

LEMMA Quotient ==
  ASSUME NEW a \in Int, NEW b \in Nat \ {0}
  PROVE  a \div b \in Int /\ b * (a \div b) <= a /\ a < b * (a \div b) + b
OBVIOUS

LEMMA Cancel ==
  ASSUME NEW e \in Nat \ {0}, NEW x \in Int, NEW y \in Int, e * x < e * y
  PROVE  x < y
<1> SUFFICES ASSUME x >= y PROVE e * x >= e * y
  OBVIOUS
<1> DEFINE d == x - y
<1>1. d \in Nat /\ x = y + d
  OBVIOUS
<1> HIDE DEF d
<1>2. e * (y + d) = e * y + e * d /\ e * d >= 0
  BY <1>1
<1> QED
  BY <1>1, <1>2

(* A rounded quotient is within half a cent; it is not negative unless the *)
(* quotient is, and rounding a half up never gives less than down.         *)
LEMMA RoundedWithin ==
  ASSUME NEW num \in Int, NEW den \in Nat \ {0}, NEW up \in BOOLEAN
  PROVE  /\ Rounded(num, den, up) \in Int
         /\ (2 * den) * Rounded(num, den, up) - 2 * num <= den
         /\ 2 * num - (2 * den) * Rounded(num, den, up) <= den
         /\ num >= 0 => Rounded(num, den, up) >= 0
         /\ Rounded(num, den, up) <= Rounded(num, den, TRUE)
         /\ Rounded(num, den, TRUE) <= Rounded(num, den, up) + 1
<1> DEFINE e == 2 * den
           q == (2 * num + den) \div e
           r == (den - 2 * num) \div e
<1>1. /\ q \in Int /\ e * q <= 2 * num + den /\ 2 * num + den < e * q + e
      /\ r \in Int /\ e * r <= den - 2 * num /\ den - 2 * num < e * r + e
  <2>1. e \in Nat \ {0} /\ 2 * num + den \in Int /\ den - 2 * num \in Int
    OBVIOUS
  <2> HIDE DEF e
  <2> QED
    BY <2>1, Quotient
<1>2. Rounded(num, den, TRUE) = q /\ Rounded(num, den, FALSE) = -r
  BY DEF Rounded
<1>3. e \in Nat \ {0} /\ e = den + den
  OBVIOUS
<1> HIDE DEF e, q, r
<1>4. /\ e * q - 2 * num <= den /\ 2 * num - e * q <= den
      /\ e * (-r) - 2 * num <= den /\ 2 * num - e * (-r) <= den
  <2>1. e * (-r) = -(e * r) /\ e * r \in Int /\ e * q \in Int
    BY <1>1, <1>3
  <2> QED
    BY <1>1, <1>3, <2>1
<1>5. num >= 0 => q >= 0 /\ -r >= 0
  <2>1. num >= 0 => e * (-1) < e * q /\ e * (-1) < e * (-r)
    <3>1. e * (-1) = -e /\ e * (-r) \in Int /\ e * q \in Int
      BY <1>1, <1>3
    <3> QED
      BY <1>3, <1>4, <3>1
  <2>2. num >= 0 => q > -1 /\ -r > -1
    BY <1>1, <1>3, <2>1, Cancel
  <2> QED
    BY <1>1, <2>2
<1>6. -r <= q /\ q <= -r + 1
  <2>1. e * (-r) < e * (q + 1) /\ e * q < e * ((-r) + 2)
    <3>1. /\ e * (q + 1) = e * q + e /\ e * ((-r) + 2) = e * (-r) + e + e
          /\ e * (-r) = -(e * r) /\ e * r \in Int /\ e * q \in Int
      BY <1>1, <1>3
    <3> QED
      BY <1>1, <1>3, <1>4, <3>1
  <2>2. -r < q + 1 /\ q < (-r) + 2
    BY <1>1, <1>3, <2>1, Cancel
  <2> QED
    BY <1>1, <2>2
<1>7. CASE up
  <2>1. Rounded(num, den, up) = q /\ Rounded(num, den, TRUE) = q
    BY <1>2, <1>7
  <2>2. q \in Int /\ q <= q /\ q <= q + 1 /\ 2 * den = e
    BY <1>1 DEF e
  <2> QED
    BY <1>4, <1>5, <2>1, <2>2
<1>8. CASE ~up
  <2>1. Rounded(num, den, up) = -r
    BY <1>2, <1>8
  <2>2. -r \in Int
    BY <1>1
  <2> QED
    BY <1>1, <1>2, <1>4, <1>5, <1>6, <2>1, <2>2 DEF e
<1> QED
  BY <1>7, <1>8

(* What is whole stays as it is.                                           *)
LEMMA RoundedWhole ==
  ASSUME NEW m \in Int, NEW den \in Nat \ {0}, NEW up \in BOOLEAN
  PROVE  Rounded(m * den, den, up) = m
<1> DEFINE e == 2 * den
           num == m * den
           x == Rounded(num, den, up)
<1>1. num \in Int /\ e \in Nat \ {0} /\ e = den + den /\ 2 * num = e * m
  OBVIOUS
<1>2. x \in Int /\ e * x - 2 * num <= den /\ 2 * num - e * x <= den
  <2>1. num \in Int /\ den \in Nat \ {0} /\ x = Rounded(num, den, up)
    BY <1>1
  <2> HIDE DEF num, x
  <2> QED
    BY <2>1, RoundedWithin, Zenon
<1> HIDE DEF x, e, num
<1>3. /\ e * (m + 1) = e * m + e /\ e * (x + 1) = e * x + e
      /\ e * m \in Int /\ e * x \in Int
  BY <1>1, <1>2
<1>4. e * x < e * (m + 1) /\ e * m < e * (x + 1)
  BY <1>1, <1>2, <1>3
<1>5. x < m + 1 /\ m < x + 1
  BY <1>1, <1>2, <1>4, Cancel
<1> QED
  BY <1>2, <1>5 DEF x, num

--------------------------------------------------------------------------------
(* Grouping.                                                               *)

LEMMA FunSeq ==
  ASSUME NEW S, NEW n \in Nat, NEW f \in [1..n -> S]
  PROVE  f \in Seq(S) /\ Len(f) = n /\ DOMAIN f = 1..n
<1>1. f \in Seq(S)
  BY SeqDef
<1> QED
  BY <1>1, LenProperties

Distinct(map) == \A k, l \in DOMAIN map : map[k].id = map[l].id => k = l

(* Groups of a kind that joining two of one supplier does not leave.       *)
Closed(G) == G \subseteq Groups /\ \A a, b \in G : a.id = b.id => Joined(a, b) \in G

MapsOf(G) == {map \in Seq(G) : Distinct(map)}

LEMMA PutMembers ==
  ASSUME NEW G, Closed(G), NEW map \in MapsOf(G), NEW g \in G
  PROVE  Put(map, g) \in MapsOf(G) /\ Len(Put(map, g)) >= 1
<1> DEFINE n == Len(map)
<1>1. n \in Nat /\ map \in [1..n -> G] /\ DOMAIN map = 1..n /\ map \in Seq(G) /\ Distinct(map)
  BY LenProperties DEF MapsOf
<1> HIDE DEF n
<1>2. CASE \E k \in DOMAIN map : map[k].id = g.id
  <2> DEFINE new == [k \in DOMAIN map |-> IF map[k].id = g.id THEN Joined(map[k], g) ELSE map[k]]
  <2>1. Put(map, g) = new
    BY <1>2 DEF Put
  <2>2. \A k \in 1..n : new[k] \in G /\ new[k].id = map[k].id
    <3>1. ASSUME NEW k \in 1..n PROVE new[k] \in G /\ new[k].id = map[k].id
      <4>1. map[k] \in G /\ Joined(map[k], g).id = map[k].id
        BY <1>1 DEF Joined
      <4>2. map[k].id = g.id => Joined(map[k], g) \in G
        BY <4>1 DEF Closed
      <4> QED
        BY <1>1, <4>1, <4>2
    <3> QED
      BY <3>1
  <2>3. new \in [1..n -> G]
    BY <1>1, <2>2
  <2> HIDE DEF new
  <2>4. new \in Seq(G) /\ Len(new) = n /\ DOMAIN new = 1..n
    BY <1>1, <2>3, FunSeq
  <2>5. Distinct(new)
    BY <1>1, <2>2, <2>4 DEF Distinct
  <2>6. n >= 1
    BY <1>1, <1>2
  <2> QED
    BY <2>1, <2>4, <2>5, <2>6 DEF MapsOf
<1>3. CASE ~\E k \in DOMAIN map : map[k].id = g.id
  <2> DEFINE new == Append(map, g)
  <2>1. Put(map, g) = new
    BY <1>3 DEF Put
  <2>2. /\ new \in Seq(G) /\ Len(new) = n + 1 /\ new[n + 1] = g
        /\ \A k \in 1..n : new[k] = map[k]
    BY <1>1, AppendProperties DEF n
  <2>3. DOMAIN new = 1..n + 1
    BY <2>2, LenProperties
  <2> HIDE DEF new
  <2>4. Distinct(new)
    <3>1. ASSUME NEW k \in 1..n + 1, NEW l \in 1..n + 1, new[k].id = new[l].id
          PROVE  k = l
      <4>1. CASE k \in 1..n /\ l \in 1..n
        BY <1>1, <2>2, <3>1, <4>1 DEF Distinct
      <4>2. CASE k = n + 1 /\ l \in 1..n
        BY <1>1, <1>3, <2>2, <3>1, <4>2
      <4>3. CASE k \in 1..n /\ l = n + 1
        BY <1>1, <1>3, <2>2, <3>1, <4>3
      <4> QED
        BY <1>1, <4>1, <4>2, <4>3
    <3> QED
      BY <2>3, <3>1 DEF Distinct
  <2> QED
    BY <1>1, <2>1, <2>2, <2>4 DEF MapsOf
<1> QED
  BY <1>2, <1>3

(* The Map after each round of the loop.                                   *)
LEMMA MapSteps ==
  ASSUME NEW G, Closed(G), NEW groups \in Seq(G)
  PROVE  /\ Maps(groups) \in [0..Len(groups) -> MapsOf(G)]
         /\ Maps(groups)[0] = <<>>
         /\ \A i \in 1..Len(groups) : Maps(groups)[i] = Put(Maps(groups)[i - 1], groups[i])
<1> DEFINE n == Len(groups)
           S == MapsOf(G)
           Value(f) == f = [i \in 0..n |-> IF i = 0 THEN <<>> ELSE Put(f[i - 1], groups[i])]
           step == [i \in 1..n |-> [map \in S |-> Put(map, groups[i])]]
           m == Maps(groups)
<1>1. n \in Nat /\ \A i \in 1..n : groups[i] \in G
  OBVIOUS
<1>2. \A i \in 1..n : \A map \in S : Put(map, groups[i]) \in S
  BY <1>1, PutMembers
<1>3. step \in [1..n -> [S -> S]]
  BY <1>2
<1>4. <<>> \in S
  BY EmptySeq DEF MapsOf, Distinct
<1>5. PICK f : Loop(f, S, <<>>, n, step)
  <2> HIDE DEF step, n, S
  <2> QED
    BY <1>1, <1>3, <1>4, Recursion, Zenon
<1>6. Value(f)
  <2>1. ASSUME NEW i \in 1..n PROVE f[i] = Put(f[i - 1], groups[i])
    <3>1. i - 1 \in 0..n
      BY <1>1
    <3>2. f[i - 1] \in S
      BY <1>5, <3>1 DEF Loop
    <3> QED
      BY <1>5, <3>2 DEF Loop
  <2> QED
    BY <1>1, <1>5, <2>1 DEF Loop
<1>7. Value(m)
  BY <1>6 DEF Maps
<1> HIDE DEF m, S
<1>8. m[0] = <<>> /\ \A i \in 1..n : m[i] = Put(m[i - 1], groups[i])
  BY <1>1, <1>7
<1>9. m \in [0..n -> S]
  <2> DEFINE P == {i \in 0..n : m[i] \in S}
  <2>1. 0 \in P /\ \A i \in P : i < n => i + 1 \in P
    BY <1>1, <1>2, <1>4, <1>8
  <2>2. P \in SUBSET (0..n)
    OBVIOUS
  <2>3. P = 0..n
    <3> HIDE DEF P
    <3> QED
      BY <1>1, <2>1, <2>2, Climb
  <2> QED
    BY <1>7, <2>3
<1> QED
  BY <1>8, <1>9 DEF m, S

LEMMA TogetherIn ==
  ASSUME NEW G, Closed(G), NEW groups \in Seq(G)
  PROVE  /\ PutTogether(groups) \in Seq(G) /\ Distinct(PutTogether(groups))
         /\ Len(groups) >= 1 => Len(PutTogether(groups)) >= 1
<1> DEFINE n == Len(groups)
<1>1. n \in Nat /\ \A i \in 1..n : groups[i] \in G
  OBVIOUS
<1>2. Maps(groups)[n] \in MapsOf(G)
  BY <1>1, MapSteps
<1>3. n >= 1 => Len(Maps(groups)[n]) >= 1
  <2>1. n >= 1 => n - 1 \in 0..n /\ n \in 1..n
    BY <1>1
  <2>2. n >= 1 => Maps(groups)[n] = Put(Maps(groups)[n - 1], groups[n])
                  /\ Maps(groups)[n - 1] \in MapsOf(G)
    BY <2>1, MapSteps
  <2> QED
    BY <1>1, <2>1, <2>2, PutMembers
<1> QED
  BY <1>2, <1>3 DEF MapsOf, PutTogether

LEMMA JoinedGroups == Closed(Groups)
<1> SUFFICES ASSUME NEW a \in Groups, NEW b \in Groups PROVE Joined(a, b) \in Groups
  BY DEF Closed
<1>1. a.items \o b.items \in Seq(Int)
  BY ConcatProperties DEF Groups
<1> QED
  BY <1>1 DEF Groups, Joined

(* Groups of different suppliers stay as they are.                         *)
LEMMA TogetherAlone ==
  ASSUME NEW groups \in Seq(Groups), Distinct(groups)
  PROVE  PutTogether(groups) = groups
<1> DEFINE n == Len(groups)
           m == Maps(groups)
           P == {i \in 0..n : m[i] = SubSeq(groups, 1, i)}
<1>1. n \in Nat /\ DOMAIN groups = 1..n /\ \A i \in 1..n : groups[i] \in Groups
  OBVIOUS
<1>2. m[0] = <<>> /\ \A i \in 1..n : m[i] = Put(m[i - 1], groups[i])
  BY JoinedGroups, MapSteps
<1> HIDE DEF m
<1>3. 0 \in P
  <2>1. SubSeq(groups, 1, 0) = <<>>
    BY SubSeqEmpty
  <2>2. 0 \in 0..n
    BY <1>1
  <2>3. m[0] = SubSeq(groups, 1, 0)
    BY <1>2, <2>1, Zenon
  <2> QED
    BY <2>2, <2>3, Zenon
<1>4. ASSUME NEW i \in P, i < n PROVE i + 1 \in P
  <2> DEFINE map == SubSeq(groups, 1, i)
             new == SubSeq(groups, 1, i + 1)
  <2>1. i \in 0..n /\ m[i] = map
    BY <1>4
  <2>2. i \in Nat /\ i + 1 \in 1..n /\ (i + 1) - 1 = i /\ i + 1 \in 0..n
    BY <1>1, <1>4, <2>1
  <2>3. /\ map \in Seq(Groups) /\ Len(map) = i /\ \A k \in 1..i : map[k] = groups[k]
        /\ new \in Seq(Groups) /\ Len(new) = i + 1
        /\ \A k \in 1..i + 1 : new[k] = groups[k]
    BY <1>1, <2>2
  <2>4. m[i + 1] = Put(map, groups[i + 1])
    BY <1>2, <2>1, <2>2
  <2> HIDE DEF map, new
  <2>5. DOMAIN map = 1..i
    BY <2>3, LenProperties
  <2>6. ~\E k \in DOMAIN map : map[k].id = groups[i + 1].id
    BY <1>1, <2>2, <2>3, <2>5 DEF Distinct
  <2>7. m[i + 1] = Append(map, groups[i + 1])
    BY <2>4, <2>6 DEF Put
  <2>8. Append(map, groups[i + 1]) = new
    <3> DEFINE app == Append(map, groups[i + 1])
    <3>1. /\ app \in Seq(Groups) /\ Len(app) = i + 1
          /\ \A k \in 1..i : app[k] = map[k]
          /\ app[i + 1] = groups[i + 1]
      BY <1>1, <2>2, <2>3, AppendProperties
    <3> HIDE DEF app
    <3>2. \A k \in 1..i + 1 : app[k] = new[k]
      BY <2>2, <2>3, <3>1
    <3>3. app = new
      BY <2>3, <3>1, <3>2, SeqEqual
    <3> QED
      BY <3>3 DEF app
  <2> QED
    BY <2>2, <2>7, <2>8 DEF new
<1>5. n \in P
  <2>1. P \in SUBSET (0..n)
    OBVIOUS
  <2> HIDE DEF P
  <2>2. P = 0..n
    BY <1>1, <1>3, <1>4, <2>1, Climb
  <2> QED
    BY <1>1, <2>2
<1>6. SubSeq(groups, 1, n) = groups
  BY SubSeqFull
<1> QED
  BY <1>5, <1>6 DEF PutTogether, m

--------------------------------------------------------------------------------
(* Grouping keeps the sum, unless groups with and without items meet.      *)

(* Those suppliers whose groups have no items are E.                       *)
OfKind(E) == {g \in Groups : g.items = <<>> <=> g.id \in E}

LEMMA PartTypes ==
  ASSUME NEW g \in Groups
  PROVE  SupplierPart(g) \in Int /\ GroupAmount(g) \in Int
<1>1. g.items \in Seq(Int) /\ g.supplier \in Int /\ g.retailer \in Int /\ g.fee \in Int
  BY DEF Groups
<1>2. AmtSum(g.items) \in Int
  BY <1>1, SumSteps
<1> QED
  BY <1>1, <1>2 DEF SupplierPart, GroupAmount

LEMMA JoinedAmount ==
  ASSUME NEW E, NEW a \in OfKind(E), NEW b \in OfKind(E), a.id = b.id
  PROVE  /\ Joined(a, b) \in OfKind(E)
         /\ GroupAmount(Joined(a, b)) = GroupAmount(a) + GroupAmount(b)
<1> DEFINE c == Joined(a, b)
<1>1. /\ a \in Groups /\ b \in Groups /\ c \in Groups /\ c.id = a.id
      /\ (a.items = <<>>) <=> (a.id \in E)
      /\ (b.items = <<>>) <=> (b.id \in E)
  BY JoinedGroups DEF OfKind, Closed, Joined
<1>2. /\ a.items \in Seq(Int) /\ b.items \in Seq(Int)
      /\ a.supplier \in Int /\ b.supplier \in Int /\ a.retailer \in Int /\ b.retailer \in Int
      /\ a.fee \in Int /\ b.fee \in Int
  BY <1>1 DEF Groups
<1>3. /\ c.items = a.items \o b.items /\ c.supplier = a.supplier + b.supplier
      /\ c.retailer = a.retailer + b.retailer /\ c.fee = a.fee + b.fee
  BY DEF Joined
<1>4. c.items = <<>> <=> a.items = <<>> /\ b.items = <<>>
  BY <1>2, <1>3, ConcatEqualIffEmpty
<1>5. a.items = <<>> <=> b.items = <<>>
  BY <1>1 DEF OfKind
<1>6. AmtSum(c.items) = AmtSum(a.items) + AmtSum(b.items)
  BY <1>2, <1>3, SumConcat
<1>7. SupplierPart(c) = SupplierPart(a) + SupplierPart(b)
  BY <1>3, <1>4, <1>5, <1>6 DEF SupplierPart
<1>8. SupplierPart(a) \in Int /\ SupplierPart(b) \in Int
  BY <1>1, PartTypes
<1>9. c \in OfKind(E)
  <2> HIDE DEF c
  <2> QED
    BY <1>1, <1>4, <1>5 DEF OfKind
<1>10. GroupAmount(c) = GroupAmount(a) + GroupAmount(b)
  <2> HIDE DEF c
  <2> QED
    BY <1>2, <1>3, <1>7, <1>8 DEF GroupAmount
<1> QED
  BY <1>9, <1>10

LEMMA OfKindClosed == ASSUME NEW E PROVE Closed(OfKind(E))
  BY JoinedAmount DEF Closed, OfKind

LEMMA PartsSeq ==
  ASSUME NEW groups \in Seq(Groups)
  PROVE  /\ Parts(groups) \in Seq(Int) /\ Len(Parts(groups)) = Len(groups)
         /\ \A k \in 1..Len(groups) : Parts(groups)[k] = GroupAmount(groups[k])
<1>1. /\ Len(groups) \in Nat /\ DOMAIN groups = 1..Len(groups)
      /\ \A k \in 1..Len(groups) : groups[k] \in Groups
  OBVIOUS
<1>2. Parts(groups) \in [1..Len(groups) -> Int]
  BY <1>1, PartTypes DEF Parts
<1>3. \A k \in 1..Len(groups) : Parts(groups)[k] = GroupAmount(groups[k])
  BY <1>1 DEF Parts
<1> QED
  BY <1>1, <1>2, <1>3, FunSeq

LEMMA PutAdds ==
  ASSUME NEW E, NEW map \in MapsOf(OfKind(E)), NEW g \in OfKind(E)
  PROVE  AmtSum(Parts(Put(map, g))) = AmtSum(Parts(map)) + GroupAmount(g)
<1> DEFINE n == Len(map)
           new == Put(map, g)
           v == Parts(map)
           w == Parts(new)
<1>1. /\ n \in Nat /\ DOMAIN map = 1..n /\ map \in Seq(Groups) /\ g \in Groups
      /\ Distinct(map) /\ \A k \in 1..n : map[k] \in OfKind(E) /\ map[k] \in Groups
  <2>1. map \in Seq(OfKind(E)) /\ Distinct(map)
    BY DEF MapsOf
  <2>2. OfKind(E) \subseteq Groups
    BY DEF OfKind
  <2> QED
    BY <2>1, <2>2, LenProperties, SeqMonotonic
<1>2. new \in Seq(Groups)
  <2>1. OfKind(E) \subseteq Groups
    BY DEF OfKind
  <2>2. new \in Seq(OfKind(E))
    BY OfKindClosed, PutMembers DEF MapsOf
  <2> QED
    BY <2>1, <2>2, SeqMonotonic
<1>3. /\ v \in Seq(Int) /\ Len(v) = n /\ \A k \in 1..n : v[k] = GroupAmount(map[k])
      /\ w \in Seq(Int) /\ Len(w) = Len(new)
      /\ \A k \in 1..Len(new) : w[k] = GroupAmount(new[k])
  BY <1>1, <1>2, PartsSeq
<1>4. CASE \E k \in DOMAIN map : map[k].id = g.id
  <2>1. PICK k \in 1..n : map[k].id = g.id
    BY <1>1, <1>4
  <2>2. new = [j \in 1..n |-> IF map[j].id = g.id THEN Joined(map[j], g) ELSE map[j]]
    BY <1>1, <1>4 DEF Put
  <2>3. /\ DOMAIN new = 1..n /\ new[k] = Joined(map[k], g)
        /\ \A j \in 1..n : j # k => new[j] = map[j]
    BY <1>1, <2>1, <2>2 DEF Distinct
  <2>4. Len(new) = n
    BY <1>1, <1>2, <2>3, LenProperties
  <2> HIDE DEF new, v, w, n
  <2>5. w[k] = v[k] + GroupAmount(g)
    BY <1>1, <1>3, <2>1, <2>3, <2>4, JoinedAmount
  <2>6. AmtSum(w) = AmtSum(v) + (w[k] - v[k])
    <3>1. /\ v \in Seq(Int) /\ w \in Seq(Int) /\ Len(w) = Len(v) /\ k \in 1..Len(v)
          /\ \A j \in 1..Len(v) : j # k => w[j] = v[j]
      BY <1>3, <2>3, <2>4
    <3> QED
      BY <3>1, SumUpdate, Zenon
  <2>7. AmtSum(v) \in Int /\ v[k] \in Int /\ GroupAmount(g) \in Int
    BY <1>1, <1>3, PartTypes, SumSteps
  <2> QED
    BY <2>5, <2>6, <2>7 DEF v, w, new
<1>5. CASE ~\E k \in DOMAIN map : map[k].id = g.id
  <2>1. new = Append(map, g)
    BY <1>5 DEF Put
  <2>2. Len(new) = n + 1 /\ new[n + 1] = g /\ \A k \in 1..n : new[k] = map[k]
    BY <1>1, <2>1, AppendProperties
  <2> HIDE DEF new, v, w, n
  <2>3. Append(v, GroupAmount(g)) = w
    <3> DEFINE x == Append(v, GroupAmount(g))
    <3>1. GroupAmount(g) \in Int
      BY <1>1, PartTypes
    <3>2. /\ x \in Seq(Int) /\ Len(x) = n + 1
          /\ \A k \in 1..n : x[k] = v[k]
          /\ x[n + 1] = GroupAmount(g)
      BY <1>3, <3>1, AppendProperties
    <3> HIDE DEF x
    <3>3. \A k \in 1..n + 1 : x[k] = w[k]
      BY <1>1, <1>3, <2>2, <3>2
    <3>4. x = w
      BY <1>3, <2>2, <3>2, <3>3, SeqEqual
    <3> QED
      BY <3>4 DEF x
  <2>4. GroupAmount(g) \in Int
    BY <1>1, PartTypes
  <2> QED
    BY <1>3, <2>3, <2>4, SumAppend DEF v, w, new
<1> QED
  BY <1>4, <1>5

LEMMA TogetherAdds ==
  ASSUME NEW E, NEW groups \in Seq(OfKind(E))
  PROVE  AmtSum(Parts(PutTogether(groups))) = AmtSum(Parts(groups))
<1> DEFINE n == Len(groups)
           m == Maps(groups)
           s == PartialSums(Parts(groups))
           P == {i \in 0..n : AmtSum(Parts(m[i])) = s[i]}
<1>1. n \in Nat /\ groups \in Seq(Groups) /\ \A i \in 1..n : groups[i] \in OfKind(E)
  <2>1. OfKind(E) \subseteq Groups
    BY DEF OfKind
  <2> QED
    BY <2>1, SeqMonotonic
<1>2. /\ m \in [0..n -> MapsOf(OfKind(E))] /\ m[0] = <<>>
      /\ \A i \in 1..n : m[i] = Put(m[i - 1], groups[i])
  BY OfKindClosed, MapSteps
<1>3. /\ s[0] = 0 /\ Len(Parts(groups)) = n
      /\ \A i \in 1..n : s[i] = s[i - 1] + GroupAmount(groups[i])
  BY <1>1, PartsSeq, SumSteps
<1> HIDE DEF m, s, n
<1>4. 0 \in P
  <2>1. Parts(<<>>) = <<>>
    BY DEF Parts
  <2>2. AmtSum(Parts(m[0])) = s[0]
    BY <1>2, <1>3, <2>1, SumOfNone
  <2>3. 0 \in 0..n
    BY <1>1
  <2> QED
    BY <2>2, <2>3
<1>5. ASSUME NEW i \in P, i < n PROVE i + 1 \in P
  <2>1. i \in 0..n /\ AmtSum(Parts(m[i])) = s[i]
    BY <1>5
  <2>2. i + 1 \in 1..n /\ (i + 1) - 1 = i /\ i + 1 \in 0..n
    BY <1>1, <1>5, <2>1
  <2>3. m[i + 1] = Put(m[i], groups[i + 1]) /\ s[i + 1] = s[i] + GroupAmount(groups[i + 1])
    BY <1>2, <1>3, <2>2
  <2>4. m[i] \in MapsOf(OfKind(E)) /\ groups[i + 1] \in OfKind(E)
    BY <1>1, <1>2, <2>1, <2>2
  <2>5. AmtSum(Parts(m[i + 1])) = s[i + 1]
    BY <2>1, <2>3, <2>4, PutAdds
  <2> QED
    BY <2>2, <2>5
<1>6. n \in P
  <2>1. P \in SUBSET (0..n)
    OBVIOUS
  <2> HIDE DEF P
  <2>2. P = 0..n
    BY <1>1, <1>4, <1>5, <2>1, Climb
  <2> QED
    BY <1>1, <2>2
<1> QED
  BY <1>3, <1>6 DEF PutTogether, AmtSum, m, s, n

--------------------------------------------------------------------------------
(* Leaving groups out.                                                     *)

LEMMA KeepIn ==
  ASSUME NEW groups \in Seq(Groups), NEW failed, NEW G,
         \A k \in 1..Len(groups) : k \notin failed => groups[k] \in G
  PROVE  Keep(groups, failed) \in Seq(G)
<1> DEFINE n == Len(groups)
           S == Seq(G)
           Next(i, kept) == IF i \in failed THEN kept ELSE Append(kept, groups[i])
           Value(f) == f = [i \in 0..n |-> IF i = 0 THEN <<>> ELSE Next(i, f[i - 1])]
           step == [i \in 1..n |-> [kept \in S |-> Next(i, kept)]]
           m == Filters(groups, failed)
<1>1. n \in Nat
  OBVIOUS
<1>2. \A i \in 1..n : \A kept \in S : Next(i, kept) \in S
  BY AppendProperties
<1>3. step \in [1..n -> [S -> S]]
  BY <1>2
<1>4. <<>> \in S
  BY EmptySeq
<1>5. PICK f : Loop(f, S, <<>>, n, step)
  <2> HIDE DEF step, n, S
  <2> QED
    BY <1>1, <1>3, <1>4, Recursion, Zenon
<1>6. Value(f)
  <2>1. ASSUME NEW i \in 1..n PROVE f[i] = Next(i, f[i - 1])
    <3>1. i - 1 \in 0..n
      BY <1>1
    <3>2. f[i - 1] \in S
      BY <1>5, <3>1 DEF Loop
    <3> QED
      BY <1>5, <3>2 DEF Loop
  <2> HIDE DEF Next
  <2> QED
    BY <1>1, <1>5, <2>1 DEF Loop
<1>7. Value(m)
  BY <1>6 DEF Filters
<1> HIDE DEF m, S
<1>8. m[0] = <<>> /\ \A i \in 1..n : m[i] = Next(i, m[i - 1])
  <2> HIDE DEF Next
  <2> QED
    BY <1>1, <1>7
<1>9. m[n] \in S
  <2> DEFINE P == {i \in 0..n : m[i] \in S}
  <2>1. 0 \in P /\ \A i \in P : i < n => i + 1 \in P
    BY <1>1, <1>2, <1>4, <1>8
  <2>2. P \in SUBSET (0..n)
    OBVIOUS
  <2>3. P = 0..n
    <3> HIDE DEF P
    <3> QED
      BY <1>1, <2>1, <2>2, Climb
  <2> QED
    BY <1>1, <2>3
<1> QED
  BY <1>9 DEF Keep, m, S

--------------------------------------------------------------------------------
(* Fees.                                                                   *)

LEMMA SumAdd ==
  ASSUME NEW u \in Seq(Int), NEW v \in Seq(Int), NEW w \in Seq(Int),
         Len(u) = Len(v), Len(w) = Len(v), \A k \in 1..Len(v) : u[k] = v[k] + w[k]
  PROVE  AmtSum(u) = AmtSum(v) + AmtSum(w)
<1> DEFINE n == Len(v)
           r == PartialSums(u)
           s == PartialSums(v)
           t == PartialSums(w)
           P == {i \in 0..n : r[i] = s[i] + t[i]}
<1>1. n \in Nat /\ \A i \in 1..n : u[i] = v[i] + w[i] /\ v[i] \in Int /\ w[i] \in Int
  OBVIOUS
<1>2. r[0] = 0 /\ \A i \in 1..n : r[i] = r[i - 1] + u[i]
  BY SumSteps
<1>3. s \in [0..n -> Int] /\ s[0] = 0 /\ \A i \in 1..n : s[i] = s[i - 1] + v[i]
  BY SumSteps
<1>4. t \in [0..n -> Int] /\ t[0] = 0 /\ \A i \in 1..n : t[i] = t[i - 1] + w[i]
  BY SumSteps
<1> HIDE DEF r, s, t, n
<1>5. 0 \in P
  <2>1. 0 \in 0..n /\ r[0] = s[0] + t[0]
    BY <1>1, <1>2, <1>3, <1>4
  <2> QED
    BY <2>1
<1>6. ASSUME NEW i \in P, i < n PROVE i + 1 \in P
  <2>1. i \in 0..n /\ r[i] = s[i] + t[i]
    BY <1>6
  <2>2. i + 1 \in 1..n /\ (i + 1) - 1 = i /\ i + 1 \in 0..n
    BY <1>1, <1>6, <2>1
  <2>3. /\ r[i + 1] = r[i] + u[i + 1] /\ s[i + 1] = s[i] + v[i + 1]
        /\ t[i + 1] = t[i] + w[i + 1] /\ u[i + 1] = v[i + 1] + w[i + 1]
    BY <1>1, <1>2, <1>3, <1>4, <2>2
  <2>4. s[i] \in Int /\ t[i] \in Int /\ v[i + 1] \in Int /\ w[i + 1] \in Int
    BY <1>1, <1>3, <1>4, <2>1, <2>2
  <2>5. r[i + 1] = s[i + 1] + t[i + 1]
    <3> DEFINE a == s[i]
               b == t[i]
               c == v[i + 1]
               e == w[i + 1]
    <3>1. r[i + 1] = (a + b) + (c + e) /\ s[i + 1] = a + c /\ t[i + 1] = b + e
      BY <2>1, <2>3, Zenon
    <3>2. a \in Int /\ b \in Int /\ c \in Int /\ e \in Int
      BY <2>4, Zenon
    <3> HIDE DEF a, b, c, e
    <3>3. (a + b) + (c + e) = (a + c) + (b + e)
      BY <3>2
    <3> QED
      BY <3>1, <3>3, Zenon
  <2> QED
    BY <2>2, <2>5
<1>7. n \in P
  <2>1. P \in SUBSET (0..n)
    OBVIOUS
  <2> HIDE DEF P
  <2>2. P = 0..n
    BY <1>1, <1>5, <1>6, <2>1, Climb
  <2> QED
    BY <1>1, <2>2
<1> QED
  BY <1>7 DEF AmtSum, r, s, t, n

LEMMA CancelEqual ==
  ASSUME NEW e \in Nat \ {0}, NEW x \in Int, NEW y \in Int, e * x <= e * y
  PROVE  x <= y
<1>1. e * x < e * (y + 1)
  <2>1. e * (y + 1) = e * y + e /\ e * x \in Int /\ e * y \in Int
    OBVIOUS
  <2> QED
    BY <2>1
<1>2. x < y + 1
  BY <1>1, Cancel
<1> QED
  BY <1>2

(* A side's groups together are charged its half, but for the roundings.   *)
HalfCharged(all, half, n) ==
  /\ 200 * all - 200 * half <= n * (100 + half)
  /\ 200 * half - 200 * all <= n * (100 + half)

LEMMA SideCharged ==
  ASSUME NEW half \in Nat, NEW up \in BOOLEAN, NEW v \in Seq(Int), NEW d \in Seq(Int),
         Len(d) = Len(v), AmtSum(v) \in Nat \ {0},
         \A k \in 1..Len(v) : d[k] = Deduction(half, v[k], AmtSum(v), up)
  PROVE  HalfCharged(AmtSum(d), half, Len(v))
<1> DEFINE n == Len(v)
           whole == AmtSum(v)
           sh == [k \in 1..n |-> Rounded(100 * v[k], whole, up)]
<1>1. n \in Nat /\ whole \in Nat \ {0} /\ \A k \in 1..n : v[k] \in Int /\ d[k] \in Int
  OBVIOUS
<1>2. \A k \in 1..n : 100 * v[k] \in Int
  BY <1>1
<1>3. \A k \in 1..n :
        /\ sh[k] \in Int
        /\ (2 * whole) * sh[k] - 2 * (100 * v[k]) <= whole
        /\ 2 * (100 * v[k]) - (2 * whole) * sh[k] <= whole
  <2> HIDE DEF whole, n, sh
  <2> SUFFICES ASSUME NEW k \in 1..n
               PROVE  /\ sh[k] \in Int
                      /\ (2 * whole) * sh[k] - 2 * (100 * v[k]) <= whole
                      /\ 2 * (100 * v[k]) - (2 * whole) * sh[k] <= whole
    OBVIOUS
  <2> DEFINE num == 100 * v[k]
  <2>1. num \in Int /\ whole \in Nat \ {0}
    BY <1>1, <1>2
  <2>2. sh[k] = Rounded(num, whole, up)
    BY DEF sh
  <2> HIDE DEF num
  <2>3. /\ sh[k] \in Int
        /\ (2 * whole) * sh[k] - 2 * num <= whole
        /\ 2 * num - (2 * whole) * sh[k] <= whole
    BY <2>1, <2>2, RoundedWithin, Zenon
  <2> QED
    BY <2>3, Zenon DEF num
<1>4. sh \in Seq(Int) /\ Len(sh) = n
  <2>1. sh \in [1..n -> Int]
    BY <1>3
  <2> HIDE DEF sh, n
  <2> QED
    BY <1>1, <2>1, FunSeq
<1>5. \A k \in 1..n : d[k] = Rounded(half * sh[k], 100, up)
  BY <1>1 DEF Deduction
<1> HIDE DEF sh, whole
<1>6. \A k \in 1..n :
        /\ 200 * d[k] - (2 * half) * sh[k] <= 100
        /\ (-200) * d[k] - (-(2 * half)) * sh[k] <= 100
  <2>1. ASSUME NEW k \in 1..n
        PROVE  /\ 200 * d[k] - (2 * half) * sh[k] <= 100
               /\ (-200) * d[k] - (-(2 * half)) * sh[k] <= 100
    <3>1. sh[k] \in Int /\ half * sh[k] \in Int /\ d[k] = Rounded(half * sh[k], 100, up)
      BY <1>3, <1>5
    <3> DEFINE num == half * sh[k]
    <3>2. (2 * half) * sh[k] = 2 * num /\ (-(2 * half)) * sh[k] = -(2 * num)
      BY <3>1
    <3> HIDE DEF num
    <3>3. num \in Int /\ d[k] = Rounded(num, 100, up)
      BY <3>1 DEF num
    <3> DEFINE c == 100
    <3>4. c \in Nat \ {0} /\ d[k] = Rounded(num, c, up)
      BY <3>3
    <3> HIDE DEF c
    <3>5. d[k] \in Int /\ (2 * c) * d[k] - 2 * num <= c /\ 2 * num - (2 * c) * d[k] <= c
      BY <3>3, <3>4, RoundedWithin, Zenon
    <3> QED
      BY <3>2, <3>3, <3>5 DEF c
  <2> QED
    BY <2>1
<1>7. \A k \in 1..n :
        /\ (2 * whole) * sh[k] - 200 * v[k] <= whole
        /\ (-(2 * whole)) * sh[k] - (-200) * v[k] <= whole
  <2> SUFFICES ASSUME NEW k \in 1..n
               PROVE  /\ (2 * whole) * sh[k] - 200 * v[k] <= whole
                      /\ (-(2 * whole)) * sh[k] - (-200) * v[k] <= whole
    OBVIOUS
  <2> DEFINE x == (2 * whole) * sh[k]
  <2>1. v[k] \in Int /\ sh[k] \in Int /\ whole \in Int
    BY <1>1, <1>3
  <2>2. x \in Int /\ (-(2 * whole)) * sh[k] = -x
    BY <2>1
  <2>3. x - 2 * (100 * v[k]) <= whole /\ 2 * (100 * v[k]) - x <= whole
    BY <1>3
  <2> HIDE DEF x
  <2>4. x - 200 * v[k] <= whole /\ (-x) - (-200) * v[k] <= whole
    <3> DEFINE y == v[k]
    <3>1. y \in Int /\ x \in Int /\ x - 2 * (100 * y) <= whole /\ 2 * (100 * y) - x <= whole
      BY <2>1, <2>2, <2>3, Zenon
    <3> HIDE DEF y
    <3>2. x - 200 * y <= whole /\ (-x) - (-200) * y <= whole
      BY <2>1, <3>1
    <3> QED
      BY <3>2, Zenon DEF y
  <2> QED
    BY <2>2, <2>4, Zenon DEF x
<1> DEFINE D == AmtSum(d)
           H == AmtSum(sh)
<1>8. D \in Int /\ H \in Int
  BY <1>4, SumSteps
<1>9. 2 * H <= 200 + n /\ 200 - n <= 2 * H
  <2>0. /\ 2 * whole \in Int /\ -(2 * whole) \in Int /\ whole \in Int
        /\ 200 \in Int /\ -200 \in Int /\ Len(sh) = Len(v)
        /\ sh \in Seq(Int) /\ v \in Seq(Int)
    BY <1>1, <1>4
  <2>1. (2 * whole) * AmtSum(sh) - 200 * AmtSum(v) <= Len(sh) * whole
    <3> DEFINE a == 2 * whole
               b == 200
    <3>1. \A k \in 1..Len(sh) : a * sh[k] - b * v[k] <= whole
      BY <1>4, <1>7
    <3>2. a \in Int /\ b \in Int
      BY <2>0
    <3> HIDE DEF a, b
    <3>3. a * AmtSum(sh) - b * AmtSum(v) <= Len(sh) * whole
      BY <2>0, <3>1, <3>2, SumWithin, Zenon
    <3> QED
      BY <3>3, Zenon DEF a, b
  <2>2. (-(2 * whole)) * AmtSum(sh) - (-200) * AmtSum(v) <= Len(sh) * whole
    <3> DEFINE a == -(2 * whole)
               b == -200
    <3>1. \A k \in 1..Len(sh) : a * sh[k] - b * v[k] <= whole
      BY <1>4, <1>7
    <3>2. a \in Int /\ b \in Int
      BY <2>0
    <3> HIDE DEF a, b
    <3>3. a * AmtSum(sh) - b * AmtSum(v) <= Len(sh) * whole
      BY <2>0, <3>1, <3>2, SumWithin, Zenon
    <3> QED
      BY <3>3, Zenon DEF a, b
  <2>4. AmtSum(sh) = H /\ AmtSum(v) = whole /\ Len(sh) = n
    BY <1>4 DEF whole
  <2> HIDE DEF H, n
  <2>3. whole * (2 * H) <= whole * (200 + n) /\ whole * (200 - n) <= whole * (2 * H)
    BY <1>1, <1>8, <2>1, <2>2, <2>4
  <2> QED
    BY <1>1, <1>8, <2>3, CancelEqual
<1>10. /\ 200 * D - (2 * half) * H <= n * 100
       /\ (-200) * D - (-(2 * half)) * H <= n * 100
  <2>1. /\ 2 * half \in Int /\ -(2 * half) \in Int /\ 100 \in Int /\ 200 \in Int /\ -200 \in Int
        /\ d \in Seq(Int) /\ sh \in Seq(Int) /\ Len(d) = Len(sh) /\ Len(d) = n
    BY <1>4
  <2>2. \A k \in 1..Len(d) : 200 * d[k] - (2 * half) * sh[k] <= 100
    BY <1>6
  <2>3. \A k \in 1..Len(d) : (-200) * d[k] - (-(2 * half)) * sh[k] <= 100
    BY <1>6
  <2>4. 200 * D - (2 * half) * H <= Len(d) * 100
    BY <2>1, <2>2, SumWithin, Zenon
  <2>5. (-200) * D - (-(2 * half)) * H <= Len(d) * 100
    BY <2>1, <2>3, SumWithin, Zenon
  <2> QED
    BY <2>1, <2>4, <2>5
<1> HIDE DEF D, H, n
<1>11. (2 * half) * H <= half * (200 + n) /\ half * (200 - n) <= (2 * half) * H
  BY <1>1, <1>8, <1>9
<1>12. half * (200 + n) = 200 * half + n * half /\ half * (200 - n) = 200 * half - n * half
  BY <1>1
<1>13. n * (100 + half) = n * 100 + n * half
  BY <1>1
<1>14. (2 * half) * H \in Int /\ (-(2 * half)) * H = -((2 * half) * H) /\ n * half \in Int
  BY <1>1, <1>8
<1>15. 200 * D - 200 * half <= n * (100 + half) /\ 200 * half - 200 * D <= n * (100 + half)
  <2> DEFINE x == (2 * half) * H
             y == n * half
  <2>1. /\ x \in Int /\ y \in Int /\ 200 * D - x <= n * 100 /\ x - 200 * D <= n * 100
        /\ x <= 200 * half + y /\ 200 * half - y <= x
    BY <1>8, <1>10, <1>11, <1>12, <1>14
  <2> HIDE DEF x, y
  <2>2. 200 * D - 200 * half <= n * 100 + y /\ 200 * half - 200 * D <= n * 100 + y
    BY <1>1, <1>8, <2>1
  <2> QED
    BY <1>13, <2>2 DEF y
<1> QED
  BY <1>15 DEF D, n, HalfCharged

(* The only one of its side is charged the whole half.                     *)
LEMMA AloneCharged ==
  ASSUME NEW half \in Nat, NEW whole \in Nat \ {0}, NEW up \in BOOLEAN
  PROVE  Deduction(half, whole, whole, up) = half
<1> DEFINE c == 100
<1>1. c \in Nat \ {0} /\ c \in Int /\ half \in Int
  OBVIOUS
<1>2. Deduction(half, whole, whole, up) = Rounded(half * Rounded(c * whole, whole, up), c, up)
  BY DEF Deduction
<1> HIDE DEF c
<1>3. Rounded(c * whole, whole, up) = c
  BY <1>1, RoundedWhole, Zenon
<1>4. Rounded(half * c, c, up) = half
  BY <1>1, RoundedWhole, Zenon
<1> QED
  BY <1>2, <1>3, <1>4, Zenon

LEMMA SumOfOne ==
  ASSUME NEW v \in Seq(Int), Len(v) = 1
  PROVE  AmtSum(v) = v[1]
<1>1. PartialSums(v)[0] = 0 /\ PartialSums(v)[1] = PartialSums(v)[1 - 1] + v[1]
  BY SumSteps
<1>2. v[1] \in Int /\ AmtSum(v) = PartialSums(v)[1] /\ 1 - 1 = 0
  BY DEF AmtSum
<1> QED
  BY <1>1, <1>2

(* What groupCanonicalItems makes: groups that have items and an amount.   *)
Fresh == {g \in Groups : g.items # <<>> /\ g.supplier >= 1 /\ g.retailer >= 0}

LEMMA GroupItemsFresh ==
  ASSUME NEW items \in Seq(Items), Len(items) >= 1
  PROVE  /\ GroupItems(items) \in Seq(Fresh) /\ Distinct(GroupItems(items))
         /\ Len(GroupItems(items)) >= 1
<1> DEFINE n == Len(items)
           ones == [k \in DOMAIN items |-> OneItem(items[k])]
<1>1. n \in Nat /\ DOMAIN items = 1..n /\ \A k \in 1..n : items[k] \in Items
  OBVIOUS
<1>2. ASSUME NEW item \in Items PROVE OneItem(item) \in Fresh
  <2>1. item.id \in AmtSuppliers /\ item.supplier \in Nat \ {0} /\ item.retailer \in Nat
    BY AmtAssumption DEF Items
  <2>2. <<item.supplier>> \in Seq(Int) /\ <<item.supplier>> # <<>>
    BY <2>1
  <2> DEFINE seq == <<item.supplier>>
  <2> HIDE DEF seq
  <2>3. OneItem(item) = [id |-> item.id, items |-> seq, supplier |-> item.supplier,
                         retailer |-> item.retailer, fee |-> 0]
    BY DEF OneItem, seq
  <2>4. seq \in Seq(Int) /\ seq # <<>>
    BY <2>2 DEF seq
  <2> QED
    BY <2>1, <2>3, <2>4 DEF Fresh, Groups
<1>3. ones \in [1..n -> Fresh]
  BY <1>1, <1>2
<1>4. ones \in Seq(Fresh) /\ Len(ones) = n
  <2> HIDE DEF ones, n
  <2> QED
    BY <1>1, <1>3, FunSeq
<1>5. Closed(Fresh)
  <2> SUFFICES ASSUME NEW a \in Fresh, NEW b \in Fresh PROVE Joined(a, b) \in Fresh
    BY DEF Closed, Fresh
  <2>1. a \in Groups /\ b \in Groups
    BY DEF Fresh
  <2>2. a.items \in Seq(Int) /\ b.items \in Seq(Int)
    BY <2>1 DEF Groups
  <2>3. a.items \o b.items \in Seq(Int) /\ a.items \o b.items # <<>>
    BY <2>2, ConcatProperties, ConcatEqualIffEmpty DEF Fresh
  <2> DEFINE list == a.items \o b.items
             c == Joined(a, b)
  <2>4. /\ c = [id |-> a.id, items |-> list, supplier |-> a.supplier + b.supplier,
                retailer |-> a.retailer + b.retailer, fee |-> a.fee + b.fee]
        /\ list \in Seq(Int) /\ list # <<>>
    BY <2>3 DEF Joined
  <2>5. /\ a.id \in AmtSuppliers /\ a.fee \in Int /\ b.fee \in Int
        /\ a.supplier \in Int /\ b.supplier \in Int /\ a.supplier >= 1 /\ b.supplier >= 1
        /\ a.retailer \in Int /\ b.retailer \in Int /\ a.retailer >= 0 /\ b.retailer >= 0
    BY <2>1 DEF Fresh, Groups
  <2> HIDE DEF list, c
  <2>6. a.supplier + b.supplier >= 1 /\ a.retailer + b.retailer >= 0
    BY <2>5
  <2>7. c \in Groups
    BY <2>4, <2>5 DEF Groups
  <2>8. c \in Fresh
    BY <2>4, <2>6, <2>7 DEF Fresh
  <2> QED
    BY <2>8 DEF c
<1> HIDE DEF ones
<1>6. GroupItems(items) = PutTogether(ones)
  BY DEF GroupItems, ones
<1> QED
  BY <1>4, <1>5, <1>6, TogetherIn

(* PayAssure's fee is kept but for the rounding of shares.                 *)
FeeKept(groups, total) ==
  LET fee  == PlatformFee(total, TRUE)
      kept == AmtSum(Fees(groups))
      slip == Len(groups) * (fee + 400)
      both == \E i \in DOMAIN groups : groups[i].retailer > 0
  IN  /\ Len(groups) = 1 /\ both => kept \in {fee, PlatformFee(total, FALSE)}
      /\ 200 * (kept - fee) <= slip
      /\ 200 * (fee - kept) <= slip + (IF both THEN 0 ELSE 100 * fee)

(* The fee and its halves.                                                 *)
LEMMA FeeHalves ==
  ASSUME NEW total \in Nat, NEW up \in BOOLEAN
  PROVE  LET fee  == PlatformFee(total, up)
             half == Rounded(fee, 2, up)
         IN  /\ fee \in Nat /\ half \in Nat /\ fee - half \in Nat
             /\ 2 * half <= fee + 1 /\ fee <= 2 * half + 1
             /\ PlatformFee(total, TRUE) \in {fee, fee + 1}
<1> DEFINE fee == PlatformFee(total, up)
           half == Rounded(fee, 2, up)
           top == PlatformFee(total, TRUE)
           num == 8 * total
           den == 1000
<1>1. num \in Nat /\ num \in Int /\ den \in Nat \ {0}
  OBVIOUS
<1>2. fee = Rounded(num, den, up) /\ top = Rounded(num, den, TRUE)
  BY DEF PlatformFee
<1>3. fee \in Int /\ (num >= 0 => fee >= 0) /\ fee <= top /\ top <= fee + 1 /\ top \in Int
  <2> HIDE DEF num, den, fee, top
  <2> QED
    BY <1>1, <1>2, RoundedWithin
<1>4. fee \in Nat /\ top \in {fee, fee + 1}
  <2> HIDE DEF num, fee, top
  <2> QED
    BY <1>1, <1>3
<1>5. half \in Nat /\ (2 * 2) * half - 2 * fee <= 2 /\ 2 * fee - (2 * 2) * half <= 2
  <2> DEFINE two == 2
  <2>1. two \in Nat \ {0} /\ half = Rounded(fee, two, up) /\ fee \in Int
    BY <1>4
  <2> HIDE DEF two, half, fee
  <2>2. half \in Int /\ (fee >= 0 => half >= 0)
        /\ (2 * two) * half - 2 * fee <= two /\ 2 * fee - (2 * two) * half <= two
    BY <1>4, <2>1, RoundedWithin
  <2> QED
    BY <1>4, <2>2 DEF two
<1> HIDE DEF fee, half, top
<1>6. 2 * half <= fee + 1 /\ fee <= 2 * half + 1 /\ fee - half \in Nat
  BY <1>4, <1>5
<1> QED
  BY <1>4, <1>5, <1>6 DEF fee, half, top

LEMMA DeductionTypes ==
  ASSUME NEW half \in Nat, NEW part \in Nat, NEW whole \in Nat, NEW up \in BOOLEAN
  PROVE  Deduction(half, part, whole, up) \in Nat
<1>1. CASE whole = 0
  BY <1>1 DEF Deduction
<1>2. CASE whole # 0
  <2> DEFINE num == 100 * part
             share == Rounded(num, whole, up)
             sum == half * share
             c == 100
  <2>1. num \in Int /\ num >= 0 /\ whole \in Nat \ {0} /\ c \in Nat \ {0}
    BY <1>2
  <2> HIDE DEF num, c
  <2>2. share \in Int /\ share >= 0
    BY <2>1, RoundedWithin
  <2> HIDE DEF share
  <2>3. sum \in Int /\ sum >= 0
    BY <2>2
  <2> HIDE DEF sum
  <2>4. Rounded(sum, c, up) \in Int /\ Rounded(sum, c, up) >= 0
    BY <2>1, <2>3, RoundedWithin
  <2>5. Deduction(half, part, whole, up) = Rounded(sum, c, up)
    BY <1>2 DEF Deduction, sum, share, num, c
  <2> QED
    BY <2>4, <2>5
<1> QED
  BY <1>1, <1>2

LEMMA Charged ==
  ASSUME NEW groups \in Seq(Fresh), Distinct(groups), Len(groups) >= 1,
         NEW total \in Nat, NEW up \in BOOLEAN
  PROVE  /\ ApplyFees(groups, total, up) \in Seq(Groups)
         /\ Distinct(ApplyFees(groups, total, up))
         /\ \A k \in DOMAIN ApplyFees(groups, total, up) :
              ApplyFees(groups, total, up)[k].items # <<>>
         /\ FeeKept(ApplyFees(groups, total, up), total)
<1> DEFINE n == Len(groups)
           fee == PlatformFee(total, up)
           half == Rounded(fee, 2, up)
           other == fee - half
           sup == Suppliers(groups)
           ret == Retailers(groups)
           supplierAll == AmtSum(sup)
           retailerAll == AmtSum(ret)
           s == [k \in 1..n |-> Deduction(half, sup[k], supplierAll, up)]
           r == [k \in 1..n |-> Deduction(other, ret[k], retailerAll, up)]
           Lines(k) == [j \in DOMAIN groups[k].items |->
                         Rounded(groups[k].items[j] * (groups[k].supplier - s[k]),
                                 groups[k].supplier, up)]
           new == ApplyFees(groups, total, up)
<1>1. /\ fee \in Nat /\ half \in Nat /\ other \in Nat
      /\ 2 * half <= fee + 1 /\ fee <= 2 * half + 1
      /\ PlatformFee(total, TRUE) \in {fee, fee + 1}
  BY FeeHalves
<1>2. /\ n \in Nat /\ n >= 1 /\ DOMAIN groups = 1..n
      /\ \A k \in 1..n : groups[k] \in Fresh
  OBVIOUS
<1>3. ASSUME NEW k \in 1..n
      PROVE  /\ groups[k] \in Groups /\ groups[k].items \in Seq(Int) /\ groups[k].items # <<>>
             /\ groups[k].supplier \in Nat \ {0} /\ groups[k].retailer \in Nat
             /\ groups[k].id \in AmtSuppliers
  <2> DEFINE g == groups[k]
  <2>1. g \in Fresh
    BY <1>2
  <2> HIDE DEF g
  <2>2. g \in Groups /\ g.items # <<>> /\ g.supplier >= 1 /\ g.retailer >= 0
    BY <2>1 DEF Fresh
  <2>3. g.id \in AmtSuppliers /\ g.items \in Seq(Int) /\ g.supplier \in Int /\ g.retailer \in Int
    BY <2>2 DEF Groups
  <2>4. g.supplier \in Nat \ {0} /\ g.retailer \in Nat
    BY <2>2, <2>3
  <2> QED
    BY <2>2, <2>3, <2>4, Zenon DEF g
<1> HIDE DEF n
<1>4. /\ sup \in Seq(Int) /\ Len(sup) = n /\ \A k \in 1..n : sup[k] = groups[k].supplier
      /\ ret \in Seq(Int) /\ Len(ret) = n /\ \A k \in 1..n : ret[k] = groups[k].retailer
  <2>1. sup = [k \in 1..n |-> groups[k].supplier] /\ ret = [k \in 1..n |-> groups[k].retailer]
    BY <1>2 DEF Suppliers, Retailers
  <2>2. sup \in [1..n -> Int] /\ ret \in [1..n -> Int]
    BY <1>3, <2>1
  <2> HIDE DEF sup, ret
  <2> QED
    BY <1>2, <2>1, <2>2, FunSeq
<1> HIDE DEF sup, ret
<1>5. /\ \A k \in 1..n : sup[k] \in Nat \ {0} /\ ret[k] \in Nat
      /\ supplierAll \in Nat \ {0} /\ retailerAll \in Nat
  <2>1. \A k \in 1..n : sup[k] \in Nat \ {0} /\ ret[k] \in Nat
    BY <1>3, <1>4
  <2>2. supplierAll \in Int /\ retailerAll \in Int
    BY <1>4, SumSteps
  <2>3. supplierAll >= n
    <3>1. \A k \in 1..Len(sup) : sup[k] >= 1
      BY <1>4, <2>1
    <3>2. 1 \in Int
      OBVIOUS
    <3>3. AmtSum(sup) >= Len(sup) * 1
      BY <1>4, <3>1, <3>2, SumAtLeast, Zenon
    <3> QED
      BY <1>2, <1>4, <3>3
  <2>4. retailerAll >= 0
    <3>1. \A k \in 1..Len(ret) : ret[k] >= 0
      BY <1>4, <2>1
    <3>2. 0 \in Int
      OBVIOUS
    <3>3. AmtSum(ret) >= Len(ret) * 0
      BY <1>4, <3>1, <3>2, SumAtLeast, Zenon
    <3> QED
      BY <1>2, <1>4, <3>3
  <2> QED
    BY <1>2, <2>1, <2>2, <2>3, <2>4
<1> HIDE DEF fee, half, other, supplierAll, retailerAll
<1>6. /\ s \in Seq(Int) /\ Len(s) = n /\ \A k \in 1..n : s[k] \in Nat
      /\ r \in Seq(Int) /\ Len(r) = n /\ \A k \in 1..n : r[k] \in Nat
  <2>1. \A k \in 1..n : s[k] \in Nat /\ r[k] \in Nat
    BY <1>1, <1>5, DeductionTypes
  <2>2. s \in [1..n -> Int] /\ r \in [1..n -> Int]
    BY <2>1
  <2> HIDE DEF s, r
  <2> QED
    BY <1>2, <2>1, <2>2, FunSeq
<1>7. \A k \in 1..n : s[k] = Deduction(half, sup[k], supplierAll, up)
                     /\ r[k] = Deduction(other, ret[k], retailerAll, up)
  OBVIOUS
<1>8. new = [k \in 1..n |->
              [groups[k] EXCEPT !.supplier = groups[k].supplier - s[k],
                                !.retailer = groups[k].retailer - r[k],
                                !.fee = s[k] + r[k], !.items = Lines(k)]]
  BY <1>2, <1>4, <1>7 DEF ApplyFees, fee, half, other, supplierAll, retailerAll, sup, ret
<1> HIDE DEF s, r
<1>9. ASSUME NEW k \in 1..n
      PROVE  new[k] \in Groups /\ new[k].items # <<>> /\ new[k].id = groups[k].id
             /\ new[k].fee = s[k] + r[k] /\ new[k].retailer <= groups[k].retailer
  <2> DEFINE g == groups[k]
             items == g.items
             lines == Lines(k)
             m == Len(items)
  <2>1. /\ g.id \in AmtSuppliers /\ g.supplier \in Nat \ {0} /\ g.retailer \in Nat
        /\ g \in Groups /\ items \in Seq(Int) /\ items # <<>> /\ s[k] \in Nat /\ r[k] \in Nat
    BY <1>3, <1>6
  <2>2. m \in Nat /\ m # 0 /\ DOMAIN items = 1..m /\ \A j \in 1..m : items[j] \in Int
    BY <2>1, EmptySeq, LenProperties
  <2>3. ASSUME NEW j \in 1..m
        PROVE  Rounded(items[j] * (g.supplier - s[k]), g.supplier, up) \in Int
    <3> DEFINE num == items[j] * (g.supplier - s[k])
               den == g.supplier
    <3>1. num \in Int /\ den \in Nat \ {0}
      <4>1. items[j] \in Int /\ g.supplier \in Nat \ {0} /\ s[k] \in Nat
        BY <2>1, <2>2
      <4> HIDE DEF g, items
      <4> QED
        BY <4>1
    <3> HIDE DEF num, den
    <3>2. Rounded(num, den, up) \in Int
      BY <3>1, RoundedWithin, Zenon
    <3> QED
      BY <3>2, Zenon DEF num, den
  <2>4. lines \in [1..m -> Int]
    BY <2>2, <2>3
  <2>5. lines \in Seq(Int) /\ Len(lines) = m
    <3> HIDE DEF lines, m
    <3> QED
      BY <2>2, <2>4, FunSeq
  <2>6. lines # <<>>
    <3> HIDE DEF lines, m
    <3> QED
      BY <2>2, <2>5, EmptySeq
  <2>7. new[k] = [g EXCEPT !.supplier = g.supplier - s[k], !.retailer = g.retailer - r[k],
                           !.fee = s[k] + r[k], !.items = lines]
    <3> HIDE DEF new
    <3> QED
      BY <1>8
  <2> HIDE DEF lines, new, m
  <2>8. g.supplier - s[k] \in Int /\ g.retailer - r[k] \in Int /\ s[k] + r[k] \in Int
    BY <2>1
  <2>9. g = [id |-> g.id, items |-> g.items, supplier |-> g.supplier,
             retailer |-> g.retailer, fee |-> g.fee]
    BY <2>1 DEF Groups
  <2>10. new[k] = [id |-> g.id, items |-> lines, supplier |-> g.supplier - s[k],
                   retailer |-> g.retailer - r[k], fee |-> s[k] + r[k]]
    BY <2>7, <2>9
  <2> HIDE DEF g
  <2>11. new[k] \in Groups
    BY <2>1, <2>5, <2>8, <2>10 DEF Groups
  <2> QED
    BY <2>1, <2>6, <2>10, <2>11 DEF g
<1>10. new \in Seq(Groups) /\ Len(new) = n /\ DOMAIN new = 1..n
  <2>1. new \in [1..n -> Groups]
    <3>1. DOMAIN new = 1..n /\ new = [k \in 1..n |-> new[k]]
      BY <1>8
    <3> HIDE DEF new
    <3> QED
      BY <1>9, <3>1
  <2> HIDE DEF new
  <2> QED
    BY <1>2, <2>1, FunSeq
<1> HIDE DEF new
<1>11. Distinct(new)
  BY <1>2, <1>9, <1>10 DEF Distinct
<1>12. AmtSum(Fees(new)) = AmtSum(s) + AmtSum(r)
  <2> DEFINE u == Fees(new)
  <2>1. u \in [1..n -> Int] /\ \A k \in 1..n : u[k] = s[k] + r[k]
    BY <1>6, <1>9, <1>10 DEF Fees
  <2> HIDE DEF u
  <2>2. u \in Seq(Int) /\ Len(u) = n
    BY <1>2, <2>1, FunSeq
  <2> QED
    <3>1. Len(u) = Len(s) /\ Len(r) = Len(s) /\ \A k \in 1..Len(s) : u[k] = s[k] + r[k]
      BY <1>6, <2>1, <2>2
    <3>2. AmtSum(u) = AmtSum(s) + AmtSum(r)
      BY <1>6, <2>2, <3>1, SumAdd, Zenon
    <3> QED
      BY <3>2 DEF u
<1>13. /\ 200 * AmtSum(s) - 200 * half <= n * (100 + half)
       /\ 200 * half - 200 * AmtSum(s) <= n * (100 + half)
  <2>1. /\ half \in Nat /\ s \in Seq(Int) /\ sup \in Seq(Int) /\ Len(s) = Len(sup)
        /\ Len(sup) = n /\ AmtSum(sup) \in Nat \ {0}
        /\ \A k \in 1..Len(sup) : s[k] = Deduction(half, sup[k], AmtSum(sup), up)
    BY <1>1, <1>4, <1>5, <1>6, <1>7 DEF supplierAll
  <2>2. HalfCharged(AmtSum(s), half, Len(sup))
    BY <2>1, SideCharged, Zenon
  <2> QED
    BY <2>1, <2>2 DEF HalfCharged
<1>14. retailerAll # 0 =>
         /\ 200 * AmtSum(r) - 200 * other <= n * (100 + other)
         /\ 200 * other - 200 * AmtSum(r) <= n * (100 + other)
  <2> SUFFICES ASSUME retailerAll # 0
               PROVE  /\ 200 * AmtSum(r) - 200 * other <= n * (100 + other)
                      /\ 200 * other - 200 * AmtSum(r) <= n * (100 + other)
    OBVIOUS
  <2>1. /\ other \in Nat /\ r \in Seq(Int) /\ ret \in Seq(Int) /\ Len(r) = Len(ret)
        /\ Len(ret) = n /\ AmtSum(ret) \in Nat \ {0}
        /\ \A k \in 1..Len(ret) : r[k] = Deduction(other, ret[k], AmtSum(ret), up)
    BY <1>1, <1>4, <1>5, <1>6, <1>7 DEF retailerAll
  <2>2. HalfCharged(AmtSum(r), other, Len(ret))
    BY <2>1, SideCharged, Zenon
  <2> QED
    BY <2>1, <2>2 DEF HalfCharged
<1>15. retailerAll = 0 => AmtSum(r) = 0
  <2> SUFFICES ASSUME retailerAll = 0 PROVE AmtSum(r) = 0
    OBVIOUS
  <2>1. \A k \in 1..n : r[k] = 0
    BY <1>7 DEF Deduction
  <2> QED
    BY <1>2, <1>6, <2>1, SumZeros
<1>16. (\E k \in DOMAIN new : new[k].retailer > 0) => retailerAll # 0
  <2> SUFFICES ASSUME NEW k \in 1..n, new[k].retailer > 0 PROVE retailerAll > 0
    BY <1>5, <1>10
  <2>1. ret[k] > 0 /\ ret[k] \in Nat
    <3>1. new[k].retailer \in Int
      BY <1>9 DEF Groups
    <3>2. /\ new[k].retailer <= ret[k] /\ ret[k] \in Nat
      BY <1>4, <1>5, <1>9
    <3> QED
      BY <3>1, <3>2
  <2>2. \A j \in 1..n : ret[j] \in Nat
    BY <1>5
  <2> QED
    BY <1>4, <2>1, <2>2, SumPositive DEF retailerAll
<1>17. FeeKept(new, total)
  <2> DEFINE F == PlatformFee(total, TRUE)
             kept == AmtSum(Fees(new))
             S == AmtSum(s)
             R == AmtSum(r)
             x == n * half
             y == n * other
             slip == n * (F + 400)
  <2>0. other = fee - half /\ F \in {fee, fee + 1}
    BY <1>1 DEF other
  <2> HIDE DEF F
  <2>1. S \in Int /\ R \in Int /\ kept = S + R
    BY <1>6, <1>12, SumSteps
  <2>2. /\ x \in Nat /\ y \in Nat /\ n * (100 + half) = 100 * n + x
        /\ n * (100 + other) = 100 * n + y
    BY <1>1, <1>2
  <2>3. /\ fee = half + other /\ fee \in Nat /\ half \in Nat /\ other \in Nat
        /\ fee <= 2 * half + 1 /\ F \in {fee, fee + 1}
    BY <1>1, <2>0
  <2>4. slip >= x + y + 400 * n
    <3>1. n * (half + other + 400) = x + y + 400 * n
      BY <1>1, <1>2
    <3>2. n * (half + other + 1 + 400) = x + y + 401 * n
      BY <1>1, <1>2
    <3>3. F + 400 = half + other + 400 \/ F + 400 = half + other + 1 + 400
      BY <2>3
    <3>4. slip \in {x + y + 400 * n, x + y + 401 * n}
      BY <3>1, <3>2, <3>3
    <3> QED
      BY <1>2, <2>2, <3>4
  <2>5. slip \in Int
    BY <1>2, <2>3
  <2> HIDE DEF kept, S, R, x, y, slip
  <2>6. /\ 200 * S - 200 * half <= 100 * n + x /\ 200 * half - 200 * S <= 100 * n + x
        /\ retailerAll # 0 => 200 * R - 200 * other <= 100 * n + y
                              /\ 200 * other - 200 * R <= 100 * n + y
        /\ retailerAll = 0 => R = 0
    BY <1>13, <1>14, <1>15, <2>2 DEF S, R
  <2>7. 200 * (kept - F) <= slip
    <3>1. CASE retailerAll = 0
      BY <1>2, <2>1, <2>2, <2>3, <2>4, <2>5, <2>6, <3>1
    <3>2. CASE retailerAll # 0
      BY <1>2, <2>1, <2>2, <2>3, <2>4, <2>5, <2>6, <3>2
    <3> QED
      BY <3>1, <3>2
  <2>8. retailerAll # 0 => 200 * (F - kept) <= slip
    <3>1. SUFFICES ASSUME retailerAll # 0 PROVE 200 * (F - kept) <= slip
      OBVIOUS
    <3> QED
      BY <1>2, <2>1, <2>2, <2>3, <2>4, <2>5, <2>6, <3>1
  <2>9. retailerAll = 0 => 200 * (F - kept) <= slip + 100 * F
    <3>1. SUFFICES ASSUME retailerAll = 0 PROVE 200 * (F - kept) <= slip + 100 * F
      OBVIOUS
    <3> QED
      BY <1>2, <2>1, <2>2, <2>3, <2>4, <2>5, <2>6, <3>1
  <2>10. 200 * (F - kept) <= slip + 100 * F
    BY <2>1, <2>3, <2>5, <2>8, <2>9
  <2>11. n = 1 /\ retailerAll # 0 => kept \in {F, PlatformFee(total, FALSE)}
    <3> SUFFICES ASSUME n = 1, retailerAll # 0 PROVE kept \in {F, PlatformFee(total, FALSE)}
      OBVIOUS
    <3>1. S = s[1] /\ R = r[1] /\ supplierAll = sup[1] /\ retailerAll = ret[1]
      BY <1>4, <1>6, SumOfOne DEF S, R, supplierAll, retailerAll
    <3>2. 1 \in 1..n
      OBVIOUS
    <3>3. s[1] = Deduction(half, supplierAll, supplierAll, up)
          /\ r[1] = Deduction(other, retailerAll, retailerAll, up)
      BY <1>7, <3>1, <3>2
    <3>4. s[1] = half /\ r[1] = other
      BY <1>1, <1>5, <3>3, AloneCharged
    <3>5. kept = fee
      BY <2>1, <2>3, <3>1, <3>4
    <3>6. fee = PlatformFee(total, up)
      BY DEF fee
    <3> QED
      BY <3>5, <3>6 DEF F
  <2> DEFINE both == \E k \in DOMAIN new : new[k].retailer > 0
             low == PlatformFee(total, FALSE)
  <2>12. both => retailerAll # 0
    BY <1>16
  <2> HIDE DEF both, low
  <2>13. /\ n = 1 /\ both => kept \in {F, low}
         /\ 200 * (F - kept) <= slip + (IF both THEN 0 ELSE 100 * F)
    <3>1. CASE both
      <4>1. slip + (IF both THEN 0 ELSE 100 * F) = slip
        BY <2>5, <3>1
      <4>2. n = 1 => kept \in {F, low}
        BY <2>11, <2>12, <3>1 DEF low
      <4> QED
        BY <2>8, <2>12, <3>1, <4>1, <4>2, Zenon
    <3>2. CASE ~both
      BY <2>10, <3>2
    <3> QED
      BY <3>1, <3>2
  <2> QED
    BY <1>10, <2>7, <2>13 DEF FeeKept, F, kept, slip, both, low
<1> QED
  BY <1>9, <1>10, <1>11, <1>17 DEF new

--------------------------------------------------------------------------------
(* The request.                                                            *)

(* A group that says what its supplier gets, and one that passed the checks. *)
Plausible == {g \in Groups : g.items = <<>> => g.supplier >= 0}
Checked   == {g \in Plausible : /\ \A j \in DOMAIN g.items : g.items[j] > 0
                                /\ g.retailer >= 0 /\ g.fee >= 0}

(* The groups have been checked, their sum compared with the total, the    *)
(* total with the payments; and a canonical request has kept its fee.      *)
AmtInv ==
  /\ AmtTypeOK
  /\ amtPc = "new" => ~amtCanonical
  /\ amtPc = "validate" => amtGroups \in Seq(Plausible)
  /\ amtPc \in {"aggregate", "accepted"} =>
       /\ amtGroups \in Seq(Checked)
       /\ ~amtExcluded => ~Apart(amtTotal, amtCharged, 2)
  /\ amtPc = "aggregate" => ~Apart(amtTotal, AllParts, 2)
  /\ amtPc = "accepted" /\ ~amtMixed => ~Apart(amtTotal, AllParts, 2)
  /\ amtPc \in {"validate", "aggregate", "accepted"} /\ amtCanonical /\ ~amtExcluded =>
       Distinct(amtGroups) /\ FeeKept(amtGroups, amtTotal)

LEMMA CheckedClosed == Closed(Checked)
<1> SUFFICES ASSUME NEW a \in Checked, NEW b \in Checked, a.id = b.id
             PROVE  Joined(a, b) \in Checked
  BY DEF Closed, Checked, Plausible
<1> DEFINE c == Joined(a, b)
<1>1. /\ a \in Groups /\ b \in Groups /\ c \in Groups
      /\ a.items \in Seq(Int) /\ b.items \in Seq(Int)
      /\ a.retailer \in Nat /\ b.retailer \in Nat /\ a.fee \in Nat /\ b.fee \in Nat
      /\ a.supplier \in Int /\ b.supplier \in Int
  <2>1. a \in Groups /\ b \in Groups /\ a.retailer >= 0 /\ b.retailer >= 0 /\ a.fee >= 0 /\ b.fee >= 0
    BY DEF Checked, Plausible
  <2>2. c \in Groups
    BY <2>1, JoinedGroups DEF Closed
  <2> QED
    BY <2>1, <2>2 DEF Groups
<1>2. /\ c.items = a.items \o b.items /\ c.supplier = a.supplier + b.supplier
      /\ c.retailer = a.retailer + b.retailer /\ c.fee = a.fee + b.fee
  BY DEF Joined
<1>3. c.items = <<>> => c.supplier >= 0
  <2>1. c.items = <<>> => a.items = <<>> /\ b.items = <<>>
    <3>1. a.items \o b.items = <<>> <=> a.items = <<>> /\ b.items = <<>>
      BY <1>1, ConcatEqualIffEmpty
    <3> QED
      BY <1>2, <3>1
  <2> HIDE DEF c
  <2> QED
    BY <1>1, <1>2, <2>1 DEF Checked, Plausible
<1>4. \A j \in DOMAIN c.items : c.items[j] > 0
  <2> DEFINE u == a.items
             w == b.items
  <2>1. /\ \A j \in 1..Len(u) : u[j] > 0 /\ u[j] \in Int
        /\ \A j \in 1..Len(w) : w[j] > 0 /\ w[j] \in Int
    BY <1>1 DEF Checked
  <2>2. /\ Len(u) \in Nat /\ Len(w) \in Nat
        /\ DOMAIN (u \o w) = 1..Len(u) + Len(w)
        /\ \A j \in 1..Len(u) + Len(w) :
             (u \o w)[j] = IF j <= Len(u) THEN u[j] ELSE w[j - Len(u)]
    <3>1. u \in Seq(Int) /\ w \in Seq(Int)
      BY <1>1
    <3> HIDE DEF u, w
    <3>2. /\ u \o w \in Seq(Int) /\ Len(u \o w) = Len(u) + Len(w)
          /\ \A j \in 1..Len(u) + Len(w) :
               (u \o w)[j] = IF j <= Len(u) THEN u[j] ELSE w[j - Len(u)]
      BY <3>1, ConcatProperties
    <3> QED
      BY <3>1, <3>2, LenProperties
  <2> HIDE DEF u, w
  <2>3. ASSUME NEW j \in 1..Len(u) + Len(w) PROVE (u \o w)[j] > 0
    <3>1. CASE j <= Len(u)
      BY <2>1, <2>2, <3>1
    <3>2. CASE j > Len(u)
      <4>1. j - Len(u) \in 1..Len(w)
        BY <2>2, <3>2
      <4> QED
        BY <2>1, <2>2, <3>2, <4>1
    <3> QED
      BY <2>2, <3>1, <3>2
  <2> QED
    BY <1>2, <2>2, <2>3 DEF u, w
<1> HIDE DEF c
<1>5. c.retailer >= 0 /\ c.fee >= 0
  BY <1>1, <1>2
<1>6. c \in Checked
  BY <1>1, <1>3, <1>4, <1>5 DEF Checked, Plausible
<1> QED
  BY <1>6 DEF c

LEMMA CheckedParts ==
  ASSUME NEW g \in Checked
  PROVE  SupplierPart(g) >= 0 /\ g.retailer >= 0 /\ g.fee >= 0
<1>1. g.items \in Seq(Int) /\ \A j \in 1..Len(g.items) : g.items[j] >= 0
  <2>1. g.items \in Seq(Int) /\ DOMAIN g.items = 1..Len(g.items)
    BY DEF Checked, Plausible, Groups
  <2>2. \A j \in 1..Len(g.items) : g.items[j] > 0 /\ g.items[j] \in Int
    BY <2>1 DEF Checked
  <2> QED
    BY <2>1, <2>2
<1>2. AmtSum(g.items) >= 0
  <2>1. AmtSum(g.items) \in Int /\ Len(g.items) \in Nat /\ 0 \in Int
    BY <1>1, SumSteps
  <2>2. AmtSum(g.items) >= Len(g.items) * 0
    BY <1>1, <2>1, SumAtLeast, Zenon
  <2> QED
    BY <2>1, <2>2
<1> QED
  BY <1>2 DEF SupplierPart, Checked, Plausible

LEMMA PartsTotal == ASSUME NEW groups \in Seq(Groups) PROVE AmtSum(Parts(groups)) \in Int
  BY PartsSeq, SumSteps

LEMMA AmtInvInit == AmtInit => AmtInv
<1> SUFFICES ASSUME AmtInit PROVE AmtInv
  OBVIOUS
<1>1. <<>> \in Seq(Groups)
  BY EmptySeq
<1>2. AmtTypeOK
  <2>1. amtGroups \in Seq(Groups)
    BY <1>1, Zenon DEF AmtInit
  <2>2. /\ amtPc = "new" /\ amtCanonical = FALSE /\ amtTotal = 0 /\ amtCharged = 0
        /\ amtExcluded = FALSE /\ amtMixed = FALSE
    BY DEF AmtInit
  <2>3. /\ amtPc \in {"new", "validate", "aggregate", "accepted", "rejected"}
        /\ amtCanonical \in BOOLEAN /\ amtTotal \in Int /\ amtCharged \in Int
        /\ amtExcluded \in BOOLEAN /\ amtMixed \in BOOLEAN
    <3>1. 0 \in Int
      OBVIOUS
    <3> QED
      BY <2>2, <3>1, Zenon
  <2> QED
    BY <2>1, <2>3, Zenon DEF AmtTypeOK
<1>3. amtPc = "new" /\ ~amtCanonical
  BY DEF AmtInit
<1> QED
  BY <1>2, <1>3 DEF AmtInv

LEMMA NormalizeStep ==
  ASSUME AmtInv, NEW items \in SeqsUpTo(Items, MaxItems), Normalize(items)
  PROVE  AmtInv'
<1>1. items \in Seq(Items) /\ Len(items) \in Nat /\ Len(items) >= 1
  <2>1. PICK m \in 1..MaxItems : items \in [1..m -> Items]
    BY DEF SeqsUpTo
  <2>2. m \in Nat /\ m >= 1
    BY <2>1, AmtAssumption
  <2> QED
    BY <2>1, <2>2, FunSeq
<1>2. AmtSum(LineAmounts(items)) \in Nat
  <2> DEFINE v == LineAmounts(items)
             n == Len(items)
  <2>1. n \in Nat /\ DOMAIN items = 1..n /\ \A k \in 1..n : items[k] \in Items
    BY <1>1
  <2>2. \A k \in 1..n : items[k].supplier \in Nat /\ items[k].retailer \in Nat
    BY <2>1, AmtAssumption DEF Items
  <2>3. v \in [1..n -> Int] /\ \A k \in 1..n : v[k] >= 0
    BY <2>1, <2>2 DEF LineAmounts
  <2> HIDE DEF v, n
  <2>4. v \in Seq(Int) /\ Len(v) = n /\ 0 \in Int
    BY <2>1, <2>3, FunSeq
  <2>5. AmtSum(v) >= Len(v) * 0
    <3>1. \A k \in 1..Len(v) : v[k] >= 0
      BY <2>3, <2>4
    <3> QED
      BY <2>4, <3>1, SumAtLeast, Zenon
  <2>6. AmtSum(v) \in Int
    BY <2>4, SumSteps
  <2> QED
    BY <2>1, <2>4, <2>5, <2>6 DEF v
<1>3. /\ amtPc = "new" /\ amtCanonical' = TRUE
      /\ UNCHANGED <<amtExcluded, amtMixed>>
      /\ amtExcluded \in BOOLEAN /\ amtMixed \in BOOLEAN /\ amtGroups \in Seq(Groups)
      /\ amtTotal \in Int /\ amtCharged \in Int
  BY DEF Normalize, AmtInv, AmtTypeOK
<1> DEFINE sum == AmtSum(LineAmounts(items))
<1>4. PICK amount \in {sum, sum + 1}, charged \in {sum, sum + 1}, up \in BOOLEAN :
        IF Reconciles(items, amount, charged)
          THEN /\ amtGroups' = ApplyFees(GroupItems(items), amount, up)
               /\ amtTotal' = amount /\ amtCharged' = charged
               /\ amtPc' = "validate"
          ELSE amtPc' = "rejected" /\ UNCHANGED <<amtGroups, amtTotal, amtCharged>>
  BY DEF Normalize
<1> HIDE DEF sum
<1>5. amount \in Nat /\ charged \in Int
  BY <1>2, <1>4 DEF sum
<1>6. CASE Reconciles(items, amount, charged)
  <2> DEFINE groups == GroupItems(items)
             new == ApplyFees(groups, amount, up)
  <2>1. amtGroups' = new /\ amtTotal' = amount /\ amtCharged' = charged /\ amtPc' = "validate"
    BY <1>4, <1>6
  <2>2. groups \in Seq(Fresh) /\ Distinct(groups) /\ Len(groups) >= 1
    BY <1>1, GroupItemsFresh
  <2>3. new \in Seq(Groups) /\ Distinct(new) /\ FeeKept(new, amount)
        /\ \A k \in DOMAIN new : new[k].items # <<>>
    <3> HIDE DEF groups
    <3> QED
      BY <1>5, <2>2, Charged
  <2> HIDE DEF new
  <2>4. new \in Seq(Plausible)
    <3>1. Len(new) \in Nat /\ DOMAIN new = 1..Len(new) /\ new \in [1..Len(new) -> Groups]
      BY <2>3, LenProperties
    <3>2. \A k \in 1..Len(new) : new[k] \in Plausible
      BY <2>3, <3>1 DEF Plausible
    <3>3. new \in [1..Len(new) -> Plausible]
      BY <3>1, <3>2
    <3> QED
      BY <3>1, <3>3, FunSeq
  <2>5. AmtTypeOK'
    BY <1>3, <1>5, <2>1, <2>3 DEF AmtTypeOK
  <2> QED
    BY <2>1, <2>3, <2>4, <2>5 DEF AmtInv
<1>7. CASE ~Reconciles(items, amount, charged)
  <2>1. amtPc' = "rejected" /\ UNCHANGED <<amtGroups, amtTotal, amtCharged>>
    BY <1>4, <1>7
  <2>2. AmtTypeOK'
    BY <1>3, <2>1 DEF AmtTypeOK
  <2> QED
    BY <2>1, <2>2 DEF AmtInv
<1> QED
  BY <1>6, <1>7

LEMMA SubmitLegacyStep ==
  ASSUME AmtInv, NEW groups \in SeqsUpTo(LegacyGroups, MaxItems), SubmitLegacy(groups)
  PROVE  AmtInv'
<1>1. ASSUME NEW g \in LegacyGroups PROVE g \in Plausible
  <2> DEFINE Amounts == LegacyCents \ {0}
             Lines == {<<>>} \cup SeqsUpTo(Amounts, MaxLegacyItems)
  <2>1. /\ g.id \in AmtSuppliers /\ g.supplier \in Nat /\ g.retailer \in Int /\ g.fee \in Int
        /\ g = [id |-> g.id, items |-> g.items, supplier |-> g.supplier,
                retailer |-> g.retailer, fee |-> g.fee]
        /\ g.items \in Lines
    <3>1. g \in [id : AmtSuppliers, items : Lines, supplier : LegacyCents,
                 retailer : LegacyRetailers, fee : LegacyFees]
      BY DEF LegacyGroups
    <3> HIDE DEF Lines
    <3>2. /\ g.id \in AmtSuppliers /\ g.supplier \in LegacyCents /\ g.retailer \in LegacyRetailers
          /\ g.fee \in LegacyFees /\ g.items \in Lines
          /\ g = [id |-> g.id, items |-> g.items, supplier |-> g.supplier,
                  retailer |-> g.retailer, fee |-> g.fee]
      BY <3>1
    <3> QED
      BY <3>2, AmtAssumption
  <2>2. g.items \in Seq(Int)
    <3>1. CASE g.items = <<>>
      BY <3>1, EmptySeq
    <3>2. CASE g.items # <<>>
      <4>0. Amounts \subseteq Int
        BY AmtAssumption
      <4>1. g.items \in SeqsUpTo(Amounts, MaxLegacyItems)
        BY <2>1, <3>2
      <4> HIDE DEF Amounts
      <4>2. PICK m \in 1..MaxLegacyItems : g.items \in [1..m -> Amounts]
        BY <4>1 DEF SeqsUpTo
      <4> DEFINE list == g.items
      <4>3. m \in Nat
        BY <4>2, AmtAssumption
      <4>4. list \in [1..m -> Amounts]
        BY <4>2, Zenon
      <4> HIDE DEF list
      <4>5. list \in [1..m -> Int]
        BY <4>0, <4>4
      <4>6. list \in Seq(Int)
        BY <4>3, <4>5, FunSeq
      <4> QED
        BY <4>6 DEF list
    <3> QED
      BY <3>1, <3>2
  <2>3. g \in Groups
    BY <2>1, <2>2 DEF Groups
  <2> QED
    BY <2>1, <2>3 DEF Plausible
<1>2. groups \in Seq(Plausible)
  <2>1. PICK m \in 1..MaxItems : groups \in [1..m -> LegacyGroups]
    BY DEF SeqsUpTo
  <2>2. m \in Nat /\ groups \in [1..m -> Plausible]
    BY <1>1, <2>1, AmtAssumption
  <2> QED
    BY <2>2, FunSeq
<1>3. groups \in Seq(Groups)
  <2>1. Plausible \subseteq Groups
    BY DEF Plausible
  <2> QED
    BY <1>2, <2>1, SeqMonotonic
<1>4. AmtSum(Parts(groups)) \in Int
  BY <1>3, PartsTotal
<1>5. /\ amtPc = "new" /\ amtPc' = "validate" /\ amtGroups' = groups
      /\ UNCHANGED <<amtCanonical, amtExcluded, amtMixed>>
  BY DEF SubmitLegacy
<1>6. amtTotal' \in Int /\ amtCharged' \in Int
  <2> DEFINE sum == AmtSum(Parts(groups))
  <2>1. PICK total \in {sum + d : d \in {0, 1, 2}}, charged \in {sum + d : d \in {0, 1, 2}} :
          amtTotal' = total /\ amtCharged' = charged
    BY DEF SubmitLegacy
  <2> HIDE DEF sum
  <2>2. sum \in Int
    BY <1>4 DEF sum
  <2> QED
    BY <2>1, <2>2
<1>7. ~amtCanonical /\ amtCanonical \in BOOLEAN /\ amtExcluded \in BOOLEAN /\ amtMixed \in BOOLEAN
  BY <1>5 DEF AmtInv, AmtTypeOK
<1>8. AmtTypeOK'
  BY <1>3, <1>5, <1>6, <1>7 DEF AmtTypeOK
<1> QED
  BY <1>2, <1>5, <1>7, <1>8 DEF AmtInv

LEMMA ApartEither ==
  ASSUME NEW a \in Int, NEW b \in Int
  PROVE  (Apart(a, b, 2) <=> Apart(b, a, 2)) /\ ~Apart(a, a, 2)
  BY DEF Apart

LEMMA Passed ==
  ASSUME NEW g \in Plausible, NEW eligible, ~GroupFails(g, eligible, 2)
  PROVE  g \in Checked
<1>1. /\ g.items \in Seq(Int) /\ g.retailer \in Int /\ g.fee \in Int
      /\ ~(g.retailer < 0) /\ ~(g.fee < 0)
      /\ \A j \in DOMAIN g.items : ~(g.items[j] <= 0)
  BY DEF Plausible, Groups, GroupFails
<1>2. \A j \in DOMAIN g.items : g.items[j] \in Int
  BY <1>1
<1>3. \A j \in DOMAIN g.items : g.items[j] > 0
  BY <1>1, <1>2
<1>4. g.retailer >= 0 /\ g.fee >= 0
  BY <1>1
<1> QED
  BY <1>3, <1>4 DEF Checked

LEMMA ValidateStep == ASSUME AmtInv, Validate PROVE AmtInv'
<1>1. /\ amtPc = "validate" /\ amtGroups \in Seq(Plausible) /\ amtGroups \in Seq(Groups)
      /\ amtTotal \in Int /\ amtCharged \in Int /\ amtCanonical \in BOOLEAN
      /\ amtExcluded \in BOOLEAN /\ amtMixed \in BOOLEAN
  BY DEF Validate, AmtInv, AmtTypeOK
<1>2. PICK eligible \in SUBSET AmtSuppliers, failed \in SUBSET DOMAIN amtGroups :
       /\ {i \in DOMAIN amtGroups : GroupFails(amtGroups[i], eligible, 2)} \subseteq failed
       /\ \/ /\ amtPc' = "rejected"
             /\ UNCHANGED <<amtGroups, amtTotal, amtExcluded>>
          \/ /\ ~Apart(amtCharged, amtTotal, 2)
             /\ failed = {} /\ ~Apart(amtTotal, AllParts, 2)
             /\ amtPc' = "aggregate"
             /\ UNCHANGED <<amtGroups, amtTotal, amtExcluded>>
          \/ /\ ~Apart(amtCharged, amtTotal, 2)
             /\ amtGroups' = Keep(amtGroups, failed)
             /\ amtTotal' = AmtSum(Parts(Keep(amtGroups, failed)))
             /\ amtExcluded' = TRUE
             /\ amtPc' = "aggregate"
  BY DEF Validate
<1>3. UNCHANGED <<amtCanonical, amtCharged, amtMixed>>
  BY DEF Validate
<1>4. Keep(amtGroups, failed) \in Seq(Checked)
  <2>1. DOMAIN amtGroups = 1..Len(amtGroups) /\ \A k \in 1..Len(amtGroups) : amtGroups[k] \in Plausible
    BY <1>1
  <2>2. \A k \in 1..Len(amtGroups) : k \notin failed => ~GroupFails(amtGroups[k], eligible, 2)
    BY <1>2, <2>1
  <2>3. \A k \in 1..Len(amtGroups) : k \notin failed => amtGroups[k] \in Checked
    BY <2>1, <2>2, Passed
  <2> QED
    BY <1>1, <2>3, KeepIn
<1>5. Checked \subseteq Groups
  BY DEF Checked, Plausible
<1>6. CASE /\ amtPc' = "rejected"
           /\ UNCHANGED <<amtGroups, amtTotal, amtExcluded>>
  <2>1. AmtTypeOK'
    BY <1>1, <1>3, <1>6 DEF AmtTypeOK
  <2> QED
    BY <1>6, <2>1 DEF AmtInv
<1>7. CASE /\ ~Apart(amtCharged, amtTotal, 2)
           /\ failed = {} /\ ~Apart(amtTotal, AllParts, 2)
           /\ amtPc' = "aggregate"
           /\ UNCHANGED <<amtGroups, amtTotal, amtExcluded>>
  <2>1. amtGroups \in Seq(Checked)
    <3>1. /\ Len(amtGroups) \in Nat /\ DOMAIN amtGroups = 1..Len(amtGroups)
          /\ amtGroups \in [1..Len(amtGroups) -> Groups]
      BY <1>1, LenProperties
    <3>2. \A k \in 1..Len(amtGroups) : amtGroups[k] \in Plausible
      BY <1>1
    <3>3. \A k \in 1..Len(amtGroups) : ~GroupFails(amtGroups[k], eligible, 2)
      BY <1>2, <1>7, <3>1
    <3>4. \A k \in 1..Len(amtGroups) : amtGroups[k] \in Checked
      BY <3>2, <3>3, Passed
    <3>5. amtGroups \in [1..Len(amtGroups) -> Checked]
      BY <3>1, <3>4
    <3> QED
      BY <3>1, <3>5, FunSeq
  <2>2. AmtTypeOK'
    BY <1>1, <1>3, <1>7 DEF AmtTypeOK
  <2>3. ~Apart(amtTotal, amtCharged, 2)'
    BY <1>1, <1>3, <1>7, ApartEither
  <2>4. ~Apart(amtTotal, AllParts, 2)'
    BY <1>7 DEF AllParts
  <2>5. amtCanonical' /\ ~amtExcluded' => Distinct(amtGroups)' /\ FeeKept(amtGroups, amtTotal)'
    BY <1>1, <1>3, <1>7 DEF AmtInv
  <2> QED
    BY <1>7, <2>1, <2>2, <2>3, <2>4, <2>5 DEF AmtInv
<1>8. CASE /\ amtGroups' = Keep(amtGroups, failed)
           /\ amtTotal' = AmtSum(Parts(Keep(amtGroups, failed)))
           /\ amtExcluded' = TRUE
           /\ amtPc' = "aggregate"
  <2>1. amtGroups' \in Seq(Checked) /\ amtGroups' \in Seq(Groups)
    BY <1>4, <1>5, <1>8, SeqMonotonic
  <2>2. amtTotal' = AllParts' /\ amtTotal' \in Int
    BY <1>8, <2>1, PartsTotal DEF AllParts
  <2>3. AmtTypeOK'
    BY <1>1, <1>3, <1>8, <2>1, <2>2 DEF AmtTypeOK
  <2>4. ~Apart(amtTotal, AllParts, 2)'
    BY <2>2, ApartEither
  <2> QED
    BY <1>8, <2>1, <2>3, <2>4 DEF AmtInv
<1> QED
  BY <1>2, <1>6, <1>7, <1>8

LEMMA AggregateStep == ASSUME AmtInv, Aggregate PROVE AmtInv'
<1>1. /\ amtPc = "aggregate" /\ amtGroups \in Seq(Checked) /\ amtGroups \in Seq(Groups)
      /\ amtTotal \in Int /\ amtCharged \in Int /\ amtCanonical \in BOOLEAN
      /\ amtExcluded \in BOOLEAN
      /\ ~Apart(amtTotal, AllParts, 2)
      /\ ~amtExcluded => ~Apart(amtTotal, amtCharged, 2)
  BY DEF Aggregate, AmtInv, AmtTypeOK
<1>2. /\ amtGroups' = PutTogether(amtGroups) /\ amtPc' = "accepted"
      /\ UNCHANGED <<amtCanonical, amtTotal, amtCharged, amtExcluded>>
      /\ amtMixed' = \E i, j \in DOMAIN amtGroups :
           /\ amtGroups[i].id = amtGroups[j].id
           /\ amtGroups[i].items = <<>> /\ amtGroups[j].items # <<>>
  BY DEF Aggregate
<1>3. amtGroups' \in Seq(Checked) /\ amtGroups' \in Seq(Groups)
  <2>1. Checked \subseteq Groups
    BY DEF Checked, Plausible
  <2>2. amtGroups' \in Seq(Checked)
    BY <1>1, <1>2, CheckedClosed, TogetherIn
  <2> QED
    BY <2>1, <2>2, SeqMonotonic
<1>4. amtMixed' \in BOOLEAN
  BY <1>2
<1>5. AmtTypeOK'
  BY <1>1, <1>2, <1>3, <1>4 DEF AmtTypeOK
<1>6. ASSUME ~amtMixed' PROVE AllParts' = AllParts
  <2> DEFINE E == {amtGroups[i].id : i \in {k \in DOMAIN amtGroups : amtGroups[k].items = <<>>}}
             n == Len(amtGroups)
  <2>1. n \in Nat /\ DOMAIN amtGroups = 1..n /\ amtGroups \in [1..n -> Groups]
    BY <1>1, LenProperties
  <2>2. ASSUME NEW k \in 1..n PROVE amtGroups[k] \in OfKind(E)
    <3>1. amtGroups[k].items = <<>> => amtGroups[k].id \in E
      BY <2>1
    <3>2. amtGroups[k].id \in E => amtGroups[k].items = <<>>
      BY <1>2, <1>6, <2>1
    <3> HIDE DEF E
    <3> QED
      BY <2>1, <3>1, <3>2 DEF OfKind
  <2> HIDE DEF E
  <2>3. amtGroups \in [1..n -> OfKind(E)]
    BY <2>1, <2>2
  <2>4. amtGroups \in Seq(OfKind(E))
    BY <2>1, <2>3, FunSeq
  <2>5. AmtSum(Parts(PutTogether(amtGroups))) = AmtSum(Parts(amtGroups))
    BY <2>4, TogetherAdds
  <2> QED
    BY <1>2, <2>5 DEF AllParts
<1>7. ~amtMixed' => ~Apart(amtTotal, AllParts, 2)'
  BY <1>1, <1>2, <1>6
<1>8. ~amtExcluded' => ~Apart(amtTotal, amtCharged, 2)'
  BY <1>1, <1>2
<1>9. amtCanonical' /\ ~amtExcluded' => Distinct(amtGroups)' /\ FeeKept(amtGroups, amtTotal)'
  <2>1. SUFFICES ASSUME amtCanonical, ~amtExcluded
                 PROVE  Distinct(amtGroups') /\ FeeKept(amtGroups', amtTotal)
    BY <1>2
  <2>2. Distinct(amtGroups) /\ FeeKept(amtGroups, amtTotal)
    BY <1>1, <2>1 DEF AmtInv
  <2>3. amtGroups' = amtGroups
    BY <1>1, <1>2, <2>2, TogetherAlone
  <2> QED
    BY <2>2, <2>3
<1> QED
  BY <1>2, <1>3, <1>5, <1>7, <1>8, <1>9 DEF AmtInv

LEMMA AmtInvNext == AmtInv /\ [AmtNext]_amtVars => AmtInv'
<1> SUFFICES ASSUME AmtInv, [AmtNext]_amtVars PROVE AmtInv'
  OBVIOUS
<1>1. CASE AmtNext
  BY <1>1, NormalizeStep, SubmitLegacyStep, ValidateStep, AggregateStep DEF AmtNext
<1>2. CASE UNCHANGED amtVars
  BY <1>2 DEF AmtInv, AmtTypeOK, amtVars, AllParts
<1> QED
  BY <1>1, <1>2

(* The amounts of a request have their types.                              *)
THEOREM AmtTyping == AmtSpec => []AmtTypeOK
<1>1. AmtInv => AmtTypeOK
  BY DEF AmtInv
<1> QED
  BY <1>1, AmtInvInit, AmtInvNext, PTL DEF AmtSpec

(* What the rows of an accepted request are created with adds up to its    *)
(* total, whatever the amounts, items and groups of the request, and       *)
(* however they were grouped, charged, filtered and put together.          *)
THEOREM AddsUp == AmtSpec => []AcceptedAddsUp
<1>1. AmtInv => AcceptedAddsUp
  <2> SUFFICES ASSUME AmtInv, amtPc = "accepted", ~amtMixed PROVE AcceptedAddsUp
    BY DEF AcceptedAddsUp
  <2>1. /\ ~Apart(amtTotal, AllParts, 2)
        /\ ~amtExcluded => ~Apart(amtTotal, amtCharged, 2)
        /\ amtGroups \in Seq(Checked)
    BY DEF AmtInv
  <2>2. \A i \in DOMAIN amtGroups : amtGroups[i] \in Checked
    BY <2>1
  <2>3. ASSUME NEW i \in DOMAIN amtGroups
        PROVE  /\ SupplierPart(amtGroups[i]) >= 0
               /\ amtGroups[i].retailer >= 0 /\ amtGroups[i].fee >= 0
    BY <2>2, CheckedParts
  <2> QED
    BY <2>1, <2>3 DEF AcceptedAddsUp
<1> QED
  BY <1>1, AmtInvInit, AmtInvNext, PTL DEF AmtSpec

(* Of a canonical request PayAssure keeps its fee to the cent if it has    *)
(* one supplier and a part of the retailer's, and for every other strays   *)
(* from it by no more than the roundings of the shares allow.              *)
THEOREM FeeRetained == AmtSpec => []FeeIsRetained
<1>1. AmtInv => FeeIsRetained
  <2> SUFFICES ASSUME AmtInv, amtCanonical, amtPc = "accepted", ~amtExcluded PROVE FeeIsRetained
    BY DEF FeeIsRetained
  <2>1. FeeKept(amtGroups, amtTotal)
    BY DEF AmtInv
  <2> QED
    BY <2>1, Zenon DEF FeeIsRetained, FeeKept
<1> QED
  BY <1>1, AmtInvInit, AmtInvNext, PTL DEF AmtSpec
================================================================================
