------------------------- MODULE JustData_proofs -------------------------
(***************************************************************************)
(* Proofs about JustData for any prime field, any order and any ranges.    *)
(***************************************************************************)
EXTENDS JustData, WellFoundedInduction, TLAPS

-----------------------------------------------------------------------------
(***************************************************************************)
(* Induction                                                               *)
(***************************************************************************)

\* A set of natural numbers has a least one.
LEMMA LeastNat ==
  ASSUME NEW S, S \subseteq Nat, S # {}
  PROVE  \E m \in S : \A k \in S : m <= k
<1>1. PICK m \in S : \A y \in S : ~(<<y, m>> \in OpToRel(<, Nat))
  BY NatLessThanWellFounded, WFMin
<1>2. \A y \in S : ~(y < m)
  BY <1>1 DEF OpToRel
<1>3. \A y \in S : m \in Nat /\ y \in Nat
  OBVIOUS
<1>4. \A y \in S : m <= y
  BY <1>2, <1>3
<1> QED
  BY <1>4

\* What holds at zero and is kept by each of n steps holds after them.
LEMMA StepByStep ==
  ASSUME NEW n \in Nat, NEW S, 0 \in S, \A i \in 0..(n - 1) : i \in S => i + 1 \in S
  PROVE  \A i \in 0..n : i \in S
<1> SUFFICES ASSUME (0..n) \ S # {} PROVE FALSE
  OBVIOUS
<1> DEFINE missed == (0..n) \ S
<1>0. missed \subseteq Nat /\ missed # {}
  OBVIOUS
<1> HIDE DEF missed
<1>1. PICK m \in missed : \A k \in missed : m <= k
  BY <1>0, LeastNat
<1> USE DEF missed
<1>2. m \in Nat /\ m <= n /\ m \notin S /\ m # 0
  BY <1>1
<1>3. m - 1 \in 0..(n - 1) /\ m - 1 \in 0..n
  BY <1>2
<1>4. m - 1 \in S
  BY <1>1, <1>2, <1>3
<1>5. (m - 1) + 1 = m
  BY <1>2
<1> QED
  BY <1>2, <1>3, <1>4, <1>5

-----------------------------------------------------------------------------
(***************************************************************************)
(* The field                                                               *)
(***************************************************************************)

\* The same number of the field.
Same(x, y) == \E k \in Int : x - y = k * Prime

\* The prime is one.
LEMMA PrimeIs ==
  /\ Prime \in Nat /\ Prime > 1
  /\ \A d \in 2..(Prime - 1) : Prime % d # 0
  /\ Order \in Nat /\ Order < Prime
<1> QED
  BY JustDataAssumption DEF JustDataAssumption

\* An integer is the same number as its remainder.
LEMMA Remainder ==
  ASSUME NEW n \in Nat \ {0}, NEW x \in Int
  PROVE  /\ x % n \in 0..(n - 1)
         /\ \E k \in Int : x = k * n + (x % n)
<1>1. x % n \in 0..(n - 1)
  OBVIOUS
<1>2. x \div n \in Int /\ x = n * (x \div n) + (x % n)
  OBVIOUS
<1>3. x = (x \div n) * n + (x % n)
  BY <1>2
<1> QED
  BY <1>1, <1>2, <1>3

\* Being the same number is an equivalence.
LEMMA SameItself ==
  ASSUME NEW x \in Int
  PROVE  Same(x, x)
<1>1. x - x = 0 * Prime
  BY PrimeIs
<1> QED
  BY <1>1 DEF Same

LEMMA SameBack ==
  ASSUME NEW x \in Int, NEW y \in Int, Same(x, y)
  PROVE  Same(y, x)
<1>1. PICK k \in Int : x - y = k * Prime
  BY DEF Same
<1>2. y - x = (0 - k) * Prime /\ 0 - k \in Int
  BY <1>1, PrimeIs
<1> QED
  BY <1>2 DEF Same

LEMMA SameOn ==
  ASSUME NEW x \in Int, NEW y \in Int, NEW z \in Int, Same(x, y), Same(y, z)
  PROVE  Same(x, z)
<1>1. PICK k \in Int : x - y = k * Prime
  BY DEF Same
<1>2. PICK l \in Int : y - z = l * Prime
  BY DEF Same
<1>3. x - z = (k + l) * Prime /\ k + l \in Int
  BY <1>1, <1>2, PrimeIs
<1> QED
  BY <1>3 DEF Same

\* Sums and products of the same numbers are the same.
LEMMA SameSum ==
  ASSUME NEW x \in Int, NEW y \in Int, NEW v \in Int, NEW w \in Int, Same(x, y), Same(v, w)
  PROVE  Same(x + v, y + w)
<1>1. PICK k \in Int : x - y = k * Prime
  BY DEF Same
<1>2. PICK l \in Int : v - w = l * Prime
  BY DEF Same
<1>3. (x + v) - (y + w) = (k + l) * Prime /\ k + l \in Int
  BY <1>1, <1>2, PrimeIs
<1> QED
  BY <1>3 DEF Same

LEMMA SameProduct ==
  ASSUME NEW x \in Int, NEW y \in Int, NEW v \in Int, Same(x, y)
  PROVE  Same(x * v, y * v) /\ Same(v * x, v * y)
<1>1. PICK k \in Int : x - y = k * Prime
  BY DEF Same
<1>2. x * v - y * v = (x - y) * v /\ v * x - v * y = (x - y) * v
  OBVIOUS
<1>3. (k * Prime) * v = (k * v) * Prime
  BY PrimeIs
<1>4. k * v \in Int
  OBVIOUS
<1>5. x * v - y * v = (k * v) * Prime /\ v * x - v * y = (k * v) * Prime
  BY <1>1, <1>2, <1>3
<1> QED
  BY <1>4, <1>5 DEF Same

\* The remainder is the same number, and one of the field.
LEMMA Reduced ==
  ASSUME NEW x \in Int
  PROVE  x % Prime \in Numbers /\ Same(x % Prime, x)
<1>1. /\ x % Prime \in 0..(Prime - 1)
      /\ \E k \in Int : x = k * Prime + (x % Prime)
  <2>1. Prime \in Nat \ {0}
    BY PrimeIs
  <2> QED
    BY ONLY <2>1, x \in Int, Remainder
<1>2. PICK k \in Int : x = k * Prime + (x % Prime)
  BY <1>1
<1> DEFINE r == x % Prime
           p == k * Prime
<1>3. r \in Int /\ x = p + r /\ p \in Int
  BY <1>1, <1>2, PrimeIs
<1> HIDE DEF r, p
<1>4. r - x = 0 - p
  BY <1>3
<1>5. 0 - p = (0 - k) * Prime
  BY PrimeIs DEF p
<1>6. r - x = (0 - k) * Prime /\ 0 - k \in Int
  BY <1>4, <1>5
<1> QED
  BY <1>1, <1>6 DEF Same, Numbers, r

\* Two members of the field that are the same number are equal.
LEMMA SameEqual ==
  ASSUME NEW x \in Numbers, NEW y \in Numbers, Same(x, y)
  PROVE  x = y
<1>1. PICK k \in Int : x - y = k * Prime
  BY DEF Same
<1>2. x \in Int /\ y \in Int /\ x - y < Prime /\ y - x < Prime
  BY PrimeIs DEF Numbers
<1>3. ASSUME k >= 1 PROVE FALSE
  <2>1. k * Prime >= Prime
    BY <1>3, PrimeIs
  <2> QED
    BY <2>1, <1>1, <1>2, PrimeIs
<1>4. ASSUME k <= -1 PROVE FALSE
  <2>1. (0 - k) * Prime >= Prime
    BY <1>4, PrimeIs
  <2>2. y - x = (0 - k) * Prime
    BY <1>1, <1>2, PrimeIs
  <2> QED
    BY <2>1, <2>2, <1>2, PrimeIs
<1>5. k = 0
  BY <1>3, <1>4
<1> QED
  BY <1>1, <1>2, <1>5, PrimeIs

\* The same number has the same remainder.
LEMMA SameRemainder ==
  ASSUME NEW x \in Int, NEW y \in Numbers, Same(x, y)
  PROVE  x % Prime = y
<1>1. x % Prime \in Numbers /\ Same(x % Prime, x)
  BY Reduced
<1>2. \A z \in Numbers : z \in Int
  BY PrimeIs DEF Numbers
<1>3. Same(x % Prime, y)
  BY <1>1, <1>2, SameOn
<1> QED
  BY <1>1, <1>3, SameEqual

\* Every number but zero has an inverse.
LEMMA Inverse ==
  ASSUME NEW a \in Numbers, a # 0
  PROVE  \E b \in Int : Same(a * b, 1)
<1> DEFINE made == {n \in Nat : n > 0 /\ \E b \in Int : Same(a * b, n)}
<1>0. a \in Int /\ a > 0 /\ a < Prime
  BY PrimeIs DEF Numbers
<1>1. a \in made
  <2>1. Same(a * 1, a)
    BY <1>0, SameItself
  <2> QED
    BY <1>0, <2>1
<1>2. PICK d \in made : \A k \in made : d <= k
  BY <1>1, LeastNat
<1>3. d \in Nat /\ 0 < d /\ d <= a
  BY <1>1, <1>2
<1>4. PICK b \in Int : Same(a * b, d)
  BY <1>2
<1>5. PICK q \in Int : Prime = q * d + (Prime % d)
  <2>1. d \in Nat \ {0} /\ Prime \in Int
    BY <1>3, PrimeIs
  <2> QED
    BY ONLY <2>1, Remainder
<1>6. Prime % d \in 0..(d - 1)
  BY <1>3, PrimeIs
<1> DEFINE r == Prime % d
<1>7. r \in Nat /\ r < d /\ Prime = q * d + r
  BY <1>3, <1>5, <1>6
<1> HIDE DEF r
<1>8. Same(a * (0 - q * b), r)
  <2>1. PICK k \in Int : a * b - d = k * Prime
    BY <1>4 DEF Same
  <2>2. q * (a * b - d) = q * (k * Prime)
    BY <2>1
  <2>3. q * (a * b - d) = q * (a * b) - q * d
    BY <1>0, <1>3
  <2>4. q * d = Prime - r /\ q * d \in Int
    BY <1>3, <1>7, PrimeIs
  <2>5. q * (k * Prime) = (q * k) * Prime
    BY PrimeIs
  <2>6. a * (0 - q * b) = 0 - q * (a * b)
    BY <1>0
  <2> DEFINE u == q * (a * b)
             v == q * k
  <2>7. u \in Int /\ v \in Int
    BY <1>0
  <2>8. u - (Prime - r) = v * Prime
    BY <2>2, <2>3, <2>4, <2>5
  <2> HIDE DEF u, v
  <2>9. (0 - u) - r = (0 - v - 1) * Prime
    BY <2>7, <2>8, <1>7, PrimeIs
  <2>10. 0 - v - 1 \in Int
    BY <2>7
  <2>11. a * (0 - q * b) = 0 - u
    BY <2>6 DEF u
  <2> QED
    BY <2>9, <2>10, <2>11 DEF Same
<1>9. r = 0
  <2>1. 0 - q * b \in Int
    OBVIOUS
  <2>2. r # 0 => r \in made
    BY <1>7, <1>8, <2>1
  <2> QED
    BY <1>2, <1>3, <1>7, <2>2
<1>10. d = 1
  <2>1. d \in 2..(Prime - 1) => Prime % d # 0
    BY PrimeIs
  <2> QED
    BY <2>1, <1>0, <1>3, <1>9, PrimeIs DEF r
<1> QED
  BY <1>4, <1>10

\* A product is zero only if a factor is.
LEMMA NoZeroDivisor ==
  ASSUME NEW x \in Int, NEW y \in Int, Same(x * y, 0), ~Same(x, 0)
  PROVE  Same(y, 0)
<1> DEFINE a == x % Prime
<1>1. a \in Numbers /\ Same(a, x) /\ a \in Int
  BY Reduced, PrimeIs DEF Numbers
<1> HIDE DEF a
<1>2. a # 0
  BY <1>1, SameBack
<1>3. PICK b \in Int : Same(a * b, 1)
  BY <1>1, <1>2, Inverse
<1>4. Same(x * b, 1)
  <2>1. Same(x * b, a * b)
    BY <1>1, SameBack, SameProduct
  <2> QED
    BY <1>1, <1>3, <2>1, SameOn
<1> DEFINE u == x * b
           v == x * y
<1>a. u \in Int /\ v \in Int /\ Same(u, 1) /\ Same(v, 0)
  BY <1>4
<1> HIDE DEF u, v
<1>b. 0 \in Int /\ 1 \in Int
  OBVIOUS
<1>5. Same(u * y, 1 * y)
  BY ONLY <1>a, <1>b, y \in Int, SameProduct, Zenon
<1>6. Same(v * b, 0 * b)
  BY ONLY <1>a, <1>b, b \in Int, SameProduct, Zenon
<1>7. u * y = v * b /\ 1 * y = y /\ 0 * b = 0
  BY DEF u, v
<1>8. Same(v * b, y) /\ Same(v * b, 0)
  BY <1>5, <1>6, <1>7
<1>9. v * b \in Int
  BY <1>a
<1>10. Same(y, v * b)
  BY <1>8, <1>9, SameBack
<1> QED
  BY <1>8, <1>9, <1>10, SameOn

-----------------------------------------------------------------------------
(***************************************************************************)
(* Powers and sums                                                         *)
(***************************************************************************)

\* Each value from the one before.
Recurrence(first, u, t, n, g) ==
  /\ g \in [0..n -> Int]
  /\ g[0] = first
  /\ \A i \in 1..n : g[i] = g[i - 1] * u + t[i]

\* There are such values.
LEMMA RecurrenceExists ==
  ASSUME NEW first \in Int, NEW u \in Int, NEW n \in Nat, NEW t \in [0..n -> Int]
  PROVE  \E g : Recurrence(first, u, t, n, g)
<1> DEFINE found == {m \in Nat : \E g : Recurrence(first, u, t, m, g)}
<1>1. 0 \in found
  <2> DEFINE g == [i \in 0..0 |-> first]
  <2>1. Recurrence(first, u, t, 0, g)
    BY DEF Recurrence
  <2> QED
    BY <2>1
<1>2. ASSUME NEW m \in 0..(n - 1), m \in found
      PROVE  m + 1 \in found
  <2>1. PICK g : Recurrence(first, u, t, m, g)
    BY <1>2
  <2>2. m + 1 \in 0..n /\ m \in 0..m /\ m \in Nat
    OBVIOUS
  <2>3. g[m] \in Int /\ t[m + 1] \in Int
    BY <2>1, <2>2 DEF Recurrence
  <2> DEFINE last == g[m] * u + t[m + 1]
             h == [i \in 0..(m + 1) |-> IF i = m + 1 THEN last ELSE g[i]]
  <2>4. last \in Int
    BY <2>3
  <2>5. h \in [0..(m + 1) -> Int]
    <3> HIDE DEF last
    <3>1. ASSUME NEW i \in 0..(m + 1), i # m + 1 PROVE g[i] \in Int
      <4>1. i \in 0..m
        BY <3>1
      <4> QED
        BY <4>1, <2>1 DEF Recurrence
    <3> QED
      BY <2>4, <3>1
  <2>6. h[0] = first
    BY <2>1, <2>2 DEF Recurrence
  <2>7. ASSUME NEW i \in 1..(m + 1) PROVE h[i] = h[i - 1] * u + t[i]
    <3>1. CASE i = m + 1
      <4>1. i - 1 = m /\ m # m + 1 /\ m \in 0..(m + 1) /\ i \in 0..(m + 1)
        BY <3>1, <2>2
      <4>2. h[i - 1] = g[m] /\ h[i] = last
        BY <4>1, <3>1
      <4> QED
        BY <4>2, <3>1
    <3>2. CASE i # m + 1
      <4>1. i \in 1..m /\ i - 1 \in 0..(m + 1) /\ i \in 0..(m + 1) /\ i - 1 # m + 1
        BY <3>2, <2>2
      <4>2. g[i] = g[i - 1] * u + t[i]
        BY <4>1, <2>1 DEF Recurrence
      <4>3. h[i] = g[i] /\ h[i - 1] = g[i - 1]
        BY <4>1, <3>2
      <4> QED
        BY <4>2, <4>3
    <3> QED
      BY <3>1, <3>2
  <2> HIDE DEF h
  <2>8. Recurrence(first, u, t, m + 1, h)
    BY <2>5, <2>6, <2>7 DEF Recurrence
  <2> QED
    BY <2>2, <2>8
<1> HIDE DEF found
<1>3. \A m \in 0..n : m \in found
  BY ONLY <1>1, <1>2, n \in Nat, StepByStep
<1> QED
  BY <1>3 DEF found

\* The indices begin with zero.
LEMMA IndicesAre ==
  /\ 0 \in Indices /\ Order \in Indices
  /\ \A i \in Indices : i \in Nat /\ (i # 0 => i - 1 \in Indices)
<1> QED
  BY PrimeIs DEF Indices

\* The powers are one, and each the one before times the argument.
LEMMA PowersAre ==
  ASSUME NEW x \in Int
  PROVE  /\ Powers(x) \in [Indices -> Int]
         /\ Powers(x)[0] = 1
         /\ \A i \in 1..Order : Powers(x)[i] = Powers(x)[i - 1] * x
<1> DEFINE IsPower(g) == g = [i \in Indices |-> IF i = 0 THEN 1 ELSE g[i - 1] * x]
           power == CHOOSE g : IsPower(g)
           none == [i \in Indices |-> 0]
<1>1. PICK g : Recurrence(1, x, none, Order, g)
  <2>1. none \in [0..Order -> Int] /\ Order \in Nat /\ 1 \in Int
    BY PrimeIs DEF Indices
  <2> HIDE DEF none
  <2> QED
    BY <2>1, RecurrenceExists, Zenon
<1>2. IsPower(g)
  <2>1. g \in [Indices -> Int] /\ g[0] = 1
    BY <1>1 DEF Recurrence, Indices
  <2>2. ASSUME NEW i \in Indices, i # 0 PROVE g[i] = g[i - 1] * x
    <3>1. i \in 1..Order /\ i - 1 \in Indices
      BY <2>2, PrimeIs DEF Indices
    <3>2. g[i] = g[i - 1] * x + none[i]
      BY <1>1, <3>1 DEF Recurrence
    <3>3. none[i] = 0
      OBVIOUS
    <3>4. g[i - 1] * x \in Int
      BY <2>1, <3>1
    <3> QED
      BY <3>2, <3>3, <3>4
  <2> QED
    BY <2>1, <2>2
<1>3. IsPower(power)
  <2> HIDE DEF IsPower
  <2> QED
    BY <1>2
<1>4. Powers(x) = power
  BY DEF Powers
<1> DEFINE p == Powers(x)
<1>5. p = [i \in Indices |-> IF i = 0 THEN 1 ELSE p[i - 1] * x]
  BY <1>3, <1>4
<1> HIDE DEF p, power, IsPower
<1>6. p[0] = 1
  BY <1>5, IndicesAre
<1>7. ASSUME NEW i \in 1..Order PROVE i \in Indices /\ p[i] = p[i - 1] * x
  <2>1. i \in Indices /\ i # 0
    BY PrimeIs DEF Indices
  <2> QED
    BY <2>1, <1>5
<1>8. \A i \in 0..Order : p[i] \in Int
  <2> DEFINE good == {i \in Nat : p[i] \in Int}
  <2>1. 0 \in good
    BY <1>6
  <2>2. ASSUME NEW i \in 0..(Order - 1), i \in good PROVE i + 1 \in good
    <3>1. i + 1 \in 1..Order /\ (i + 1) - 1 = i /\ i + 1 \in Nat
      BY PrimeIs
    <3>2. p[i + 1] = p[i] * x
      BY <3>1, <1>7
    <3> QED
      BY <2>2, <3>1, <3>2
  <2>3. Order \in Nat
    BY PrimeIs
  <2> HIDE DEF good
  <2>4. \A i \in 0..Order : i \in good
    BY ONLY <2>1, <2>2, <2>3, StepByStep
  <2> QED
    BY <2>4 DEF good
<1>9. p \in [Indices -> Int]
  BY <1>5, <1>8 DEF Indices
<1> QED
  BY <1>6, <1>7, <1>9 DEF p

\* The sums begin with the first coefficient, and each adds one term.
LEMMA SumsAre ==
  ASSUME NEW f \in [Indices -> Int], NEW x \in Int
  PROVE  /\ Sums(f, x) \in [Indices -> Int]
         /\ Sums(f, x)[0] = f[0]
         /\ \A i \in 1..Order : Sums(f, x)[i] = Sums(f, x)[i - 1] + f[i] * Powers(x)[i]
<1> DEFINE IsSum(g) ==
             g = [i \in Indices |-> IF i = 0 THEN f[0] ELSE g[i - 1] + f[i] * Powers(x)[i]]
           sum == CHOOSE g : IsSum(g)
           terms == [i \in Indices |-> f[i] * Powers(x)[i]]
<1>0. terms \in [Indices -> Int]
  <2>1. \A i \in Indices : Powers(x)[i] \in Int /\ f[i] \in Int
    BY PowersAre
  <2> QED
    BY <2>1
<1>1. PICK g : Recurrence(f[0], 1, terms, Order, g)
  <2>1. terms \in [0..Order -> Int] /\ Order \in Nat /\ 1 \in Int /\ f[0] \in Int
    BY <1>0, PrimeIs, IndicesAre DEF Indices
  <2> HIDE DEF terms
  <2> QED
    BY <2>1, RecurrenceExists, Zenon
<1>2. IsSum(g)
  <2>1. g \in [Indices -> Int] /\ g[0] = f[0]
    BY <1>1 DEF Recurrence, Indices
  <2>2. ASSUME NEW i \in Indices, i # 0 PROVE g[i] = g[i - 1] + f[i] * Powers(x)[i]
    <3>1. i \in 1..Order /\ i - 1 \in Indices
      BY <2>2, PrimeIs DEF Indices
    <3>2. g[i] = g[i - 1] * 1 + terms[i]
      BY <1>1, <3>1 DEF Recurrence
    <3>3. terms[i] = f[i] * Powers(x)[i]
      OBVIOUS
    <3>4. g[i - 1] * 1 = g[i - 1]
      BY <2>1, <3>1
    <3> QED
      BY <3>2, <3>3, <3>4
  <2> QED
    BY <2>1, <2>2
<1>3. IsSum(sum)
  <2> HIDE DEF IsSum
  <2> QED
    BY <1>2
<1>4. Sums(f, x) = sum
  BY DEF Sums
<1> DEFINE s == Sums(f, x)
<1>5. s = [i \in Indices |-> IF i = 0 THEN f[0] ELSE s[i - 1] + f[i] * Powers(x)[i]]
  BY <1>3, <1>4
<1> HIDE DEF s, sum, IsSum
<1>6. s[0] = f[0]
  BY <1>5, IndicesAre
<1>7. ASSUME NEW i \in 1..Order
      PROVE  i \in Indices /\ s[i] = s[i - 1] + f[i] * Powers(x)[i]
  <2>1. i \in Indices /\ i # 0
    BY PrimeIs DEF Indices
  <2> QED
    BY <2>1, <1>5
<1>8. \A i \in 0..Order : s[i] \in Int
  <2> DEFINE good == {i \in Nat : s[i] \in Int}
  <2>1. 0 \in good
    BY <1>6, IndicesAre
  <2>2. ASSUME NEW i \in 0..(Order - 1), i \in good PROVE i + 1 \in good
    <3>1. i + 1 \in 1..Order /\ (i + 1) - 1 = i /\ i + 1 \in Nat
      BY PrimeIs
    <3>2. s[i + 1] = s[i] + terms[i + 1]
      BY <3>1, <1>7
    <3>3. terms[i + 1] \in Int
      BY <1>0, <1>7, <3>1
    <3> HIDE DEF terms
    <3> QED
      BY <2>2, <3>1, <3>2, <3>3
  <2>3. Order \in Nat
    BY PrimeIs
  <2> HIDE DEF good
  <2>4. \A i \in 0..Order : i \in good
    BY ONLY <2>1, <2>2, <2>3, StepByStep
  <2> QED
    BY <2>4 DEF good
<1>9. s \in [Indices -> Int]
  BY <1>5, <1>8 DEF Indices
<1> QED
  BY <1>6, <1>7, <1>9 DEF s

-----------------------------------------------------------------------------
(***************************************************************************)
(* Polynomials                                                             *)
(***************************************************************************)

\* Integers as coefficients.
Coefs == [Indices -> Int]

\* The value of a polynomial.
Value(f, x) == Sums(f, x)[Order]

LEMMA ValueType ==
  ASSUME NEW f \in Coefs, NEW x \in Int
  PROVE  Value(f, x) \in Int
<1> QED
  BY SumsAre, IndicesAre DEF Value, Coefs

\* The value of a sum of a polynomial and a multiple of another.
LEMMA ValueOfSum ==
  ASSUME NEW f \in Coefs, NEW g \in Coefs, NEW h \in Coefs, NEW c \in Int, NEW x \in Int,
         \A i \in Indices : h[i] = f[i] + c * g[i]
  PROVE  Value(h, x) = Value(f, x) + c * Value(g, x)
<1> DEFINE p == Powers(x)
           F == Sums(f, x)
           G == Sums(g, x)
           H == Sums(h, x)
           good == {i \in Nat : H[i] = F[i] + c * G[i]}
<1>1. p \in [Indices -> Int]
  BY PowersAre
<1>2. F \in [Indices -> Int] /\ F[0] = f[0] /\ \A i \in 1..Order : F[i] = F[i - 1] + f[i] * p[i]
  BY SumsAre DEF Coefs
<1>3. G \in [Indices -> Int] /\ G[0] = g[0] /\ \A i \in 1..Order : G[i] = G[i - 1] + g[i] * p[i]
  BY SumsAre DEF Coefs
<1>4. H \in [Indices -> Int] /\ H[0] = h[0] /\ \A i \in 1..Order : H[i] = H[i - 1] + h[i] * p[i]
  BY SumsAre DEF Coefs
<1> HIDE DEF p, F, G, H
<1>5. 0 \in good
  BY <1>2, <1>3, <1>4, IndicesAre
<1>6. ASSUME NEW i \in 0..(Order - 1), i \in good PROVE i + 1 \in good
  <2> DEFINE j == i + 1
  <2>1. j \in 1..Order /\ j - 1 = i /\ j \in Nat /\ j \in Indices /\ i \in Indices
    BY PrimeIs DEF Indices
  <2> HIDE DEF j
  <2>2. /\ F[j] = F[i] + f[j] * p[j]
        /\ G[j] = G[i] + g[j] * p[j]
        /\ H[j] = H[i] + h[j] * p[j]
    BY <2>1, <1>2, <1>3, <1>4
  <2>3. H[i] = F[i] + c * G[i] /\ h[j] = f[j] + c * g[j]
    BY <1>6, <2>1
  <2> DEFINE a == f[j]
             b == g[j]
             q == p[j]
             A == F[i]
             B == G[i]
  <2>4. a \in Int /\ b \in Int /\ q \in Int /\ A \in Int /\ B \in Int
    BY <2>1, <1>1, <1>2, <1>3 DEF Coefs
  <2>5. H[j] = (A + c * B) + (a + c * b) * q /\ F[j] = A + a * q /\ G[j] = B + b * q
    BY <2>2, <2>3
  <2> HIDE DEF a, b, q, A, B
  <2>6. (A + c * B) + (a + c * b) * q = (A + a * q) + c * (B + b * q)
    BY <2>4
  <2>7. H[j] = F[j] + c * G[j]
    BY <2>5, <2>6
  <2> QED
    BY <2>1, <2>7 DEF j
<1>7. Order \in Nat
  BY PrimeIs
<1> HIDE DEF good
<1>8. \A i \in 0..Order : i \in good
  BY ONLY <1>5, <1>6, <1>7, StepByStep
<1>9. Order \in good
  BY <1>7, <1>8
<1> QED
  BY <1>9 DEF good, Value, F, G, H

\* The value of a polynomial times (x - a), if it is not of the highest order.
LEMMA ValueOfProduct ==
  ASSUME NEW g \in Coefs, NEW h \in Coefs, NEW a \in Int, NEW x \in Int,
         h[0] = 0 - a * g[0],
         \A i \in 1..Order : h[i] = g[i - 1] - a * g[i],
         g[Order] = 0
  PROVE  Value(h, x) = (x - a) * Value(g, x)
<1> DEFINE p == Powers(x)
           G == Sums(g, x)
           H == Sums(h, x)
           good == {i \in Nat : H[i] = (x - a) * G[i] - (g[i] * p[i]) * x}
<1>1. p \in [Indices -> Int] /\ p[0] = 1 /\ \A i \in 1..Order : p[i] = p[i - 1] * x
  BY PowersAre
<1>3. G \in [Indices -> Int] /\ G[0] = g[0] /\ \A i \in 1..Order : G[i] = G[i - 1] + g[i] * p[i]
  BY SumsAre DEF Coefs
<1>4. H \in [Indices -> Int] /\ H[0] = h[0] /\ \A i \in 1..Order : H[i] = H[i - 1] + h[i] * p[i]
  BY SumsAre DEF Coefs
<1> HIDE DEF p, G, H
<1>5. 0 \in good
  <2> DEFINE b == g[0]
  <2>1. b \in Int
    BY IndicesAre DEF Coefs
  <2>2. H[0] = 0 - a * b /\ G[0] = b /\ p[0] = 1
    BY <1>1, <1>3, <1>4
  <2> HIDE DEF b
  <2>3. 0 - a * b = (x - a) * b - (b * 1) * x
    BY <2>1
  <2> QED
    BY <2>2, <2>3 DEF b
<1>6. ASSUME NEW i \in 0..(Order - 1), i \in good PROVE i + 1 \in good
  <2> DEFINE j == i + 1
  <2>1. j \in 1..Order /\ j - 1 = i /\ j \in Nat /\ j \in Indices /\ i \in Indices
    BY PrimeIs DEF Indices
  <2> HIDE DEF j
  <2>2. /\ p[j] = p[i] * x
        /\ G[j] = G[i] + g[j] * p[j]
        /\ H[j] = H[i] + h[j] * p[j]
    BY <2>1, <1>1, <1>3, <1>4
  <2>3. H[i] = (x - a) * G[i] - (g[i] * p[i]) * x /\ h[j] = g[i] - a * g[j]
    BY <1>6, <2>1
  <2> DEFINE b == g[j]
             d == g[i]
             q == p[i]
             B == G[i]
  <2>4. b \in Int /\ d \in Int /\ q \in Int /\ B \in Int
    BY <2>1, <1>1, <1>3 DEF Coefs
  <2>5. /\ H[j] = ((x - a) * B - (d * q) * x) + (d - a * b) * (q * x)
        /\ G[j] = B + b * (q * x)
        /\ p[j] = q * x
    BY <2>2, <2>3
  <2> HIDE DEF b, d, q, B
  <2>6. ((x - a) * B - (d * q) * x) + (d - a * b) * (q * x)
          = (x - a) * (B + b * (q * x)) - (b * (q * x)) * x
    BY <2>4
  <2>7. H[j] = (x - a) * G[j] - (b * p[j]) * x
    BY <2>5, <2>6
  <2> QED
    BY <2>1, <2>7 DEF j, b
<1>7. Order \in Nat
  BY PrimeIs
<1> HIDE DEF good
<1>8. \A i \in 0..Order : i \in good
  BY ONLY <1>5, <1>6, <1>7, StepByStep
<1>9. H[Order] = (x - a) * G[Order] - (g[Order] * p[Order]) * x
  BY <1>7, <1>8 DEF good
<1>10. G[Order] \in Int /\ p[Order] \in Int
  BY <1>1, <1>3, IndicesAre
<1>11. H[Order] = (x - a) * G[Order]
  BY <1>9, <1>10
<1> QED
  BY <1>11 DEF Value, G, H

\* A polynomial without higher coefficients has one value.
LEMMA ValueOfConstant ==
  ASSUME NEW f \in Coefs, NEW x \in Int, \A i \in 1..Order : f[i] = 0
  PROVE  Value(f, x) = f[0]
<1> DEFINE p == Powers(x)
           F == Sums(f, x)
           good == {i \in Nat : F[i] = f[0]}
<1>1. p \in [Indices -> Int]
  BY PowersAre
<1>2. F \in [Indices -> Int] /\ F[0] = f[0] /\ \A i \in 1..Order : F[i] = F[i - 1] + f[i] * p[i]
  BY SumsAre DEF Coefs
<1> HIDE DEF p, F
<1>3. 0 \in good
  BY <1>2
<1>4. ASSUME NEW i \in 0..(Order - 1), i \in good PROVE i + 1 \in good
  <2>1. i + 1 \in 1..Order /\ (i + 1) - 1 = i /\ i + 1 \in Nat /\ i + 1 \in Indices
    BY PrimeIs DEF Indices
  <2>2. F[i + 1] = F[i] + f[i + 1] * p[i + 1] /\ f[i + 1] = 0 /\ F[i] = f[0]
    BY <2>1, <1>2, <1>4
  <2>3. p[i + 1] \in Int /\ f[0] \in Int
    BY <2>1, <1>1, IndicesAre DEF Coefs
  <2> QED
    BY <2>1, <2>2, <2>3
<1>5. Order \in Nat
  BY PrimeIs
<1> HIDE DEF good
<1>6. \A i \in 0..Order : i \in good
  BY ONLY <1>3, <1>4, <1>5, StepByStep
<1> QED
  BY <1>5, <1>6 DEF good, Value, F

\* The same coefficients give the same values.
LEMMA SameValue ==
  ASSUME NEW f \in Coefs, NEW g \in Coefs, NEW x \in Int, \A i \in Indices : Same(g[i], f[i])
  PROVE  Same(Value(g, x), Value(f, x))
<1> DEFINE p == Powers(x)
           F == Sums(f, x)
           G == Sums(g, x)
           good == {i \in Nat : Same(G[i], F[i])}
<1>1. p \in [Indices -> Int]
  BY PowersAre
<1>2. F \in [Indices -> Int] /\ F[0] = f[0] /\ \A i \in 1..Order : F[i] = F[i - 1] + f[i] * p[i]
  BY SumsAre DEF Coefs
<1>3. G \in [Indices -> Int] /\ G[0] = g[0] /\ \A i \in 1..Order : G[i] = G[i - 1] + g[i] * p[i]
  BY SumsAre DEF Coefs
<1> HIDE DEF p, F, G
<1>4. 0 \in good
  BY <1>2, <1>3, IndicesAre
<1>5. ASSUME NEW i \in 0..(Order - 1), i \in good PROVE i + 1 \in good
  <2> DEFINE j == i + 1
  <2>1. j \in 1..Order /\ j - 1 = i /\ j \in Nat /\ j \in Indices /\ i \in Indices
    BY PrimeIs DEF Indices
  <2> HIDE DEF j
  <2>2. F[j] = F[i] + f[j] * p[j] /\ G[j] = G[i] + g[j] * p[j]
    BY <2>1, <1>2, <1>3
  <2>3. Same(G[i], F[i]) /\ Same(g[j], f[j])
    BY <1>5, <2>1
  <2> DEFINE a == f[j]
             b == g[j]
             q == p[j]
             A == F[i]
             B == G[i]
             aq == a * q
             bq == b * q
  <2>4. a \in Int /\ b \in Int /\ q \in Int /\ A \in Int /\ B \in Int
    BY <2>1, <1>1, <1>2, <1>3 DEF Coefs
  <2>5. Same(B, A) /\ Same(b, a) /\ F[j] = A + aq /\ G[j] = B + bq
    BY <2>2, <2>3
  <2> HIDE DEF a, b, q, A, B
  <2>6. Same(bq, aq)
    BY <2>4, <2>5, SameProduct
  <2>7. aq \in Int /\ bq \in Int
    BY <2>4
  <2> HIDE DEF aq, bq
  <2>8. Same(B + bq, A + aq)
    BY ONLY <2>4, <2>5, <2>6, <2>7, SameSum
  <2>9. Same(G[j], F[j])
    BY <2>5, <2>8
  <2> QED
    BY <2>1, <2>9 DEF j
<1>6. Order \in Nat
  BY PrimeIs
<1> HIDE DEF good
<1>7. \A i \in 0..Order : i \in good
  BY ONLY <1>4, <1>5, <1>6, StepByStep
<1>8. Order \in good
  BY <1>6, <1>7
<1> QED
  BY <1>8 DEF good, Value, F, G

-----------------------------------------------------------------------------
(***************************************************************************)
(* Interpolation                                                           *)
(***************************************************************************)

\* No argument twice.
Apart(nodes, r) == \A i, j \in 0..r : i # j => nodes[i].arg # nodes[j].arg

\* A polynomial of order m through the nodes up to m.
Through(nodes, m, f) ==
  /\ f \in Coefs
  /\ \A i \in 0..m : Same(Value(f, nodes[i].arg), nodes[i].corr)
  /\ \A i \in Indices : i > m => f[i] = 0

\* One of order m that is zero at the nodes below m, and at no other.
ZeroBelow(nodes, r, m, g) ==
  /\ g \in Coefs
  /\ \A i \in 0..r : Same(Value(g, nodes[i].arg), 0) <=> i < m
  /\ \A i \in Indices : i > m => g[i] = 0

\* Nodes have numbers.
LEMMA NodesAre ==
  ASSUME NEW r \in Indices, NEW nodes \in [0..r -> JustNodes], NEW i \in 0..r
  PROVE  /\ nodes[i].arg \in Numbers /\ nodes[i].corr \in Numbers
         /\ nodes[i].arg \in Int /\ nodes[i].corr \in Int
<1>1. nodes[i] \in JustNodes
  OBVIOUS
<1>2. nodes[i].arg \in Numbers /\ nodes[i].corr \in Numbers
  BY <1>1 DEF JustNodes
<1> QED
  BY <1>2, PrimeIs DEF Numbers

\* One is not zero.
LEMMA OneNotZero == ~Same(1, 0)
<1>1. 1 \in Numbers /\ 0 \in Numbers /\ 1 # 0
  BY PrimeIs DEF Numbers
<1> QED
  BY ONLY <1>1, SameEqual, Zenon

\* The polynomials for the first node.
LEMMA FirstNode ==
  ASSUME NEW r \in Indices, NEW nodes \in [0..r -> JustNodes]
  PROVE  \E f, g : Through(nodes, 0, f) /\ ZeroBelow(nodes, r, 0, g)
<1> DEFINE f == [i \in Indices |-> IF i = 0 THEN nodes[0].corr ELSE 0]
           g == [i \in Indices |-> IF i = 0 THEN 1 ELSE 0]
<1>0. r \in Nat /\ 0 \in 0..r
  BY IndicesAre
<1>1. nodes[0].corr \in Int
  BY <1>0, NodesAre
<1>2. f \in Coefs /\ g \in Coefs
  BY <1>1 DEF Coefs
<1>3. f[0] = nodes[0].corr /\ g[0] = 1
  BY IndicesAre
<1>4. \A i \in Indices : i > 0 => f[i] = 0 /\ g[i] = 0
  BY IndicesAre
<1>5. \A i \in 1..Order : f[i] = 0 /\ g[i] = 0
  BY <1>4, PrimeIs DEF Indices
<1> HIDE DEF f, g
<1>6. ASSUME NEW i \in 0..r
      PROVE  Value(f, nodes[i].arg) = nodes[0].corr /\ Value(g, nodes[i].arg) = 1
  <2>1. nodes[i].arg \in Int
    BY NodesAre
  <2> QED
    BY <2>1, <1>2, <1>3, <1>5, ValueOfConstant
<1>7. Through(nodes, 0, f)
  <2>1. ASSUME NEW i \in 0..0 PROVE Same(Value(f, nodes[i].arg), nodes[i].corr)
    <3>1. i = 0
      OBVIOUS
    <3>2. Value(f, nodes[0].arg) = nodes[0].corr
      BY <1>0, <1>6
    <3>3. Same(nodes[0].corr, nodes[0].corr)
      BY <1>1, SameItself
    <3> QED
      BY <3>1, <3>2, <3>3
  <2> QED
    BY <1>2, <1>4, <2>1 DEF Through
<1>8. ZeroBelow(nodes, r, 0, g)
  <2>1. ASSUME NEW i \in 0..r PROVE ~Same(Value(g, nodes[i].arg), 0) /\ ~(i < 0)
    BY <1>6, OneNotZero
  <2> QED
    BY <1>2, <1>4, <2>1 DEF ZeroBelow
<1> QED
  BY <1>7, <1>8

\* Different numbers of the field are not the same.
LEMMA DifferenceNotZero ==
  ASSUME NEW x \in Numbers, NEW y \in Numbers, x # y
  PROVE  ~Same(x - y, 0)
<1> SUFFICES ASSUME Same(x - y, 0) PROVE FALSE
  OBVIOUS
<1>0. x \in Int /\ y \in Int
  BY PrimeIs DEF Numbers
<1>1. PICK k \in Int : (x - y) - 0 = k * Prime
  BY DEF Same
<1>2. x - y = k * Prime
  BY <1>0, <1>1
<1> QED
  BY <1>2, SameEqual DEF Same

\* One more zero.
LEMMA OneMoreZero ==
  ASSUME NEW r \in Indices, NEW nodes \in [0..r -> JustNodes], Apart(nodes, r),
         NEW m \in 0..(r - 1), NEW g, ZeroBelow(nodes, r, m, g)
  PROVE  \E h : ZeroBelow(nodes, r, m + 1, h)
<1>0. r \in Nat /\ r <= Order /\ m \in Nat /\ m < r /\ m \in 0..r /\ Order \in Nat /\ Order > m
  BY PrimeIs DEF Indices
<1> DEFINE a == nodes[m].arg
           h == [i \in Indices |-> IF i = 0 THEN 0 - a * g[0] ELSE g[i - 1] - a * g[i]]
<1>1. a \in Int /\ a \in Numbers
  BY <1>0, NodesAre
<1>2. g \in Coefs /\ (\A i \in Indices : g[i] \in Int)
  BY DEF ZeroBelow, Coefs
<1> HIDE DEF a
<1>3. h \in Coefs
  <2>1. ASSUME NEW i \in Indices
        PROVE  /\ i = 0 => 0 - a * g[0] \in Int
               /\ i # 0 => g[i - 1] - a * g[i] \in Int
    BY <1>1, <1>2, IndicesAre
  <2> QED
    BY <2>1 DEF Coefs
<1>4. h[0] = 0 - a * g[0] /\ \A i \in 1..Order : h[i] = g[i - 1] - a * g[i]
  BY IndicesAre, PrimeIs DEF Indices
<1>5. g[Order] = 0
  BY <1>0, IndicesAre DEF ZeroBelow
<1>6. ASSUME NEW i \in Indices, i > m + 1 PROVE h[i] = 0
  <2>1. i - 1 \in Indices /\ i # 0 /\ i - 1 > m /\ i > m
    BY <1>0, <1>6, IndicesAre
  <2>2. g[i - 1] = 0 /\ g[i] = 0
    BY <2>1 DEF ZeroBelow
  <2>3. h[i] = 0 - a * 0
    BY <2>1, <2>2
  <2> QED
    BY <2>3, <1>1
<1> HIDE DEF h
<1>7. ASSUME NEW i \in 0..r
      PROVE  Same(Value(h, nodes[i].arg), 0) <=> i < m + 1
  <2> DEFINE x == nodes[i].arg
             v == Value(g, x)
  <2>1. x \in Int /\ x \in Numbers
    BY NodesAre
  <2>2. v \in Int
    BY <1>2, <2>1, ValueType
  <2>3. Value(h, x) = (x - a) * v
    BY <1>1, <1>2, <1>3, <1>4, <1>5, <2>1, ValueOfProduct
  <2>4. Same(v, 0) <=> i < m
    BY DEF ZeroBelow
  <2>5. i # m => x # a
    BY <1>0 DEF Apart, a
  <2>6. i = m => x = a
    BY DEF a
  <2> HIDE DEF x, v
  <2>7. CASE i < m
    <3>1. Same((x - a) * v, (x - a) * 0)
      <4>1. x - a \in Int /\ 0 \in Int
        BY <1>1, <2>1
      <4>2. Same(v, 0)
        BY <2>4, <2>7
      <4> DEFINE d == x - a
      <4> HIDE DEF d
      <4>3. d \in Int
        BY <4>1 DEF d
      <4>4. Same(d * v, d * 0)
        BY ONLY <4>1, <4>2, <4>3, <2>2, SameProduct, Zenon
      <4> QED
        BY <4>4 DEF d
    <3>2. (x - a) * 0 = 0
      BY <1>1, <2>1
    <3>3. i < m + 1
      BY <2>7, <1>0
    <3> QED
      BY <2>3, <3>1, <3>2, <3>3 DEF x
  <2>8. CASE i = m
    <3>1. (x - a) * v = 0
      BY <2>6, <2>8, <2>1, <2>2
    <3>2. Same(0, 0)
      <4>1. 0 \in Int
        OBVIOUS
      <4> QED
        BY ONLY <4>1, SameItself, Zenon
    <3>3. i < m + 1
      BY <2>8, <1>0
    <3> QED
      BY <2>3, <3>1, <3>2, <3>3 DEF x
  <2>9. CASE i > m
    <3> DEFINE d == x - a
    <3>1. ~Same(d, 0) /\ d \in Int
      BY <2>1, <1>1, <2>5, <2>9, <1>0, DifferenceNotZero
    <3>2. ~Same(v, 0)
      BY <2>4, <2>9, <1>0
    <3> HIDE DEF d
    <3>3. ~Same(d * v, 0)
      BY <3>1, <3>2, <2>2, NoZeroDivisor
    <3>4. ~(i < m + 1)
      BY <2>9, <1>0
    <3> QED
      BY <2>3, <3>3, <3>4 DEF x, d
  <2> QED
    BY <2>7, <2>8, <2>9, <1>0
<1> QED
  BY <1>3, <1>6, <1>7 DEF ZeroBelow

\* One more node.
LEMMA OneMoreNode ==
  ASSUME NEW r \in Indices, NEW nodes \in [0..r -> JustNodes],
         NEW m \in 0..(r - 1), NEW f, Through(nodes, m, f),
         NEW g, ZeroBelow(nodes, r, m + 1, g)
  PROVE  \E h : Through(nodes, m + 1, h)
<1> DEFINE n == m + 1
           y == nodes[n].corr
           w == Value(f, nodes[n].arg)
           v == Value(g, nodes[n].arg)
<1>0. r \in Nat /\ m \in Nat /\ n \in 0..r /\ n \in Nat /\ ~(n < n)
  BY IndicesAre
<1>1. nodes[n].arg \in Int /\ y \in Int
  BY <1>0, NodesAre
<1>2. f \in Coefs /\ g \in Coefs
  BY DEF Through, ZeroBelow
<1>3. v \in Int /\ w \in Int
  BY <1>1, <1>2, ValueType
<1>4. ~Same(v, 0)
  BY <1>0 DEF ZeroBelow
<1> HIDE DEF y, v, w
<1>5. PICK c \in Int : Same(c * v, y - w)
  <2> DEFINE a == v % Prime
  <2>0. a \in Numbers /\ Same(a, v)
    BY ONLY <1>3, Reduced
  <2> HIDE DEF a
  <2>1. a \in Numbers /\ Same(a, v) /\ a \in Int
    BY <2>0, PrimeIs DEF Numbers
  <2>2. a # 0
    BY <2>1, <1>3, <1>4, SameBack
  <2>3. PICK b \in Int : Same(a * b, 1)
    BY <2>1, <2>2, Inverse
  <2> DEFINE d == y - w
             c == d * b
             ab == a * b
             vb == v * b
  <2>4. d \in Int /\ c \in Int /\ ab \in Int /\ vb \in Int
    BY <1>1, <1>3, <2>1
  <2>5. Same(vb, ab)
    BY <1>3, <2>1, SameBack, SameProduct
  <2>6. Same(ab, 1) /\ 1 \in Int
    BY <2>3
  <2>7. c * v = d * vb
    BY <1>3, <2>4
  <2> HIDE DEF c, ab, vb, d
  <2>8. Same(vb, 1)
    BY ONLY <2>4, <2>5, <2>6, SameOn, Zenon
  <2>9. Same(d * vb, d * 1)
    BY ONLY <2>4, <2>6, <2>8, SameProduct, Zenon
  <2>10. d * 1 = d
    BY <2>4
  <2> QED
    BY <2>4, <2>7, <2>9, <2>10 DEF d
<1> DEFINE h == [i \in Indices |-> f[i] + c * g[i]]
<1>6. h \in Coefs
  <2>1. \A i \in Indices : f[i] \in Int /\ g[i] \in Int
    BY <1>2 DEF Coefs
  <2>2. \A i \in Indices : f[i] + c * g[i] \in Int
    BY <2>1
  <2> QED
    BY <2>2 DEF Coefs
<1>7. \A i \in Indices : h[i] = f[i] + c * g[i]
  OBVIOUS
<1> HIDE DEF h
<1>8. ASSUME NEW x \in Int PROVE Value(h, x) = Value(f, x) + c * Value(g, x)
  BY <1>2, <1>6, <1>7, ValueOfSum
<1>9. ASSUME NEW i \in 0..n
      PROVE  Same(Value(h, nodes[i].arg), nodes[i].corr)
  <2> DEFINE x == nodes[i].arg
             A == Value(f, x)
             B == Value(g, x)
             cB == c * B
             z == nodes[i].corr
  <2>1. i \in 0..r
    BY <1>0
  <2>2. x \in Int /\ z \in Int
    BY <2>1, NodesAre
  <2>a. A \in Int /\ B \in Int
    BY <1>2, <2>2, ValueType
  <2>b. cB \in Int
    <3> HIDE DEF B
    <3> QED
      BY <2>a
  <2>3. A \in Int /\ B \in Int /\ cB \in Int
    BY <2>a, <2>b
  <2>4. Value(h, x) = A + cB
    BY <1>8, <2>2
  <2>5. CASE i = n
    <3>1. A = w /\ B = v /\ z = y
      BY <2>5 DEF v, w, y
    <3>2. Same(cB, y - w)
      BY <1>5, <3>1
    <3> DEFINE d == y - w
    <3>3. d \in Int /\ Same(cB, d) /\ Same(w, w) /\ w + d = y
      BY <1>1, <1>3, <3>2, SameItself
    <3> HIDE DEF cB, d, A, B, z
    <3>4. Same(w + cB, w + d)
      BY ONLY <3>3, <2>3, <1>3, SameSum
    <3> QED
      BY <3>1, <3>3, <3>4, <2>4 DEF z
  <2>6. CASE i # n
    <3>1. i \in 0..m /\ i < n
      BY <2>6, <1>0
    <3>2. Same(A, z)
      BY <3>1 DEF Through
    <3>3. Same(B, 0)
      BY <3>1, <2>1 DEF ZeroBelow
    <3>4. 0 \in Int /\ c * 0 = 0 /\ z + 0 = z
      BY <2>2
    <3> HIDE DEF A, B, z
    <3>5. Same(c * B, c * 0)
      BY ONLY <2>3, <3>3, <3>4, c \in Int, SameProduct, Zenon
    <3>6. Same(cB, 0)
      BY <3>4, <3>5
    <3> HIDE DEF cB
    <3>7. z \in Int
      BY <2>2
    <3>8. Same(A + cB, z + 0)
      BY ONLY <2>3, <3>2, <3>4, <3>6, <3>7, SameSum, Zenon
    <3> QED
      BY <2>4, <3>4, <3>8 DEF z
  <2> QED
    BY <2>5, <2>6
<1>10. ASSUME NEW i \in Indices, i > n PROVE h[i] = 0
  <2>1. i > m
    BY <1>0, <1>10, IndicesAre
  <2>2. f[i] = 0 /\ g[i] = 0
    BY <2>1, <1>10 DEF Through, ZeroBelow
  <2>3. h[i] = 0 + c * 0
    BY <2>2, <1>7
  <2> QED
    BY <2>3
<1> QED
  BY <1>6, <1>9, <1>10 DEF Through

\* Through nodes with different arguments there is a polynomial, of no higher order
\* than they need.
LEMMA ThroughExists ==
  ASSUME NEW r \in Indices, NEW nodes \in [0..r -> JustNodes], Apart(nodes, r)
  PROVE  \E f : Through(nodes, r, f)
<1> DEFINE good == {m \in Nat : /\ \E f : Through(nodes, m, f)
                                /\ \E g : ZeroBelow(nodes, r, m, g)}
<1>1. 0 \in good
  BY FirstNode
<1>2. ASSUME NEW m \in 0..(r - 1), m \in good PROVE m + 1 \in good
  <2>1. PICK f : Through(nodes, m, f)
    BY <1>2
  <2>2. PICK g : ZeroBelow(nodes, r, m, g)
    BY <1>2
  <2>3. PICK h : ZeroBelow(nodes, r, m + 1, h)
    BY <2>2, OneMoreZero
  <2>4. \E k : Through(nodes, m + 1, k)
    BY <2>1, <2>3, OneMoreNode
  <2>5. m + 1 \in Nat
    OBVIOUS
  <2> QED
    BY <2>3, <2>4, <2>5
<1>3. r \in Nat
  BY IndicesAre
<1> HIDE DEF good
<1>4. \A m \in 0..r : m \in good
  BY ONLY <1>1, <1>2, <1>3, StepByStep
<1> QED
  BY <1>3, <1>4 DEF good

-----------------------------------------------------------------------------
(***************************************************************************)
(* One curve                                                               *)
(***************************************************************************)

\* The field's polynomials have the values of the integers' ones.
LEMMA PolynomialIs ==
  ASSUME NEW coef \in [Indices -> Numbers], NEW arg \in Numbers
  PROVE  /\ coef \in Coefs /\ arg \in Int
         /\ Polynomial[coef][arg] = Value(coef, arg) % Prime
         /\ Polynomial[coef][arg] \in Numbers
<1>1. Polynomial[coef][arg] = Value(coef, arg) % Prime
  BY DEF Polynomial, Value
<1>2. \A x \in Numbers : x \in Int
  BY PrimeIs DEF Numbers
<1>3. coef \in Coefs /\ arg \in Int
  BY <1>2 DEF Coefs
<1>4. Value(coef, arg) \in Int
  BY <1>3, ValueType
<1> QED
  BY <1>1, <1>3, <1>4, Reduced

\* What the coefficients through nodes are.
Interpolates(nodes, r, coef) ==
  /\ coef \in [Indices -> Numbers]
  /\ \A i \in 0..r : Polynomial[coef][nodes[i].arg] = nodes[i].corr
  /\ \A i \in Indices \ (0..r) : coef[i] = 0

\* Through nodes with different arguments there are coefficients.
LEMMA InterpolatesExists ==
  ASSUME NEW r \in Indices, NEW nodes \in [0..r -> JustNodes], Apart(nodes, r)
  PROVE  \E coef : Interpolates(nodes, r, coef)
<1>1. PICK f : Through(nodes, r, f)
  BY ThroughExists
<1> DEFINE coef == [i \in Indices |-> f[i] % Prime]
<1>2. \A i \in Indices : f[i] \in Int
  BY <1>1 DEF Through, Coefs
<1>3. \A i \in Indices : coef[i] \in Numbers /\ Same(coef[i], f[i])
  BY <1>2, Reduced
<1>4. coef \in [Indices -> Numbers]
  BY <1>3
<1> HIDE DEF coef
<1>5. ASSUME NEW i \in 0..r
      PROVE  Polynomial[coef][nodes[i].arg] = nodes[i].corr
  <2> DEFINE x == nodes[i].arg
             y == nodes[i].corr
             v == Value(coef, x)
             w == Value(f, x)
  <2>1. x \in Numbers /\ x \in Int /\ y \in Numbers /\ y \in Int
    BY NodesAre
  <2>2. f \in Coefs /\ Same(w, y)
    BY <1>1 DEF Through
  <2> HIDE DEF x, y
  <2>3. coef \in Coefs /\ Polynomial[coef][x] = v % Prime
    BY <1>4, <2>1, PolynomialIs
  <2>4. Same(v, w)
    BY <1>3, <2>1, <2>2, <2>3, SameValue
  <2>5. v \in Int /\ w \in Int
    BY <2>1, <2>2, <2>3, ValueType
  <2> HIDE DEF v, w
  <2>6. Same(v, y)
    BY ONLY <2>1, <2>2, <2>4, <2>5, SameOn
  <2>7. v % Prime = y
    BY ONLY <2>1, <2>5, <2>6, SameRemainder
  <2> QED
    BY <2>3, <2>7 DEF x, y
<1>6. ASSUME NEW i \in Indices \ (0..r) PROVE coef[i] = 0
  <2>1. i > r
    BY PrimeIs DEF Indices
  <2>2. f[i] = 0
    BY <1>1, <2>1 DEF Through
  <2>3. 0 % Prime = 0
    BY PrimeIs
  <2> QED
    BY <2>2, <2>3 DEF coef
<1> QED
  BY <1>4, <1>5, <1>6 DEF Interpolates

\* The coefficients through nodes: those, if no argument is there twice.
LEMMA InterpolationIs ==
  ASSUME NEW r \in Indices, NEW nodes \in [0..r -> JustNodes]
  PROVE  /\ Interpolation[nodes] \in [Indices -> Numbers \cup {NaN}]
         /\ Apart(nodes, r) => Interpolates(nodes, r, Interpolation[nodes])
<1> DEFINE Fits(coef) == /\ \A i \in 0..r : Polynomial[coef][nodes[i].arg] = nodes[i].corr
                         /\ \A i \in Indices \ (0..r) : coef[i] = 0
           chosen == CHOOSE coef \in [Indices -> Numbers] : Fits(coef)
           failed == [i \in Indices |-> IF i \in 0..r THEN NaN ELSE 0]
<1>1. nodes \in UNION {[0..k -> JustNodes] : k \in Indices} /\ DOMAIN nodes = 0..r
  OBVIOUS
<1>2. Interpolation[nodes] = IF Apart(nodes, r) THEN chosen ELSE failed
  BY <1>1 DEF Interpolation, Apart
<1>3. failed \in [Indices -> Numbers \cup {NaN}]
  BY PrimeIs DEF Numbers
<1>4. ASSUME Apart(nodes, r) PROVE Interpolates(nodes, r, chosen)
  <2>1. \E coef \in [Indices -> Numbers] : Fits(coef)
    BY <1>4, InterpolatesExists DEF Interpolates
  <2> HIDE DEF Fits
  <2>2. chosen \in [Indices -> Numbers] /\ Fits(chosen)
    BY <2>1
  <2> HIDE DEF chosen
  <2> USE DEF Fits
  <2> QED
    BY <2>2 DEF Interpolates
<1> HIDE DEF chosen, failed
<1> QED
  BY <1>2, <1>3, <1>4 DEF Interpolates

\* The first neighbours with one argument.
LEMMA RealOrdIs ==
  ASSUME NEW curve
  PROVE  /\ RealOrd(curve) \in Indices
         /\ \A i \in 0..(RealOrd(curve) - 1) : curve.node[i].arg # curve.node[i + 1].arg
         /\ RealOrd(curve) < Order
              => curve.node[RealOrd(curve)].arg = curve.node[RealOrd(curve) + 1].arg
<1> DEFINE equal == {r \in Nat : r <= Order /\
                        (r < Order => curve.node[r].arg = curve.node[r + 1].arg)}
           IsEnd(r) == /\ \A i \in 0..(r - 1) : curve.node[i].arg # curve.node[i + 1].arg
                       /\ r < Order => curve.node[r].arg = curve.node[r + 1].arg
<1>1. Order \in equal
  BY PrimeIs
<1>2. PICK r \in equal : \A k \in equal : r <= k
  BY <1>1, LeastNat
<1>3. r \in Indices
  BY <1>2, PrimeIs DEF Indices
<1>4. \A i \in 0..(r - 1) : curve.node[i].arg # curve.node[i + 1].arg
  <2> SUFFICES ASSUME NEW i \in 0..(r - 1), curve.node[i].arg = curve.node[i + 1].arg
               PROVE  FALSE
    OBVIOUS
  <2>1. i \in Nat /\ i <= Order /\ i < r
    BY <1>2, PrimeIs
  <2>2. i \in equal
    BY <2>1
  <2> QED
    BY <1>2, <2>1, <2>2
<1>5. IsEnd(r)
  BY <1>2, <1>4
<1> HIDE DEF IsEnd
<1>6. \E k \in Indices : IsEnd(k)
  BY <1>3, <1>5
<1> DEFINE chosen == CHOOSE k \in Indices : IsEnd(k)
<1>7. chosen \in Indices /\ IsEnd(chosen)
  BY <1>6
<1>8. RealOrd(curve) = chosen
  BY DEF RealOrd, IsEnd
<1> QED
  BY <1>7, <1>8 DEF IsEnd

\* There are no two ends of the nodes that count.
LEMMA OneRealOrd ==
  ASSUME NEW curve, NEW r \in Indices,
         \A i \in 0..(r - 1) : curve.node[i].arg # curve.node[i + 1].arg,
         r < Order => curve.node[r].arg = curve.node[r + 1].arg
  PROVE  RealOrd(curve) = r
<1> DEFINE k == RealOrd(curve)
<1>1. /\ k \in Indices
      /\ \A i \in 0..(k - 1) : curve.node[i].arg # curve.node[i + 1].arg
      /\ k < Order => curve.node[k].arg = curve.node[k + 1].arg
  BY RealOrdIs
<1> HIDE DEF k
<1>2. k \in Nat /\ k <= Order /\ r \in Nat /\ r <= Order /\ Order \in Nat
  BY <1>1, PrimeIs DEF Indices
<1>3. ASSUME k < r PROVE FALSE
  <2>1. k \in 0..(r - 1) /\ k < Order
    BY <1>2, <1>3
  <2> QED
    BY <1>1, <2>1
<1>4. ASSUME r < k PROVE FALSE
  <2>1. r \in 0..(k - 1) /\ r < Order
    BY <1>2, <1>4
  <2> QED
    BY <1>1, <2>1
<1> QED
  BY <1>2, <1>3, <1>4 DEF k

\* The nodes that count.
Used(curve) == [i \in 0..RealOrd(curve) |-> curve.node[i]]

\* The coefficients are of the nodes.
CoefComputed(curve) == curve.coef = Interpolation[Used(curve)]

LEMMA UsedIs ==
  ASSUME NEW curve, curve.node \in [Indices -> JustNodes]
  PROVE  /\ RealOrd(curve) \in Indices
         /\ Used(curve) \in [0..RealOrd(curve) -> JustNodes]
<1>1. RealOrd(curve) \in Indices
  BY RealOrdIs
<1> DEFINE r == RealOrd(curve)
<1> HIDE DEF r
<1>2. r \in Indices
  BY <1>1 DEF r
<1>3. \A i \in 0..r : i \in Indices
  BY <1>2, PrimeIs DEF Indices
<1>4. [i \in 0..r |-> curve.node[i]] \in [0..r -> JustNodes]
  BY <1>3
<1> QED
  BY <1>1, <1>4 DEF Used, r

\* Curves with the same nodes use the same.
LEMMA SameUsed ==
  ASSUME NEW c, NEW d, c.node = d.node
  PROVE  Used(c) = Used(d)
<1> DEFINE r == RealOrd(d)
<1>1. /\ r \in Indices
      /\ \A i \in 0..(r - 1) : d.node[i].arg # d.node[i + 1].arg
      /\ r < Order => d.node[r].arg = d.node[r + 1].arg
  BY RealOrdIs
<1> HIDE DEF r
<1>2. /\ \A i \in 0..(r - 1) : c.node[i].arg # c.node[i + 1].arg
      /\ r < Order => c.node[r].arg = c.node[r + 1].arg
  BY <1>1
<1>3. RealOrd(c) = r
  BY <1>1, <1>2, OneRealOrd
<1> QED
  BY <1>3 DEF Used, r

\* The nodes of a curve begin with those sent, and the last of them is there again.
SentIsSet(curve, nodes) ==
  /\ \A i \in 1..Len(nodes) : curve.node[i - 1] = nodes[i]
  /\ Len(nodes) <= Order => curve.node[Len(nodes)] = nodes[Len(nodes)]

\* Nodes sent, at least one and no more than fit.
NodeLists == {nodes \in Seq(JustNodes) : Len(nodes) \in 1..(Order + 1)}

\* setNode
LEMMA SetNodeIs ==
  ASSUME NEW curve \in CurveType, NEW index \in Indices, NEW jn \in JustNodes
  PROVE  /\ SetNode(curve, index, jn) \in CurveType
         /\ \A i \in Indices : SetNode(curve, index, jn).node[i]
                                 = IF i < index THEN curve.node[i] ELSE jn
         /\ SetNode(curve, index, jn).coef = curve.coef
         /\ SetNode(curve, index, jn).status = curve.status
<1> DEFINE new == [i \in Indices |-> IF i < index THEN curve.node[i] ELSE jn]
<1>1. curve.node \in [Indices -> JustNodes]
  BY DEF CurveType
<1>2. new \in [Indices -> JustNodes]
  BY <1>1
<1>3. SetNode(curve, index, jn) = [curve EXCEPT !.node = new]
  BY DEF SetNode
<1>4. \A i \in Indices : new[i] = IF i < index THEN curve.node[i] ELSE jn
  OBVIOUS
<1> HIDE DEF new
<1> DEFINE c == [curve EXCEPT !.node = new]
<1>5. c \in CurveType /\ c.node = new /\ c.coef = curve.coef /\ c.status = curve.status
  BY <1>2 DEF CurveType
<1> QED
  BY <1>3, <1>4, <1>5

\* A node sent is the next of those, or sent again, or left out others.
LEMMA SetNodeSent ==
  ASSUME NEW curve \in CurveType, NEW nodes \in NodeLists, SentIsSet(curve, nodes),
         NEW index \in Indices, NEW jn \in JustNodes
  PROVE  /\ index <= Len(nodes)
              => /\ Append(SubSeq(nodes, 1, index), jn) \in NodeLists
                 /\ SentIsSet(SetNode(curve, index, jn), Append(SubSeq(nodes, 1, index), jn))
         /\ index > Len(nodes) => SentIsSet(SetNode(curve, index, jn), nodes)
<1> DEFINE c == SetNode(curve, index, jn)
           n == Len(nodes)
<1>1. \A i \in Indices : c.node[i] = IF i < index THEN curve.node[i] ELSE jn
  BY SetNodeIs
<1>2. nodes \in Seq(JustNodes) /\ n \in Nat /\ 1 <= n /\ n <= Order + 1
  BY PrimeIs DEF NodeLists
<1>3. index \in Nat /\ index <= Order /\ Order \in Nat
  BY PrimeIs DEF Indices
<1>4. \A i \in 1..n : curve.node[i - 1] = nodes[i]
  BY DEF SentIsSet
<1>5. n <= Order => curve.node[n] = nodes[n]
  BY DEF SentIsSet
<1>6. ASSUME index <= n
      PROVE  /\ Append(SubSeq(nodes, 1, index), jn) \in NodeLists
             /\ SentIsSet(c, Append(SubSeq(nodes, 1, index), jn))
  <2> DEFINE begin == SubSeq(nodes, 1, index)
             l == Append(begin, jn)
  <2>1. begin \in Seq(JustNodes) /\ Len(begin) = index /\ \A i \in 1..index : begin[i] = nodes[i]
    BY <1>2, <1>3, <1>6
  <2> HIDE DEF begin
  <2>2. /\ l \in Seq(JustNodes) /\ Len(l) = index + 1 /\ l[index + 1] = jn
        /\ \A i \in 1..index : l[i] = nodes[i]
    BY <2>1, <1>3
  <2> HIDE DEF l, c, n
  <2>3. l \in NodeLists
    BY <2>2, <1>3 DEF NodeLists
  <2>4. ASSUME NEW i \in 1..Len(l) PROVE c.node[i - 1] = l[i]
    <3>1. i \in Nat /\ i >= 1 /\ i <= index + 1 /\ i - 1 \in Indices
      BY <2>2, <1>3 DEF Indices
    <3>2. CASE i = index + 1
      <4>1. i - 1 = index
        BY <3>2, <1>3
      <4>2. c.node[index] = jn
        BY <1>1, <1>3
      <4> QED
        BY <4>1, <4>2, <3>2, <2>2
    <3>3. CASE i # index + 1
      <4>1. i \in 1..index /\ i \in 1..n /\ i - 1 < index
        BY <3>1, <3>3, <1>2, <1>3, <1>6
      <4>2. c.node[i - 1] = curve.node[i - 1]
        BY <1>1, <3>1, <4>1
      <4> QED
        BY <4>1, <4>2, <1>4, <2>2
    <3> QED
      BY <3>2, <3>3
  <2>5. ASSUME Len(l) <= Order PROVE c.node[Len(l)] = l[Len(l)]
    <3>1. index + 1 \in Indices /\ ~(index + 1 < index)
      BY <2>2, <2>5, <1>3 DEF Indices
    <3>2. c.node[index + 1] = jn
      BY <1>1, <3>1
    <3> QED
      BY <2>2, <3>2
  <2> QED
    BY <2>3, <2>4, <2>5 DEF SentIsSet, l, begin, c, n
<1>7. ASSUME index > n PROVE SentIsSet(c, nodes)
  <2>1. ASSUME NEW i \in 1..n PROVE c.node[i - 1] = nodes[i]
    <3>1. i - 1 \in Indices /\ i - 1 < index
      BY <1>2, <1>3, <1>7 DEF Indices
    <3> QED
      BY <1>1, <1>4, <3>1
  <2>2. n \in Indices /\ n < index /\ n <= Order
    BY <1>2, <1>3, <1>7 DEF Indices
  <2>3. c.node[n] = nodes[n]
    BY <1>1, <1>5, <2>2
  <2> QED
    BY <2>1, <2>3 DEF SentIsSet
<1> HIDE DEF c
<1> QED
  BY <1>6, <1>7 DEF c

\* cmpCoefficients
LEMMA CmpCoefficientsIs ==
  ASSUME NEW curve \in CurveType
  PROVE  /\ CmpCoefficients(curve) \in CurveType
         /\ CmpCoefficients(curve).node = curve.node
         /\ CmpCoefficients(curve).status = curve.status
         /\ CoefComputed(CmpCoefficients(curve))
<1>1. curve.node \in [Indices -> JustNodes]
  BY DEF CurveType
<1> DEFINE new == Interpolation[Used(curve)]
           c == [curve EXCEPT !.coef = new]
<1>2. new \in [Indices -> Numbers \cup {NaN}]
  BY <1>1, UsedIs, InterpolationIs
<1>3. CmpCoefficients(curve) = c
  BY DEF CmpCoefficients, Used
<1>4. /\ c \in CurveType /\ c.node = curve.node /\ c.status = curve.status
      /\ c.coef = new
  <2> HIDE DEF new
  <2> QED
    BY <1>2 DEF CurveType
<1>5. Used(c) = Used(curve)
  BY <1>4, SameUsed
<1>6. CoefComputed(c)
  BY <1>4, <1>5 DEF CoefComputed
<1> QED
  BY <1>3, <1>4, <1>6

\* Numbers that the curves start with.
LEMMA NeutralIs ==
  ASSUME NEW kind
  PROVE  Neutral(kind) \in Numbers /\ JustNode(Neutral(kind), 0) \in JustNodes
<1>1. 0 \in Numbers /\ 1 \in Numbers
  BY PrimeIs DEF Numbers
<1> QED
  BY <1>1 DEF Neutral, JustNode, JustNodes

\* initJustData
LEMMA InitJustDataIs ==
  ASSUME NEW curve \in CurveType, NEW init \in Numbers, JustNode(init, 0) \in JustNodes
  PROVE  /\ InitJustData(curve, init) \in CurveType
         /\ <<JustNode(init, 0)>> \in NodeLists
         /\ SentIsSet(InitJustData(curve, init), <<JustNode(init, 0)>>)
         /\ CoefComputed(InitJustData(curve, init))
<1> DEFINE jn == JustNode(init, 0)
           l == <<jn>>
           a == SetNode(curve, 0, jn)
           b == CmpCoefficients(a)
           c == [b EXCEPT !.status = 0]
<1>1. 0 \in Indices /\ jn \in JustNodes
  BY IndicesAre
<1> HIDE DEF jn
<1>2. a \in CurveType /\ \A i \in Indices : a.node[i] = IF i < 0 THEN curve.node[i] ELSE jn
  BY ONLY <1>1, curve \in CurveType, SetNodeIs, Zenon
<1> HIDE DEF a
<1>3. b \in CurveType /\ b.node = a.node /\ CoefComputed(b)
  BY <1>2, CmpCoefficientsIs
<1> HIDE DEF b
<1>4. c \in CurveType /\ c.node = b.node /\ c.coef = b.coef
  BY <1>3 DEF CurveType
<1>5. InitJustData(curve, init) = c
  BY DEF InitJustData, a, b, jn
<1> HIDE DEF c
<1>6. CoefComputed(c)
  <2>1. Used(c) = Used(b)
    BY <1>4, SameUsed
  <2> QED
    BY <1>3, <1>4, <2>1 DEF CoefComputed
<1>7. \A i \in Indices : c.node[i] = jn
  BY <1>2, <1>3, <1>4, IndicesAre
<1>8. l \in Seq(JustNodes) /\ Len(l) = 1 /\ l[1] = jn
  BY <1>1
<1> HIDE DEF l
<1>9. l \in NodeLists
  <2>1. 1 \in 1..(Order + 1)
    BY PrimeIs
  <2> QED
    BY <1>8, <2>1 DEF NodeLists
<1>10. SentIsSet(c, l)
  <2>1. ASSUME NEW i \in 1..Len(l) PROVE c.node[i - 1] = l[i]
    <3>1. i = 1 /\ i - 1 = 0
      BY <1>8
    <3> QED
      BY <3>1, <1>1, <1>7, <1>8
  <2>2. ASSUME Len(l) <= Order PROVE c.node[Len(l)] = l[Len(l)]
    <3>1. 1 \in Indices
      BY <1>8, <2>2, PrimeIs DEF Indices
    <3> QED
      BY <3>1, <1>7, <1>8
  <2> QED
    BY <2>1, <2>2 DEF SentIsSet
<1> QED
  BY <1>4, <1>5, <1>6, <1>9, <1>10 DEF l, jn

\* A new object.
LEMMA NewDataIs ==
  ASSUME NEW kind
  PROVE  /\ NewData(kind) \in CurveType
         /\ <<JustNode(Neutral(kind), 0)>> \in NodeLists
         /\ SentIsSet(NewData(kind), <<JustNode(Neutral(kind), 0)>>)
         /\ CoefComputed(NewData(kind))
<1> DEFINE blank == [node |-> [i \in Indices |-> JustNode(0, 0)],
                     coef |-> [i \in Indices |-> 0], status |-> 0]
           init == Neutral(kind)
<1>1. 0 \in Numbers /\ JustNode(0, 0) \in JustNodes
  BY PrimeIs DEF Numbers, JustNode, JustNodes
<1>2. blank \in CurveType
  BY <1>1 DEF CurveType
<1>3. NewData(kind) = InitJustData(blank, init)
  BY DEF NewData
<1>4. init \in Numbers /\ JustNode(init, 0) \in JustNodes
  BY NeutralIs
<1> HIDE DEF blank, init
<1> QED
  BY <1>2, <1>3, <1>4, InitJustDataIs DEF init

-----------------------------------------------------------------------------
(***************************************************************************)
(* The inductive invariant                                                 *)
(***************************************************************************)

\* The history of each curve is that of its data.
HistoryFits ==
  \A c \in Curves : /\ sent[c] \in NodeLists
                    /\ SentIsSet(data[c], sent[c])
                    /\ c \in computed => CoefComputed(data[c])

\* The same of what is stored.
StoredFits ==
  \A range \in Stored :
    /\ flash[range].computed \subseteq CurvesOf(range)
    /\ \A kind \in Kinds :
         /\ flash[range].sent[kind] \in NodeLists
         /\ SentIsSet(flash[range].data[kind], flash[range].sent[kind])
         /\ <<range, kind>> \in flash[range].computed => CoefComputed(flash[range].data[kind])

Inv == TypeOK /\ HistoryFits /\ StoredFits

\* A curve is of a range and a kind.
LEMMA CurveIs ==
  ASSUME NEW c \in Curves
  PROVE  /\ c[1] \in Ranges /\ c[2] \in Kinds /\ c = <<c[1], c[2]>>
         /\ \A range : c \in CurvesOf(range) <=> c[1] = range
<1> QED
  BY DEF Curves, CurvesOf

LEMMA IsCurve ==
  ASSUME NEW range \in Ranges, NEW kind \in Kinds
  PROVE  <<range, kind>> \in Curves /\ <<range, kind>> \in CurvesOf(range)
<1> QED
  BY DEF Curves, CurvesOf

\* Clients send nodes.
LEMMA SentNodesAre ==
  ASSUME NEW corr \in Corrections, NEW arg \in Arguments
  PROVE  JustNode(corr, arg) \in JustNodes
<1> QED
  BY JustDataAssumption DEF JustDataAssumption, JustNode, JustNodes

\* It holds at the start.
LEMMA InitInv == Init => Inv
<1> SUFFICES ASSUME Init PROVE Inv
  OBVIOUS
<1> USE DEF Init
<1> DEFINE first(kind) == <<JustNode(Neutral(kind), 0)>>
<1>1. \A kind : /\ NewData(kind) \in CurveType
                /\ first(kind) \in NodeLists
                /\ SentIsSet(NewData(kind), first(kind))
                /\ CoefComputed(NewData(kind))
  BY NewDataIs
<1> HIDE DEF first
<1>2. /\ data = [c \in Curves |-> NewData(c[2])]
      /\ sent = [c \in Curves |-> first(c[2])]
      /\ computed = Curves
  BY DEF first
<1>3. data \in [Curves -> CurveType] /\ sent \in [Curves -> NodeLists]
  BY <1>1, <1>2
<1>4. \A nodes \in NodeLists : nodes \in Seq(JustNodes) /\ Len(nodes) \in 1..(Order + 1)
  BY DEF NodeLists
<1>5. HistoryFits
  BY <1>1, <1>2 DEF HistoryFits
<1>6. ASSUME NEW range \in Stored
      PROVE  /\ flash[range] \in StoredType
             /\ flash[range].computed = CurvesOf(range)
             /\ \A kind \in Kinds : /\ flash[range].data[kind] = data[<<range, kind>>]
                                    /\ flash[range].sent[kind] = sent[<<range, kind>>]
  <2>1. range \in Ranges
    BY JustDataAssumption DEF JustDataAssumption
  <2>2. \A kind \in Kinds : <<range, kind>> \in Curves
    BY <2>1, IsCurve
  <2> DEFINE d == [k \in Kinds |-> data[<<range, k>>]]
             s == [k \in Kinds |-> sent[<<range, k>>]]
  <2>3. d \in [Kinds -> CurveType] /\ s \in [Kinds -> Seq(JustNodes)]
    BY <2>2, <1>3, <1>4
  <2>4. CurvesOf(range) \in SUBSET Curves
    BY <2>1 DEF CurvesOf, Curves
  <2>5. flash[range] = [data |-> d, sent |-> s, computed |-> CurvesOf(range)]
    OBVIOUS
  <2>6. \A kind \in Kinds : d[kind] = data[<<range, kind>>] /\ s[kind] = sent[<<range, kind>>]
    OBVIOUS
  <2> HIDE DEF d, s
  <2> QED
    BY <2>3, <2>4, <2>5, <2>6 DEF StoredType
<1>7. TypeOK
  <2>1. flash \in [Stored -> StoredType]
    BY <1>6
  <2>2. edits \in 0..MaxEdits
    BY JustDataAssumption DEF JustDataAssumption
  <2> QED
    BY <2>1, <2>2, <1>2, <1>3, <1>4 DEF TypeOK
<1>8. StoredFits
  <2> SUFFICES ASSUME NEW range \in Stored
               PROVE  \A kind \in Kinds :
                        /\ flash[range].sent[kind] \in NodeLists
                        /\ SentIsSet(flash[range].data[kind], flash[range].sent[kind])
                        /\ CoefComputed(flash[range].data[kind])
    BY <1>6 DEF StoredFits
  <2>1. range \in Ranges
    BY JustDataAssumption DEF JustDataAssumption
  <2>2. \A kind \in Kinds : <<range, kind>> \in Curves
    BY <2>1, IsCurve
  <2> QED
    BY <2>2, <1>2, <1>5, <1>6 DEF HistoryFits
<1> QED
  BY <1>5, <1>7, <1>8 DEF Inv

\* A step that leaves the flash alone needs only the curves' part.
LEMMA FlashStays ==
  ASSUME Inv, UNCHANGED flash,
         data' \in [Curves -> CurveType], edits' \in 0..MaxEdits,
         sent' \in [Curves -> NodeLists], computed' \subseteq Curves,
         HistoryFits'
  PROVE  Inv'
<1>1. \A nodes \in NodeLists : nodes \in Seq(JustNodes) /\ Len(nodes) \in 1..(Order + 1)
  BY DEF NodeLists
<1>2. TypeOK'
  BY <1>1 DEF Inv, TypeOK
<1>3. StoredFits'
  BY DEF Inv, StoredFits
<1> QED
  BY <1>2, <1>3 DEF Inv

\* The nodes sent, as a type.
LEMMA SentType ==
  ASSUME Inv
  PROVE  /\ data \in [Curves -> CurveType] /\ sent \in [Curves -> NodeLists]
         /\ computed \subseteq Curves /\ edits \in 0..MaxEdits
         /\ \A c \in Curves : /\ SentIsSet(data[c], sent[c])
                              /\ c \in computed => CoefComputed(data[c])
<1>1. \A c \in Curves : sent[c] \in NodeLists
  BY DEF Inv, HistoryFits
<1>2. sent \in [Curves -> Seq(JustNodes)]
  BY DEF Inv, TypeOK
<1> QED
  BY <1>1, <1>2 DEF Inv, TypeOK, HistoryFits

\* One more edit.
LEMMA EditType ==
  ASSUME edits \in 0..MaxEdits, Edit
  PROVE  edits' \in 0..MaxEdits
<1> QED
  BY JustDataAssumption DEF JustDataAssumption, Edit

\* NODE
LEMMA WriteNodeInv ==
  ASSUME Inv, NEW c \in Curves, NEW index \in Indices, NEW jn \in JustNodes,
         WriteNode(c, index, jn)
  PROVE  Inv'
<1> USE DEF WriteNode
<1> DEFINE new == SetNode(data[c], index, jn)
           more == Append(SubSeq(sent[c], 1, index), jn)
<1>1. /\ data \in [Curves -> CurveType] /\ sent \in [Curves -> NodeLists]
      /\ computed \subseteq Curves /\ edits \in 0..MaxEdits
      /\ \A d \in Curves : /\ SentIsSet(data[d], sent[d])
                           /\ d \in computed => CoefComputed(data[d])
  BY SentType
<1>2. data[c] \in CurveType /\ sent[c] \in NodeLists /\ SentIsSet(data[c], sent[c])
  BY <1>1
<1>3. new \in CurveType
  BY <1>2, SetNodeIs
<1>4. /\ index <= Len(sent[c]) => more \in NodeLists /\ SentIsSet(new, more)
      /\ index > Len(sent[c]) => SentIsSet(new, sent[c])
  BY <1>2, SetNodeSent
<1>5. data' = [data EXCEPT ![c] = new]
  OBVIOUS
<1>6. sent' = IF index <= Len(sent[c]) THEN [sent EXCEPT ![c] = more] ELSE sent
  OBVIOUS
<1>7. index <= Len(sent[c]) \/ index > Len(sent[c])
  BY <1>2, PrimeIs DEF NodeLists, Indices
<1> HIDE DEF new, more
<1>8. data' \in [Curves -> CurveType] /\ sent' \in [Curves -> NodeLists]
  BY <1>1, <1>3, <1>4, <1>5, <1>6
<1>9. computed' \subseteq Curves /\ edits' \in 0..MaxEdits
  BY <1>1, EditType
<1>10. ASSUME NEW d \in Curves
       PROVE  /\ sent'[d] \in NodeLists
              /\ SentIsSet(data'[d], sent'[d])
              /\ d \in computed' => CoefComputed(data'[d])
  <2>1. CASE d = c
    <3>1. data'[d] = new /\ d \notin computed'
      BY <2>1, <1>1, <1>5
    <3>2. sent'[d] = IF index <= Len(sent[c]) THEN more ELSE sent[c]
      BY <2>1, <1>1, <1>6
    <3> QED
      BY <3>1, <3>2, <1>4, <1>7, <1>8
  <2>2. CASE d # c
    <3>1. data'[d] = data[d] /\ sent'[d] = sent[d] /\ (d \in computed' => d \in computed)
      BY <2>2, <1>1, <1>5, <1>6
    <3> QED
      BY <3>1, <1>1, <1>8
  <2> QED
    BY <2>1, <2>2
<1>11. HistoryFits'
  BY <1>10 DEF HistoryFits
<1>12. UNCHANGED flash
  OBVIOUS
<1> QED
  BY ONLY Inv, <1>8, <1>9, <1>11, <1>12, FlashStays

\* setCoefficient
LEMMA SetCoefficientIs ==
  ASSUME NEW curve \in CurveType, NEW index \in Indices, NEW value \in Numbers
  PROVE  /\ SetCoefficient(curve, index, value) \in CurveType
         /\ SetCoefficient(curve, index, value).node = curve.node
<1> DEFINE new == [i \in Indices |-> IF i < index THEN curve.coef[i]
                                     ELSE IF i = index THEN value ELSE 0]
<1>1. curve.coef \in [Indices -> Numbers \cup {NaN}]
  BY DEF CurveType
<1>2. 0 \in Numbers
  BY PrimeIs DEF Numbers
<1>3. new \in [Indices -> Numbers \cup {NaN}]
  BY <1>1, <1>2
<1>4. SetCoefficient(curve, index, value) = [curve EXCEPT !.coef = new]
  BY DEF SetCoefficient
<1> HIDE DEF new
<1> QED
  BY <1>3, <1>4 DEF CurveType

\* The nodes are those sent as long as they stay.
LEMMA SameNodesSent ==
  ASSUME NEW c, NEW d, c.node = d.node, NEW nodes, SentIsSet(d, nodes)
  PROVE  SentIsSet(c, nodes)
<1> QED
  BY DEF SentIsSet

\* COEFFICIENT
LEMMA WriteCoefficientInv ==
  ASSUME Inv, NEW c \in Curves, NEW index \in Indices, NEW value \in Numbers,
         WriteCoefficient(c, index, value)
  PROVE  Inv'
<1> USE DEF WriteCoefficient
<1> DEFINE new == SetCoefficient(data[c], index, value)
<1>1. /\ data \in [Curves -> CurveType] /\ sent \in [Curves -> NodeLists]
      /\ computed \subseteq Curves /\ edits \in 0..MaxEdits
      /\ \A d \in Curves : /\ SentIsSet(data[d], sent[d])
                           /\ d \in computed => CoefComputed(data[d])
  BY SentType
<1>2. data[c] \in CurveType
  BY <1>1
<1>3. new \in CurveType /\ new.node = data[c].node
  BY <1>2, SetCoefficientIs
<1>4. SentIsSet(new, sent[c])
  BY <1>1, <1>3, SameNodesSent
<1>5. data' = [data EXCEPT ![c] = new]
  OBVIOUS
<1> HIDE DEF new
<1>6. data' \in [Curves -> CurveType] /\ sent' \in [Curves -> NodeLists]
  BY <1>1, <1>3, <1>5
<1>7. computed' \subseteq Curves /\ edits' \in 0..MaxEdits
  BY <1>1, EditType
<1>8. ASSUME NEW d \in Curves
      PROVE  /\ sent'[d] \in NodeLists
             /\ SentIsSet(data'[d], sent'[d])
             /\ d \in computed' => CoefComputed(data'[d])
  <2>1. CASE d = c
    <3>1. data'[d] = new /\ d \notin computed' /\ sent'[d] = sent[c]
      BY <2>1, <1>1, <1>5
    <3> QED
      BY <3>1, <1>1, <1>4
  <2>2. CASE d # c
    <3>1. data'[d] = data[d] /\ sent'[d] = sent[d] /\ (d \in computed' => d \in computed)
      BY <2>2, <1>1, <1>5
    <3> QED
      BY <3>1, <1>1
  <2> QED
    BY <2>1, <2>2
<1>9. HistoryFits'
  BY <1>8 DEF HistoryFits
<1>10. UNCHANGED flash
  OBVIOUS
<1> QED
  BY ONLY Inv, <1>6, <1>7, <1>9, <1>10, FlashStays

\* STATUS
LEMMA WriteStatusInv ==
  ASSUME Inv, NEW c \in Curves, NEW par \in Nat, WriteStatus(c, par)
  PROVE  Inv'
<1> USE DEF WriteStatus
<1> DEFINE byte == StatusByte(par)
           new == [data[c] EXCEPT !.status = byte]
<1>1. /\ data \in [Curves -> CurveType] /\ sent \in [Curves -> NodeLists]
      /\ computed \subseteq Curves /\ edits \in 0..MaxEdits
      /\ \A d \in Curves : /\ SentIsSet(data[d], sent[d])
                           /\ d \in computed => CoefComputed(data[d])
  BY SentType
<1>2. byte \in 0..255
  BY DEF StatusByte
<1>3. data' = [data EXCEPT ![c] = new]
  OBVIOUS
<1> HIDE DEF byte
<1>4. /\ new \in CurveType
      /\ new.node = data[c].node /\ new.coef = data[c].coef
  <2>1. data[c] \in CurveType
    BY <1>1
  <2> QED
    BY <1>2, <2>1 DEF CurveType
<1> HIDE DEF new
<1>5. SentIsSet(new, sent[c])
  BY <1>1, <1>4, SameNodesSent
<1>6. CoefComputed(data[c]) => CoefComputed(new)
  <2>1. Used(new) = Used(data[c])
    BY <1>4, SameUsed
  <2> QED
    BY <1>4, <2>1 DEF CoefComputed
<1>7. data' \in [Curves -> CurveType] /\ sent' \in [Curves -> NodeLists]
  BY <1>1, <1>3, <1>4
<1>8. computed' \subseteq Curves /\ edits' \in 0..MaxEdits
  BY <1>1, EditType
<1>9. ASSUME NEW d \in Curves
      PROVE  /\ sent'[d] \in NodeLists
             /\ SentIsSet(data'[d], sent'[d])
             /\ d \in computed' => CoefComputed(data'[d])
  <2>1. CASE d = c
    <3>1. data'[d] = new /\ sent'[d] = sent[c] /\ computed' = computed
      BY <2>1, <1>1, <1>3
    <3> QED
      BY <2>1, <3>1, <1>1, <1>5, <1>6
  <2>2. CASE d # c
    <3>1. data'[d] = data[d] /\ sent'[d] = sent[d] /\ computed' = computed
      BY <2>2, <1>1, <1>3
    <3> QED
      BY <3>1, <1>1
  <2> QED
    BY <2>1, <2>2
<1>10. HistoryFits'
  BY <1>9 DEF HistoryFits
<1>11. UNCHANGED flash
  OBVIOUS
<1> QED
  BY ONLY Inv, <1>7, <1>8, <1>10, <1>11, FlashStays

\* CORRECTION:COMPUTE of some curves
LEMMA ComputeInv ==
  ASSUME Inv, NEW curves \in SUBSET Curves,
         data' = [c \in Curves |-> IF c \in curves THEN CmpCoefficients(data[c]) ELSE data[c]],
         computed' = computed \cup curves,
         UNCHANGED <<flash, edits, sent>>
  PROVE  Inv'
<1>1. /\ data \in [Curves -> CurveType] /\ sent \in [Curves -> NodeLists]
      /\ computed \subseteq Curves /\ edits \in 0..MaxEdits
      /\ \A d \in Curves : /\ SentIsSet(data[d], sent[d])
                           /\ d \in computed => CoefComputed(data[d])
  BY SentType
<1>2. \A d \in Curves : /\ CmpCoefficients(data[d]) \in CurveType
                        /\ CmpCoefficients(data[d]).node = data[d].node
                        /\ CoefComputed(CmpCoefficients(data[d]))
  BY <1>1, CmpCoefficientsIs
<1>3. data' \in [Curves -> CurveType]
  BY <1>1, <1>2
<1>4. sent' \in [Curves -> NodeLists] /\ computed' \subseteq Curves /\ edits' \in 0..MaxEdits
  BY <1>1
<1>5. ASSUME NEW d \in Curves
      PROVE  /\ sent'[d] \in NodeLists
             /\ SentIsSet(data'[d], sent'[d])
             /\ d \in computed' => CoefComputed(data'[d])
  <2>1. CASE d \in curves
    <3>1. data'[d] = CmpCoefficients(data[d]) /\ sent'[d] = sent[d]
      BY <2>1
    <3> DEFINE new == CmpCoefficients(data[d])
    <3>2. new.node = data[d].node /\ CoefComputed(new) /\ SentIsSet(data[d], sent[d])
      BY <1>1, <1>2
    <3> HIDE DEF new
    <3>3. SentIsSet(new, sent[d])
      BY ONLY <3>2, SameNodesSent
    <3> QED
      BY <3>1, <3>2, <3>3, <1>4 DEF new
  <2>2. CASE d \notin curves
    <3>1. data'[d] = data[d] /\ sent'[d] = sent[d] /\ (d \in computed' => d \in computed)
      BY <2>2
    <3> QED
      BY <3>1, <1>1
  <2> QED
    BY <2>1, <2>2
<1>6. HistoryFits'
  BY <1>5 DEF HistoryFits
<1>7. UNCHANGED flash
  OBVIOUS
<1> QED
  BY ONLY Inv, <1>3, <1>4, <1>6, <1>7, FlashStays

\* CORRECTION:INIT of some curves
LEMMA InitCurvesInv ==
  ASSUME Inv, NEW curves \in SUBSET Curves, InitCurves(curves)
  PROVE  Inv'
<1> USE DEF InitCurves
<1> DEFINE first(kind) == <<JustNode(Neutral(kind), 0)>>
           new(d) == InitJustData(data[d], Neutral(d[2]))
<1>1. /\ data \in [Curves -> CurveType] /\ sent \in [Curves -> NodeLists]
      /\ computed \subseteq Curves /\ edits \in 0..MaxEdits
      /\ \A d \in Curves : /\ SentIsSet(data[d], sent[d])
                           /\ d \in computed => CoefComputed(data[d])
  BY SentType
<1>2. ASSUME NEW d \in Curves
      PROVE  /\ new(d) \in CurveType
             /\ first(d[2]) \in NodeLists
             /\ SentIsSet(new(d), first(d[2]))
             /\ CoefComputed(new(d))
  <2> DEFINE init == Neutral(d[2])
             curve == data[d]
  <2>1. init \in Numbers /\ JustNode(init, 0) \in JustNodes /\ curve \in CurveType
    BY <1>1, NeutralIs
  <2> HIDE DEF init, curve
  <2>2. /\ InitJustData(curve, init) \in CurveType
        /\ <<JustNode(init, 0)>> \in NodeLists
        /\ SentIsSet(InitJustData(curve, init), <<JustNode(init, 0)>>)
        /\ CoefComputed(InitJustData(curve, init))
    BY ONLY <2>1, InitJustDataIs
  <2> QED
    BY <2>2 DEF init, curve
<1>3. /\ data' = [c \in Curves |-> IF c \in curves THEN new(c) ELSE data[c]]
      /\ sent' = [c \in Curves |-> IF c \in curves THEN first(c[2]) ELSE sent[c]]
      /\ computed' = computed \cup curves
  OBVIOUS
<1> HIDE DEF new, first
<1>4. data' \in [Curves -> CurveType] /\ sent' \in [Curves -> NodeLists]
  BY <1>1, <1>2, <1>3
<1>5. computed' \subseteq Curves /\ edits' \in 0..MaxEdits
  BY <1>1, <1>3
<1>6. ASSUME NEW d \in Curves
      PROVE  /\ sent'[d] \in NodeLists
             /\ SentIsSet(data'[d], sent'[d])
             /\ d \in computed' => CoefComputed(data'[d])
  <2>1. CASE d \in curves
    <3>1. data'[d] = new(d) /\ sent'[d] = first(d[2])
      BY <2>1, <1>3
    <3> QED
      BY <3>1, <1>2
  <2>2. CASE d \notin curves
    <3>1. data'[d] = data[d] /\ sent'[d] = sent[d] /\ (d \in computed' => d \in computed)
      BY <2>2, <1>3
    <3> QED
      BY <3>1, <1>1
  <2> QED
    BY <2>1, <2>2
<1>7. HistoryFits'
  BY <1>6 DEF HistoryFits
<1>8. UNCHANGED flash
  OBVIOUS
<1> QED
  BY ONLY Inv, <1>4, <1>5, <1>7, <1>8, FlashStays

\* The data of a range are written.
LEMMA SerializeInv ==
  ASSUME Inv, NEW range \in Stored, Serialize(range)
  PROVE  Inv'
<1> USE DEF Serialize
<1>1. /\ data \in [Curves -> CurveType] /\ sent \in [Curves -> NodeLists]
      /\ computed \subseteq Curves /\ edits \in 0..MaxEdits
      /\ \A d \in Curves : /\ SentIsSet(data[d], sent[d])
                           /\ d \in computed => CoefComputed(data[d])
  BY SentType
<1>2. range \in Ranges
  BY JustDataAssumption DEF JustDataAssumption
<1>3. \A kind \in Kinds : <<range, kind>> \in Curves
  BY <1>2, IsCurve
<1>4. \A nodes \in NodeLists : nodes \in Seq(JustNodes)
  BY DEF NodeLists
<1> DEFINE d == [k \in Kinds |-> data[<<range, k>>]]
           s == [k \in Kinds |-> sent[<<range, k>>]]
           of == computed \cap CurvesOf(range)
           new == [data |-> d, sent |-> s, computed |-> of]
<1>5. d \in [Kinds -> CurveType] /\ s \in [Kinds -> Seq(JustNodes)] /\ of \in SUBSET Curves
  BY <1>1, <1>3, <1>4
<1>6. \A kind \in Kinds : d[kind] = data[<<range, kind>>] /\ s[kind] = sent[<<range, kind>>]
  OBVIOUS
<1>7. flash' = [flash EXCEPT ![range] = new]
  OBVIOUS
<1>8. \A kind \in Kinds : /\ s[kind] \in NodeLists
                          /\ SentIsSet(d[kind], s[kind])
                          /\ <<range, kind>> \in of => CoefComputed(d[kind])
  BY <1>1, <1>3, <1>6
<1>9. of \subseteq CurvesOf(range)
  OBVIOUS
<1> HIDE DEF d, s, of
<1>10. new \in StoredType /\ new.data = d /\ new.sent = s /\ new.computed = of
  BY <1>5 DEF StoredType
<1> HIDE DEF new
<1>11. flash \in [Stored -> StoredType]
  BY DEF Inv, TypeOK
<1>12. flash' \in [Stored -> StoredType]
  BY <1>7, <1>10, <1>11
<1>13. TypeOK'
  BY <1>12 DEF Inv, TypeOK
<1>14. HistoryFits'
  BY DEF Inv, HistoryFits
<1>15. ASSUME NEW r \in Stored
       PROVE  /\ flash'[r].computed \subseteq CurvesOf(r)
              /\ \A kind \in Kinds :
                   /\ flash'[r].sent[kind] \in NodeLists
                   /\ SentIsSet(flash'[r].data[kind], flash'[r].sent[kind])
                   /\ <<r, kind>> \in flash'[r].computed => CoefComputed(flash'[r].data[kind])
  <2>1. CASE r = range
    <3>1. flash'[r] = new
      BY <2>1, <1>7, <1>11
    <3> QED
      BY <2>1, <3>1, <1>8, <1>9, <1>10
  <2>2. CASE r # range
    <3>1. flash'[r] = flash[r]
      BY <2>2, <1>7, <1>11
    <3> QED
      BY <3>1 DEF Inv, StoredFits
  <2> QED
    BY <2>1, <2>2
<1>16. StoredFits'
  BY <1>15 DEF StoredFits
<1> QED
  BY <1>13, <1>14, <1>16 DEF Inv

\* The data of a range are read.
LEMMA DeserializeInv ==
  ASSUME Inv, NEW range \in Stored, Deserialize(range)
  PROVE  Inv'
<1> USE DEF Deserialize
<1>1. /\ data \in [Curves -> CurveType] /\ sent \in [Curves -> NodeLists]
      /\ computed \subseteq Curves /\ edits \in 0..MaxEdits
      /\ \A d \in Curves : /\ SentIsSet(data[d], sent[d])
                           /\ d \in computed => CoefComputed(data[d])
  BY SentType
<1> DEFINE f == flash[range]
<1>2. f \in StoredType
  BY DEF Inv, TypeOK
<1>3. f.data \in [Kinds -> CurveType] /\ f.computed \subseteq Curves
  BY <1>2 DEF StoredType
<1>4. /\ f.computed \subseteq CurvesOf(range)
      /\ \A kind \in Kinds : /\ f.sent[kind] \in NodeLists
                             /\ SentIsSet(f.data[kind], f.sent[kind])
                             /\ <<range, kind>> \in f.computed => CoefComputed(f.data[kind])
  BY DEF Inv, StoredFits
<1>5. /\ data' = [c \in Curves |-> IF c[1] = range THEN f.data[c[2]] ELSE data[c]]
      /\ sent' = [c \in Curves |-> IF c[1] = range THEN f.sent[c[2]] ELSE sent[c]]
      /\ computed' = (computed \ CurvesOf(range)) \cup f.computed
  OBVIOUS
<1> HIDE DEF f
<1>6. \A c \in Curves : /\ c[2] \in Kinds /\ c = <<c[1], c[2]>>
                        /\ (c \in CurvesOf(range) <=> c[1] = range)
  BY CurveIs
<1>7. data' \in [Curves -> CurveType] /\ sent' \in [Curves -> NodeLists]
  BY <1>1, <1>3, <1>4, <1>5, <1>6
<1>8. computed' \subseteq Curves /\ edits' \in 0..MaxEdits
  BY <1>1, <1>3, <1>5
<1>9. ASSUME NEW d \in Curves
      PROVE  /\ sent'[d] \in NodeLists
             /\ SentIsSet(data'[d], sent'[d])
             /\ d \in computed' => CoefComputed(data'[d])
  <2> DEFINE kind == d[2]
  <2>0. kind \in Kinds /\ d = <<d[1], kind>> /\ (d \in CurvesOf(range) <=> d[1] = range)
    BY <1>6
  <2>1. CASE d[1] = range
    <3>1. data'[d] = f.data[kind] /\ sent'[d] = f.sent[kind]
      BY <2>1, <1>5
    <3> HIDE DEF kind
    <3>2. d \in computed' => <<range, kind>> \in f.computed
      BY <2>0, <2>1, <1>5
    <3> QED
      BY <3>1, <3>2, <2>0, <1>4
  <2>2. CASE d[1] # range
    <3>1. data'[d] = data[d] /\ sent'[d] = sent[d]
      BY <2>2, <1>5
    <3>2. d \in computed' => d \in computed
      BY <2>0, <2>2, <1>4, <1>5
    <3> QED
      BY <3>1, <3>2, <1>1
  <2> QED
    BY <2>1, <2>2
<1>10. HistoryFits'
  BY <1>9 DEF HistoryFits
<1>11. UNCHANGED flash
  OBVIOUS
<1> QED
  BY ONLY Inv, <1>7, <1>8, <1>10, <1>11, FlashStays

\* Every step keeps it.
LEMMA StepInv == Inv /\ [Next]_vars => Inv'
<1> SUFFICES ASSUME Inv, [Next]_vars PROVE Inv'
  OBVIOUS
<1>0. /\ Edited \subseteq Curves /\ Statuses \subseteq Nat /\ Coefficients \subseteq Numbers
      /\ Stored \subseteq Ranges
  BY JustDataAssumption DEF JustDataAssumption
<1>1. ASSUME NEW c \in Edited, NEW i \in Indices, NEW corr \in Corrections, NEW arg \in Arguments,
             WriteNode(c, i, JustNode(corr, arg))
      PROVE  Inv'
  BY <1>0, <1>1, SentNodesAre, WriteNodeInv
<1>2. ASSUME NEW c \in Edited, NEW i \in Indices, NEW value \in Coefficients,
             WriteCoefficient(c, i, value)
      PROVE  Inv'
  BY <1>0, <1>2, WriteCoefficientInv
<1>3. ASSUME NEW c \in Edited, NEW par \in Statuses, WriteStatus(c, par)
      PROVE  Inv'
  BY <1>0, <1>3, WriteStatusInv
<1>4. CASE ComputeAll
  <2>1. data' = [c \in Curves |-> IF c \in Curves THEN CmpCoefficients(data[c]) ELSE data[c]]
    BY <1>4 DEF ComputeAll
  <2>2. computed' = computed \cup Curves /\ UNCHANGED <<flash, edits, sent>>
    BY <1>4 DEF ComputeAll, Inv, TypeOK
  <2>3. Curves \in SUBSET Curves
    OBVIOUS
  <2> QED
    BY <2>1, <2>2, <2>3, ComputeInv
<1>5. CASE InitAll
  <2>1. InitCurves(Curves) /\ Curves \in SUBSET Curves
    BY <1>5 DEF InitAll
  <2> QED
    BY <2>1, InitCurvesInv
<1>6. ASSUME NEW range \in Ranges, ComputeJustData(range)
      PROVE  Inv'
  <2>1. CurvesOf(range) \in SUBSET Curves
    BY DEF CurvesOf, Curves
  <2> QED
    BY <1>6, <2>1, ComputeInv DEF ComputeJustData
<1>7. ASSUME NEW range \in Ranges, InitRange(range)
      PROVE  Inv'
  <2>1. CurvesOf(range) \in SUBSET Curves
    BY DEF CurvesOf, Curves
  <2> QED
    BY <1>7, <2>1, InitCurvesInv DEF InitRange
<1>8. ASSUME NEW range \in Stored, Serialize(range)
      PROVE  Inv'
  BY <1>8, SerializeInv
<1>9. ASSUME NEW range \in Stored, Deserialize(range)
      PROVE  Inv'
  BY <1>9, DeserializeInv
<1>10. CASE UNCHANGED vars
  BY <1>10 DEF vars, Inv, TypeOK, HistoryFits, StoredFits
<1> QED
  BY <1>1, <1>2, <1>3, <1>4, <1>5, <1>6, <1>7, <1>8, <1>9, <1>10 DEF Next, WriteCurve

\* Every variable has its type.
THEOREM TypeCorrect == Spec => []TypeOK
<1>1. Inv => TypeOK
  BY DEF Inv
<1> QED
  BY <1>1, InitInv, StepInv, PTL DEF Spec

-----------------------------------------------------------------------------
(***************************************************************************)
(* What the coefficients are                                               *)
(***************************************************************************)

\* No argument twice among those sent.
SentApart(nodes) == \A i, j \in DOMAIN nodes : i # j => nodes[i].arg # nodes[j].arg

\* The coefficients computed from nodes that were set one after the other.
LEMMA ComputedFits ==
  ASSUME NEW curve \in CurveType, NEW nodes \in NodeLists, SentIsSet(curve, nodes),
         CoefComputed(curve), SentApart(nodes)
  PROVE  /\ curve.coef \in [Indices -> Numbers]
         /\ \A i \in 1..Len(nodes) : Polynomial[curve.coef][nodes[i].arg] = nodes[i].corr
         /\ \A i \in Len(nodes)..Order : curve.coef[i] = 0
<1> DEFINE n == Len(nodes)
           r == n - 1
<1>1. nodes \in Seq(JustNodes) /\ n \in Nat /\ 1 <= n /\ n <= Order + 1 /\ Order \in Nat
  BY PrimeIs DEF NodeLists
<1>2. DOMAIN nodes = 1..n
  BY <1>1
<1>3. \A i, j \in 1..n : i # j => nodes[i].arg # nodes[j].arg
  BY <1>2 DEF SentApart
<1>4. /\ \A i \in 1..n : curve.node[i - 1] = nodes[i]
      /\ n <= Order => curve.node[n] = nodes[n]
  BY DEF SentIsSet
<1> HIDE DEF n
<1>5. r \in Indices /\ r + 1 = n
  BY <1>1 DEF Indices
<1>6. \A i \in 0..(r - 1) : curve.node[i].arg # curve.node[i + 1].arg
  <2> SUFFICES ASSUME NEW i \in 0..(r - 1)
               PROVE  curve.node[i].arg # curve.node[i + 1].arg
    OBVIOUS
  <2> DEFINE j == i + 1
             k == i + 2
  <2>1. j \in 1..n /\ k \in 1..n /\ j # k /\ j - 1 = i /\ k - 1 = i + 1
    BY <1>1, <1>5
  <2> HIDE DEF j, k
  <2>2. curve.node[i] = nodes[j] /\ curve.node[i + 1] = nodes[k]
    BY <2>1, <1>4
  <2> QED
    BY <2>1, <2>2, <1>3
<1>7. r < Order => curve.node[r].arg = curve.node[r + 1].arg
  <2>1. n \in 1..n
    BY <1>1
  <2>2. curve.node[r] = nodes[n]
    BY <2>1, <1>4
  <2> QED
    BY <2>2, <1>1, <1>4, <1>5
<1>8. RealOrd(curve) = r
  BY ONLY <1>5, <1>6, <1>7, OneRealOrd
<1> DEFINE u == Used(curve)
<1>9. u \in [0..r -> JustNodes] /\ curve.coef = Interpolation[u]
  <2>1. curve.node \in [Indices -> JustNodes]
    BY DEF CurveType
  <2> QED
    BY <2>1, <1>8, UsedIs DEF CoefComputed
<1>10. \A i \in 0..r : i + 1 \in 1..n /\ u[i] = nodes[i + 1]
  <2> SUFFICES ASSUME NEW i \in 0..r PROVE i + 1 \in 1..n /\ u[i] = nodes[i + 1]
    OBVIOUS
  <2>1. i + 1 \in 1..n /\ (i + 1) - 1 = i
    BY <1>1
  <2>2. u[i] = curve.node[i]
    BY <1>8 DEF Used
  <2> QED
    BY <2>1, <2>2, <1>4
<1> HIDE DEF u, r
<1>11. Apart(u, r)
  <2> SUFFICES ASSUME NEW i \in 0..r, NEW j \in 0..r, i # j PROVE u[i].arg # u[j].arg
    BY DEF Apart
  <2>1. i + 1 # j + 1
    OBVIOUS
  <2> QED
    BY <2>1, <1>3, <1>10
<1>12. Interpolates(u, r, curve.coef)
  BY <1>5, <1>9, <1>11, InterpolationIs
<1>13. ASSUME NEW i \in 1..n PROVE Polynomial[curve.coef][nodes[i].arg] = nodes[i].corr
  <2>1. i - 1 \in 0..r /\ (i - 1) + 1 = i
    BY <1>1 DEF r
  <2>2. u[i - 1] = nodes[i]
    BY <2>1, <1>10
  <2> QED
    BY <2>1, <2>2, <1>12 DEF Interpolates
<1>14. ASSUME NEW i \in n..Order PROVE curve.coef[i] = 0
  <2>1. i \in Indices \ (0..r)
    BY <1>1 DEF r, Indices
  <2> QED
    BY <2>1, <1>12 DEF Interpolates
<1> QED
  BY <1>12, <1>13, <1>14 DEF Interpolates, n

\* The correction of coefficients that could be computed.
LEMMA CorrectionIs ==
  ASSUME NEW curve, curve.coef \in [Indices -> Numbers], NEW arg
  PROVE  Correction(curve, arg) = Polynomial[curve.coef][arg]
<1>1. \A i \in Indices : curve.coef[i] # NaN
  BY JustDataAssumption DEF JustDataAssumption
<1> QED
  BY <1>1 DEF Correction

\* Nodes sent in order, whatever came before, and with no argument twice, are those of
\* the curve after the next COMPUTE, and the curve has no higher order than they need.
THEOREM SentNodesFitAlways == Spec => []SentNodesFit
<1>1. Inv => SentNodesFit
  <2> SUFFICES ASSUME Inv, NEW c \in computed, SentApart(sent[c])
               PROVE  /\ \A i \in DOMAIN sent[c] :
                           Correction(data[c], sent[c][i].arg) = sent[c][i].corr
                      /\ \A i \in Len(sent[c])..Order : data[c].coef[i] = 0
    BY DEF SentNodesFit, SentApart
  <2>1. /\ c \in Curves /\ data[c] \in CurveType /\ sent[c] \in NodeLists
        /\ SentIsSet(data[c], sent[c]) /\ CoefComputed(data[c])
    BY SentType
  <2>2. /\ data[c].coef \in [Indices -> Numbers]
        /\ \A i \in 1..Len(sent[c]) :
             Polynomial[data[c].coef][sent[c][i].arg] = sent[c][i].corr
        /\ \A i \in Len(sent[c])..Order : data[c].coef[i] = 0
    BY <2>1, ComputedFits
  <2>3. DOMAIN sent[c] = 1..Len(sent[c])
    BY <2>1 DEF NodeLists
  <2> QED
    BY <2>2, <2>3, CorrectionIs
<1> QED
  BY <1>1, InitInv, StepInv, PTL DEF Spec

\* A member of the field is its remainder.
LEMMA OwnRemainder ==
  ASSUME NEW x \in Numbers
  PROVE  x \in Int /\ x % Prime = x
<1>1. x \in Int
  BY PrimeIs DEF Numbers
<1>2. Same(x, x)
  BY <1>1, SameItself
<1> QED
  BY <1>1, <1>2, SameRemainder

\* There is a quotient.
LEMMA QuotientIs ==
  ASSUME NEW x \in Numbers, NEW y \in Numbers, y # 0
  PROVE  DividedBy(x, y) \in Numbers
<1>0. x \in Int /\ y \in Int
  BY OwnRemainder
<1>1. PICK b \in Int : Same(y * b, 1)
  BY Inverse
<1> DEFINE w == x * b
           z == w % Prime
           u == y * b
<1>2. w \in Int /\ u \in Int /\ 1 \in Int
  BY <1>0
<1>3. Same(u, 1)
  BY <1>1
<1> HIDE DEF w
<1>4. z \in Numbers /\ Same(z, w)
  BY ONLY <1>2, Reduced
<1> HIDE DEF z
<1>5. z \in Int /\ z * y \in Int /\ w * y \in Int
  BY <1>0, <1>2, <1>4, OwnRemainder
<1>6. Same(z * y, w * y)
  BY ONLY <1>0, <1>2, <1>4, <1>5, SameProduct
<1>7. w * y = x * u
  BY <1>0 DEF w
<1> HIDE DEF u
<1>8. Same(x * u, x * 1)
  BY ONLY <1>0, <1>2, <1>3, SameProduct, Zenon
<1>9. x * 1 = x
  BY <1>0
<1> DEFINE zy == z * y
           wy == w * y
<1>10. Same(zy, wy) /\ Same(wy, x) /\ zy \in Int /\ wy \in Int
  BY <1>5, <1>6, <1>7, <1>8, <1>9
<1> HIDE DEF zy, wy
<1>11. Same(zy, x)
  BY ONLY <1>0, <1>10, SameOn
<1>12. zy % Prime = x
  BY ONLY <1>10, <1>11, x \in Numbers, SameRemainder
<1>13. \E k \in Numbers : (k * y) % Prime = x
  BY <1>4, <1>12 DEF zy
<1> QED
  BY <1>13 DEF DividedBy

\* A correction is a number, or could not be computed.
LEMMA CorrectionType ==
  ASSUME NEW curve \in CurveType, NEW arg \in Numbers
  PROVE  Correction(curve, arg) \in Numbers \cup {NaN}
<1>1. curve.coef \in [Indices -> Numbers \cup {NaN}]
  BY DEF CurveType
<1>2. CASE \E i \in Indices : curve.coef[i] = NaN
  BY <1>2 DEF Correction
<1>3. CASE \A i \in Indices : curve.coef[i] # NaN
  <2>1. curve.coef \in [Indices -> Numbers]
    BY <1>1, <1>3
  <2> QED
    BY <2>1, CorrectionIs, PolynomialIs
<1> QED
  BY <1>2, <1>3

\* What is neutral changes no number.
LEMMA NeutralStays ==
  ASSUME NEW x \in Numbers \cup {NaN}
  PROVE  Times(1, x) = x /\ Plus(0, x) = x
<1>0. 0 # NaN /\ 1 # NaN
  BY PrimeIs, JustDataAssumption DEF JustDataAssumption, Numbers
<1>1. CASE x = NaN
  BY <1>1 DEF Times, Plus
<1>2. CASE x # NaN
  <2>1. x \in Numbers /\ x \in Int /\ x % Prime = x
    BY <1>2, OwnRemainder
  <2>2. 1 * x = x /\ 0 + x = x
    BY <2>1
  <2>3. NaN \notin {1, x} /\ NaN \notin {0, x}
    BY <1>0, <1>2
  <2> QED
    BY <2>1, <2>2, <2>3 DEF Times, Plus
<1> QED
  BY <1>1, <1>2

\* A clamp range that is not adjusted, or initialized again, corrects as the voltage
\* range alone does, whatever is done with that one.
THEOREM UnadjustedClampIsBoardAlways == Spec => []UnadjustedClampIsBoard
<1>1. Inv => UnadjustedClampIsBoard
  <2> SUFFICES ASSUME Inv, NEW kind \in Kinds, NEW par \in Numbers,
                      <<Clamp, kind>> \in computed,
                      sent[<<Clamp, kind>>] = <<JustNode(Neutral(kind), 0)>>
               PROVE  FullCorrection(Clamp, kind, par) = FirstStage(kind, par)
    BY DEF UnadjustedClampIsBoard
  <2> DEFINE c == <<Clamp, kind>>
             curve == data[c]
             nodes == sent[c]
             coef == curve.coef
             init == Neutral(kind)
             jn == JustNode(init, 0)
  <2>1. /\ curve \in CurveType /\ nodes \in NodeLists
        /\ SentIsSet(curve, nodes) /\ CoefComputed(curve)
    BY SentType
  <2>2. init \in Numbers /\ jn.arg = 0 /\ jn.corr = init
    BY NeutralIs DEF JustNode
  <2>3. nodes = <<jn>>
    OBVIOUS
  <2> HIDE DEF jn
  <2>4. Len(nodes) = 1 /\ nodes[1] = jn /\ DOMAIN nodes = {1}
    BY <2>3
  <2> HIDE DEF c, curve, nodes, init
  <2>5. SentApart(nodes)
    BY <2>4 DEF SentApart
  <2>6. /\ coef \in [Indices -> Numbers]
        /\ \A i \in 1..Len(nodes) : Polynomial[coef][nodes[i].arg] = nodes[i].corr
        /\ \A i \in Len(nodes)..Order : coef[i] = 0
    BY ONLY <2>1, <2>5, ComputedFits
  <2> HIDE DEF coef
  <2>7. 1 \in 1..Len(nodes) /\ \A i \in 1..Order : coef[i] = 0
    BY <2>4, <2>6
  <2>8. ASSUME NEW x \in Numbers PROVE Polynomial[coef][x] = coef[0]
    <3>1. coef \in Coefs /\ x \in Int /\ Polynomial[coef][x] = Value(coef, x) % Prime
      BY <2>6, PolynomialIs
    <3>2. Value(coef, x) = coef[0]
      BY <3>1, <2>7, ValueOfConstant
    <3>3. coef[0] \in Numbers
      BY <2>6, IndicesAre
    <3> QED
      BY <3>1, <3>2, <3>3, OwnRemainder
  <2>9. coef[0] = init
    <3>1. Polynomial[coef][jn.arg] = jn.corr
      BY <2>4, <2>6, <2>7
    <3>2. jn.arg \in Numbers
      BY <2>2, PrimeIs DEF Numbers
    <3> QED
      BY <3>1, <3>2, <2>2, <2>8
  <2>10. JustCorrection(Clamp, kind, par) = init
    <3>1. Correction(curve, par) = Polynomial[coef][par]
      BY <2>6, CorrectionIs DEF coef
    <3> QED
      BY <3>1, <2>8, <2>9 DEF JustCorrection, curve, c
  <2>11. FirstStage(kind, par) \in Numbers \cup {NaN}
    <3> DEFINE arg == IF kind = "phase" THEN par ELSE DividedBy(par, CvRatio)
    <3>1. arg \in Numbers
      BY JustDataAssumption, QuotientIs DEF JustDataAssumption
    <3>2. Board \in Ranges
      BY DEF Ranges
    <3>3. data[<<Board, kind>>] \in CurveType
      BY <3>2, IsCurve, SentType
    <3>4. FirstStage(kind, par) = Correction(data[<<Board, kind>>], arg)
      BY DEF FirstStage, JustCorrection
    <3> HIDE DEF arg
    <3> QED
      BY <3>1, <3>3, <3>4, CorrectionType
  <2>12. Clamp # Board
    BY JustDataAssumption DEF JustDataAssumption
  <2> DEFINE first == FirstStage(kind, par)
  <2> HIDE DEF first
  <2>13. FullCorrection(Clamp, kind, par)
           = IF kind = "gain" THEN Times(init, first) ELSE Plus(init, first)
    BY <2>10, <2>12 DEF FullCorrection, first
  <2>14. init = IF kind = "gain" THEN 1 ELSE 0
    BY DEF init, Neutral
  <2>15. Times(1, first) = first /\ Plus(0, first) = first
    BY <2>11, NeutralStays DEF first
  <2>16. FullCorrection(Clamp, kind, par) = first
    BY <2>13, <2>14, <2>15
  <2> QED
    BY <2>16 DEF first
<1> QED
  BY <1>1, InitInv, StepInv, PTL DEF Spec
=============================================================================
